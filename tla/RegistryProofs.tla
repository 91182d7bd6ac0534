--------------------------- MODULE RegistryProofs ---------------------------
(***************************************************************************)
(* For any libraries, bundles and caches, whenever processes end and       *)
(* whichever allocation fails: the registry is well typed, the modules of  *)
(* the library are initialised exactly between the first xCOM_Init and the *)
(* last xCOM_Destroy, and a component that is loaded has the ports its     *)
(* library declares.                                                       *)
(***************************************************************************)
EXTENDS Registry, SequenceTheorems, TLAPS

(***************************************************************************)
(* The types.  TypeInv is stronger than RegistryTypeOK: it also says what  *)
(* a call that is under way is about, and that no port of a component that *)
(* is being read has been freed.  There is one lemma for each action.      *)
(***************************************************************************)
\* Where the thread is inside xCOM_LoadComponentBundle.
Loading == {"scan", "cache", "parse", "introspect", "declare", "write"}

\* The ports there are, and the entries that refer to them.
Refs(comps) ==
  {p \in Nat \X Nat : p[1] \in DOMAIN comps /\ p[2] \in DOMAIN comps[p[1]].ports}

Entry(comps) == [key : Refs(comps), ports : Seq(Refs(comps)), live : BOOLEAN]

Call == [at : Places, todo : SUBSET Libraries, ignore : BOOLEAN,
         lib : Libraries \cup {NoLibrary}, id : Nat, k : Nat, then : Places]

\* What is installed outlives the process.
InstalledOK ==
  /\ version \in [Libraries -> Nat]
  /\ \A l \in Libraries : version[l] \in DOMAIN Declared[l]
  /\ mapped \in [Libraries -> Nat]
  /\ \A l \in Libraries : mapped[l] \in 0 .. version[l]
  /\ cache \in [Libraries -> Cache \cup {NoCache}]
  /\ crashes \in Nat /\ shortages \in Nat /\ crashes + shortages \in 0 .. MaxTroubles

ComponentOK(c, v) ==
  /\ c \in Component
  /\ c.wired \in 0 .. v[c.lib]
  /\ c.freed \in 0 .. Len(c.ports)
  /\ c.orphans \subseteq DOMAIN c.ports /\ c.unlinked \subseteq DOMAIN c.ports

ComponentsOK ==
  /\ components \in Seq(Component)
  /\ \A id \in DOMAIN components : ComponentOK(components[id], version)

BundlesOK == bundles \in Seq(Seq(1 .. Len(components)))

HashOK == hash \in [Interfaces -> Seq(Entry(components))]

\* A component is read from a whole cache entry, or from a version of its
\* library, and none of its ports is freed meanwhile.
ActOK ==
  /\ act \in Call
  /\ act.at \in {"cache", "parse", "introspect", "declare", "write"} => act.lib \in Libraries
  /\ act.at = "free" /\ act.then = "introspect" => act.lib \in Libraries
  /\ act.at \in {"parse", "declare", "write", "free", "destroy"} => act.id \in DOMAIN components
  /\ act.at \in {"parse", "declare"} => components[act.id].freed = 0
  /\ act.at = "parse" => cache[act.lib] \in Cache
  /\ act.at = "declare" =>
       LET c == components[act.id]
       IN  c.from \in DOMAIN Declared[c.lib] /\ c.slots = Len(Declared[c.lib][c.from])
  /\ act.at \in Loading => bundles # <<>>
  /\ act.at = "free" /\ act.then = "introspect" => bundles # <<>>
  /\ act.at = "free" => act.then \in {"introspect", "close"}
  /\ act.at = "destroy" => act.then = "close"

PlainOK ==
  /\ initialized \in 0 .. 2 /\ modules \subseteq AllModules
  /\ stale \in BOOLEAN

TypeInv ==
  InstalledOK /\ ComponentsOK /\ BundlesOK /\ HashOK /\ ActOK /\ PlainOK

-----------------------------------------------------------------------------
(* Lists of components that grow *)

LEMMA Growth ==
  ASSUME NEW a \in Seq(Component), NEW b \in Seq(Component), Len(a) <= Len(b),
         \A id \in DOMAIN a : Len(a[id].ports) <= Len(b[id].ports)
  PROVE  /\ Refs(a) \subseteq Refs(b)
         /\ Seq(Entry(a)) \subseteq Seq(Entry(b))
         /\ Seq(Seq(1 .. Len(a))) \subseteq Seq(Seq(1 .. Len(b)))
<1>1. DOMAIN a \subseteq DOMAIN b
  OBVIOUS
<1>2. \A id \in DOMAIN a : a[id].ports \in Seq(Port) /\ b[id].ports \in Seq(Port)
  <2> SUFFICES ASSUME NEW id \in DOMAIN a
               PROVE  a[id].ports \in Seq(Port) /\ b[id].ports \in Seq(Port)
    OBVIOUS
  <2>1. a[id] \in Component /\ b[id] \in Component
    BY <1>1
  <2> QED
    BY <2>1 DEF Component
<1>3. \A id \in DOMAIN a : DOMAIN a[id].ports \subseteq DOMAIN b[id].ports
  BY <1>2
<1>4. Refs(a) \subseteq Refs(b)
  BY <1>1, <1>3 DEF Refs
<1>5. Seq(Refs(a)) \subseteq Seq(Refs(b))
  BY <1>4, SeqMonotonic
<1>6. Entry(a) \subseteq Entry(b)
  BY <1>4, <1>5 DEF Entry
<1>7. Seq(Entry(a)) \subseteq Seq(Entry(b))
  BY <1>6, SeqMonotonic
<1>8. 1 .. Len(a) \subseteq 1 .. Len(b)
  OBVIOUS
<1>9. Seq(1 .. Len(a)) \subseteq Seq(1 .. Len(b))
  BY <1>8, SeqMonotonic
<1>10. Seq(Seq(1 .. Len(a))) \subseteq Seq(Seq(1 .. Len(b)))
  BY <1>9, SeqMonotonic
<1> QED
  BY <1>4, <1>7, <1>10

\* A component is created.
LEMMA ComponentAdded ==
  ASSUME ComponentsOK, BundlesOK, HashOK, UNCHANGED <<version, bundles, hash>>,
         NEW c, ComponentOK(c, version), components' = Append(components, c)
  PROVE  /\ ComponentsOK' /\ BundlesOK' /\ HashOK'
         /\ DOMAIN components' = 1 .. Len(components) + 1
         /\ \A id \in DOMAIN components : components'[id] = components[id]
         /\ components'[Len(components) + 1] = c
<1>1. /\ c \in Component /\ components' \in Seq(Component)
      /\ Len(components') = Len(components) + 1 /\ Len(components) \in Nat
      /\ DOMAIN components' = 1 .. Len(components) + 1
      /\ DOMAIN components = 1 .. Len(components)
      /\ \A id \in DOMAIN components : components'[id] = components[id]
      /\ components'[Len(components) + 1] = c
  BY AppendProperties DEF ComponentsOK, ComponentOK
<1>2. \A id \in DOMAIN components : Len(components[id].ports) \in Nat
  BY DEF ComponentsOK, ComponentOK, Component
<1>3. /\ Seq(Entry(components)) \subseteq Seq(Entry(components'))
      /\ Seq(Seq(1 .. Len(components))) \subseteq Seq(Seq(1 .. Len(components')))
  <2>1. \A id \in DOMAIN components : Len(components[id].ports) <= Len(components'[id].ports)
    BY <1>1, <1>2
  <2>2. components \in Seq(Component)
    BY DEF ComponentsOK
  <2>3. Len(components) <= Len(components')
    BY <1>1
  <2> QED
    BY <1>1, <2>1, <2>2, <2>3, Growth
<1>4. BundlesOK' /\ HashOK'
  BY <1>3 DEF BundlesOK, HashOK
<1>5. ComponentsOK'
  <2> SUFFICES ASSUME NEW id \in DOMAIN components' PROVE ComponentOK(components'[id], version)
    BY <1>1 DEF ComponentsOK
  <2>1. CASE id \in DOMAIN components
    BY <1>1, <2>1 DEF ComponentsOK, ComponentOK
  <2>2. CASE id = Len(components) + 1
    BY <1>1, <2>2 DEF ComponentOK
  <2> QED
    BY <1>1, <2>1, <2>2
<1> QED
  BY <1>1, <1>4, <1>5

\* A component is changed, and loses no port.
LEMMA ComponentChanged ==
  ASSUME ComponentsOK, BundlesOK, HashOK, UNCHANGED version,
         NEW id \in DOMAIN components, NEW d, ComponentOK(d, version),
         Len(components[id].ports) <= Len(d.ports),
         components' = [components EXCEPT ![id] = d]
  PROVE  /\ ComponentsOK'
         /\ bundles' = bundles => BundlesOK'
         /\ hash' = hash => HashOK'
         /\ Refs(components) \subseteq Refs(components')
         /\ Seq(Entry(components)) \subseteq Seq(Entry(components'))
         /\ DOMAIN components' = DOMAIN components
         /\ \A x \in DOMAIN components : x # id => components'[x] = components[x]
         /\ components'[id] = d
<1>1. /\ components' \in Seq(Component)
      /\ Len(components') = Len(components) /\ Len(components) \in Nat
      /\ DOMAIN components' = DOMAIN components
      /\ \A x \in DOMAIN components : x # id => components'[x] = components[x]
      /\ components'[id] = d
  BY ExceptSeq DEF ComponentsOK, ComponentOK
<1>2. \A x \in DOMAIN components : Len(components[x].ports) \in Nat
  BY DEF ComponentsOK, ComponentOK, Component
<1>3. /\ Seq(Entry(components)) \subseteq Seq(Entry(components'))
      /\ Refs(components) \subseteq Refs(components')
      /\ Seq(Seq(1 .. Len(components))) \subseteq Seq(Seq(1 .. Len(components')))
  <2>1. \A x \in DOMAIN components : Len(components[x].ports) <= Len(components'[x].ports)
    BY <1>1, <1>2
  <2>2. components \in Seq(Component)
    BY DEF ComponentsOK
  <2>3. Len(components) <= Len(components')
    BY <1>1
  <2> QED
    BY <1>1, <2>1, <2>2, <2>3, Growth
<1>4. (bundles' = bundles => BundlesOK') /\ (hash' = hash => HashOK')
  BY <1>3 DEF BundlesOK, HashOK
<1>5. ComponentsOK'
  <2> SUFFICES ASSUME NEW x \in DOMAIN components' PROVE ComponentOK(components'[x], version)
    BY <1>1 DEF ComponentsOK
  <2> QED
    BY <1>1 DEF ComponentsOK, ComponentOK
<1> QED
  BY <1>1, <1>3, <1>4, <1>5

-----------------------------------------------------------------------------
(* What steps do to one component *)

LEMMA ComponentFields ==
  ASSUME NEW c \in Component
  PROVE  /\ c.lib \in Libraries /\ c.from \in Nat /\ c.slots \in Nat
         /\ c.ports \in Seq(Port) /\ c.wired \in Nat /\ c.freed \in Nat
         /\ c.orphans \subseteq Nat /\ c.unlinked \subseteq Nat /\ c.gone \in BOOLEAN
BY DEF Component

LEMMA NewComponentOK ==
  ASSUME InstalledOK, NEW l \in Libraries, NEW from \in Nat, NEW slots \in Nat
  PROVE  ComponentOK([NewComponent(l) EXCEPT !.slots = slots, !.from = from], version)
<1> DEFINE c == [NewComponent(l) EXCEPT !.slots = slots, !.from = from]
<1> DEFINE n == NewComponent(l)
<1>1. n \in Component
  <2>1. <<>> \in Seq(Port)
    BY EmptySeq
  <2> QED
    BY <2>1 DEF Component, NewComponent
<1>2. version[l] \in Nat
  BY DEF InstalledOK
<1>3. <<>> \in Seq(Port) /\ Len(<<>>) = 0
  BY EmptySeq
<1>4. c \in Component
  BY <1>1 DEF Component
<1>5. /\ c.lib = l /\ c.wired = 0 /\ c.freed = 0 /\ c.ports = <<>>
      /\ c.orphans = {} /\ c.unlinked = {}
  BY DEF NewComponent
<1> QED
  BY <1>2, <1>3, <1>4, <1>5 DEF ComponentOK

\* c with one more port.
WithPort(c, port, orphans, unlinked) ==
  [c EXCEPT !.ports = Append(c.ports, port), !.orphans = orphans, !.unlinked = unlinked]

LEMMA PortAdded ==
  ASSUME NEW c, NEW v, ComponentOK(c, v), NEW port \in Port,
         NEW orphans, NEW unlinked,
         orphans \in {c.orphans, c.orphans \cup {Len(c.ports) + 1}},
         unlinked \in {c.unlinked, c.unlinked \cup {Len(c.ports) + 1}},
         NEW d,
         d = WithPort(c, port, orphans, unlinked)
  PROVE  /\ ComponentOK(d, v) /\ d.ports = Append(c.ports, port)
         /\ Len(d.ports) = Len(c.ports) + 1 /\ Len(c.ports) + 1 \in DOMAIN d.ports
         /\ d.freed = c.freed /\ d.lib = c.lib /\ d.from = c.from /\ d.slots = c.slots
<1>1. c \in Component
  BY DEF ComponentOK
<1>2. /\ c.ports \in Seq(Port) /\ Len(c.ports) \in Nat
      /\ DOMAIN c.ports = 1 .. Len(c.ports) /\ c.freed \in 0 .. Len(c.ports)
      /\ c.orphans \subseteq DOMAIN c.ports /\ c.unlinked \subseteq DOMAIN c.ports
      /\ c.orphans \subseteq Nat /\ c.unlinked \subseteq Nat
  BY <1>1, ComponentFields DEF ComponentOK
<1>3. /\ Append(c.ports, port) \in Seq(Port)
      /\ Len(Append(c.ports, port)) = Len(c.ports) + 1
      /\ DOMAIN Append(c.ports, port) = 1 .. Len(c.ports) + 1
  BY <1>2, AppendProperties
<1>4. /\ d.ports = Append(c.ports, port) /\ d.orphans = orphans /\ d.unlinked = unlinked
      /\ d.freed = c.freed /\ d.wired = c.wired /\ d.lib = c.lib
      /\ d.from = c.from /\ d.slots = c.slots
  BY <1>1 DEF Component, WithPort
<1>5. orphans \subseteq DOMAIN d.ports /\ unlinked \subseteq DOMAIN d.ports
      /\ orphans \subseteq Nat /\ unlinked \subseteq Nat
  BY <1>2, <1>3, <1>4
<1>6. d \in Component
  BY <1>1, <1>3, <1>5 DEF Component, WithPort
<1> QED
  BY <1>2, <1>3, <1>4, <1>5, <1>6 DEF ComponentOK

\* Fields that are not about the list of ports.
WithFields(c, from, wired, freed, gone) ==
  [c EXCEPT !.from = from, !.wired = wired, !.freed = freed, !.gone = gone]

LEMMA FieldsChanged ==
  ASSUME NEW c, NEW v, ComponentOK(c, v), NEW from \in Nat,
         NEW wired \in 0 .. v[c.lib], NEW freed \in 0 .. Len(c.ports), NEW gone \in BOOLEAN,
         NEW d, d = WithFields(c, from, wired, freed, gone)
  PROVE  ComponentOK(d, v) /\ d.ports = c.ports
<1>1. c \in Component /\ Len(c.ports) \in Nat
  BY ComponentFields DEF ComponentOK
<1>2. /\ d.ports = c.ports /\ d.orphans = c.orphans /\ d.unlinked = c.unlinked
      /\ d.freed = freed /\ d.wired = wired /\ d.lib = c.lib
  BY <1>1 DEF Component, WithFields
<1>3. wired \in Nat /\ freed \in Nat
  BY <1>1
<1>4. d \in Component
  BY <1>1, <1>3 DEF Component, WithFields
<1> QED
  BY <1>2, <1>4 DEF ComponentOK

-----------------------------------------------------------------------------
(* Steps that leave components and the hash alone *)

LEMMA PartsType ==
  ASSUME TypeInv
  PROVE  InstalledOK /\ ComponentsOK /\ BundlesOK /\ HashOK /\ ActOK /\ PlainOK
BY DEF TypeInv

LEMMA SameParts ==
  ASSUME TypeInv
  PROVE  /\ UNCHANGED <<version, cache, mapped, crashes, shortages>> => InstalledOK'
         /\ UNCHANGED <<version, components>> => ComponentsOK'
         /\ UNCHANGED <<bundles, components>> => BundlesOK'
         /\ UNCHANGED <<hash, components>> => HashOK'
         /\ UNCHANGED <<act, cache, components, bundles>> => ActOK'
         /\ UNCHANGED <<initialized, modules, stale>> => PlainOK'
BY DEF TypeInv, InstalledOK, ComponentsOK, BundlesOK, HashOK, ActOK, PlainOK

LEMMA ActType == ASSUME ActOK PROVE act \in Call
BY DEF ActOK

\* An allocation fails.
LEMMA Shortage ==
  ASSUME TypeInv, UNCHANGED <<version, cache, mapped, crashes>>,
         crashes + shortages < MaxTroubles, shortages' = shortages + 1
  PROVE  InstalledOK'
BY RegistryAssumption DEF TypeInv, InstalledOK

LEMMA RestType == Rest \in Call
BY DEF Rest, Call, Places

LEMMA NextFileType == ASSUME TypeInv, NEW l \in Libraries, NextFile(l) PROVE TypeInv'
<1>1. InstalledOK' /\ ComponentsOK' /\ BundlesOK' /\ HashOK' /\ PlainOK'
  BY SameParts DEF NextFile, persistent, loading
<1>2. ActOK'
  <2>1. act \in Call /\ bundles # <<>>
    BY DEF NextFile, TypeInv, ActOK, Loading
  <2>2. act' \in Call
    BY <2>1 DEF NextFile, Call, Places
  <2>3. act'.at \in {"introspect", "cache"} /\ act'.lib = l
    BY <2>1 DEF NextFile, Call
  <2> QED
    BY <2>1, <2>2, <2>3 DEF NextFile, ActOK, Loading
<1> QED
  BY <1>1, <1>2 DEF TypeInv

LEMMA CacheUnreadType == ASSUME TypeInv, CacheUnread PROVE TypeInv'
<1>1. ComponentsOK' /\ BundlesOK' /\ HashOK' /\ PlainOK'
  BY SameParts DEF CacheUnread, persistent, loading
<1>2. InstalledOK'
  BY SameParts, Shortage DEF CacheUnread, persistent, loading
<1>3. ActOK'
  <2>1. act \in Call /\ bundles # <<>> /\ act.lib \in Libraries
    BY DEF CacheUnread, TypeInv, ActOK, Loading
  <2>2. act' \in Call
    BY <2>1 DEF CacheUnread, Call, Places
  <2>3. act'.at = "introspect" /\ act'.lib = act.lib
    BY <2>1 DEF CacheUnread, Call
  <2> QED
    BY <2>1, <2>2, <2>3 DEF CacheUnread, ActOK, Loading
<1> QED
  BY <1>1, <1>2, <1>3 DEF TypeInv

LEMMA ParseFailsType == ASSUME TypeInv, ParseFails PROVE TypeInv'
<1>1. InstalledOK' /\ ComponentsOK' /\ BundlesOK' /\ HashOK' /\ PlainOK'
  BY SameParts DEF ParseFails, persistent, loading
<1>2. ActOK'
  <2>1. act \in Call /\ bundles # <<>> /\ act.lib \in Libraries /\ act.id \in DOMAIN components
    BY DEF ParseFails, TypeInv, ActOK, Loading
  <2>2. act' \in Call
    BY <2>1 DEF ParseFails, Call, Places
  <2>3. act'.at = "free" /\ act'.then = "introspect" /\ act'.lib = act.lib /\ act'.id = act.id
    BY <2>1 DEF ParseFails, Call
  <2> QED
    BY <2>1, <2>2, <2>3 DEF ParseFails, ActOK, Loading
<1> QED
  BY <1>1, <1>2 DEF TypeInv

LEMMA IntrospectFailsType == ASSUME TypeInv, IntrospectFails PROVE TypeInv'
<1>1. InstalledOK' /\ ComponentsOK' /\ BundlesOK' /\ HashOK' /\ PlainOK'
  BY SameParts DEF IntrospectFails, persistent, loading
<1>2. ActOK'
  <2>1. act \in Call /\ bundles # <<>>
    BY DEF IntrospectFails, TypeInv, ActOK, Loading
  <2>2. act' \in Call
    BY <2>1 DEF IntrospectFails, Call, Places
  <2>3. act'.at = "scan"
    BY <2>1 DEF IntrospectFails, Call
  <2> QED
    BY <2>1, <2>2, <2>3 DEF IntrospectFails, ActOK, Loading
<1> QED
  BY <1>1, <1>2 DEF TypeInv

LEMMA xCOM_DestroyType == ASSUME TypeInv, xCOM_Destroy PROVE TypeInv'
<1>1. InstalledOK' /\ ComponentsOK' /\ BundlesOK' /\ HashOK'
  BY SameParts DEF xCOM_Destroy, persistent
<1>2. PlainOK'
  BY DEF xCOM_Destroy, TypeInv, PlainOK
<1>3. ActOK'
  <2>1. act' \in Call /\ act'.at \in {"close", "idle"}
    BY RestType DEF xCOM_Destroy, Call, Places, Rest
  <2> QED
    BY <2>1 DEF ActOK, Loading
<1> QED
  BY <1>1, <1>2, <1>3 DEF TypeInv

\* The state of the hash and of the components is looked at only.
LEMMA QueryType ==
  ASSUME TypeInv, NEW query \in Queries, query_get_candidates(query)
  PROVE  TypeInv'
<1>1. InstalledOK' /\ ComponentsOK' /\ BundlesOK' /\ HashOK' /\ ActOK'
  BY SameParts DEF query_get_candidates, persistent
<1>2. PlainOK'
  BY DEF query_get_candidates, Compared, TypeInv, PlainOK
<1> QED
  BY <1>1, <1>2 DEF TypeInv

LEMMA InitFailsType == ASSUME TypeInv, InitCleans \/ InitDies PROVE TypeInv'
<1>1. ComponentsOK' /\ BundlesOK' /\ HashOK' /\ ActOK'
  BY SameParts DEF InitCleans, InitDies
<1>2. InstalledOK'
  BY Shortage DEF InitCleans, InitDies
<1>3. PlainOK'
  BY DEF InitCleans, InitDies, Cleaned, AllModules, TypeInv, PlainOK, query_destroy, import_destroy
<1> QED
  BY <1>1, <1>2, <1>3 DEF TypeInv

LEMMA UpgradeType == ASSUME TypeInv, NEW l \in Libraries, Upgrade(l) PROVE TypeInv'
<1>1. BundlesOK' /\ HashOK' /\ ActOK' /\ PlainOK'
  BY SameParts DEF Upgrade, process
<1>2. /\ version' \in [Libraries -> Nat] /\ \A x \in Libraries : version[x] <= version'[x]
      /\ \A x \in Libraries : version'[x] \in DOMAIN Declared[x]
  <2>1. /\ version \in [Libraries -> Nat] /\ \A x \in Libraries : version[x] \in DOMAIN Declared[x]
        /\ version' = [version EXCEPT ![l] = version[l] + 1] /\ version[l] < Len(Declared[l])
    BY DEF Upgrade, TypeInv, InstalledOK
  <2>2. Declared[l] \in Seq(Seq(Port)) /\ version[l] \in Nat
    BY <2>1, RegistryAssumption
  <2>3. version[l] + 1 \in DOMAIN Declared[l]
    <3>1. Len(Declared[l]) \in Nat /\ DOMAIN Declared[l] = 1 .. Len(Declared[l])
      BY <2>2
    <3> QED
      BY <2>1, <2>2, <3>1
  <2> QED
    BY <2>1, <2>3
<1>3. InstalledOK'
  BY <1>2 DEF Upgrade, process, TypeInv, InstalledOK
<1>4. ComponentsOK'
  <2> SUFFICES ASSUME NEW id \in DOMAIN components
               PROVE  ComponentOK(components[id], version')
    BY DEF Upgrade, process, TypeInv, ComponentsOK
  <2>1. ComponentOK(components[id], version) /\ components[id].lib \in Libraries
    BY ComponentFields DEF TypeInv, ComponentsOK, ComponentOK
  <2>2. version \in [Libraries -> Nat]
    BY DEF TypeInv, InstalledOK
  <2> QED
    BY <1>2, <2>1, <2>2 DEF ComponentOK
<1> QED
  BY <1>1, <1>3, <1>4 DEF TypeInv

-----------------------------------------------------------------------------
(* Steps on the list of bundles *)

LEMMA LoadType ==
  ASSUME TypeInv, NEW b \in Bundles, NEW ignore \in BOOLEAN,
         xCOM_LoadComponentBundle(b, ignore)
  PROVE  TypeInv'
<1>1. InstalledOK' /\ ComponentsOK' /\ HashOK' /\ PlainOK'
  BY SameParts DEF xCOM_LoadComponentBundle, persistent, bundle_new
<1>2. BundlesOK' /\ bundles' # <<>>
  <2>1. <<>> \in Seq(1 .. Len(components)) /\ bundles \in Seq(Seq(1 .. Len(components)))
    BY EmptySeq DEF TypeInv, BundlesOK
  <2>2. bundles' = Append(bundles, <<>>) /\ components' = components
    BY DEF xCOM_LoadComponentBundle, bundle_new
  <2> QED
    BY <2>1, <2>2, AppendProperties DEF BundlesOK
<1>3. ActOK'
  <2>1. Files[b] \subseteq Libraries
    BY RegistryAssumption
  <2>2. act' \in Call /\ act'.at = "scan"
    BY <2>1 DEF xCOM_LoadComponentBundle, Rest, Call, Places, bundle_new
  <2> QED
    BY <1>2, <2>2 DEF ActOK, Loading
<1> QED
  BY <1>1, <1>2, <1>3 DEF TypeInv

LEMMA LoadEndsType == ASSUME TypeInv, LoadEnds PROVE TypeInv'
<1>1. InstalledOK' /\ ComponentsOK' /\ HashOK' /\ PlainOK'
  BY SameParts DEF LoadEnds, persistent, loading
<1>2. BundlesOK'
  <2>1. bundles \in Seq(Seq(1 .. Len(components))) /\ components' = components
    BY DEF LoadEnds, TypeInv, BundlesOK
  <2>2. Front(bundles) \in Seq(Seq(1 .. Len(components)))
    <3>1. Len(bundles) \in Nat /\ \A n \in 1 .. Len(bundles) - 1 : bundles[n] \in Seq(1 .. Len(components))
      BY <2>1
    <3> QED
      BY <3>1, SubSeqProperties DEF Front
  <2> QED
    BY <2>1, <2>2 DEF LoadEnds, BundlesOK
<1>3. ActOK'
  BY RestType DEF LoadEnds, Rest, ActOK, Loading
<1> QED
  BY <1>1, <1>2, <1>3 DEF TypeInv

LEMMA ListedType ==
  ASSUME TypeInv, Listed, act.at \in {"parse", "write"}, UNCHANGED components
  PROVE  BundlesOK' /\ ActOK'
<1>1. /\ bundles \in Seq(Seq(1 .. Len(components))) /\ bundles # <<>>
      /\ act \in Call /\ act.id \in DOMAIN components /\ components \in Seq(Component)
  BY DEF TypeInv, BundlesOK, ActOK, ComponentsOK, Loading
<1> DEFINE n == Len(bundles)
           list == Append(bundles[n], act.id)
<1>2. n \in 1 .. Len(bundles) /\ bundles[n] \in Seq(1 .. Len(components))
      /\ act.id \in 1 .. Len(components)
  <2>1. Len(bundles) \in Nat \ {0}
    BY <1>1, EmptySeq
  <2> QED
    BY <1>1, <2>1
<1>3. list \in Seq(1 .. Len(components))
  BY <1>2, AppendProperties
<1>4. bundles' = [bundles EXCEPT ![n] = list]
  BY DEF Listed
<1>5. bundles' \in Seq(Seq(1 .. Len(components))) /\ Len(bundles') = n
  BY <1>1, <1>2, <1>3, <1>4, ExceptSeq
<1>6. BundlesOK' /\ bundles' # <<>>
  BY <1>2, <1>5 DEF BundlesOK
<1>7. act' \in Call /\ act'.at = "scan"
  BY <1>1 DEF Listed, Call, Places
<1> QED
  BY <1>6, <1>7 DEF ActOK, Loading

LEMMA ParseEndsType == ASSUME TypeInv, ParseEnds PROVE TypeInv'
<1>1. InstalledOK' /\ ComponentsOK' /\ HashOK' /\ PlainOK'
  BY SameParts DEF ParseEnds, persistent, loading
<1>2. BundlesOK' /\ ActOK'
  BY ListedType DEF ParseEnds
<1> QED
  BY <1>1, <1>2 DEF TypeInv

LEMMA FileType ==
  ASSUME NEW c \in Component
  PROVE  Written(c) \in Cache /\ Torn(c) \subseteq Cache
<1>1. c.ports \in Seq(Port) /\ c.slots \in Nat /\ c.from \in Nat /\ Len(c.ports) \in Nat
  BY ComponentFields
<1>2. \A n \in 0 .. Len(c.ports) : SubSeq(c.ports, 1, n) \in Seq(Port)
  <2> SUFFICES ASSUME NEW n \in 0 .. Len(c.ports) PROVE SubSeq(c.ports, 1, n) \in Seq(Port)
    OBVIOUS
  <2>1. n \in Int /\ 1 \in Int /\ \A m \in 1 .. n : c.ports[m] \in Port
    BY <1>1
  <2> QED
    BY <2>1, SubSeqProperties
<1>3. Written(c) \in Cache
  BY <1>1 DEF Written, Cache
<1>4. ASSUME NEW file \in Torn(c) PROVE file \in Cache
  <2>1. PICK n \in 0 .. Len(c.ports) : file = [ports |-> SubSeq(c.ports, 1, n), slots |-> c.slots,
                                               from |-> c.from, whole |-> FALSE]
    BY <1>4 DEF Torn
  <2>2. SubSeq(c.ports, 1, n) \in Seq(Port)
    BY <1>2
  <2> QED
    BY <1>1, <2>1, <2>2 DEF Cache
<1> QED
  BY <1>3, <1>4

LEMMA cache_createType == ASSUME TypeInv, cache_create PROVE TypeInv'
<1>1. ComponentsOK' /\ HashOK' /\ PlainOK'
  BY SameParts DEF cache_create, loading
<1>2. BundlesOK' /\ ActOK'
  BY ListedType DEF cache_create
<1>3. InstalledOK'
  <2>1. act.lib \in Libraries /\ components[act.id] \in Component
        /\ cache \in [Libraries -> Cache \cup {NoCache}]
    BY DEF cache_create, TypeInv, ActOK, ComponentsOK, ComponentOK, InstalledOK
  <2>2. cache' \in [Libraries -> Cache \cup {NoCache}]
    BY <2>1, FileType DEF cache_create
  <2> QED
    BY <2>2 DEF cache_create, TypeInv, InstalledOK
<1> QED
  BY <1>1, <1>2, <1>3 DEF TypeInv

LEMMA CloseComponentType == ASSUME TypeInv, CloseComponent PROVE TypeInv'
<1>1. InstalledOK' /\ ComponentsOK' /\ HashOK' /\ PlainOK'
  BY SameParts DEF CloseComponent, persistent, loading
<1>2. /\ bundles \in Seq(Seq(1 .. Len(components))) /\ bundles # <<>>
      /\ Head(bundles) = bundles[1] /\ Head(bundles) # <<>>
      /\ act \in Call /\ components \in Seq(Component) /\ 1 \in 1 .. Len(bundles)
  <2>1. bundles \in Seq(Seq(1 .. Len(components))) /\ bundles # <<>> /\ Head(bundles) # <<>>
    BY DEF CloseComponent, TypeInv, BundlesOK
  <2>2. Len(bundles) \in Nat \ {0}
    BY <2>1, EmptySeq
  <2> QED
    BY <2>1, <2>2 DEF TypeInv, ActOK, ComponentsOK
<1>3. /\ bundles[1] \in Seq(1 .. Len(components))
      /\ Head(Head(bundles)) \in 1 .. Len(components) /\ Tail(bundles[1]) \in Seq(1 .. Len(components))
  <2>1. bundles[1] \in Seq(1 .. Len(components))
    BY <1>2, ElementOfSeq
  <2> QED
    BY <1>2, <2>1, HeadTailProperties
<1>4. BundlesOK'
  BY <1>2, <1>3, ExceptSeq DEF CloseComponent, BundlesOK
<1>5. ActOK'
  <2> DEFINE id == Head(Head(bundles))
  <2>0. id \in Nat
    BY <1>3
  <2>1. act' \in Call /\ act'.at \in {"destroy", "free"} /\ act'.then = "close" /\ act'.id = id
    <3>1. PICK at \in {"destroy", "free"} :
            act' = [act EXCEPT !.at = at, !.id = id, !.then = "close"]
      BY Zenon DEF CloseComponent
    <3> HIDE DEF id
    <3> QED
      BY <1>2, <2>0, <3>1 DEF Call, Places
  <2>2. act'.id \in DOMAIN components'
    BY <1>2, <1>3, <2>1 DEF CloseComponent
  <2> QED
    BY <2>1, <2>2 DEF ActOK, Loading
<1> QED
  BY <1>1, <1>4, <1>5 DEF TypeInv

LEMMA CloseBundleType == ASSUME TypeInv, CloseBundle PROVE TypeInv'
<1>1. InstalledOK' /\ ComponentsOK' /\ HashOK' /\ PlainOK'
  BY SameParts DEF CloseBundle, persistent, loading
<1>2. BundlesOK'
  BY HeadTailProperties DEF CloseBundle, TypeInv, BundlesOK
<1>3. ActOK'
  BY DEF CloseBundle, TypeInv, ActOK, Loading
<1> QED
  BY <1>1, <1>2, <1>3 DEF TypeInv

-----------------------------------------------------------------------------
(* Steps that create a component *)

LEMMA CreatedType ==
  ASSUME TypeInv, UNCHANGED <<version, bundles, hash>>,
         NEW c, ComponentOK(c, version), NEW at \in Places, Created(c, at)
  PROVE  /\ ComponentsOK' /\ BundlesOK' /\ HashOK'
         /\ act' \in Call /\ act'.at = at /\ act'.lib = act.lib
         /\ act'.id \in DOMAIN components' /\ components'[act'.id] = c
<1>1. /\ ComponentsOK' /\ BundlesOK' /\ HashOK'
      /\ DOMAIN components' = 1 .. Len(components) + 1
      /\ components'[Len(components) + 1] = c
  BY PartsType, ComponentAdded DEF Created
<1>2. act \in Call /\ Len(components) \in Nat
  BY DEF TypeInv, ActOK, ComponentsOK
<1>3. act' \in Call /\ act'.at = at /\ act'.lib = act.lib /\ act'.id = Len(components) + 1
  <2> DEFINE id == Len(components) + 1
  <2>1. act' = [act EXCEPT !.at = at, !.id = id, !.k = 0] /\ id \in Nat
    BY <1>2 DEF Created
  <2> HIDE DEF id
  <2>2. act' \in Call /\ act'.at = at /\ act'.lib = act.lib /\ act'.id = id
    BY <1>2, <2>1 DEF Call
  <2> QED
    BY <2>2 DEF id
<1> QED
  BY <1>1, <1>2, <1>3

LEMMA CacheReadType == ASSUME TypeInv, CacheRead PROVE TypeInv'
<1> DEFINE file == cache[act.lib]
           c == [NewComponent(act.lib) EXCEPT !.slots = file.slots, !.from = file.from]
<1>1. /\ InstalledOK' /\ PlainOK'
      /\ act.lib \in Libraries /\ file \in Cache /\ bundles # <<>>
  BY SameParts DEF CacheRead, persistent, loading, TypeInv, ActOK, InstalledOK, Loading
<1>2. file.slots \in Nat /\ file.from \in Nat
  BY <1>1 DEF Cache
<1>3. ComponentOK(c, version) /\ c.freed = 0
  <2>1. InstalledOK
    BY DEF TypeInv
  <2>2. ComponentOK(c, version)
    BY <1>1, <1>2, <2>1, NewComponentOK
  <2>3. c.freed = 0
    BY DEF NewComponent
  <2> QED
    BY <2>2, <2>3
<1>4. Created(c, "parse") /\ UNCHANGED <<version, cache, bundles, hash>> /\ "parse" \in Places
  BY DEF CacheRead, persistent, loading, Places
<1> HIDE DEF c
<1>5. /\ ComponentsOK' /\ BundlesOK' /\ HashOK'
      /\ act' \in Call /\ act'.at = "parse" /\ act'.lib = act.lib
      /\ act'.id \in DOMAIN components' /\ components'[act'.id] = c
  BY <1>3, <1>4, CreatedType
<1>6. ActOK'
  BY <1>1, <1>3, <1>4, <1>5 DEF ActOK, Loading
<1> QED
  BY <1>1, <1>5, <1>6 DEF TypeInv

LEMMA OpenedType ==
  ASSUME TypeInv, NEW l \in Libraries
  PROVE  Opened(l) \in DOMAIN Declared[l] /\ Opened(l) \in 0 .. version[l] /\ Opened(l) \in Nat
<1> DEFINE inUse == {c \in ToSet(components) : c.lib = l /\ c.wired # 0}
<1>1. /\ version[l] \in DOMAIN Declared[l] /\ version[l] \in Nat
      /\ mapped[l] \in Nat /\ mapped[l] \in 0 .. version[l]
  BY DEF TypeInv, InstalledOK
<1>2. DOMAIN Declared[l] = 1 .. Len(Declared[l]) /\ Len(Declared[l]) \in Nat
  BY RegistryAssumption
<1>3. ASSUME NEW c \in inUse PROVE c.wired \in 1 .. version[l]
  <2>1. PICK id \in DOMAIN components : c = components[id]
    BY DEF ToSet
  <2>2. ComponentOK(c, version) /\ c.lib = l /\ c.wired # 0
    BY <2>1 DEF TypeInv, ComponentsOK
  <2> QED
    BY <1>1, <2>2 DEF ComponentOK
<1>4. Opened(l) \in {mapped[l], version[l]} \ {0} \/ \E c \in inUse : Opened(l) = c.wired
  <2>1. CASE mapped[l] # 0
    BY <2>1 DEF Opened
  <2>2. CASE mapped[l] = 0 /\ inUse = {}
    <3>1. Opened(l) = version[l]
      BY <2>2 DEF Opened
    <3>2. version[l] # 0
      BY <1>1, <1>2
    <3> QED
      BY <3>1, <3>2
  <2>3. CASE mapped[l] = 0 /\ inUse # {}
    <3>1. Opened(l) = (CHOOSE c \in inUse : TRUE).wired
      BY <2>3 DEF Opened
    <3>2. (CHOOSE c \in inUse : TRUE) \in inUse
      BY <2>3
    <3> QED
      BY <3>1, <3>2
  <2> QED
    BY <2>1, <2>2, <2>3
<1>5. Opened(l) \in 1 .. version[l]
  BY <1>1, <1>3, <1>4
<1> QED
  BY <1>1, <1>2, <1>5

\* The library is mapped, and its component created.
LEMMA IntrospectType ==
  ASSUME TypeInv, Introspect \/ IntrospectNoPorts
  PROVE  TypeInv'
<1> DEFINE l == act.lib
           v == Opened(l)
<1>1. l \in Libraries /\ bundles # <<>>
  BY DEF Introspect, IntrospectNoPorts, TypeInv, ActOK, Loading
<1>2. v \in DOMAIN Declared[l] /\ v \in 0 .. version[l] /\ v \in Nat
  BY <1>1, OpenedType
<1>3. Declared[l][v] \in Seq(Port) /\ Len(Declared[l][v]) \in Nat
  BY <1>1, <1>2, RegistryAssumption
<1>4. mapped' = [mapped EXCEPT ![l] = v] /\ UNCHANGED <<version, cache, crashes>>
  BY DEF Introspect, IntrospectNoPorts, persistent
<1> HIDE DEF v
<1>5. InstalledOK'
  <2>1. shortages' = shortages \/ (crashes + shortages < MaxTroubles /\ shortages' = shortages + 1)
    BY DEF Introspect, IntrospectNoPorts
  <2>2. /\ shortages' \in Nat /\ crashes' \in Nat /\ crashes' + shortages' \in 0 .. MaxTroubles
    BY <1>4, <2>1, RegistryAssumption DEF TypeInv, InstalledOK
  <2>3. /\ mapped' \in [Libraries -> Nat]
        /\ \A x \in Libraries : mapped'[x] \in 0 .. version[x]
    BY <1>1, <1>2, <1>4 DEF TypeInv, InstalledOK
  <2> QED
    BY <1>4, <2>2, <2>3 DEF TypeInv, InstalledOK
<1>6. PlainOK'
  BY SameParts DEF Introspect, IntrospectNoPorts, loading
<1>7. PICK from \in Nat, slots \in Nat, at \in {"write", "declare"} :
        /\ Created([NewComponent(l) EXCEPT !.slots = slots, !.from = from], at)
        /\ at = "declare" => from = v /\ slots = Len(Declared[l][v])
  <2>1. CASE Introspect
    <3>1. Created([NewComponent(l) EXCEPT !.slots = Len(Declared[l][v]), !.from = v],
                  IF Declared[l][v] = <<>> THEN "write" ELSE "declare")
      <4>1. [NewComponent(l) EXCEPT !.slots = Len(Declared[l][v]), !.from = v]
              = [NewComponent(l) EXCEPT !.from = v, !.slots = Len(Declared[l][v])]
        BY DEF NewComponent
      <4> QED
        BY <2>1, <4>1 DEF Introspect, v
    <3> QED
      BY <1>2, <1>3, <3>1
  <2>2. CASE IntrospectNoPorts
    <3>1. Created(NewComponent(l), "write")
      BY <2>2 DEF IntrospectNoPorts
    <3>2. NewComponent(l) = [NewComponent(l) EXCEPT !.slots = 0, !.from = 0]
      <4> DEFINE n == NewComponent(l)
      <4>1. n \in Component /\ n.slots = 0 /\ n.from = 0
        BY <1>1, EmptySeq DEF NewComponent, Component
      <4> HIDE DEF n
      <4>2. n = [n EXCEPT !.slots = 0, !.from = 0]
        BY <4>1 DEF Component
      <4> QED
        BY <4>2 DEF n
    <3> QED
      BY <3>1, <3>2
  <2> QED
    BY <2>1, <2>2
<1> DEFINE c == [NewComponent(l) EXCEPT !.slots = slots, !.from = from]
<1>8. ComponentOK(c, version) /\ c.freed = 0 /\ c.from = from /\ c.slots = slots /\ c.lib = l
  <2>1. InstalledOK
    BY DEF TypeInv
  <2>2. ComponentOK(c, version)
    BY <1>1, <2>1, NewComponentOK
  <2>3. c.freed = 0 /\ c.from = from /\ c.slots = slots /\ c.lib = l
    BY DEF NewComponent
  <2> QED
    BY <2>2, <2>3
<1>9. Created(c, at) /\ at \in Places /\ UNCHANGED <<version, bundles, hash>>
  BY <1>7 DEF Introspect, IntrospectNoPorts, persistent, Places
<1> HIDE DEF c
<1>10. /\ ComponentsOK' /\ BundlesOK' /\ HashOK'
       /\ act' \in Call /\ act'.at = at /\ act'.lib = act.lib
       /\ act'.id \in DOMAIN components' /\ components'[act'.id] = c
  BY <1>8, <1>9, CreatedType
<1>11. ActOK'
  BY <1>1, <1>2, <1>7, <1>8, <1>9, <1>10 DEF ActOK, Loading
<1> QED
  BY <1>5, <1>6, <1>10, <1>11 DEF TypeInv

-----------------------------------------------------------------------------
(* Steps that add ports to a component *)

\* The port p is put on a list, or a new one.
LEMMA RegisterType ==
  ASSUME HashOK, Seq(Entry(components)) \subseteq Seq(Entry(components')), PlainOK,
         NEW port \in Port, NEW p \in Refs(components'), Register(port, p)
  PROVE  HashOK' /\ stale' \in BOOLEAN
<1>1. CASE ~port.provided
  BY <1>1 DEF Register, HashOK, PlainOK
<1>2. CASE port.provided
  <2> DEFINE i == port.iface
             E == Entry(components')
  <2>1. i \in Interfaces
    BY DEF Port
  <2>2. hash[i] \in Seq(E)
    BY <2>1 DEF HashOK
  <2>3. PICK e \in Hits(i) :
          hash' = [hash EXCEPT ![i] =
                     IF e = 0 THEN Append(@, [key |-> p, ports |-> <<p>>, live |-> TRUE])
                              ELSE [hash[i] EXCEPT ![e].ports = Append(@, p)]]
    BY <1>2 DEF Register, provided_ports_register
  <2>4. [key |-> p, ports |-> <<p>>, live |-> TRUE] \in E
    BY DEF Entry
  <2>5. Append(hash[i], [key |-> p, ports |-> <<p>>, live |-> TRUE]) \in Seq(E)
    BY <2>2, <2>4, AppendProperties
  <2>6. [hash[i] EXCEPT ![e].ports = Append(@, p)] \in Seq(E)
    <3> DEFINE x == [hash[i][e] EXCEPT !.ports = Append(@, p)]
    <3>1. CASE e \in 1 .. Len(hash[i])
      <4>1. hash[i][e] \in E
        BY <2>2, <3>1, ElementOfSeq
      <4>2. x \in E
        <5>1. hash[i][e].ports \in Seq(Refs(components'))
          BY <4>1 DEF Entry
        <5>2. Append(hash[i][e].ports, p) \in Seq(Refs(components'))
          BY <5>1, AppendProperties
        <5> QED
          BY <4>1, <5>2 DEF Entry
      <4>3. [hash[i] EXCEPT ![e] = x] \in Seq(E)
        BY <2>2, <3>1, <4>2, ExceptSeq
      <4> QED
        BY <4>3
    <3>2. CASE e \notin 1 .. Len(hash[i])
      <4>1. DOMAIN hash[i] = 1 .. Len(hash[i])
        BY <2>2
      <4>2. [hash[i] EXCEPT ![e] = x] = hash[i]
        BY <2>2, <3>2, <4>1
      <4> QED
        BY <2>2, <4>2
    <3> QED
      BY <3>1, <3>2
  <2>7. hash' \in [Interfaces -> Seq(E)]
    <3>1. PICK w \in Seq(E) : hash' = [hash EXCEPT ![i] = w]
      <4>1. CASE e = 0
        BY <2>3, <2>5, <4>1
      <4>2. CASE e # 0
        BY <2>3, <2>6, <4>2
      <4> QED
        BY <4>1, <4>2
    <3>2. hash \in [Interfaces -> Seq(E)]
      BY DEF HashOK
    <3> HIDE DEF E, i
    <3> QED
      BY <2>1, <3>1, <3>2
  <2>8. stale' \in BOOLEAN
    BY <1>2 DEF Register, provided_ports_register, Compared, PlainOK
  <2> QED
    BY <2>7, <2>8 DEF HashOK
<1> QED
  BY <1>1, <1>2

\* What is known of the component that is being read or declared.
LEMMA FillingType ==
  ASSUME TypeInv, act.at \in {"parse", "declare"}
  PROVE  LET c == components[act.id]
         IN  /\ act \in Call /\ act.id \in DOMAIN components /\ act.lib \in Libraries
             /\ bundles # <<>> /\ c.freed = 0 /\ ComponentOK(c, version)
             /\ c \in Component /\ Len(c.ports) \in Nat /\ c.lib \in Libraries
BY ComponentFields DEF TypeInv, ActOK, ComponentsOK, ComponentOK, Loading

\* One port is added, which may be an orphan or not linked.
Marked(orphans, unlinked) ==
  LET c == components[act.id]
  IN  /\ orphans \in {c.orphans, c.orphans \cup {Len(c.ports) + 1}}
      /\ unlinked \in {c.unlinked, c.unlinked \cup {Len(c.ports) + 1}}

Filled(port, orphans, unlinked) ==
  components' = [components EXCEPT ![act.id] =
                   WithPort(components[act.id], port, orphans, unlinked)]

LEMMA AddPortType ==
  ASSUME TypeInv, act.at \in {"parse", "declare"}, version' = version,
         NEW port \in Port, NEW orphans, NEW unlinked, Marked(orphans, unlinked),
         Filled(port, orphans, unlinked)
  PROVE  /\ ComponentsOK'
         /\ bundles' = bundles => BundlesOK'
         /\ hash' = hash => HashOK'
         /\ Seq(Entry(components)) \subseteq Seq(Entry(components'))
         /\ <<act.id, Len(components[act.id].ports) + 1>> \in Refs(components')
         /\ act.id \in DOMAIN components' /\ components'[act.id].freed = 0
         /\ components'[act.id].lib = components[act.id].lib
         /\ components'[act.id].from = components[act.id].from
         /\ components'[act.id].slots = components[act.id].slots
<1> DEFINE id == act.id
           c == components[id]
           d == WithPort(c, port, orphans, unlinked)
<1>1. /\ id \in DOMAIN components /\ c \in Component /\ ComponentOK(c, version) /\ c.freed = 0
      /\ Len(c.ports) \in Nat
  BY FillingType
<1>2. /\ d = WithPort(c, port, orphans, unlinked)
      /\ orphans \in {c.orphans, c.orphans \cup {Len(c.ports) + 1}}
      /\ unlinked \in {c.unlinked, c.unlinked \cup {Len(c.ports) + 1}}
  BY DEF Marked
<1>3. components' = [components EXCEPT ![id] = d]
  BY DEF Filled
<1> HIDE DEF d
<1>4. /\ ComponentOK(d, version) /\ d.freed = 0
      /\ Len(c.ports) <= Len(d.ports) /\ Len(c.ports) + 1 \in DOMAIN d.ports
      /\ d.lib = c.lib /\ d.from = c.from /\ d.slots = c.slots
  <2> HIDE DEF c
  <2> QED
    BY <1>1, <1>2, PortAdded
<1>5. /\ ComponentsOK'
      /\ bundles' = bundles => BundlesOK'
      /\ hash' = hash => HashOK'
      /\ Seq(Entry(components)) \subseteq Seq(Entry(components'))
      /\ DOMAIN components' = DOMAIN components
      /\ components'[id] = d
  BY <1>1, <1>3, <1>4, PartsType, ComponentChanged
<1>6. id \in Nat
  BY <1>1 DEF TypeInv, ComponentsOK
<1>7. <<id, Len(c.ports) + 1>> \in Refs(components')
  BY <1>1, <1>4, <1>5, <1>6 DEF Refs
<1> QED
  BY <1>1, <1>4, <1>5, <1>7

LEMMA FillType ==
  ASSUME TypeInv, act.at \in {"parse", "declare"},
         version' = version, cache' = cache, bundles' = bundles,
         initialized' = initialized, modules' = modules, InstalledOK',
         NEW port \in Port, NEW orphans, NEW unlinked, Marked(orphans, unlinked),
         Filled(port, orphans, unlinked),
         \/ Register(port, <<act.id, Len(components[act.id].ports) + 1>>)
         \/ hash' = hash /\ stale' \in BOOLEAN,
         act' \in Call, act'.lib = act.lib, act'.id = act.id, act'.at \in {"write", act.at}
  PROVE  TypeInv'
<1>1. /\ ComponentsOK'
      /\ bundles' = bundles => BundlesOK'
      /\ hash' = hash => HashOK'
      /\ Seq(Entry(components)) \subseteq Seq(Entry(components'))
      /\ <<act.id, Len(components[act.id].ports) + 1>> \in Refs(components')
      /\ act.id \in DOMAIN components' /\ components'[act.id].freed = 0
      /\ components'[act.id].lib = components[act.id].lib
      /\ components'[act.id].from = components[act.id].from
      /\ components'[act.id].slots = components[act.id].slots
  BY AddPortType
<1>2. HashOK' /\ stale' \in BOOLEAN
  BY <1>1, PartsType, RegisterType
<1>3. PlainOK'
  BY <1>2 DEF TypeInv, PlainOK
<1>4. ActOK'
  BY <1>1 DEF TypeInv, ActOK, Loading
<1> QED
  BY <1>1, <1>2, <1>3, <1>4 DEF TypeInv

\* The next port of a cache file.
LEMMA ParsedPort ==
  ASSUME TypeInv, act.at = "parse", act.k < Len(cache[act.lib].ports)
  PROVE  cache[act.lib].ports[act.k + 1] \in Port
<1>1. cache[act.lib] \in Cache /\ act.k \in Nat
  BY DEF TypeInv, ActOK, Call
<1>2. cache[act.lib].ports \in Seq(Port)
  BY <1>1 DEF Cache
<1>3. act.k + 1 \in 1 .. Len(cache[act.lib].ports)
  BY <1>1, <1>2
<1> QED
  BY <1>2, <1>3, ElementOfSeq

\* The next port of a table.
LEMMA DeclaredPort ==
  ASSUME TypeInv, act.at = "declare",
         Len(components[act.id].ports) + 1 <= components[act.id].slots
  PROVE  LET c == components[act.id] IN Declared[c.lib][c.from][Len(c.ports) + 1] \in Port
<1> DEFINE c == components[act.id]
           table == Declared[c.lib][c.from]
<1>1. c \in Component /\ Len(c.ports) \in Nat /\ c.lib \in Libraries
  BY FillingType
<1>2. c.from \in DOMAIN Declared[c.lib] /\ c.slots = Len(table)
  BY DEF TypeInv, ActOK
<1>3. table \in Seq(Port)
  BY <1>1, <1>2, RegistryAssumption
<1>4. Len(c.ports) + 1 \in 1 .. Len(table)
  BY <1>1, <1>2, <1>3
<1> HIDE DEF c
<1>5. table[Len(c.ports) + 1] \in Port
  BY <1>3, <1>4, ElementOfSeq
<1> QED
  BY <1>5 DEF c

\* The call goes on with the next port.
LEMMA NextPort ==
  ASSUME TypeInv, act' = [act EXCEPT !.k = @ + 1]
  PROVE  act' \in Call /\ act'.lib = act.lib /\ act'.id = act.id /\ act'.at = act.at
BY DEF TypeInv, ActOK, Call

LEMMA NextSlot ==
  ASSUME TypeInv, NEW at \in {"write", "declare"}, act' = [act EXCEPT !.at = at]
  PROVE  act' \in Call /\ act'.lib = act.lib /\ act'.id = act.id /\ act'.at = at
BY DEF TypeInv, ActOK, Call, Places

LEMMA FillingComponent ==
  ASSUME TypeInv, act.at \in {"parse", "declare"}
  PROVE  /\ act.id \in DOMAIN components /\ components \in Seq(Component)
         /\ components[act.id] \in Component
BY FillingType DEF ComponentOK, TypeInv, ComponentsOK

\* Two fields of a component are changed.
LEMMA TwoFields ==
  ASSUME TypeInv, act.at \in {"parse", "declare"}, NEW port, NEW k
  PROVE  LET c == components[act.id]
             q == [c EXCEPT !.ports = Append(c.ports, port)]
         IN  /\ [q EXCEPT !.unlinked = @ \cup {k}] = WithPort(c, port, c.orphans, c.unlinked \cup {k})
             /\ [q EXCEPT !.orphans = @ \cup {k}] = WithPort(c, port, c.orphans \cup {k}, c.unlinked)
<1> DEFINE c == components[act.id]
           q == [c EXCEPT !.ports = Append(c.ports, port)]
<1>1. c \in Component
  BY FillingComponent
<1>2. q.unlinked = c.unlinked /\ q.orphans = c.orphans
  BY <1>1 DEF Component
<1>3. [q EXCEPT !.unlinked = c.unlinked \cup {k}] = WithPort(c, port, c.orphans, c.unlinked \cup {k})
  BY <1>1 DEF Component, WithPort
<1>4. [q EXCEPT !.orphans = c.orphans \cup {k}] = WithPort(c, port, c.orphans \cup {k}, c.unlinked)
  BY <1>1 DEF Component, WithPort
<1> QED
  BY <1>2, <1>3, <1>4

\* How each action adds its port.
LEMMA ParsePortFills ==
  ASSUME TypeInv, ParsePort
  PROVE  LET c == components[act.id]
         IN  Filled(cache[act.lib].ports[act.k + 1], c.orphans, c.unlinked)
<1> DEFINE c == components[act.id]
           port == cache[act.lib].ports[act.k + 1]
<1>1. c \in Component
  BY FillingComponent DEF ParsePort
<1>2. [c EXCEPT !.ports = Append(c.ports, port)] = WithPort(c, port, c.orphans, c.unlinked)
  BY <1>1 DEF Component, WithPort
<1> QED
  BY <1>2 DEF ParsePort, Filled

LEMMA DeclarePortFills ==
  ASSUME TypeInv, DeclarePort
  PROVE  LET c == components[act.id]
         IN  Filled(Declared[c.lib][c.from][Len(c.ports) + 1], c.orphans, c.unlinked)
<1> DEFINE c == components[act.id]
           port == Declared[c.lib][c.from][Len(c.ports) + 1]
<1>1. c \in Component
  BY FillingComponent DEF DeclarePort
<1>2. [c EXCEPT !.ports = Append(c.ports, port)] = WithPort(c, port, c.orphans, c.unlinked)
  BY <1>1 DEF Component, WithPort
<1> QED
  BY <1>2 DEF DeclarePort, Filled

LEMMA ParseUnlinkedFills ==
  ASSUME TypeInv, ParseUnlinked
  PROVE  LET c == components[act.id]
             port == cache[act.lib].ports[act.k + 1]
         IN  \/ Filled(port, c.orphans, c.unlinked \cup {Len(c.ports) + 1})
             \/ Filled(port, c.orphans \cup {Len(c.ports) + 1}, c.unlinked)
<1> DEFINE c == components[act.id]
           port == cache[act.lib].ports[act.k + 1]
           k == Len(c.ports) + 1
           q == [c EXCEPT !.ports = Append(c.ports, port)]
<1>1. act.at \in {"parse", "declare"}
  BY DEF ParseUnlinked
<1>2. /\ [q EXCEPT !.unlinked = @ \cup {k}] = WithPort(c, port, c.orphans, c.unlinked \cup {k})
      /\ [q EXCEPT !.orphans = @ \cup {k}] = WithPort(c, port, c.orphans \cup {k}, c.unlinked)
  BY <1>1, TwoFields
<1>3. \/ components' = [[components EXCEPT ![act.id] = q] EXCEPT ![act.id].unlinked = @ \cup {k}]
      \/ components' = [[components EXCEPT ![act.id] = q] EXCEPT ![act.id].orphans = @ \cup {k}]
  BY DEF ParseUnlinked
<1>4. act.id \in DOMAIN components /\ components \in Seq(Component)
  BY <1>1, FillingComponent
<1> HIDE DEF q, k
<1>5. \/ components' = [components EXCEPT ![act.id] = [q EXCEPT !.unlinked = @ \cup {k}]]
      \/ components' = [components EXCEPT ![act.id] = [q EXCEPT !.orphans = @ \cup {k}]]
  BY <1>3, <1>4
<1>6. \/ Filled(port, c.orphans, c.unlinked \cup {k})
      \/ Filled(port, c.orphans \cup {k}, c.unlinked)
  BY <1>2, <1>5, Zenon DEF Filled
<1> QED
  BY <1>6 DEF k

LEMMA DeclareOrphanFills ==
  ASSUME TypeInv, DeclareOrphan
  PROVE  LET c == components[act.id]
         IN  Filled(Declared[c.lib][c.from][Len(c.ports) + 1],
                    c.orphans \cup {Len(c.ports) + 1}, c.unlinked)
<1> DEFINE c == components[act.id]
           port == Declared[c.lib][c.from][Len(c.ports) + 1]
           k == Len(c.ports) + 1
           q == [c EXCEPT !.ports = Append(c.ports, port)]
<1>1. act.at \in {"parse", "declare"}
  BY DEF DeclareOrphan
<1>2. [q EXCEPT !.orphans = @ \cup {k}] = WithPort(c, port, c.orphans \cup {k}, c.unlinked)
  BY <1>1, TwoFields
<1>3. components' = [[components EXCEPT ![act.id] = q] EXCEPT ![act.id].orphans = @ \cup {k}]
  BY DEF DeclareOrphan
<1>4. act.id \in DOMAIN components /\ components \in Seq(Component)
  BY <1>1, FillingComponent
<1> HIDE DEF q, k
<1>5. components' = [components EXCEPT ![act.id] = [q EXCEPT !.orphans = @ \cup {k}]]
  BY <1>3, <1>4
<1>6. Filled(port, c.orphans \cup {k}, c.unlinked)
  BY <1>2, <1>5, Zenon DEF Filled
<1> QED
  BY <1>6 DEF k

LEMMA ParsePortType == ASSUME TypeInv, ParsePort PROVE TypeInv'
<1> DEFINE c == components[act.id]
           port == cache[act.lib].ports[act.k + 1]
<1>1. /\ act.at \in {"parse", "declare"} /\ port \in Port
      /\ version' = version /\ cache' = cache /\ bundles' = bundles
      /\ initialized' = initialized /\ modules' = modules /\ InstalledOK'
      /\ act' \in Call /\ act'.lib = act.lib /\ act'.id = act.id /\ act'.at \in {"write", act.at}
  BY ParsedPort, NextPort, SameParts DEF ParsePort, persistent, loading
<1>2. Register(port, <<act.id, Len(c.ports) + 1>>)
  BY DEF ParsePort
<1>3. Filled(port, c.orphans, c.unlinked)
  BY ParsePortFills
<1>4. Marked(c.orphans, c.unlinked)
  BY DEF Marked
<1> HIDE DEF port
<1> QED
  BY <1>1, <1>2, <1>3, <1>4, FillType

LEMMA DeclaredNext ==
  ASSUME TypeInv, DeclarePort \/ DeclareOrphan
  PROVE  act' \in Call /\ act'.lib = act.lib /\ act'.id = act.id /\ act'.at \in {"write", act.at}
<1>1. PICK at \in {"write", "declare"} : act' = [act EXCEPT !.at = at]
  BY Zenon DEF DeclarePort, DeclareOrphan
<1>2. act.at = "declare"
  BY DEF DeclarePort, DeclareOrphan
<1> QED
  BY <1>1, <1>2, NextSlot

LEMMA DeclarePortType == ASSUME TypeInv, DeclarePort PROVE TypeInv'
<1> DEFINE c == components[act.id]
           port == Declared[c.lib][c.from][Len(c.ports) + 1]
<1>1. /\ act.at \in {"parse", "declare"} /\ port \in Port
      /\ version' = version /\ cache' = cache /\ bundles' = bundles
      /\ initialized' = initialized /\ modules' = modules /\ InstalledOK'
  BY DeclaredPort, SameParts DEF DeclarePort, persistent, loading
<1>2. Register(port, <<act.id, Len(c.ports) + 1>>)
  BY DEF DeclarePort
<1>3. Filled(port, c.orphans, c.unlinked)
  BY DeclarePortFills
<1>4. Marked(c.orphans, c.unlinked)
  BY DEF Marked
<1>5. act' \in Call /\ act'.lib = act.lib /\ act'.id = act.id /\ act'.at \in {"write", act.at}
  BY DeclaredNext
<1> HIDE DEF port
<1> QED
  BY <1>1, <1>2, <1>3, <1>4, <1>5, FillType

LEMMA ParseUnlinkedType == ASSUME TypeInv, ParseUnlinked PROVE TypeInv'
<1> DEFINE c == components[act.id]
           port == cache[act.lib].ports[act.k + 1]
           k == Len(c.ports) + 1
<1>1. /\ act.at \in {"parse", "declare"} /\ port \in Port
      /\ version' = version /\ cache' = cache /\ bundles' = bundles
      /\ initialized' = initialized /\ modules' = modules
      /\ act' \in Call /\ act'.lib = act.lib /\ act'.id = act.id /\ act'.at \in {"write", act.at}
  BY ParsedPort, NextPort DEF ParseUnlinked, persistent, loading
<1>2. hash' = hash /\ stale' \in BOOLEAN
  BY DEF ParseUnlinked, Compared, TypeInv, PlainOK
<1>3. InstalledOK'
  BY Shortage DEF ParseUnlinked, persistent, loading
<1>4. PICK orphans, unlinked : Filled(port, orphans, unlinked) /\ Marked(orphans, unlinked)
  <2>1. Marked(c.orphans, c.unlinked \cup {k}) /\ Marked(c.orphans \cup {k}, c.unlinked)
    BY DEF Marked
  <2>2. \/ Filled(port, c.orphans, c.unlinked \cup {k})
        \/ Filled(port, c.orphans \cup {k}, c.unlinked)
    BY ParseUnlinkedFills
  <2> HIDE DEF port, k, c
  <2> QED
    BY <2>1, <2>2
<1> HIDE DEF port, k
<1> QED
  BY <1>1, <1>2, <1>3, <1>4, FillType

LEMMA DeclareOrphanType == ASSUME TypeInv, DeclareOrphan PROVE TypeInv'
<1> DEFINE c == components[act.id]
           port == Declared[c.lib][c.from][Len(c.ports) + 1]
           k == Len(c.ports) + 1
<1>1. /\ act.at \in {"parse", "declare"} /\ port \in Port
      /\ version' = version /\ cache' = cache /\ bundles' = bundles
      /\ initialized' = initialized /\ modules' = modules
  BY DeclaredPort DEF DeclareOrphan, persistent, loading
<1>2. hash' = hash /\ stale' \in BOOLEAN
  BY DEF DeclareOrphan, Compared, TypeInv, PlainOK
<1>3. InstalledOK'
  BY Shortage DEF DeclareOrphan, persistent, loading
<1>4. Filled(port, c.orphans \cup {k}, c.unlinked)
  BY DeclareOrphanFills
<1>5. Marked(c.orphans \cup {k}, c.unlinked)
  BY DEF Marked
<1>6. act' \in Call /\ act'.lib = act.lib /\ act'.id = act.id /\ act'.at \in {"write", act.at}
  BY DeclaredNext
<1> HIDE DEF port, k
<1> QED
  BY <1>1, <1>2, <1>3, <1>4, <1>5, <1>6, FillType

-----------------------------------------------------------------------------
(* Steps that change other fields of a component *)

Altered(id, from, wired, freed, gone) ==
  components' = [components EXCEPT ![id] = WithFields(components[id], from, wired, freed, gone)]

\* The ports remain as they are.
LEMMA AlteredType ==
  ASSUME TypeInv, version' = version, NEW id \in DOMAIN components, NEW from \in Nat,
         NEW wired \in 0 .. version[components[id].lib],
         NEW freed \in 0 .. Len(components[id].ports), NEW gone \in BOOLEAN,
         Altered(id, from, wired, freed, gone)
  PROVE  /\ ComponentsOK'
         /\ bundles' = bundles => BundlesOK'
         /\ hash' = hash => HashOK'
         /\ Seq(Entry(components)) \subseteq Seq(Entry(components'))
         /\ DOMAIN components' = DOMAIN components
<1> DEFINE c == components[id]
           d == WithFields(c, from, wired, freed, gone)
<1>1. ComponentOK(c, version) /\ Len(c.ports) \in Nat
  BY ComponentFields DEF TypeInv, ComponentsOK, ComponentOK
<1>2. ComponentOK(d, version) /\ d.ports = c.ports
  <2>1. wired \in 0 .. version[c.lib] /\ freed \in 0 .. Len(c.ports)
    OBVIOUS
  <2> HIDE DEF c
  <2> QED
    BY <1>1, <2>1, FieldsChanged
<1>3. components' = [components EXCEPT ![id] = d]
  BY DEF Altered
<1> HIDE DEF d
<1>4. Len(c.ports) <= Len(d.ports) /\ c = components[id]
  BY <1>1, <1>2
<1>5. UNCHANGED version /\ ComponentsOK /\ BundlesOK /\ HashOK
  BY PartsType
<1> HIDE DEF c
<1> QED
  BY <1>2, <1>3, <1>4, <1>5, ComponentChanged

LEMMA FieldForms ==
  ASSUME NEW c \in Component, NEW x
  PROVE  /\ [c EXCEPT !.from = x] = WithFields(c, x, c.wired, c.freed, c.gone)
         /\ [c EXCEPT !.wired = x] = WithFields(c, c.from, x, c.freed, c.gone)
         /\ [c EXCEPT !.freed = x] = WithFields(c, c.from, c.wired, x, c.gone)
         /\ [c EXCEPT !.gone = x] = WithFields(c, c.from, c.wired, c.freed, x)
BY DEF Component, WithFields

LEMMA ComponentType ==
  ASSUME TypeInv, NEW id \in DOMAIN components
  PROVE  LET c == components[id]
         IN  /\ c \in Component /\ ComponentOK(c, version)
             /\ c.lib \in Libraries /\ c.from \in Nat /\ c.gone \in BOOLEAN
             /\ c.wired \in 0 .. version[c.lib] /\ c.freed \in 0 .. Len(c.ports)
             /\ version[c.lib] \in Nat /\ Len(c.ports) \in Nat /\ c.ports \in Seq(Port)
             /\ DOMAIN c.ports = 1 .. Len(c.ports)
BY ComponentFields DEF TypeInv, ComponentsOK, ComponentOK, InstalledOK

LEMMA ParseSkippedType == ASSUME TypeInv, ParseSkipped PROVE TypeInv'
<1> DEFINE c == components[act.id]
<1>1. /\ version' = version /\ cache' = cache /\ bundles' = bundles /\ hash' = hash
      /\ act.at = "parse"
      /\ act' \in Call /\ act'.lib = act.lib /\ act'.id = act.id /\ act'.at = act.at
  BY NextPort DEF ParseSkipped, persistent, loading
<1>2. InstalledOK' /\ PlainOK'
  BY Shortage, SameParts DEF ParseSkipped, persistent, loading
<1>3. act.id \in DOMAIN components /\ c.freed = 0
  BY <1>1, FillingType
<1>4. /\ c \in Component /\ c.wired \in 0 .. version[c.lib] /\ c.freed \in 0 .. Len(c.ports)
      /\ c.gone \in BOOLEAN
  BY <1>3, ComponentType
<1>5. Altered(act.id, 0, c.wired, c.freed, c.gone)
  BY <1>4, FieldForms DEF ParseSkipped, Altered
<1>6. /\ ComponentsOK' /\ BundlesOK' /\ HashOK'
      /\ DOMAIN components' = DOMAIN components
  BY <1>1, <1>3, <1>4, <1>5, AlteredType
<1>7. components'[act.id].freed = 0
  <2>1. components' = [components EXCEPT ![act.id] = [c EXCEPT !.from = 0]]
    BY DEF ParseSkipped
  <2>2. [c EXCEPT !.from = 0].freed = c.freed
    BY <1>4 DEF Component
  <2>3. components \in Seq(Component)
    BY DEF TypeInv, ComponentsOK
  <2> QED
    BY <1>3, <2>1, <2>2, <2>3
<1>8. ActOK'
  BY <1>1, <1>3, <1>6, <1>7 DEF TypeInv, ActOK, Loading
<1> QED
  BY <1>2, <1>6, <1>8 DEF TypeInv

LEMMA component_loadType ==
  ASSUME TypeInv, NEW id \in DOMAIN components, component_load(id)
  PROVE  TypeInv'
<1> DEFINE c == components[id]
           v == Opened(c.lib)
<1>1. InstalledOK' /\ PlainOK' /\ version' = version /\ bundles' = bundles /\ hash' = hash
  BY SameParts DEF component_load, persistent, port_enable
<1>2. /\ c \in Component /\ c.freed \in 0 .. Len(c.ports) /\ c.from \in Nat
      /\ c.gone \in BOOLEAN /\ c.lib \in Libraries
  BY ComponentType
<1>3. v \in 0 .. version[c.lib]
  BY <1>2, OpenedType
<1>4. Altered(id, c.from, v, c.freed, c.gone)
  BY <1>2, FieldForms DEF component_load, Altered, port_enable
<1> HIDE DEF v
<1>5. ComponentsOK' /\ BundlesOK' /\ HashOK'
  BY <1>1, <1>2, <1>3, <1>4, AlteredType
<1>6. ActOK'
  BY RestType DEF component_load, ActOK, Rest, Loading, port_enable
<1> QED
  BY <1>1, <1>5, <1>6 DEF TypeInv

LEMMA component_unloadType ==
  ASSUME TypeInv, NEW id \in DOMAIN components, component_unload(id)
  PROVE  TypeInv'
<1> DEFINE c == components[id]
<1>1. InstalledOK' /\ PlainOK' /\ version' = version /\ bundles' = bundles /\ hash' = hash
  BY SameParts DEF component_unload, persistent, port_disable
<1>2. /\ c \in Component /\ c.freed \in 0 .. Len(c.ports) /\ c.from \in Nat
      /\ c.gone \in BOOLEAN /\ 0 \in 0 .. version[c.lib]
  BY ComponentType
<1>4. Altered(id, c.from, 0, c.freed, c.gone)
  BY <1>2, FieldForms DEF component_unload, Altered, port_disable
<1>5. ComponentsOK' /\ BundlesOK' /\ HashOK'
  BY <1>1, <1>2, <1>4, AlteredType
<1>6. ActOK'
  BY RestType DEF component_unload, ActOK, Rest, Loading, port_disable
<1> QED
  BY <1>1, <1>5, <1>6 DEF TypeInv

LEMMA DestroyedType == ASSUME TypeInv, Destroyed PROVE TypeInv'
<1> DEFINE c == components[act.id]
<1>1. /\ InstalledOK' /\ PlainOK'
      /\ version' = version /\ bundles' = bundles /\ hash' = hash
  BY SameParts DEF Destroyed, persistent, port_disable
<1>3. act.id \in DOMAIN components /\ act \in Call
  BY DEF Destroyed, TypeInv, ActOK, port_disable
<1>2. /\ c \in Component /\ c.freed \in 0 .. Len(c.ports) /\ c.from \in Nat
      /\ c.gone \in BOOLEAN /\ 0 \in 0 .. version[c.lib]
  BY <1>3, ComponentType
<1>4. Altered(act.id, c.from, 0, c.freed, c.gone)
  BY <1>2, FieldForms DEF Destroyed, Altered, port_disable
<1>5. ComponentsOK' /\ BundlesOK' /\ HashOK' /\ DOMAIN components' = DOMAIN components
  BY <1>1, <1>2, <1>3, <1>4, AlteredType
<1>6. ActOK'
  <2>1. /\ act' \in Call /\ act'.at = "free" /\ act'.id = act.id /\ act'.then = act.then
        /\ act'.lib = act.lib
    BY <1>3 DEF Destroyed, Call, Places, port_disable
  <2> QED
    BY <1>1, <1>3, <1>5, <2>1 DEF ActOK, Loading, TypeInv, Destroyed, port_disable
<1> QED
  BY <1>1, <1>5, <1>6 DEF TypeInv

LEMMA FreeEndsType == ASSUME TypeInv, FreeEnds PROVE TypeInv'
<1> DEFINE c == components[act.id]
<1>1. /\ InstalledOK' /\ PlainOK'
      /\ version' = version /\ bundles' = bundles /\ hash' = hash
  BY SameParts DEF FreeEnds, persistent, loading
<1>3. act.id \in DOMAIN components /\ act \in Call
  BY DEF FreeEnds, TypeInv, ActOK
<1>2. /\ c \in Component /\ c.freed \in 0 .. Len(c.ports) /\ c.from \in Nat
      /\ c.wired \in 0 .. version[c.lib]
  BY <1>3, ComponentType
<1>4. Altered(act.id, c.from, c.wired, c.freed, TRUE)
  BY <1>2, FieldForms DEF FreeEnds, Altered
<1>5. ComponentsOK' /\ BundlesOK' /\ HashOK' /\ DOMAIN components' = DOMAIN components
  BY <1>1, <1>2, <1>3, <1>4, AlteredType
<1>6. ActOK'
  <2>1. /\ act' \in Call /\ act'.at = act.then /\ act'.lib = act.lib /\ act'.then = "idle"
    BY <1>3 DEF FreeEnds, Call, Places
  <2> QED
    BY <1>1, <1>3, <1>5, <2>1 DEF ActOK, Loading, TypeInv, FreeEnds
<1> QED
  BY <1>1, <1>5, <1>6 DEF TypeInv

-----------------------------------------------------------------------------
(* Lists that lose a port *)

LEMMA WithoutType ==
  ASSUME NEW S, NEW list \in Seq(S), NEW p
  PROVE  Without(list, p) \in Seq(S)
<1>1. CASE p \notin ToSet(list)
  BY <1>1 DEF Without
<1>2. CASE p \in ToSet(list)
  <2> DEFINE n == CHOOSE n \in DOMAIN list : list[n] = p
  <2>1. n \in 1 .. Len(list) /\ Len(list) \in Nat
    BY <1>2 DEF ToSet
  <2>2. Without(list, p) = SubSeq(list, 1, n - 1) \o SubSeq(list, n + 1, Len(list))
    BY <1>2 DEF Without, RemoveAt
  <2> HIDE DEF n
  <2>3. \A k \in 1 .. Len(list) : list[k] \in S
    BY ElementOfSeq
  <2>4. SubSeq(list, 1, n - 1) \in Seq(S)
    BY <2>1, <2>3, SubSeqProperties
  <2>5. SubSeq(list, n + 1, Len(list)) \in Seq(S)
    <3> DEFINE m == n + 1
               l == Len(list)
    <3>1. m \in Int /\ l \in Int /\ \A k \in m .. l : list[k] \in S
      BY <2>1, <2>3
    <3> HIDE DEF m, l
    <3>2. SubSeq(list, m, l) \in Seq(S)
      BY <3>1, SubSeqProperties
    <3> QED
      BY <3>2 DEF m, l
  <2> QED
    BY <2>2, <2>4, <2>5, ConcatProperties
<1> QED
  BY <1>1, <1>2

LEMMA ClearedType ==
  ASSUME NEW comps, NEW entries \in Seq(Entry(comps)), NEW p, NEW e
  PROVE  Cleared(entries, p, e) \in Seq(Entry(comps))
<1> DEFINE E == Entry(comps)
           rest(x) == Without(entries[x].ports, p)
           new(x) == [entries[x] EXCEPT !.ports = rest(x), !.live = @ /\ (x = e => rest(x) # <<>>)]
<1>1. ASSUME NEW x \in DOMAIN entries PROVE new(x) \in E
  <2>1. entries[x] \in E
    BY ElementOfSeq
  <2>2. rest(x) \in Seq(Refs(comps))
    BY <2>1, WithoutType DEF Entry
  <2> HIDE DEF rest
  <2>3. entries[x].key \in Refs(comps)
    BY <2>1 DEF Entry
  <2> DEFINE live == entries[x].live /\ (x = e => rest(x) # <<>>)
  <2>4. live \in BOOLEAN
    OBVIOUS
  <2> HIDE DEF live
  <2>5. [entries[x] EXCEPT !.ports = rest(x), !.live = live] \in E
    BY <2>1, <2>2, <2>3, <2>4 DEF Entry
  <2>6. new(x) = [entries[x] EXCEPT !.ports = rest(x), !.live = live]
    <3>1. [entries[x] EXCEPT !.ports = rest(x)].live = entries[x].live
      BY <2>1 DEF Entry
    <3> QED
      BY <3>1 DEF live
  <2> QED
    BY <2>5, <2>6
<1>2. Cleared(entries, p, e) = [x \in DOMAIN entries |-> new(x)]
  BY DEF Cleared
<1> HIDE DEF new
<1>3. DOMAIN entries = 1 .. Len(entries) /\ Len(entries) \in Nat
  OBVIOUS
<1> HIDE DEF E
<1>4. [x \in DOMAIN entries |-> new(x)] \in Seq(E)
  BY <1>1, <1>3, IsASeq
<1> QED
  BY <1>2, <1>4 DEF E

LEMMA port_freeType == ASSUME TypeInv, port_free PROVE TypeInv'
<1> DEFINE c == components[act.id]
           k == c.freed + 1
           i == c.ports[k].iface
<1>1. /\ InstalledOK' /\ version' = version /\ bundles' = bundles /\ act' = act
      /\ act.id \in DOMAIN components /\ act.at = "free" /\ k <= Len(c.ports)
  BY SameParts DEF port_free, persistent, loading, TypeInv, ActOK
<1>2. /\ c \in Component /\ c.from \in Nat /\ c.gone \in BOOLEAN
      /\ c.wired \in 0 .. version[c.lib] /\ c.freed \in Nat /\ Len(c.ports) \in Nat
      /\ c.ports \in Seq(Port)
  BY <1>1, ComponentType
<1>3. k \in 0 .. Len(c.ports)
  BY <1>1, <1>2
<1>4. Altered(act.id, c.from, c.wired, k, c.gone)
  BY <1>2, FieldForms DEF port_free, Altered
<1>5. /\ ComponentsOK' /\ BundlesOK'
      /\ hash' = hash => HashOK'
      /\ Seq(Entry(components)) \subseteq Seq(Entry(components'))
      /\ DOMAIN components' = DOMAIN components
  <2> HIDE DEF k
  <2> QED
    BY <1>1, <1>2, <1>3, <1>4, AlteredType
<1>6. HashOK'
  <2>1. CASE hash' = hash
    BY <1>5, <2>1
  <2>2. CASE hash' # hash
    <3>1. PICK e : hash' = [hash EXCEPT ![i] = Cleared(@, <<act.id, k>>, e)]
      BY <2>2, Zenon DEF port_free
    <3>2. i \in Interfaces
      <4>1. c.ports[k] \in Port
        BY <1>1, <1>2, <1>3, ElementOfSeq
      <4> QED
        BY <4>1 DEF Port
    <3>3. hash \in [Interfaces -> Seq(Entry(components))]
      BY DEF TypeInv, HashOK
    <3>4. Cleared(hash[i], <<act.id, k>>, e) \in Seq(Entry(components))
      BY <3>2, <3>3, ClearedType
    <3> HIDE DEF i, k
    <3>5. hash' \in [Interfaces -> Seq(Entry(components))]
      BY <3>1, <3>2, <3>3, <3>4
    <3> QED
      BY <1>5, <3>5 DEF HashOK
  <2> QED
    BY <2>1, <2>2
<1>7. PlainOK'
  BY DEF port_free, persistent, loading, Compared, TypeInv, PlainOK
<1>8. ActOK'
  BY <1>1, <1>5 DEF TypeInv, ActOK, Loading
<1> QED
  BY <1>1, <1>5, <1>6, <1>7, <1>8 DEF TypeInv

-----------------------------------------------------------------------------
(* Steps that start from nothing *)

LEMMA EmptyType ==
  ASSUME components' = <<>>, hash' = NoHash, bundles' = <<>>
  PROVE  ComponentsOK' /\ BundlesOK' /\ HashOK'
<1>1. /\ <<>> \in Seq(Component) /\ \A id \in DOMAIN <<>> : FALSE
      /\ <<>> \in Seq(Seq(1 .. Len(<<>>)))
      /\ NoHash \in [Interfaces -> Seq(Entry(<<>>))]
  BY EmptySeq DEF NoHash
<1> QED
  BY <1>1 DEF ComponentsOK, BundlesOK, HashOK

LEMMA xCOM_InitType == ASSUME TypeInv, xCOM_Init PROVE TypeInv'
<1>1. InstalledOK'
  BY SameParts DEF xCOM_Init
<1>2. ComponentsOK' /\ BundlesOK' /\ HashOK'
  BY SameParts, EmptyType DEF xCOM_Init, Booted, TypeInv, ComponentsOK
<1>3. PlainOK'
  BY DEF xCOM_Init, Booted, TypeInv, PlainOK
<1>4. ActOK'
  BY RestType DEF xCOM_Init, Rest, ActOK, Loading
<1> QED
  BY <1>1, <1>2, <1>3, <1>4 DEF TypeInv

LEMMA CloseModulesType == ASSUME TypeInv, CloseModules PROVE TypeInv'
<1>1. InstalledOK'
  BY SameParts DEF CloseModules, persistent
<1>2. ComponentsOK' /\ BundlesOK' /\ HashOK'
  BY EmptyType DEF CloseModules
<1>3. PlainOK'
  BY DEF CloseModules, TypeInv, PlainOK
<1>4. ActOK'
  BY RestType DEF CloseModules, Rest, ActOK, Loading
<1> QED
  BY <1>1, <1>2, <1>3, <1>4 DEF TypeInv

LEMMA CrashType == ASSUME TypeInv, Crash PROVE TypeInv'
<1>1. cache' \in [Libraries -> Cache \cup {NoCache}]
  <2>1. cache \in [Libraries -> Cache \cup {NoCache}]
    BY DEF TypeInv, InstalledOK
  <2>2. CASE act.at = "write"
    <3>1. act.lib \in Libraries /\ components[act.id] \in Component
      BY <2>2 DEF TypeInv, ActOK, ComponentsOK, ComponentOK
    <3>2. PICK file \in {cache[act.lib]} \cup Torn(components[act.id]) :
            cache' = [cache EXCEPT ![act.lib] = file]
      BY <2>2 DEF Crash
    <3>3. file \in Cache \cup {NoCache}
      BY <2>1, <3>1, <3>2, FileType
    <3> QED
      BY <2>1, <3>1, <3>2, <3>3
  <2>3. CASE act.at # "write"
    BY <2>1, <2>3 DEF Crash
  <2> QED
    BY <2>2, <2>3
<1>2. crashes' \in Nat /\ shortages' \in Nat /\ crashes' + shortages' \in 0 .. MaxTroubles
  BY RegistryAssumption DEF Crash, TypeInv, InstalledOK
<1>3. /\ version \in [Libraries -> Nat] /\ version' = version
      /\ \A l \in Libraries : version[l] \in DOMAIN Declared[l]
      /\ mapped' = [l \in Libraries |-> 0]
  BY DEF Crash, TypeInv, InstalledOK
<1>7. mapped' \in [Libraries -> Nat] /\ \A l \in Libraries : mapped'[l] \in 0 .. version'[l]
  BY <1>3
<1>4. InstalledOK'
  BY <1>1, <1>2, <1>3, <1>7 DEF InstalledOK
<1>5. ComponentsOK' /\ BundlesOK' /\ HashOK'
  BY EmptyType DEF Crash
<1>6. PlainOK'
  <2>1. initialized' = 0 /\ modules' = {} /\ stale' \in BOOLEAN
    BY Zenon DEF Crash
  <2> QED
    BY <2>1 DEF PlainOK
<1>8. ActOK'
  BY RestType DEF Crash, Rest, ActOK, Loading
<1> QED
  BY <1>4, <1>5, <1>6, <1>8 DEF TypeInv

LEMMA InitType == RegistryInit => TypeInv
<1> SUFFICES ASSUME RegistryInit PROVE TypeInv
  OBVIOUS
<1>1. InstalledOK
  <2>1. \A l \in Libraries : 1 \in DOMAIN Declared[l]
    <3> SUFFICES ASSUME NEW l \in Libraries PROVE 1 \in DOMAIN Declared[l]
      OBVIOUS
    <3>1. Declared[l] \in Seq(Seq(Port)) /\ Declared[l] # <<>>
      BY RegistryAssumption
    <3> QED
      BY <3>1, EmptySeq
  <2> QED
    BY <2>1, RegistryAssumption DEF RegistryInit, InstalledOK
<1>2. ComponentsOK /\ BundlesOK /\ HashOK
  <2>1. /\ <<>> \in Seq(Component) /\ \A id \in DOMAIN <<>> : FALSE
        /\ <<>> \in Seq(Seq(1 .. Len(<<>>)))
        /\ NoHash \in [Interfaces -> Seq(Entry(<<>>))]
    BY EmptySeq DEF NoHash
  <2> QED
    BY <2>1 DEF RegistryInit, ComponentsOK, BundlesOK, HashOK
<1>3. PlainOK
  <2>1. initialized = 0 /\ modules = {} /\ stale \in BOOLEAN
    BY Zenon DEF RegistryInit
  <2> QED
    BY <2>1 DEF PlainOK
<1>4. ActOK
  BY RestType DEF RegistryInit, Rest, ActOK, Loading
<1> QED
  BY <1>1, <1>2, <1>3, <1>4 DEF TypeInv

LEMMA NextType == TypeInv /\ [RegistryNext]_vars => TypeInv'
<1> SUFFICES ASSUME TypeInv, [RegistryNext]_vars PROVE TypeInv'
  OBVIOUS
<1>1. CASE Continue
  <2>1. ASSUME NEW l \in Libraries, NextFile(l) PROVE TypeInv'
    BY <2>1, NextFileType
  <2>2. CASE \/ LoadEnds \/ CacheUnread \/ CacheRead \/ ParsePort \/ ParseSkipped
             \/ ParseUnlinked \/ ParseEnds \/ ParseFails
    BY <2>2, LoadEndsType, CacheUnreadType, CacheReadType, ParsePortType, ParseSkippedType,
       ParseUnlinkedType, ParseEndsType, ParseFailsType
  <2>3. CASE \/ IntrospectFails \/ Introspect \/ IntrospectNoPorts
             \/ DeclarePort \/ DeclareOrphan \/ cache_create
    BY <2>3, IntrospectFailsType, IntrospectType, DeclarePortType, DeclareOrphanType,
       cache_createType
  <2>4. CASE \/ port_free \/ FreeEnds \/ CloseComponent \/ Destroyed
             \/ CloseBundle \/ CloseModules
    BY <2>4, port_freeType, FreeEndsType, CloseComponentType, DestroyedType,
       CloseBundleType, CloseModulesType
  <2> QED
    BY <1>1, <2>1, <2>2, <2>3, <2>4 DEF Continue
<1>2. CASE Calls
  <2>1. CASE xCOM_Init \/ InitCleans \/ InitDies \/ xCOM_Destroy
    BY <2>1, xCOM_InitType, InitFailsType, xCOM_DestroyType
  <2>2. ASSUME NEW b \in Bundles, NEW ignore \in BOOLEAN, xCOM_LoadComponentBundle(b, ignore)
        PROVE  TypeInv'
    BY <2>2, LoadType
  <2>3. ASSUME NEW id \in DOMAIN components, component_load(id) \/ component_unload(id)
        PROVE  TypeInv'
    BY <2>3, component_loadType, component_unloadType
  <2>4. ASSUME NEW query \in Queries, query_get_candidates(query) PROVE TypeInv'
    BY <2>4, QueryType
  <2> QED
    BY <1>2, <2>1, <2>2, <2>3, <2>4 DEF Calls
<1>3. ASSUME NEW l \in Libraries, Upgrade(l) PROVE TypeInv'
  BY <1>3, UpgradeType
<1>4. CASE Crash
  BY <1>4, CrashType
<1>5. CASE UNCHANGED vars
  BY <1>5, SameParts DEF vars, process, TypeInv
<1> QED
  BY <1>1, <1>2, <1>3, <1>4, <1>5 DEF RegistryNext

\* A call is about a component that was created.
IdOK == act.id \in 0 .. Len(components)

LEMMA NextId == TypeInv /\ TypeInv' /\ IdOK /\ [RegistryNext]_vars => IdOK'
<1> SUFFICES ASSUME TypeInv, TypeInv', IdOK, [RegistryNext]_vars PROVE IdOK'
  OBVIOUS
<1>1. CASE act'.at \in {"parse", "declare", "write", "free", "destroy"}
  <2>1. act'.id \in DOMAIN components' /\ components' \in Seq(Component)
    BY <1>1 DEF TypeInv, ActOK, ComponentsOK
  <2> QED
    BY <2>1 DEF IdOK
<1>2. CASE act'.id = act.id /\ components' = components
  BY <1>2 DEF IdOK
<1>3. CASE act'.id = 0
  <2>1. components' \in Seq(Component)
    BY DEF TypeInv, ComponentsOK
  <2> QED
    BY <1>3, <2>1 DEF IdOK
<1>4. act \in Call
  BY DEF TypeInv, ActOK
<1>5. CASE Continue
  <2>1. ASSUME NEW l \in Libraries, NextFile(l) PROVE IdOK'
    BY <1>2, <1>4, <2>1 DEF NextFile, Call
  <2>2. CASE LoadEnds \/ CloseModules
    BY <1>3, <2>2 DEF LoadEnds, CloseModules, Rest
  <2>11. CASE ParseEnds \/ IntrospectFails \/ cache_create
    <3>1. act' = [act EXCEPT !.at = "scan", !.lib = NoLibrary, !.id = 0, !.k = 0]
      BY <2>11 DEF ParseEnds, IntrospectFails, cache_create, Listed
    <3> QED
      BY <1>3, <1>4, <3>1 DEF Call
  <2>3. CASE FreeEnds
    BY <1>3, <1>4, <2>3 DEF FreeEnds, Call
  <2>4. CASE CacheUnread
    BY <1>2, <1>4, <2>4 DEF CacheUnread, Call
  <2>5. CASE CloseBundle
    BY <1>2, <2>5 DEF CloseBundle
  <2>6. CASE CacheRead \/ Introspect \/ IntrospectNoPorts
    BY <1>1, <1>4, <2>6 DEF CacheRead, Introspect, IntrospectNoPorts, Created, Call
  <2>7. CASE ParsePort \/ ParseSkipped \/ ParseUnlinked
    BY <1>1, <1>4, <2>7, NextPort DEF ParsePort, ParseSkipped, ParseUnlinked
  <2>8. CASE ParseFails \/ CloseComponent \/ Destroyed
    BY <1>1, <1>4, <2>8 DEF ParseFails, CloseComponent, Destroyed, Call, port_disable
  <2>9. CASE DeclarePort \/ DeclareOrphan
    BY <1>1, <1>4, <2>9 DEF DeclarePort, DeclareOrphan, Call
  <2>10. CASE port_free
    BY <1>1, <2>10 DEF port_free
  <2> QED
    BY <1>5, <2>1, <2>2, <2>3, <2>4, <2>5, <2>6, <2>7, <2>8, <2>9, <2>10, <2>11 DEF Continue
<1>6. CASE Calls
  <2>1. CASE xCOM_Init \/ InitCleans \/ InitDies \/ xCOM_Destroy
    BY <1>2, <1>3, <2>1 DEF xCOM_Init, InitCleans, InitDies, xCOM_Destroy, Rest
  <2>2. ASSUME NEW b \in Bundles, NEW ignore \in BOOLEAN, xCOM_LoadComponentBundle(b, ignore)
        PROVE  IdOK'
    BY <1>3, <2>2 DEF xCOM_LoadComponentBundle, Rest, bundle_new
  <2>3. ASSUME NEW id \in DOMAIN components, component_load(id) \/ component_unload(id)
        PROVE  IdOK'
    BY <1>3, <2>3 DEF component_load, component_unload, Rest, port_enable, port_disable
  <2>4. ASSUME NEW query \in Queries, query_get_candidates(query) PROVE IdOK'
    BY <1>2, <2>4 DEF query_get_candidates
  <2> QED
    BY <1>6, <2>1, <2>2, <2>3, <2>4 DEF Calls
<1>7. ASSUME NEW l \in Libraries, Upgrade(l) PROVE IdOK'
  BY <1>2, <1>7 DEF Upgrade, process
<1>8. CASE Crash
  BY <1>3, <1>8 DEF Crash, Rest
<1>9. CASE UNCHANGED vars
  BY <1>2, <1>9 DEF vars, process
<1> QED
  BY <1>5, <1>6, <1>7, <1>8, <1>9 DEF RegistryNext

LEMMA TypeOK == TypeInv /\ IdOK => RegistryTypeOK
<1> SUFFICES ASSUME TypeInv, IdOK PROVE RegistryTypeOK
  OBVIOUS
<1>1. /\ \A l \in Libraries : version[l] \in DOMAIN Declared[l] /\ mapped[l] \in 0 .. version[l]
      /\ cache \in [Libraries -> Cache \cup {NoCache}]
      /\ crashes + shortages \in 0 .. MaxTroubles
  BY DEF TypeInv, InstalledOK
<1>2. /\ initialized \in 0 .. 2 /\ modules \subseteq AllModules /\ stale \in BOOLEAN
      /\ components \in Seq(Component)
      /\ bundles \in Seq(Seq(1 .. Len(components)))
      /\ act.at \in Places /\ act.then \in Places /\ act.todo \subseteq Libraries
  BY DEF TypeInv, PlainOK, ComponentsOK, BundlesOK, ActOK, Call
<1>3. act.id \in 0 .. Len(components)
  BY DEF IdOK
<1>4. ASSUME NEW i \in Interfaces, NEW e \in DOMAIN hash[i],
             NEW p \in ToSet(hash[i][e].ports) \cup {hash[i][e].key}
      PROVE  p[1] \in DOMAIN components /\ p[2] \in DOMAIN components[p[1]].ports
  <2>1. hash[i] \in Seq(Entry(components))
    BY DEF TypeInv, HashOK
  <2>2. hash[i][e] \in Entry(components)
    BY <2>1, ElementOfSeq
  <2>3. hash[i][e].key \in Refs(components) /\ hash[i][e].ports \in Seq(Refs(components))
    BY <2>2 DEF Entry
  <2>4. p \in Refs(components)
    BY <2>3, ElementOfSeq DEF ToSet
  <2> QED
    BY <2>4 DEF Refs
<1> QED
  BY <1>1, <1>2, <1>3, <1>4 DEF RegistryTypeOK

\* The invariant of the specification.
LEMMA TypeInvHolds == RegistrySpec => [](TypeInv /\ IdOK)
<1>1. RegistryInit => TypeInv /\ IdOK
  BY InitType DEF RegistryInit, Rest, IdOK
<1>2. (TypeInv /\ IdOK) /\ [RegistryNext]_vars => (TypeInv /\ IdOK)'
  BY NextType, NextId
<1> QED
  BY <1>1, <1>2, PTL DEF RegistrySpec

\* Every bundle, component, cache and list of providers is one, and a list of
\* providers refers to ports that exist, freed ones included.
THEOREM RegistryTypeCorrect == RegistrySpec => []RegistryTypeOK
BY TypeInvHolds, TypeOK, PTL

(***************************************************************************)
(* The modules of the library                                              *)
(***************************************************************************)
\* The place of the call under way tells whether the library is in use: bundles
\* are loaded while it is, and closed when it no longer is; component_free
\* is part of both, and goes back to where it came from.
PlaceTells ==
  /\ act.at \in Loading => initialized > 0
  /\ act.at \in {"close", "destroy"} => initialized = 0
  /\ act.at = "destroy" => act.then = "close"
  /\ act.at = "free" => \/ act.then = "introspect" /\ initialized > 0
                        \/ act.then = "close" /\ initialized = 0

\* The inductive invariant, as long as there is no undefined behaviour.
ModulesInv ==
  /\ initialized \in Nat
  /\ "at" \in DOMAIN act /\ "then" \in DOMAIN act
  /\ PlaceTells
  /\ initialized > 0 => modules = AllModules
  /\ initialized = 0 /\ act.at = "idle" => modules = {} /\ components = <<>>

-----------------------------------------------------------------------------
(* Steps *)

LEMMA LoadingSteps ==
  ASSUME ModulesInv,
         \/ \E l \in Libraries : NextFile(l)
         \/ LoadEnds \/ CacheUnread \/ CacheRead
         \/ ParsePort \/ ParseSkipped \/ ParseUnlinked \/ ParseEnds \/ ParseFails
         \/ IntrospectFails \/ Introspect \/ IntrospectNoPorts
         \/ DeclarePort \/ DeclareOrphan \/ cache_create
  PROVE  ModulesInv'
<1>1. CASE \E l \in Libraries : NextFile(l)
  BY <1>1 DEF NextFile, loading, ModulesInv, PlaceTells, Loading
<1>2. CASE LoadEnds
  BY <1>2 DEF LoadEnds, Rest, loading, ModulesInv, PlaceTells, Loading
<1>3. CASE CacheUnread \/ CacheRead
  BY <1>3 DEF CacheUnread, CacheRead, Created, loading, ModulesInv, PlaceTells, Loading
<1>4. CASE ParsePort \/ ParseSkipped \/ ParseUnlinked
  BY <1>4 DEF ParsePort, ParseSkipped, ParseUnlinked, loading, ModulesInv, PlaceTells, Loading
<1>5. CASE ParseEnds \/ ParseFails
  BY <1>5 DEF ParseEnds, ParseFails, Listed, loading, ModulesInv, PlaceTells, Loading
<1>6. CASE IntrospectFails
  BY <1>6 DEF IntrospectFails, loading, ModulesInv, PlaceTells, Loading
<1>7. CASE Introspect \/ IntrospectNoPorts
  BY <1>7 DEF Introspect, IntrospectNoPorts, Created, loading, ModulesInv, PlaceTells, Loading
<1>8. CASE DeclarePort \/ DeclareOrphan
  BY <1>8 DEF DeclarePort, DeclareOrphan, loading, ModulesInv, PlaceTells, Loading
<1>9. CASE cache_create
  BY <1>9 DEF cache_create, Listed, loading, ModulesInv, PlaceTells, Loading
<1> QED
  BY <1>1, <1>2, <1>3, <1>4, <1>5, <1>6, <1>7, <1>8, <1>9

LEMMA ClosingSteps ==
  ASSUME ModulesInv,
         port_free \/ FreeEnds \/ CloseComponent \/ Destroyed \/ CloseBundle \/ CloseModules
  PROVE  ModulesInv'
<1>1. CASE port_free
  BY <1>1 DEF port_free, loading, ModulesInv, PlaceTells, Loading
<1>2. CASE FreeEnds
  BY <1>2 DEF FreeEnds, loading, ModulesInv, PlaceTells, Loading
<1>3. CASE CloseComponent
  BY <1>3 DEF CloseComponent, loading, ModulesInv, PlaceTells, Loading
<1>4. CASE Destroyed
  BY <1>4 DEF Destroyed, ModulesInv, PlaceTells, Loading, port_disable
<1>5. CASE CloseBundle
  BY <1>5 DEF CloseBundle, loading, ModulesInv, PlaceTells, Loading
<1>6. CASE CloseModules
  BY <1>6 DEF CloseModules, Rest, ModulesInv, PlaceTells, Loading
<1> QED
  BY <1>1, <1>2, <1>3, <1>4, <1>5, <1>6

\* A module that did not start is not left behind.
LEMMA CleanedEmpty ==
  ASSUME NEW up \in {{"ports", "component"}, {"ports", "component", "query"}}
  PROVE  Cleaned(up) = {}
BY DEF Cleaned, query_destroy, import_destroy

LEMMA CallSteps ==
  ASSUME ModulesInv, Calls, fault' = "none"
  PROVE  ModulesInv'
<1>1. CASE xCOM_Init
  BY <1>1 DEF xCOM_Init, Booted, Rest, ModulesInv, PlaceTells, Loading
<1>2. CASE InitCleans
  BY <1>2, CleanedEmpty DEF InitCleans, Rest, ModulesInv, PlaceTells, Loading
<1>3. CASE InitDies
  BY <1>3 DEF InitDies
<1>4. CASE xCOM_Destroy
  BY <1>4 DEF xCOM_Destroy, Rest, ModulesInv, PlaceTells, Loading
<1>5. CASE \E b \in Bundles, ignore \in BOOLEAN : xCOM_LoadComponentBundle(b, ignore)
  BY <1>5 DEF xCOM_LoadComponentBundle, Rest, ModulesInv, PlaceTells, Loading, bundle_new
<1>6. CASE \E id \in DOMAIN components : component_load(id) \/ component_unload(id)
  BY <1>6 DEF component_load, component_unload, Rest, ModulesInv, PlaceTells, Loading, port_enable, port_disable
<1>7. CASE \E query \in Queries : query_get_candidates(query)
  BY <1>7 DEF query_get_candidates, ModulesInv, PlaceTells, Loading
<1> QED
  BY <1>1, <1>2, <1>3, <1>4, <1>5, <1>6, <1>7 DEF Calls

LEMMA ModulesStep ==
  ASSUME fault = "none" => ModulesInv, [RegistryNext]_vars, fault' = "none"
  PROVE  ModulesInv'
<1>1. CASE Continue
  BY <1>1, LoadingSteps, ClosingSteps DEF Continue
<1>2. CASE Calls
  BY <1>2, CallSteps DEF Calls
<1>3. CASE \E l \in Libraries : Upgrade(l)
  BY <1>3 DEF Upgrade, process, ModulesInv, PlaceTells, Loading
<1>4. CASE Crash
  BY <1>4 DEF Crash, Rest, ModulesInv, PlaceTells, Loading
<1>5. CASE UNCHANGED vars
  BY <1>5 DEF vars, process, ModulesInv, PlaceTells, Loading
<1> QED
  BY <1>1, <1>2, <1>3, <1>4, <1>5 DEF RegistryNext

LEMMA ModulesInvHolds == RegistrySpec => [](fault = "none" => ModulesInv)
<1> DEFINE Inv == fault = "none" => ModulesInv
<1>1. RegistryInit => Inv
  BY DEF RegistryInit, Rest, ModulesInv, PlaceTells, Loading
<1>2. Inv /\ [RegistryNext]_vars => Inv'
  BY ModulesStep
<1> QED
  BY <1>1, <1>2, PTL DEF RegistrySpec

\* The modules are there between the first xCOM_Init and the last xCOM_Destroy,
\* and at no other time, whichever of them fails to start.
THEOREM ModulesBalancedCorrect == RegistrySpec => []ModulesBalanced
<1>1. (fault = "none" => ModulesInv) => ModulesBalanced
  BY DEF ModulesInv, ModulesBalanced, Rest
<1> QED
  BY <1>1, ModulesInvHolds, PTL

-----------------------------------------------------------------------------
(* Ports are those of the library *)

\* The first ports of the version from of a library; 0 if they are not.
Faithful(lib, from, slots, ports) ==
  from # 0 => /\ slots = Len(Declared[lib][from])
              /\ \A k \in DOMAIN ports : ports[k] = Declared[lib][from][k]

ComponentFaithful(c) ==
  /\ Faithful(c.lib, c.from, c.slots, c.ports)
  /\ c.wired # 0 => c.slots = Len(c.ports)

AllFaithful == \A id \in DOMAIN components : ComponentFaithful(components[id])

\* Torn caches, too.
CachesFaithful ==
  \A l \in Libraries :
    cache[l] # NoCache => Faithful(l, cache[l].from, cache[l].slots, cache[l].ports)

\* A component that is read from a cache has as many ports as were read,
\* unless one was skipped.
FillingFaithful ==
  act.at \in {"parse", "declare", "write"} =>
    LET c == components[act.id]
        file == cache[act.lib]
    IN  /\ c.lib = act.lib /\ c.wired = 0
        /\ act.at = "parse" => /\ file # NoCache
                               /\ c.from # 0 => c.from = file.from /\ Len(c.ports) = act.k

DataInv == AllFaithful /\ CachesFaithful /\ FillingFaithful

LEMMA OneFaithful ==
  ASSUME TypeInv, AllFaithful, NEW id \in DOMAIN components, NEW d, ComponentFaithful(d),
         components' = [components EXCEPT ![id] = d]
  PROVE  AllFaithful'
BY DEF TypeInv, ComponentsOK, AllFaithful

LEMMA PortFaithful ==
  ASSUME NEW c \in Component, ComponentFaithful(c), c.wired = 0, NEW port \in Port,
         NEW orphans, NEW unlinked,
         c.from # 0 => port = Declared[c.lib][c.from][Len(c.ports) + 1]
  PROVE  LET d == WithPort(c, port, orphans, unlinked)
         IN  /\ ComponentFaithful(d) /\ d.lib = c.lib /\ d.wired = 0 /\ d.from = c.from
             /\ Len(d.ports) = Len(c.ports) + 1
<1> DEFINE d == WithPort(c, port, orphans, unlinked)
<1>1. /\ d.lib = c.lib /\ d.wired = c.wired /\ d.from = c.from /\ d.slots = c.slots
      /\ d.ports = Append(c.ports, port)
  BY DEF Component, WithPort
<1>2. /\ Len(c.ports) \in Nat /\ Len(d.ports) = Len(c.ports) + 1
      /\ DOMAIN d.ports = 1 .. Len(c.ports) + 1 /\ DOMAIN c.ports = 1 .. Len(c.ports)
      /\ \A k \in DOMAIN c.ports : d.ports[k] = c.ports[k]
      /\ d.ports[Len(c.ports) + 1] = port
  <2>1. c.ports \in Seq(Port)
    BY ComponentFields
  <2> QED
    BY <1>1, <2>1, AppendProperties
<1> HIDE DEF d
<1>3. ASSUME c.from # 0, NEW k \in DOMAIN d.ports
      PROVE  d.ports[k] = Declared[c.lib][c.from][k]
  <2>1. CASE k \in DOMAIN c.ports
    BY <1>2, <1>3, <2>1 DEF ComponentFaithful, Faithful
  <2>2. CASE k = Len(c.ports) + 1
    BY <1>2, <1>3, <2>2
  <2> QED
    BY <1>2, <2>1, <2>2
<1>4. ComponentFaithful(d)
  BY <1>1, <1>3 DEF ComponentFaithful, Faithful
<1> QED
  BY <1>1, <1>2, <1>4 DEF d

LEMMA FieldsFaithful ==
  ASSUME NEW c \in Component, ComponentFaithful(c), NEW from \in {0, c.from},
         NEW wired, wired \in {0, c.wired} \/ c.slots = Len(c.ports), NEW freed, NEW gone
  PROVE  LET d == WithFields(c, from, wired, freed, gone)
         IN  ComponentFaithful(d) /\ d.lib = c.lib /\ d.from = from /\ d.wired = wired
<1> DEFINE d == WithFields(c, from, wired, freed, gone)
<1>1. /\ d.lib = c.lib /\ d.wired = wired /\ d.from = from /\ d.slots = c.slots
      /\ d.ports = c.ports
  BY DEF Component, WithFields
<1> HIDE DEF d
<1>2. ComponentFaithful(d)
  BY <1>1 DEF ComponentFaithful, Faithful
<1> QED
  BY <1>1, <1>2 DEF d

LEMMA FileFaithful ==
  ASSUME NEW c \in Component, ComponentFaithful(c), NEW file \in {Written(c)} \cup Torn(c)
  PROVE  Faithful(c.lib, file.from, file.slots, file.ports)
<1>1. CASE file = Written(c)
  BY <1>1 DEF Written, ComponentFaithful
<1>2. CASE file \in Torn(c)
  <2>1. PICK n \in 0 .. Len(c.ports) :
          file = [ports |-> SubSeq(c.ports, 1, n), slots |-> c.slots, from |-> c.from,
                  whole |-> FALSE]
    BY <1>2 DEF Torn
  <2>2. c.ports \in Seq(Port)
    BY ComponentFields
  <2>3. \A k \in 1 .. n : c.ports[k] \in Port
    BY <2>2, ElementOfSeq
  <2>4. /\ DOMAIN file.ports = 1 .. n
        /\ \A k \in 1 .. n : file.ports[k] = c.ports[k]
    BY <2>1, <2>2, <2>3, SubSeqProperties
  <2>5. file.from = c.from /\ file.slots = c.slots
    BY <2>1
  <2> QED
    BY <2>2, <2>4, <2>5 DEF ComponentFaithful, Faithful
<1> QED
  BY <1>1, <1>2

\* A port is added to the component that is being read.
LEMMA FilledFaithful ==
  ASSUME TypeInv, DataInv, act.at \in {"parse", "declare"},
         NEW port \in Port, NEW orphans, NEW unlinked, Filled(port, orphans, unlinked),
         LET c == components[act.id]
         IN  c.from # 0 => port = Declared[c.lib][c.from][Len(c.ports) + 1]
  PROVE  LET c == components[act.id]
             d == components'[act.id]
         IN  /\ AllFaithful' /\ d.lib = c.lib /\ d.wired = 0 /\ d.from = c.from
             /\ Len(d.ports) = Len(c.ports) + 1
<1> DEFINE c == components[act.id]
           d == WithPort(c, port, orphans, unlinked)
<1>1. /\ act.id \in DOMAIN components /\ components \in Seq(Component) /\ c \in Component
  BY FillingComponent
<1>2. ComponentFaithful(c) /\ c.wired = 0
  BY <1>1 DEF DataInv, AllFaithful, FillingFaithful
<1>3. c.from # 0 => port = Declared[c.lib][c.from][Len(c.ports) + 1]
  OBVIOUS
<1> HIDE DEF c
<1>4. /\ ComponentFaithful(d) /\ d.lib = c.lib /\ d.wired = 0 /\ d.from = c.from
      /\ Len(d.ports) = Len(c.ports) + 1
  BY <1>1, <1>2, <1>3, PortFaithful
<1>5. components' = [components EXCEPT ![act.id] = d]
  BY DEF Filled, c
<1> HIDE DEF d
<1>6. AllFaithful'
  BY <1>1, <1>4, <1>5, OneFaithful DEF DataInv
<1>7. components'[act.id] = d
  BY <1>1, <1>5
<1> QED
  BY <1>4, <1>6, <1>7 DEF c

LEMMA SameData ==
  ASSUME DataInv, components' = components, cache' = cache,
         act' = act \/ act'.at \notin {"parse", "declare", "write"}
  PROVE  DataInv'
<1>1. AllFaithful' /\ CachesFaithful'
  BY DEF DataInv, AllFaithful, CachesFaithful
<1>2. FillingFaithful'
  BY DEF DataInv, FillingFaithful
<1> QED
  BY <1>1, <1>2 DEF DataInv

\* Other fields of a component change, while none is read.
LEMMA AlteredData ==
  ASSUME TypeInv, DataInv, cache' = cache, act'.at \notin {"parse", "declare", "write"},
         NEW id \in DOMAIN components, NEW wired, NEW freed, NEW gone,
         wired \in {0, components[id].wired} \/ components[id].slots = Len(components[id].ports),
         Altered(id, components[id].from, wired, freed, gone)
  PROVE  DataInv'
<1> DEFINE c == components[id]
           d == WithFields(c, c.from, wired, freed, gone)
<1>1. c \in Component /\ ComponentFaithful(c)
  BY ComponentType DEF DataInv, AllFaithful
<1>2. ComponentFaithful(d)
  <2>1. wired \in {0, c.wired} \/ c.slots = Len(c.ports)
    OBVIOUS
  <2> HIDE DEF c
  <2> QED
    BY <1>1, <2>1, FieldsFaithful
<1>3. components' = [components EXCEPT ![id] = d]
  BY DEF Altered
<1> HIDE DEF d
<1>4. AllFaithful'
  BY <1>2, <1>3, OneFaithful DEF DataInv
<1>5. CachesFaithful' /\ FillingFaithful'
  BY DEF DataInv, CachesFaithful, FillingFaithful
<1> QED
  BY <1>4, <1>5 DEF DataInv

LEMMA InUseData ==
  ASSUME TypeInv, DataInv, NEW id \in DOMAIN components,
         component_load(id) \/ component_unload(id)
  PROVE  DataInv'
<1> DEFINE c == components[id]
<1>1. c \in Component /\ cache' = cache /\ act'.at = "idle"
  BY ComponentType DEF component_load, component_unload, persistent, Rest, port_enable, port_disable
<1>2. CASE component_load(id)
  <2>1. Altered(id, c.from, Opened(c.lib), c.freed, c.gone)
    BY <1>1, <1>2, FieldForms DEF component_load, Altered, port_enable
  <2>2. c.slots = Len(c.ports)
    BY <1>2 DEF component_load, port_enable
  <2> QED
    BY <1>1, <2>1, <2>2, AlteredData
<1>3. CASE component_unload(id)
  <2>1. Altered(id, c.from, 0, c.freed, c.gone)
    BY <1>1, <1>3, FieldForms DEF component_unload, Altered, port_disable
  <2> QED
    BY <1>1, <2>1, AlteredData
<1> QED
  BY <1>2, <1>3

LEMMA FreeingData ==
  ASSUME TypeInv, DataInv, port_free \/ FreeEnds \/ Destroyed
  PROVE  DataInv'
<1> DEFINE c == components[act.id]
<1>1. act.id \in DOMAIN components /\ act \in Call
  BY DEF TypeInv, ActOK, port_free, FreeEnds, Destroyed, port_disable
<1>2. c \in Component /\ cache' = cache
  BY <1>1, ComponentType DEF port_free, FreeEnds, Destroyed, persistent, port_disable
<1>3. CASE port_free
  <2>1. Altered(act.id, c.from, c.wired, c.freed + 1, c.gone) /\ act' = act /\ act.at = "free"
    BY <1>2, <1>3, FieldForms DEF port_free, Altered
  <2> QED
    BY <1>1, <1>2, <2>1, AlteredData
<1>4. CASE FreeEnds
  <2>1. Altered(act.id, c.from, c.wired, c.freed, TRUE)
    BY <1>2, <1>4, FieldForms DEF FreeEnds, Altered
  <2>2. act'.at = act.then /\ act.then \in {"introspect", "close"}
    BY <1>1, <1>4 DEF FreeEnds, Call, TypeInv, ActOK
  <2> QED
    BY <1>1, <1>2, <2>1, <2>2, AlteredData
<1>5. CASE Destroyed
  <2>1. Altered(act.id, c.from, 0, c.freed, c.gone)
    BY <1>2, <1>5, FieldForms DEF Destroyed, Altered, port_disable
  <2>2. act'.at = "free"
    BY <1>1, <1>5 DEF Destroyed, Call, port_disable
  <2> QED
    BY <1>1, <1>2, <2>1, <2>2, AlteredData
<1> QED
  BY <1>3, <1>4, <1>5

\* A component is created for the library of the call.
LEMMA CreatedData ==
  ASSUME TypeInv, DataInv, NEW c \in Component, ComponentFaithful(c),
         NEW at \in Places, Created(c, at),
         cache' = cache, c.lib = act.lib, c.wired = 0,
         at = "parse" => /\ cache[act.lib] # NoCache /\ c.from = cache[act.lib].from
                         /\ c.ports = <<>>
  PROVE  DataInv'
<1>1. /\ components \in Seq(Component) /\ Len(components) \in Nat /\ act \in Call
      /\ components' = Append(components, c)
  BY DEF TypeInv, ComponentsOK, ActOK, Created
<1>2. /\ DOMAIN components' = 1 .. Len(components) + 1
      /\ \A id \in DOMAIN components : components'[id] = components[id]
      /\ components'[Len(components) + 1] = c
      /\ DOMAIN components = 1 .. Len(components)
  BY <1>1, AppendProperties
<1>3. AllFaithful'
  <2> SUFFICES ASSUME NEW id \in DOMAIN components' PROVE ComponentFaithful(components'[id])
    BY DEF AllFaithful
  <2>1. CASE id \in DOMAIN components
    BY <1>2, <2>1 DEF DataInv, AllFaithful
  <2>2. CASE id = Len(components) + 1
    BY <1>2, <2>2
  <2> QED
    BY <1>2, <2>1, <2>2
<1>4. CachesFaithful'
  BY DEF DataInv, CachesFaithful
<1>5. act'.lib = act.lib /\ act'.at = at /\ act'.id = Len(components) + 1 /\ act'.k = 0
  <2> DEFINE id == Len(components) + 1
  <2>1. act' = [act EXCEPT !.at = at, !.id = id, !.k = 0]
    BY DEF Created
  <2> HIDE DEF id
  <2>2. act'.lib = act.lib /\ act'.at = at /\ act'.id = id /\ act'.k = 0
    BY <1>1, <2>1 DEF Call
  <2> QED
    BY <2>2 DEF id
<1>6. Len(<<>>) = 0
  BY EmptySeq
<1>7. FillingFaithful'
  BY <1>2, <1>5, <1>6 DEF FillingFaithful
<1> QED
  BY <1>3, <1>4, <1>7 DEF DataInv

NewFrom(l, from, slots) == [NewComponent(l) EXCEPT !.slots = slots, !.from = from]

LEMMA NewFaithful ==
  ASSUME NEW l \in Libraries, NEW from \in Nat, NEW slots \in Nat,
         from # 0 => slots = Len(Declared[l][from]), NEW c, c = NewFrom(l, from, slots)
  PROVE  /\ c \in Component /\ ComponentFaithful(c)
         /\ c.lib = l /\ c.wired = 0 /\ c.from = from /\ c.ports = <<>>
<1>1. <<>> \in Seq(Port) /\ DOMAIN <<>> = {}
  BY EmptySeq
<1>2. NewComponent(l) \in Component
  BY <1>1 DEF Component, NewComponent
<1>3. c \in Component
  BY <1>2 DEF Component, NewFrom
<1>4. c.lib = l /\ c.wired = 0 /\ c.from = from /\ c.ports = <<>> /\ c.slots = slots
  BY DEF NewComponent, NewFrom
<1>5. ComponentFaithful(c)
  BY <1>1, <1>4 DEF ComponentFaithful, Faithful
<1> QED
  BY <1>3, <1>4, <1>5

LEMMA CacheReadData == ASSUME TypeInv, DataInv, CacheRead PROVE DataInv'
<1> DEFINE file == cache[act.lib]
           c == NewFrom(act.lib, file.from, file.slots)
<1>1. act.lib \in Libraries /\ file \in Cache /\ file # NoCache /\ cache' = cache
  BY DEF CacheRead, persistent, TypeInv, ActOK, InstalledOK
<1>2. file.slots \in Nat /\ file.from \in Nat
  BY <1>1 DEF Cache
<1>3. file.from # 0 => file.slots = Len(Declared[act.lib][file.from])
  BY <1>1 DEF DataInv, CachesFaithful, Faithful
<1>4. Created(c, "parse") /\ "parse" \in Places /\ c = NewFrom(act.lib, file.from, file.slots)
  BY DEF CacheRead, Places, NewFrom
<1> HIDE DEF file, c
<1>5. /\ c \in Component /\ ComponentFaithful(c)
      /\ c.lib = act.lib /\ c.wired = 0 /\ c.from = file.from /\ c.ports = <<>>
  BY <1>1, <1>2, <1>3, <1>4, NewFaithful
<1> QED
  BY <1>1, <1>4, <1>5, CreatedData DEF file

LEMMA IntrospectData ==
  ASSUME TypeInv, DataInv, Introspect \/ IntrospectNoPorts
  PROVE  DataInv'
<1> DEFINE l == act.lib
           v == Opened(l)
<1>1. l \in Libraries /\ cache' = cache
  BY DEF Introspect, IntrospectNoPorts, TypeInv, ActOK, persistent
<1>2. v \in DOMAIN Declared[l] /\ v \in Nat
  BY <1>1, OpenedType
<1>3. Len(Declared[l][v]) \in Nat
  BY <1>1, <1>2, RegistryAssumption
<1>4. PICK from \in Nat, slots \in Nat, at \in {"write", "declare"} :
        /\ Created(NewFrom(l, from, slots), at)
        /\ from # 0 => slots = Len(Declared[l][from])
  <2>1. CASE Introspect
    <3>1. Created([NewComponent(l) EXCEPT !.slots = Len(Declared[l][v]), !.from = v],
                  IF Declared[l][v] = <<>> THEN "write" ELSE "declare")
      <4>1. [NewComponent(l) EXCEPT !.slots = Len(Declared[l][v]), !.from = v]
              = [NewComponent(l) EXCEPT !.from = v, !.slots = Len(Declared[l][v])]
        BY DEF NewComponent
      <4> QED
        BY <2>1, <4>1 DEF Introspect, v
    <3> QED
      BY <1>2, <1>3, <3>1 DEF NewFrom
  <2>2. CASE IntrospectNoPorts
    <3>1. Created(NewComponent(l), "write")
      BY <2>2 DEF IntrospectNoPorts
    <3>2. NewComponent(l) = [NewComponent(l) EXCEPT !.slots = 0, !.from = 0]
      <4> DEFINE n == NewComponent(l)
      <4>1. n \in Component /\ n.slots = 0 /\ n.from = 0
        BY <1>1, EmptySeq DEF NewComponent, Component
      <4> HIDE DEF n
      <4>2. n = [n EXCEPT !.slots = 0, !.from = 0]
        BY <4>1 DEF Component
      <4> QED
        BY <4>2 DEF n
    <3> QED
      BY <3>1, <3>2 DEF NewFrom
  <2> QED
    BY <2>1, <2>2
<1> DEFINE c == NewFrom(l, from, slots)
<1>5. c \in Component /\ ComponentFaithful(c) /\ c.lib = l /\ c.wired = 0
  <2>1. from # 0 => slots = Len(Declared[l][from])
    BY <1>4
  <2>2. from \in Nat /\ slots \in Nat /\ l \in Libraries
    BY <1>1
  <2>3. c = NewFrom(l, from, slots)
    OBVIOUS
  <2> HIDE DEF l, v, c
  <2> QED
    BY <2>1, <2>2, <2>3, NewFaithful
<1>6. Created(c, at) /\ at \in Places
  BY <1>4 DEF Places
<1> HIDE DEF c
<1> QED
  BY <1>1, <1>5, <1>6, CreatedData

LEMMA ParseData ==
  ASSUME TypeInv, DataInv, ParsePort \/ ParseUnlinked
  PROVE  DataInv'
<1> DEFINE c == components[act.id]
           file == cache[act.lib]
           port == file.ports[act.k + 1]
<1>1. /\ act.at = "parse" /\ act.at \in {"parse", "declare"} /\ port \in Port
      /\ cache' = cache
      /\ act'.lib = act.lib /\ act'.id = act.id /\ act'.at = act.at
  BY ParsedPort, NextPort DEF ParsePort, ParseUnlinked, persistent
<1>2. act \in Call /\ act.k \in Nat /\ act'.k = act.k + 1
  BY DEF ParsePort, ParseUnlinked, TypeInv, ActOK, Call
<1>3. /\ c.lib = act.lib /\ file # NoCache
      /\ c.from # 0 => c.from = file.from /\ Len(c.ports) = act.k
  BY <1>1 DEF DataInv, FillingFaithful
<1>4. c.from # 0 => port = Declared[c.lib][c.from][Len(c.ports) + 1]
  <2>1. act.lib \in Libraries /\ act.k + 1 \in DOMAIN file.ports
    <3>1. file \in Cache /\ act.lib \in Libraries /\ act.k < Len(file.ports)
      BY <1>1 DEF TypeInv, ActOK, ParsePort, ParseUnlinked
    <3>2. file.ports \in Seq(Port)
      BY <3>1 DEF Cache
    <3> QED
      BY <1>2, <3>1, <3>2
  <2> QED
    BY <1>3, <2>1 DEF DataInv, CachesFaithful, Faithful
<1>5. PICK orphans, unlinked : Filled(port, orphans, unlinked)
  BY ParsePortFills, ParseUnlinkedFills
<1>6. /\ AllFaithful' /\ components'[act.id].lib = c.lib /\ components'[act.id].wired = 0
      /\ components'[act.id].from = c.from
      /\ Len(components'[act.id].ports) = Len(c.ports) + 1
  <2> HIDE DEF port
  <2> QED
    BY <1>1, <1>4, <1>5, FilledFaithful
<1>7. CachesFaithful'
  BY <1>1 DEF DataInv, CachesFaithful
<1>8. FillingFaithful'
  BY <1>1, <1>2, <1>3, <1>6 DEF FillingFaithful
<1> QED
  BY <1>6, <1>7, <1>8 DEF DataInv

LEMMA DeclareData ==
  ASSUME TypeInv, DataInv, DeclarePort \/ DeclareOrphan
  PROVE  DataInv'
<1> DEFINE c == components[act.id]
           port == Declared[c.lib][c.from][Len(c.ports) + 1]
<1>1. /\ act.at = "declare" /\ act.at \in {"parse", "declare"} /\ port \in Port
      /\ cache' = cache
      /\ act'.lib = act.lib /\ act'.id = act.id /\ act'.at \in {"write", "declare"}
  BY DeclaredPort, DeclaredNext DEF DeclarePort, DeclareOrphan, persistent
<1>2. c.lib = act.lib
  BY <1>1 DEF DataInv, FillingFaithful
<1>3. PICK orphans, unlinked : Filled(port, orphans, unlinked)
  BY DeclarePortFills, DeclareOrphanFills
<1>4. /\ AllFaithful' /\ components'[act.id].lib = c.lib /\ components'[act.id].wired = 0
  <2>1. c.from # 0 => port = Declared[c.lib][c.from][Len(c.ports) + 1]
    OBVIOUS
  <2> HIDE DEF port
  <2> QED
    BY <1>1, <1>3, <2>1, FilledFaithful
<1>5. CachesFaithful'
  BY <1>1 DEF DataInv, CachesFaithful
<1>6. FillingFaithful'
  BY <1>1, <1>2, <1>4 DEF FillingFaithful
<1> QED
  BY <1>4, <1>5, <1>6 DEF DataInv

LEMMA SkippedData == ASSUME TypeInv, DataInv, ParseSkipped PROVE DataInv'
<1> DEFINE c == components[act.id]
           d == WithFields(c, 0, c.wired, c.freed, c.gone)
<1>1. /\ act.at = "parse" /\ act.at \in {"parse", "declare"} /\ cache' = cache
      /\ act'.lib = act.lib /\ act'.id = act.id /\ act'.at = act.at
  BY NextPort DEF ParseSkipped, persistent
<1>2. act.id \in DOMAIN components /\ components \in Seq(Component) /\ c \in Component
  BY <1>1, FillingComponent
<1>3. ComponentFaithful(c) /\ c.lib = act.lib /\ c.wired = 0 /\ cache[act.lib] # NoCache
  BY <1>1, <1>2 DEF DataInv, AllFaithful, FillingFaithful
<1>4. components' = [components EXCEPT ![act.id] = d]
  BY <1>2, FieldForms DEF ParseSkipped
<1> HIDE DEF c
<1>5. ComponentFaithful(d) /\ d.lib = c.lib /\ d.from = 0 /\ d.wired = c.wired
  BY <1>2, <1>3, FieldsFaithful
<1> HIDE DEF d
<1>6. AllFaithful' /\ components'[act.id] = d
  BY <1>2, <1>4, <1>5, OneFaithful DEF DataInv
<1>7. CachesFaithful'
  BY <1>1 DEF DataInv, CachesFaithful
<1>8. FillingFaithful'
  BY <1>1, <1>3, <1>5, <1>6 DEF FillingFaithful
<1> QED
  BY <1>6, <1>7, <1>8 DEF DataInv

\* The cache file of a library is as it was, or written to its end or not.
LEMMA WrittenFaithful ==
  ASSUME TypeInv, DataInv, act.at = "write",
         NEW file \in {cache[act.lib], Written(components[act.id])} \cup Torn(components[act.id]),
         cache' = [cache EXCEPT ![act.lib] = file]
  PROVE  CachesFaithful'
<1> DEFINE c == components[act.id]
<1>1. act.id \in DOMAIN components /\ act.lib \in Libraries /\ cache \in [Libraries -> Cache \cup {NoCache}]
  BY DEF TypeInv, ActOK, InstalledOK
<1>2. c \in Component /\ ComponentFaithful(c) /\ c.lib = act.lib
  BY <1>1, ComponentType DEF DataInv, AllFaithful, FillingFaithful
<1>3. file # NoCache => Faithful(act.lib, file.from, file.slots, file.ports)
  <2>1. CASE file = cache[act.lib]
    BY <1>1, <2>1 DEF DataInv, CachesFaithful
  <2>2. CASE file # cache[act.lib]
    <3>1. file \in {Written(c)} \cup Torn(c)
      BY <2>2
    <3> HIDE DEF c
    <3> QED
      BY <1>2, <3>1, FileFaithful
  <2> QED
    BY <2>1, <2>2
<1> QED
  BY <1>1, <1>3 DEF DataInv, CachesFaithful

LEMMA cache_createData == ASSUME TypeInv, DataInv, cache_create PROVE DataInv'
<1>1. CachesFaithful'
  BY WrittenFaithful DEF cache_create
<1>2. AllFaithful'
  BY DEF cache_create, DataInv, AllFaithful
<1>3. FillingFaithful'
  <2>1. act'.at = "scan"
    BY DEF TypeInv, ActOK, cache_create, Listed, Call
  <2> QED
    BY <2>1 DEF FillingFaithful
<1> QED
  BY <1>1, <1>2, <1>3 DEF DataInv

LEMMA CrashData == ASSUME TypeInv, DataInv, Crash PROVE DataInv'
<1>1. CachesFaithful'
  <2>1. CASE act.at = "write"
    BY <2>1, WrittenFaithful DEF Crash
  <2>2. CASE act.at # "write"
    BY <2>2 DEF Crash, DataInv, CachesFaithful
  <2> QED
    BY <2>1, <2>2
<1>2. components' = <<>> /\ act'.at = "idle"
  BY DEF Crash, Rest
<1>3. AllFaithful' /\ FillingFaithful'
  BY <1>2 DEF AllFaithful, FillingFaithful
<1> QED
  BY <1>1, <1>3 DEF DataInv

LEMMA EmptyData ==
  ASSUME DataInv, components' = <<>>, cache' = cache, act' = Rest
  PROVE  DataInv'
<1>1. AllFaithful' /\ CachesFaithful' /\ FillingFaithful'
  BY DEF AllFaithful, CachesFaithful, FillingFaithful, DataInv, Rest
<1> QED
  BY <1>1 DEF DataInv

LEMMA NextData == TypeInv /\ DataInv /\ [RegistryNext]_vars => DataInv'
<1> SUFFICES ASSUME TypeInv, DataInv, [RegistryNext]_vars PROVE DataInv'
  OBVIOUS
<1>1. act \in Call
  BY DEF TypeInv, ActOK
<1>2. CASE Continue
  <2>1. ASSUME NEW l \in Libraries, NextFile(l) PROVE DataInv'
    <3>1. act'.at \in {"introspect", "cache"}
      BY <1>1, <2>1 DEF NextFile, Call
    <3> QED
      BY <2>1, <3>1, SameData DEF NextFile, persistent
  <2>2. CASE LoadEnds \/ ParseEnds \/ IntrospectFails
    <3>1. CASE LoadEnds
      BY <3>1, SameData DEF LoadEnds, persistent, Rest
    <3>2. CASE ParseEnds \/ IntrospectFails
      <4>1. act'.at = "scan"
        BY <1>1, <3>2 DEF ParseEnds, IntrospectFails, Listed, Call
      <4> QED
        BY <3>2, <4>1, SameData DEF ParseEnds, IntrospectFails, persistent
    <3> QED
      BY <2>2, <3>1, <3>2
  <2>3. CASE CacheUnread \/ ParseFails \/ CloseComponent
    <3>1. act'.at \in {"introspect", "free", "destroy"}
      BY <1>1, <2>3 DEF CacheUnread, ParseFails, CloseComponent, Call
    <3> QED
      BY <2>3, <3>1, SameData DEF CacheUnread, ParseFails, CloseComponent, persistent
  <2>4. CASE CloseBundle
    BY <2>4, SameData DEF CloseBundle, persistent
  <2>5. CASE \/ CacheRead \/ ParsePort \/ ParseSkipped \/ ParseUnlinked
             \/ Introspect \/ IntrospectNoPorts \/ DeclarePort \/ DeclareOrphan \/ cache_create
    BY <2>5, CacheReadData, ParseData, SkippedData, IntrospectData, DeclareData, cache_createData
  <2>6. CASE port_free \/ FreeEnds \/ Destroyed
    BY <2>6, FreeingData
  <2>7. CASE CloseModules
    BY <2>7, EmptyData DEF CloseModules, persistent
  <2> QED
    BY <1>2, <2>1, <2>2, <2>3, <2>4, <2>5, <2>6, <2>7 DEF Continue
<1>3. CASE Calls
  <2>1. CASE xCOM_Init
    BY <2>1, SameData, EmptyData DEF xCOM_Init, Booted
  <2>2. CASE InitCleans \/ InitDies
    BY <2>2, SameData DEF InitCleans, InitDies
  <2>3. CASE xCOM_Destroy
    <3>1. act'.at \in {"close", "idle"}
      BY <2>3 DEF xCOM_Destroy, Rest
    <3> QED
      BY <2>3, <3>1, SameData DEF xCOM_Destroy, persistent
  <2>4. ASSUME NEW b \in Bundles, NEW ignore \in BOOLEAN, xCOM_LoadComponentBundle(b, ignore)
        PROVE  DataInv'
    <3>1. act'.at = "scan"
      BY <2>4 DEF xCOM_LoadComponentBundle, Rest, bundle_new
    <3> QED
      BY <2>4, <3>1, SameData DEF xCOM_LoadComponentBundle, persistent, bundle_new
  <2>5. ASSUME NEW id \in DOMAIN components, component_load(id) \/ component_unload(id)
        PROVE  DataInv'
    BY <2>5, InUseData
  <2>6. ASSUME NEW query \in Queries, query_get_candidates(query) PROVE DataInv'
    BY <2>6, SameData DEF query_get_candidates, persistent
  <2> QED
    BY <1>3, <2>1, <2>2, <2>3, <2>4, <2>5, <2>6 DEF Calls
<1>4. ASSUME NEW l \in Libraries, Upgrade(l) PROVE DataInv'
  BY <1>4, SameData DEF Upgrade, process
<1>5. CASE Crash
  BY <1>5, CrashData
<1>6. CASE UNCHANGED vars
  BY <1>6, SameData DEF vars, process
<1> QED
  BY <1>2, <1>3, <1>4, <1>5, <1>6 DEF RegistryNext

LEMMA DataPorts == TypeInv /\ DataInv => PortsAsDeclared
<1> SUFFICES ASSUME TypeInv, DataInv, NEW id \in DOMAIN components,
                    components[id].wired # 0, components[id].from = components[id].wired
             PROVE  components[id].ports = Declared[components[id].lib][components[id].wired]
  BY DEF PortsAsDeclared
<1> DEFINE c == components[id]
           table == Declared[c.lib][c.wired]
<1>1. /\ ComponentFaithful(c) /\ c.lib \in Libraries /\ c.ports \in Seq(Port)
      /\ c.wired \in 0 .. version[c.lib] /\ version[c.lib] \in DOMAIN Declared[c.lib]
  BY ComponentType DEF DataInv, AllFaithful, TypeInv, InstalledOK
<1>2. c.wired \in DOMAIN Declared[c.lib] /\ Declared[c.lib] \in Seq(Seq(Port))
  <2>1. Declared[c.lib] \in Seq(Seq(Port))
    BY <1>1, RegistryAssumption
  <2>2. c.wired # 0
    OBVIOUS
  <2>3. /\ DOMAIN Declared[c.lib] = 1 .. Len(Declared[c.lib])
        /\ Len(Declared[c.lib]) \in Nat
    BY <2>1
  <2>4. version[c.lib] \in Nat /\ c.wired \in 0 .. version[c.lib] /\ version[c.lib] <= Len(Declared[c.lib])
    BY <1>1, <2>3
  <2> HIDE DEF c
  <2> QED
    BY <2>1, <2>2, <2>3, <2>4
<1>3. table \in Seq(Port)
  BY <1>2
<1>4. Len(c.ports) = Len(table) /\ \A k \in DOMAIN c.ports : c.ports[k] = table[k]
  BY <1>1 DEF ComponentFaithful, Faithful
<1> HIDE DEF table, c
<1>5. c.ports = table
  BY <1>1, <1>3, <1>4, SeqEqual
<1> QED
  BY <1>5 DEF c, table

\* The invariant of the specification, with that of the types.
LEMMA DataInvHolds == RegistrySpec => []DataInv
<1>1. RegistryInit => DataInv
  BY DEF RegistryInit, DataInv, AllFaithful, CachesFaithful, FillingFaithful, Rest
<1>2. TypeInv /\ DataInv /\ [RegistryNext]_vars => DataInv'
  BY NextData
<1> QED
  BY <1>1, <1>2, TypeInvHolds, PTL DEF RegistrySpec

\* A component that is loaded has the ports its library declares, however many
\* caches were torn or skipped, libraries replaced and processes ended.
THEOREM PortsCorrect == RegistrySpec => []PortsAsDeclared
BY DataInvHolds, TypeInvHolds, DataPorts, PTL
=============================================================================
