------------------------------ MODULE Registry ------------------------------
(***************************************************************************)
(* Bundles, components and the registry of provided ports: what            *)
(* xCOM_LoadComponentBundle finds in the cache files and the libraries of a *)
(* bundle (component.c, cache.c), the hash of the lists of providers       *)
(* (ports.c), the providers a query finds (query.c, interfaces.c), and the *)
(* modules that xCOM_Init and xCOM_Destroy start and stop (init.c).        *)
(*                                                                         *)
(* The versions of the libraries and the cache files outlive the process.  *)
(* A process may end at any step; an allocation that fails where the code  *)
(* asserts that it did not is such an end.  A hash entry keeps the         *)
(* interface name of the port that created it, without a copy: once that   *)
(* port is freed, comparing the key with a name can go either way.         *)
(* A bundle whose directory cannot be opened is not loaded, and            *)
(* xCOM_LoadComponentBundle returns XC_OK: nothing changes.                *)
(***************************************************************************)
EXTENDS Naturals, SequencesExt

CONSTANTS
  Libraries,      \* the code files, and the names of their components
  NoLibrary,      \* NULL
  Bundles,        \* paths of bundles
  Files,          \* the libraries of each bundle
  Interfaces,     \* interface names
  PortNames,      \* what ports and queries give as the port that is meant
  NoPort,         \* NULL
  Declared,       \* the port tables of the versions of each library
  Queries,        \* the queries that clients do
  NoCache,        \* there is no cache file
  MaxComponents,  \* bound: components created between xCOM_Init and xCOM_Destroy
  MaxTroubles     \* bound: processes that end too early and allocations that fail

\* The interface a port provides or requires; a provided port is found by queries.
Port  == [iface : Interfaces, major : Nat, minor : Nat, provided : BOOLEAN,
          port : PortNames \cup {NoPort}]
Query == [iface : Interfaces, major : Nat, minor : Nat, server : Libraries \cup {NoLibrary},
          port : PortNames \cup {NoPort}]

ASSUME RegistryAssumption ==
  /\ NoLibrary \notin Libraries /\ NoPort \notin PortNames
  /\ Files \in [Bundles -> SUBSET Libraries]
  /\ Declared \in [Libraries -> Seq(Seq(Port)) \ {<<>>}]
  /\ Queries \subseteq Query
  /\ MaxComponents \in Nat /\ MaxTroubles \in Nat

VARIABLES
  version,      \* the version of each library that is installed
  cache,        \* the cache file of each library
  mapped,       \* the version introspection mapped into the process, or 0
  initialized,  \* how often xCOM_Init was called
  modules,      \* the modules that are initialised
  bundles,      \* the list of bundles, each with its list of components
  components,   \* the components created so far, freed ones included
  hash,         \* providersHash: the entries of each interface, in their order
  act,          \* what the call under way does next
  found,        \* the ports the last call found
  fault,        \* undefined behaviour, which ends a behaviour
  stale,        \* history: a freed key was compared since xCOM_Init
  crashes, shortages

process == <<mapped, initialized, modules, bundles, components, hash, act, found, fault, stale>>
vars == <<version, cache, process, crashes, shortages>>

\* from is the version whose table was copied as a whole, or 0; slots is
\* portsCount; ports are the pointers that are not NULL; wired is the version
\* that component_load mapped, or 0; freed counts ports that were freed.
\* Those in orphans are on a list the hash does not know, those in unlinked on none.
Component == [lib : Libraries, from : Nat, slots : Nat, ports : Seq(Port), wired : Nat,
              orphans : SUBSET Nat, unlinked : SUBSET Nat, freed : Nat, gone : BOOLEAN]
Cache == [ports : Seq(Port), slots : Nat, from : Nat, whole : BOOLEAN]
Places == {"idle", "scan", "cache", "parse", "introspect", "declare", "write",
           "discard", "close", "destroy", "free"}

AllModules == {"ports", "component", "query", "import"}
Rest == [at |-> "idle", todo |-> {}, ignore |-> FALSE, lib |-> NoLibrary, id |-> 0,
         k |-> 0, then |-> "idle"]
NoHash == [i \in Interfaces |-> <<>>]

NewComponent(l) ==
  [lib |-> l, from |-> 0, slots |-> 0, ports |-> <<>>, wired |-> 0,
   orphans |-> {}, unlinked |-> {}, freed |-> 0, gone |-> FALSE]

-----------------------------------------------------------------------------
(* The hash of the lists of providers *)

\* p is a pair of a component and the position of a port.
Freed(p) == components[p[1]].freed >= p[2]

\* hashtable_lookup: the entries it may take for interface i, 0 for none.  A
\* key that was freed may be equal to i or not.
Hits(i) ==
  LET sure == {e \in DOMAIN hash[i] : ~Freed(hash[i][e].key)}
  IN  IF sure = {} THEN 0 .. Len(hash[i]) ELSE 1 .. Min(sure)

Compared(i) == stale' = (stale \/ (hash[i] # <<>> /\ Freed(hash[i][1].key)))

\* What is wrong with using the list of entry e.
Danger(i, e) ==
  CASE e = 0 -> "none"
    [] e # 0 /\ ~hash[i][e].live -> "freed_list"
    [] e # 0 /\ hash[i][e].live /\ (\E p \in ToSet(hash[i][e].ports) : Freed(p)) -> "freed_port"
    [] OTHER -> "none"

\* The port p is put at the end of the list of its interface.
provided_ports_register(i, p) ==
  \E e \in Hits(i) :
    /\ fault' = Danger(i, e)
    /\ Compared(i)
    /\ hash' = [hash EXCEPT ![i] =
                  IF e = 0 THEN Append(@, [key |-> p, ports |-> <<p>>, live |-> TRUE])
                           ELSE [hash[i] EXCEPT ![e].ports = Append(@, p)]]

Register(port, p) ==
  IF port.provided THEN provided_ports_register(port.iface, p)
                   ELSE UNCHANGED <<hash, fault, stale>>

\* XC_CLIST_REMOVE
Without(list, p) ==
  IF p \in ToSet(list) THEN RemoveAt(list, CHOOSE n \in DOMAIN list : list[n] = p) ELSE list

\* Mutant: the list ends with any of its ports.
ClearedAlways(entries, p, e) ==
  [x \in DOMAIN entries |->
     LET rest == Without(entries[x].ports, p)
     IN  [entries[x] EXCEPT !.ports = rest, !.live = @ /\ x # e]]

\* The port p leaves its list; when the list of entry e is now empty, it ends,
\* and the entry remains.
Cleared(entries, p, e) ==
  [x \in DOMAIN entries |->
     LET rest == Without(entries[x].ports, p)
     IN  [entries[x] EXCEPT !.ports = rest,
                            !.live = @ /\ (x = e => rest # <<>>)]]

-----------------------------------------------------------------------------
(* xCOM_Init *)

Booted ==
  /\ modules' = AllModules
  /\ bundles' = <<>> /\ components' = <<>> /\ hash' = NoHash

xCOM_Init ==
  /\ act = Rest /\ initialized < 2
  /\ initialized' = initialized + 1
  /\ found' = <<>>
  /\ IF initialized = 0 THEN Booted ELSE UNCHANGED <<modules, bundles, components, hash>>
  /\ UNCHANGED <<version, cache, mapped, act, fault, stale, crashes, shortages>>

\* Mutant: the queries stay initialised.
CleanedNoQuery(up) == up \ {"component", "ports", "import"}

\* They do nothing for a module that did not start.
query_destroy(up) == up \ {"query"}
import_destroy(up) == up \ {"import"}

\* The modules that remain of those that were up.
Cleaned(up) == query_destroy(import_destroy(up \ {"component", "ports"}))

\* query_init or import_init fails, and what was initialised is cleaned up.
InitCleans ==
  /\ act = Rest /\ initialized = 0 /\ crashes + shortages < MaxTroubles
  /\ shortages' = shortages + 1
  /\ \E up \in {{"ports", "component"}, {"ports", "component", "query"}} : modules' = Cleaned(up)
  /\ UNCHANGED <<version, cache, mapped, initialized, bundles, components, hash, act,
                 found, fault, stale, crashes>>

\* The run loop, the ports or the components fail: component_module_destroy()
\* follows the head of a list that is not initialised, or frees the anonymous
\* component, which is NULL.
InitDies ==
  /\ act = Rest /\ initialized = 0 /\ crashes + shortages < MaxTroubles
  /\ shortages' = shortages + 1
  /\ fault' = "cleanup"
  /\ UNCHANGED <<version, cache, mapped, initialized, modules, bundles, components, hash,
                 act, found, stale, crashes>>

-----------------------------------------------------------------------------
(* xCOM_LoadComponentBundle *)

persistent == <<version, cache, crashes>>
loading == <<initialized, modules, found>>

\* The components of a new bundle.
bundle_new == <<>>

\* ignore is XC_LOADF_IGNORE_CACHES.
xCOM_LoadComponentBundle(b, ignore) ==
  /\ act = Rest /\ initialized > 0
  /\ Len(components) + 2 * Cardinality(Files[b]) <= MaxComponents
  /\ bundles' = Append(bundles, bundle_new)
  /\ act' = [Rest EXCEPT !.at = "scan", !.todo = Files[b], !.ignore = ignore]
  /\ found' = <<>>
  /\ UNCHANGED <<persistent, mapped, initialized, modules, components, hash, fault, stale,
                 shortages>>

\* bundle_load_components: readdir() gives the files in any order.
NextFile(l) ==
  /\ act.at = "scan" /\ l \in act.todo
  /\ act' = [act EXCEPT !.at = IF act.ignore THEN "introspect" ELSE "cache",
                        !.lib = l, !.todo = @ \ {l}]
  /\ UNCHANGED <<persistent, loading, mapped, bundles, components, hash, fault, stale, shortages>>

\* A bundle without a component is an error: it is freed again.
LoadEnds ==
  /\ act.at = "scan" /\ act.todo = {}
  /\ bundles' = IF Last(bundles) = <<>> THEN Front(bundles) ELSE bundles
  /\ act' = Rest
  /\ UNCHANGED <<persistent, loading, mapped, components, hash, fault, stale, shortages>>

\* The component goes to the end of the list of its bundle.
Listed ==
  /\ bundles' = [bundles EXCEPT ![Len(bundles)] = Append(@, act.id)]
  /\ act' = [act EXCEPT !.at = "scan", !.lib = NoLibrary, !.id = 0, !.k = 0]

\* component_new, for cache_open and for component_introspect.
Created(c, at) ==
  /\ components' = Append(components, c)
  /\ act' = [act EXCEPT !.at = at, !.id = Len(components) + 1, !.k = 0]

\* cache_open: there is no cache file, or no memory for the parser.
CacheUnread ==
  /\ act.at = "cache"
  /\ IF cache[act.lib] = NoCache THEN UNCHANGED shortages
     ELSE crashes + shortages < MaxTroubles /\ shortages' = shortages + 1
  /\ act' = [act EXCEPT !.at = "introspect"]
  /\ UNCHANGED <<persistent, loading, mapped, bundles, components, hash, fault, stale>>

CacheRead ==
  /\ act.at = "cache" /\ cache[act.lib] # NoCache
  /\ Created([NewComponent(act.lib) EXCEPT !.slots = cache[act.lib].slots,
                                           !.from = cache[act.lib].from], "parse")
  /\ UNCHANGED <<persistent, loading, mapped, bundles, hash, fault, stale, shortages>>

\* handle_cache_start_tag for the next port of the file: it goes to the first
\* slot that is free.
ParsePort ==
  LET port == cache[act.lib].ports[act.k + 1]
      k == Len(components[act.id].ports) + 1
  IN  /\ act.at = "parse" /\ act.k < Len(cache[act.lib].ports)
      /\ components' = [components EXCEPT ![act.id].ports = Append(@, port)]
      /\ act' = [act EXCEPT !.k = @ + 1]
      /\ Register(port, <<act.id, k>>)
      /\ UNCHANGED <<persistent, loading, mapped, bundles, shortages>>

\* There is no memory for a port: those that follow take its slot.
ParseSkipped ==
  /\ act.at = "parse" /\ act.k < Len(cache[act.lib].ports)
  /\ crashes + shortages < MaxTroubles /\ shortages' = shortages + 1
  /\ components' = [components EXCEPT ![act.id].from = 0]
  /\ act' = [act EXCEPT !.k = @ + 1]
  /\ UNCHANGED <<persistent, loading, mapped, bundles, hash, fault, stale>>

\* A new list is lost, which is ignored: hashtable_insert() fails, and the links of
\* the port are NULL; or there is no memory for the name of the list, and the port
\* is on a list that is not hashed.
ParseUnlinked ==
  LET port == cache[act.lib].ports[act.k + 1]
      k == Len(components[act.id].ports) + 1
  IN  /\ act.at = "parse" /\ act.k < Len(cache[act.lib].ports)
      /\ port.provided /\ 0 \in Hits(port.iface)
      /\ crashes + shortages < MaxTroubles /\ shortages' = shortages + 1
      /\ \/ components' = [components EXCEPT ![act.id].ports = Append(@, port),
                                             ![act.id].unlinked = @ \cup {k}]
         \/ components' = [components EXCEPT ![act.id].ports = Append(@, port),
                                             ![act.id].orphans = @ \cup {k}]
      /\ act' = [act EXCEPT !.k = @ + 1]
      /\ Compared(port.iface)
      /\ UNCHANGED <<persistent, loading, mapped, bundles, hash, fault>>

ParseEnds ==
  /\ act.at = "parse" /\ act.k = Len(cache[act.lib].ports) /\ cache[act.lib].whole
  /\ Listed
  /\ UNCHANGED <<persistent, loading, mapped, components, hash, fault, stale, shortages>>

\* The file ends too early: component_free, and the library is introspected.
ParseFails ==
  /\ act.at = "parse" /\ act.k = Len(cache[act.lib].ports) /\ ~cache[act.lib].whole
  /\ act' = [act EXCEPT !.at = "free", !.then = "introspect"]
  /\ UNCHANGED <<persistent, loading, mapped, bundles, components, hash, fault, stale, shortages>>

\* dlopen() (external): a library that is mapped already is not read again.
Opened(l) ==
  LET inUse == {c \in ToSet(components) : c.lib = l /\ c.wired # 0}
  IN  IF mapped[l] # 0 THEN mapped[l]
      ELSE IF inUse # {} THEN (CHOOSE c \in inUse : TRUE).wired ELSE version[l]

\* component_introspect: the library cannot be loaded, or declares no component.
IntrospectFails ==
  /\ act.at = "introspect"
  /\ act' = [act EXCEPT !.at = "scan", !.lib = NoLibrary, !.id = 0, !.k = 0]
  /\ UNCHANGED <<persistent, loading, mapped, bundles, components, hash, fault, stale, shortages>>

\* The library is never closed.
Introspect ==
  LET v == Opened(act.lib)
  IN  /\ act.at = "introspect"
      /\ mapped' = [mapped EXCEPT ![act.lib] = v]
      /\ Created([NewComponent(act.lib) EXCEPT !.from = v,
                    !.slots = Len(Declared[act.lib][v])],
                 IF Declared[act.lib][v] = <<>> THEN "write" ELSE "declare")
      /\ UNCHANGED <<persistent, loading, bundles, hash, fault, stale, shortages>>

\* No memory for the array of ports: a component without any, in its cache too.
IntrospectNoPorts ==
  LET v == Opened(act.lib)
  IN  /\ act.at = "introspect"
      /\ crashes + shortages < MaxTroubles /\ shortages' = shortages + 1
      /\ mapped' = [mapped EXCEPT ![act.lib] = v]
      /\ Created(NewComponent(act.lib), "write")
      /\ UNCHANGED <<persistent, loading, bundles, hash, fault, stale>>

\* port_new
DeclarePort ==
  LET c == components[act.id]
      k == Len(c.ports) + 1
  IN  /\ act.at = "declare" /\ k <= c.slots
      /\ components' = [components EXCEPT ![act.id].ports = Append(@, Declared[c.lib][c.from][k])]
      /\ act' = [act EXCEPT !.at = IF k = c.slots THEN "write" ELSE "declare"]
      /\ Register(Declared[c.lib][c.from][k], <<act.id, k>>)
      /\ UNCHANGED <<persistent, loading, mapped, bundles, shortages>>

\* No memory for the name of a new list: the port is on a list that is not hashed.
DeclareOrphan ==
  LET c == components[act.id]
      k == Len(c.ports) + 1
      port == Declared[c.lib][c.from][k]
  IN  /\ act.at = "declare" /\ k <= c.slots
      /\ port.provided /\ 0 \in Hits(port.iface)
      /\ crashes + shortages < MaxTroubles /\ shortages' = shortages + 1
      /\ components' = [components EXCEPT ![act.id].ports = Append(@, port),
                                          ![act.id].orphans = @ \cup {k}]
      /\ act' = [act EXCEPT !.at = IF k = c.slots THEN "write" ELSE "declare"]
      /\ Compared(port.iface)
      /\ UNCHANGED <<persistent, loading, mapped, bundles, hash, fault>>

\* Mutant: the last port is written first.
WrittenBackwards(c) == [ports |-> Reverse(c.ports), slots |-> c.slots, from |-> c.from,
                        whole |-> TRUE]

\* What a cache file that is written to its end holds, and one that is not
\* (the disk is full, or the process ends).
Written(c) == [ports |-> c.ports, slots |-> c.slots, from |-> c.from, whole |-> TRUE]
Torn(c) == {[ports |-> SubSeq(c.ports, 1, n), slots |-> c.slots, from |-> c.from,
             whole |-> FALSE] : n \in 0 .. Len(c.ports)}

\* cache_create; the folder may not be writable, which is ignored.
cache_create ==
  /\ act.at = "write"
  /\ \E file \in {cache[act.lib], Written(components[act.id])} \cup Torn(components[act.id]) :
       cache' = [cache EXCEPT ![act.lib] = file]
  /\ Listed
  /\ UNCHANGED <<version, crashes, loading, mapped, components, hash, fault, stale, shortages>>

-----------------------------------------------------------------------------
(* Components in use *)

\* Each port of the component has an entry of the table of version v, or none.
port_enable(id, v) == components' = [components EXCEPT ![id].wired = v]
port_disable(id) == components' = [components EXCEPT ![id].wired = 0]

\* component_load, by component_init: each port is given the entry of the
\* library's table that has its number.  The entry after the last one is there,
\* the next is not; port_enable asserts that no slot is NULL.
component_load(id) ==
  LET c == components[id]
      v == Opened(c.lib)
  IN  /\ act = Rest /\ initialized > 0 /\ ~c.gone /\ c.wired = 0
      /\ c.slots = Len(c.ports)
      /\ fault' = IF c.slots > Len(Declared[c.lib][v]) + 1 THEN "past_table" ELSE "none"
      /\ port_enable(id, v)
      /\ found' = <<>>
      /\ UNCHANGED <<persistent, mapped, initialized, modules, bundles, hash, act, stale,
                     shortages>>

\* component_destroy, when the last reference is dropped.
component_unload(id) ==
  /\ act = Rest /\ components[id].wired # 0
  /\ port_disable(id)
  /\ found' = <<>>
  /\ UNCHANGED <<persistent, mapped, initialized, modules, bundles, hash, act, fault, stale,
                 shortages>>

\* Mutant: the provider may be older, not newer.
InterfacesMatchOlder(port, query) ==
  /\ port.iface = query.iface
  /\ port.major = query.major
  /\ query.minor >= port.minor

\* The ports are not compared: result == XC_OK is false as long as it is true.
interfaces_match(port, query) ==
  /\ port.iface = query.iface
  /\ port.major = query.major
  /\ query.minor <= port.minor

query_match_provider(query, p) ==
  /\ query.server = NoLibrary \/ query.server = components[p[1]].lib
  /\ interfaces_match(components[p[1]].ports[p[2]], query)

\* The n-th of a set of positions.
Nth(places, n) == CHOOSE k \in places : Cardinality({j \in places : j <= k}) = n

\* The ports of a list that match, in the order of the list.
Matching(query, list) ==
  LET places == {k \in DOMAIN list : query_match_provider(query, list[k])}
  IN  [n \in 1 .. Cardinality(places) |-> list[Nth(places, n)]]

\* query_get_candidates, for xCOM_QueryInterface and for loadtime imports; a
\* component may call it in destroy(), too.
query_get_candidates(query) ==
  /\ initialized > 0 \/ act.at = "destroy"
  /\ act.at \in {"idle", "destroy"}
  /\ \E e \in Hits(query.iface) :
       /\ fault' = Danger(query.iface, e)
       /\ found' = IF e = 0 \/ fault' # "none" THEN <<>>
                   ELSE Matching(query, hash[query.iface][e].ports)
  /\ Compared(query.iface)
  /\ UNCHANGED <<persistent, mapped, initialized, modules, bundles, components, hash, act,
                 shortages>>

-----------------------------------------------------------------------------
(* component_free and xCOM_Destroy *)

\* Mutant: a port stays on the list of its interface.
PortFreeLinked ==
  LET c == components[act.id]
      k == c.freed + 1
  IN  /\ act.at = "free" /\ k <= Len(c.ports)
      /\ components' = [components EXCEPT ![act.id].freed = k]
      /\ UNCHANGED <<persistent, loading, mapped, bundles, act, shortages, hash, fault, stale>>

\* port_free, for the next port of component_free_ports.
port_free ==
  LET c == components[act.id]
      k == c.freed + 1
      i == c.ports[k].iface
  IN  /\ act.at = "free" /\ k <= Len(c.ports)
      /\ components' = [components EXCEPT ![act.id].freed = k]
      /\ IF c.ports[k].provided
           THEN /\ Compared(i)
                /\ \E e \in Hits(i) :
                     /\ fault' = IF e # 0 /\ k \in c.unlinked THEN "unlinked" ELSE Danger(i, e)
                     /\ hash' = IF e = 0 THEN hash
                                ELSE [hash EXCEPT ![i] = Cleared(@, <<act.id, k>>, e)]
           ELSE UNCHANGED <<hash, fault, stale>>
      /\ UNCHANGED <<persistent, loading, mapped, bundles, act, shortages>>

\* The end of component_free.
FreeEnds ==
  /\ act.at = "free" /\ components[act.id].freed = Len(components[act.id].ports)
  /\ components' = [components EXCEPT ![act.id].gone = TRUE]
  /\ act' = [act EXCEPT !.at = act.then, !.id = 0, !.k = 0, !.then = "idle"]
  /\ UNCHANGED <<persistent, loading, mapped, bundles, hash, fault, stale, shortages>>

xCOM_Destroy ==
  /\ act = Rest /\ initialized > 0
  /\ initialized' = initialized - 1
  /\ act' = IF initialized = 1 THEN [Rest EXCEPT !.at = "close"] ELSE act
  /\ found' = <<>>
  /\ UNCHANGED <<persistent, mapped, modules, bundles, components, hash, fault, stale, shortages>>

\* component_module_destroy and bundle_free: the components of the bundles, in
\* the order of their lists; those in use have their destroy() called.
CloseComponent ==
  /\ act.at = "close" /\ bundles # <<>> /\ Head(bundles) # <<>>
  /\ bundles' = [bundles EXCEPT ![1] = Tail(@)]
  /\ act' = [act EXCEPT !.at = IF components[Head(Head(bundles))].wired # 0 THEN "destroy" ELSE "free",
                        !.id = Head(Head(bundles)), !.then = "close"]
  /\ UNCHANGED <<persistent, loading, mapped, components, hash, fault, stale, shortages>>

\* destroy() returns; the component is unloaded.
Destroyed ==
  /\ act.at = "destroy"
  /\ port_disable(act.id)
  /\ act' = [act EXCEPT !.at = "free"]
  /\ found' = <<>>
  /\ UNCHANGED <<persistent, mapped, initialized, modules, bundles, hash, fault, stale, shortages>>

\* Mutant: the bundle stays on the list.
CloseBundleStays ==
  /\ act.at = "close" /\ bundles # <<>> /\ Head(bundles) = <<>>
  /\ UNCHANGED vars

CloseBundle ==
  /\ act.at = "close" /\ bundles # <<>> /\ Head(bundles) = <<>>
  /\ bundles' = Tail(bundles)
  /\ UNCHANGED <<persistent, loading, mapped, components, hash, act, fault, stale, shortages>>

\* Mutant: the hash is not destroyed.
CloseModulesKeepsHash ==
  /\ act.at = "close" /\ bundles = <<>>
  /\ modules' = {}
  /\ components' = <<>>
  /\ act' = Rest
  /\ stale' = FALSE
  /\ UNCHANGED <<persistent, mapped, initialized, bundles, hash, found, fault, shortages>>

\* The modules: the hash is destroyed, but not the lists of providers.
CloseModules ==
  /\ act.at = "close" /\ bundles = <<>>
  /\ modules' = {}
  /\ components' = <<>> /\ hash' = NoHash
  /\ act' = Rest
  /\ stale' = FALSE
  /\ UNCHANGED <<persistent, mapped, initialized, bundles, found, fault, shortages>>

-----------------------------------------------------------------------------
(* The world around *)

\* An installer replaces a library; it does not know about caches.  A call reads
\* the version of a library once, so it does not matter when during the call.
Upgrade(l) ==
  /\ act = Rest
  /\ version[l] < Len(Declared[l])
  /\ version' = [version EXCEPT ![l] = @ + 1]
  /\ UNCHANGED <<cache, process, crashes, shortages>>

\* The process ends, and another one begins; a cache file it was writing remains.
Crash ==
  /\ crashes + shortages < MaxTroubles
  /\ crashes' = crashes + 1
  /\ IF act.at = "write"
       THEN \E file \in {cache[act.lib]} \cup Torn(components[act.id]) :
              cache' = [cache EXCEPT ![act.lib] = file]
       ELSE cache' = cache
  /\ mapped' = [l \in Libraries |-> 0]
  /\ initialized' = 0 /\ modules' = {}
  /\ bundles' = <<>> /\ components' = <<>> /\ hash' = NoHash
  /\ act' = Rest /\ found' = <<>> /\ fault' = "none" /\ stale' = FALSE
  /\ UNCHANGED <<version, shortages>>

RegistryInit ==
  /\ version = [l \in Libraries |-> 1]
  /\ cache = [l \in Libraries |-> NoCache]
  /\ mapped = [l \in Libraries |-> 0]
  /\ initialized = 0 /\ modules = {}
  /\ bundles = <<>> /\ components = <<>> /\ hash = NoHash
  /\ act = Rest /\ found = <<>> /\ fault = "none" /\ stale = FALSE
  /\ crashes = 0 /\ shortages = 0

\* The steps of a call that is under way, apart from what destroy() calls.
Continue ==
  /\ fault = "none"
  /\ \/ \E l \in Libraries : NextFile(l)
     \/ LoadEnds
     \/ CacheUnread \/ CacheRead
     \/ ParsePort \/ ParseSkipped \/ ParseUnlinked \/ ParseEnds \/ ParseFails
     \/ IntrospectFails \/ Introspect \/ IntrospectNoPorts
     \/ DeclarePort \/ DeclareOrphan \/ cache_create
     \/ port_free \/ FreeEnds
     \/ CloseComponent \/ Destroyed \/ CloseBundle \/ CloseModules

\* The calls of the program and of its components.
Calls ==
  /\ fault = "none"
  /\ \/ xCOM_Init \/ InitCleans \/ InitDies \/ xCOM_Destroy
     \/ \E b \in Bundles, ignore \in BOOLEAN : xCOM_LoadComponentBundle(b, ignore)
     \/ \E id \in DOMAIN components : component_load(id) \/ component_unload(id)
     \/ \E query \in Queries : query_get_candidates(query)

RegistryNext ==
  \/ Continue
  \/ Calls
  \/ \E l \in Libraries : Upgrade(l)
  \/ Crash

\* A thread that is in a call goes on.
RegistrySpec == RegistryInit /\ [][RegistryNext]_vars /\ WF_vars(Continue)

-----------------------------------------------------------------------------
(* Properties *)

\* Every file, component, list and position is one.
RegistryTypeOK ==
  /\ \A l \in Libraries : version[l] \in DOMAIN Declared[l] /\ mapped[l] \in 0 .. version[l]
  /\ cache \in [Libraries -> Cache \cup {NoCache}]
  /\ initialized \in 0 .. 2 /\ modules \subseteq AllModules
  /\ components \in Seq(Component)
  /\ bundles \in Seq(Seq(1 .. Len(components)))
  /\ act.at \in Places /\ act.then \in Places
  /\ act.id \in 0 .. Len(components) /\ act.todo \subseteq Libraries
  /\ \A i \in Interfaces : \A e \in DOMAIN hash[i] :
       \A p \in ToSet(hash[i][e].ports) \cup {hash[i][e].key} :
         p[1] \in DOMAIN components /\ p[2] \in DOMAIN components[p[1]].ports
  /\ stale \in BOOLEAN /\ crashes + shortages \in 0 .. MaxTroubles

\* The ports that should be found for an interface.
Providing(i) ==
  UNION {{id} \X {k \in DOMAIN components[id].ports :
                    LET c == components[id]
                    IN  /\ k > c.freed
                        /\ c.ports[k].provided /\ c.ports[k].iface = i
                        /\ k \notin c.orphans \cup c.unlinked} : id \in DOMAIN components}

Sound == fault = "none" /\ ~stale

\* As long as no freed key was compared, each interface has one list at most,
\* which holds each of its ports, once: through caches that turn out to be torn,
\* allocations that fail, and components that are freed one after the other.
ProvidersExact ==
  Sound => \A i \in Interfaces :
    LET live == {e \in DOMAIN hash[i] : hash[i][e].live}
    IN  /\ \A e, f \in live : e = f
        /\ \A e \in live : /\ ToSet(hash[i][e].ports) = Providing(i)
                           /\ Len(hash[i][e].ports) = Cardinality(Providing(i))
        /\ live = {} => Providing(i) = {}

\* A component that is loaded has each port wired to the entry of its own
\* interface, whether its ports came from the library or from a cache, and
\* however earlier processes ended; unless the cache is of another version.
PortsAsDeclared ==
  \A id \in DOMAIN components :
    LET c == components[id]
    IN  c.wired # 0 /\ c.from = c.wired => c.ports = Declared[c.lib][c.wired]

\* The memory of the registry is misused only after an allocation failed or a
\* component was freed, by a torn cache or by xCOM_Destroy; and a table is read
\* past its end only with a cache of another version.
FaultExplained ==
  /\ stale => \E c \in ToSet(components) : c.freed > 0
  /\ fault \in {"freed_list", "freed_port"} => stale
  /\ fault \in {"unlinked", "cleanup"} => shortages > 0
  /\ fault = "past_table" => \E c \in ToSet(components) : c.wired # c.from

\* Initialising and destroying are balanced: the modules are there between the
\* first xCOM_Init and the last xCOM_Destroy, and no other time, whichever of
\* them fails to start.
ModulesBalanced ==
  fault = "none" =>
    /\ initialized > 0 => modules = AllModules
    /\ initialized = 0 /\ act = Rest => modules = {} /\ components = <<>>

\* The port p provides what the query asks for, from the server it asks for.
Fits(query, p) ==
  LET port == components[p[1]].ports[p[2]]
  IN  /\ port.major = query.major /\ port.minor >= query.minor
      /\ query.server \in {NoLibrary, components[p[1]].lib}

\* "If a port was specified for both, it should also match."
Targeted(query, p) ==
  LET port == components[p[1]].ports[p[2]]
  IN  query.port = NoPort \/ port.port = NoPort \/ port.port = query.port

\* A query misses no port that provides its interface in the same major version and
\* the same or a later minor one, from the server and under the port it names if it
\* names them; what it finds is of such a version and server, and comes in the order
\* in which components were loaded.  (That it finds other ports than the one it
\* names is another matter: QueryTargetsPort.)
QueryComplete ==
  [][\A query \in Queries :
       query_get_candidates(query) /\ fault' = "none" /\ ~stale' =>
         LET fitting == {p \in Providing(query.iface) : Fits(query, p)}
         IN  /\ {p \in fitting : Targeted(query, p)} \subseteq ToSet(found')
             /\ ToSet(found') \subseteq fitting
             /\ \A j, k \in DOMAIN found' : j < k => found'[j][1] <= found'[k][1]]_vars

\* xCOM.h: a query is given a name of a port "to target a specific port"; so it finds
\* no port that says it is another one.  The code does not compare the names.
QueryTargetsPort ==
  [][\A query \in Queries :
       query_get_candidates(query) /\ fault' = "none" /\ ~stale' =>
         \A p \in ToSet(found') : Targeted(query, p)]_vars

\* Loading a bundle and closing the library end, whatever is in the way.
CallsEnd == act.at # "idle" ~> act.at = "idle" \/ fault # "none"

\* component.h: the ports of provided interfaces "are also cleared from the
\* providers hash".  The code frees the list and keeps its entry.
HashCleared ==
  act.at # "free" => \A i \in Interfaces : \A e \in DOMAIN hash[i] : hash[i][e].live
=============================================================================
