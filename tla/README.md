# A TLA+ model of xCOM

xCOM is a component framework written in C. A component is a shared library
that *provides* interfaces through ports and *requires* others; the library
(`src/lib`) finds the providers of an interface, loads components when they are
first imported, connects a client to a server, and unloads what is no longer
used. This directory holds a formal model of it: TLA+ modules, TLC
configurations that check them on small instances, and proofs checked by TLAPS.
Paths below are relative to the repository; `lib` stands for `src/lib`.

## Inventory

| Component | State | Operations | Interacts with |
|---|---|---|---|
| components, `lib/component.c` | bundles; per component: state (null, loaded, initialized, unloading), reference count, list of the imports it made, method pointers, ports, user data, recursive lock | load and unload, init and destroy, ref and unref, loadtime imports, closing imports, register and unregister, specific data, loading bundles | calls queries and imports for loadtime imports; calls the methods of components, which call the API |
| imports, `lib/import.c` | directory of imports; per import: state (queried, unregistered, registered to server, registered to client, opened), siblings, query, client, server, switch | new, open, close, free, register, unregister, free unused siblings, accessors | references its server; takes itself off its client's list; initialises the server; unlinks itself from its query |
| queries, `lib/query.c` | directory of queries; per query: client, first and last import, cursor | new, next, finish, port query | references its client; creates an import per provider |
| ports, `lib/ports.c` | hash of the lists of providers by interface; per port: flags, methods, switch | new, enable, disable, free, register a provider, look up providers | filled from declarations or caches, read by queries |
| caches, `lib/cache.c` | one XML file per component and host | create, open | stands in for introspection when a bundle is loaded |
| handle directories, `lib/handledir.c` | two-level table with free lists | push, remove, get | components, imports and queries |
| hash table, `lib/hashtable.c` | chained buckets that grow and shrink | insert, lookup, remove | ports |
| matching, `lib/interfaces.c` | none | `interfaces_match` | queries |
| initialisation, `lib/init.c`, `lib/semaphore.c` | init count; run semaphore or GLib main loop | `xCOM_Init`, `xCOM_Destroy`, `xCOM_Exec`, `xCOM_Quit` | all sub-modules |
| spawn program, `src/spawn` | handles of services, a semaphore | load bundles, start services and an application, run, stop | a client of the API; services answer from their own threads |
| Python bridge, `src/pycom` | a context and an interpreter per component, the main thread state | init, destroy, enter, leave, conversions | specific data of components and imports; called as the methods of Python components |
| test driver, `src/test` | semaphore | runs each provider of `xcom.ITest` | a client of the API |
| code generator, `src/codegen` | in the code it writes: a queue, a semaphore and a thread per component | call a method, start and stop the thread | stands between clients and the handlers of a component |
| tracing, vendored jansson, samples | | | not of interest here |

Where it is hard:

* **Recursion and callbacks.** Dropping a reference can destroy a component,
  which closes its imports, which calls the methods of both sides and drops
  references. Opening an import initialises its server, which opens imports.
  Every method may call the API again.
* **Failure half way.** `import_open` and `component_init` take several steps,
  each of which may fail, and undo the ones before by the general closing code.
* **Pointers to freed memory.** Imports of a query are chained; the chain, the
  query and the walks in progress keep pointers that freeing does not clear.
* **Locks.** Each sub-module has a recursive lock held across callbacks.
* **Handles** are reused at once; **caches** outlive what they describe; the
  **run loop** may be told to quit before it runs.

What makes each component correct:

* components: counts of references are exact; a component is loaded exactly
  while it is used; `init()` and `destroy()` alternate; nothing is unmapped
  while it runs; `init()` waits for the mandatory imports;
* imports: an open import is registered on both sides with an initialised
  server; what was registered, and nothing else, is unregistered;
* queries: finishing one closes what was not opened, and nothing else;
* handle directories and hash table: they implement maps;
* ports and caches: the registry lists the ports of live components, whether
  they come from a cache or from the library;
* run loop and spawn program: services start before the application, quitting
  ends the program.

`PROJECT.json` lists the hazards one by one, at their lines, with the properties
that watch them.

## Modules

| Module | About | Runs | Proofs |
|---|---|---|---|
| `Lifecycle` | components, imports and queries as one thread executes them | `lifecycle_*` | `LifecycleProofs` |
| `HandleDir`, implementing `HandleMap` | handle directories: pages, free chains, reuse | `parts` | `HandleDirProofs` |
| `HashTable`, implementing `KeyMap` | the hash table, its resizing and failed allocations | `parts` | `HashTableProofs` |
| `Bridge` | contexts, interpreters, thread states and the lock of Python | `parts` | `BridgeProofs` |
| `Registry` | bundles, ports, the hash of providers, caches, matching, start and end of the library | `registry`, `registry_hash`, `registry_port` | `RegistryProofs`, `RegistryListsProofs` |
| `CallQueue` | the queue and thread the code generator writes around a component | `spawn` | `SpawnProofs` |
| `Locks`, on `CallQueue` | the calls of the API as sequences of lock steps, by several threads | `spawn` | `SpawnProofs` |
| `Spawn`, on `Locks` | the spawn program, services, applications, the test driver; the run loop | `spawn` | `SpawnProofs`, `SpawnWaitProofs` |

The `MC` modules give the constants their values. `MCParts` composes the three
modules that share no state with any other: a behaviour is one of one of them.
`Spawn` extends `Locks`, which extends `CallQueue`: main(), the components'
threads, the library and the queues form one system, and its behaviours are
shown to be behaviours of `QueueSpec`, by the run `spawn` and, for any
components, by a proof; `QueueSpec` is what the proof about queues assumes.

The code is looked at from several sides, not composed into one model:
`Lifecycle` has every step of the calls, failures and callbacks, for one
thread; `Locks` has the same calls for several threads, reduced to locks,
references and imports; `Registry` has what happens before a component is
referenced, and after. `Registry` and `Lifecycle` meet in `component_load` and
in the lists of providers: `Lifecycle` takes the lists as given, `Registry`
shows when they are exact.

What could follow: an abstract life cycle (which components are up and who
holds them) that `Lifecycle` implements where the findings below do not apply;
threads that enter Python contexts for queued calls; failed allocations of imports and
queries; a proof of `InitOnce` and `MethodsMapped` for wirings in which nobody
imports, even through others, a component that imports it.

## Lifecycle

### State and steps

One thread is in the library at a time (several threads are the business of
`Locks`). Each field the code keeps has a variable:

| Variable | Code |
|---|---|
| `cstate`, `refs`, `imports` | `component_t.state`, `references`, `imports` |
| `entry` | `component_t.init`, `destroy` and the ports' methods and switch, which `component_load` sets and `component_unload` clears together |
| `imp` | the imports: state, siblings, query, client, server, whether they belong to a port |
| `qry` | the queries: client, first and last import, cursor |
| `wiring` | the declared ports: lists of providers, loadtime and run time ports |
| `stack`, `ret` | the C call stack and the last return value |
| `given` | the handles that components and the application hold |
| `fault` | undefined behaviour or a failed assertion, once it happened |
| `up`, `srvReg`, `cliReg` | history: `init()` succeeded and `destroy()` was not called since; the same of `register()` and `unregister()` for each side |

A frame of the stack is an activation of `component_init`, `component_destroy`,
`component_close_imports`, `import_open`, `import_close`, `import_free`,
`query_free`, or of a method; its `pc` names the point where it goes on. An
action runs one activation up to its next call that may recurse or call back,
with everything in between, helper functions included. Actions are named after
the function and the point: `OpenServer` is `import_open` once
`register_to_server` returned. `map` in `PROJECT.json` gives the lines of each.

What is simplified:

* `malloc` succeeds and handles do not run out. The pools `ImportIds` and
  `QueryIds` bound what lives at once; clients leave room for the library
  (`Room`), so that the bound is never an error path.
* An identifier of a freed import is reused only when nothing points to it any
  more. Following a pointer to a freed import is thus seen, and recorded as the
  fault `dangling`; the model stops there, as the C program may do anything.
* The lists of providers hold those that match; a query does not name a server.
* Calling `xCOM_Import` on an import that another activation is opening or
  closing is left out (`InUse`).
* A method is an opaque callback that may call the API and returns any of the
  outcomes configured; `specific` data is not kept.

### Clients

`Api` lists what clients do. The well-behaved set is `query`, `port`, `next`,
`finish`, `import` and `unimport`, used by the application and by initialised
components, and from inside methods up to `MaxNesting` methods deep. Clients
use their own handles and forget the ones they closed. Beyond it: `drop` (close
an import that is not open), `early` (close one before the query is finished),
`sibling`, `accessor` and `specific` (accessors, with their side effects),
`abandon` (return an error from `init()` and leave a query unfinished), and
`in_destroy` (calls from `destroy()`).

### Runs

| Run | Question | Checked |
|---|---|---|
| `lifecycle_session` | Do sessions work when nothing fails, with two providers, one or several loadtime imports, a run time port? And when any `init()` or `register()` fails? | `TypeOK`, `NoFault`, `OpenedReady`, `NoQueryLeft`, `RegistrationsBalanced`, `UnregisterPaired`, `MandatoryImported`, `CallsReturn` |
| `lifecycle_nested` | And when components call the API from their methods as well? | `NoFault`, `MethodsMapped`, `InitOnce`, `DestroyCalled` |
| `lifecycle_misuse` | What holds whatever clients do, and when libraries fail to load? | `RefsExact`, `ListsExact`, `UnusedUnloaded` |
| `lifecycle_destroy_skipped` | Is `destroy()` called when a component with a port-bound import is unloaded? No. | `DestroyCalled` |
| `lifecycle_finish_dangling` | Is it safe to finish a query of which the first import was denied? No. | `NoFault` |
| `lifecycle_mandatory_masked` | Do all mandatory loadtime ports have to succeed? No: the last port decides. | `MandatoryImported` |
| `lifecycle_accessor_state` | May a server look at an import from `register()` and then deny it? No: it is told to unregister it. | `UnregisterPaired` |

Bounds. Three components suffice for two providers of one interface next to a
client, and for a chain application - client - server. `lifecycle_session`
has four imports, so that a component with two loadtime
imports fits next to the application's own two, and three queries; in its wirings in
which methods fail clients have one query at a time. The
other runs have three imports and two queries, of which `lifecycle_nested` lets a client
use both. One nested
method (`MaxNesting = 1`, so two methods active with calls from the inner one
forbidden at the bound) is enough for a callback to act on the import, client
or server of the activation under it. The port tables of each run are listed in
`MCLifecycle.tla` with their purpose.

The passing runs stay on the near side of the findings: `lifecycle_session`
does not check `DestroyCalled`, which a port-bound import breaks;
`lifecycle_nested` has no port-bound imports, and there the property holds even though
methods fail and call back; `NoFault` is not checked where a provider can deny one of two siblings, so that wirings in
which methods fail have one provider for each interface; `lifecycle_session` has `unregister()` succeed, as
`unregister_from_client` otherwise never tells the server; libraries fail to
load only in `lifecycle_misuse`, because `component_init` ignores the result of
`component_load` and then calls a pointer that may never have been assigned
(fault `wild_call`), or copies the switch of a disabled port (`null_switch`).

Deadlock is checked wherever the model cannot reach a fault (a fault stops it):
`lifecycle_misuse`, `lifecycle_finish_dangling` and `lifecycle_accessor_state` turn the
check off.

Fairness. `FairSpec` asserts weak fairness of `Step`: a thread that is in the
library goes on, and methods return. Nothing is asked of the API's callers. It
is used for `CallsReturn` only.

### Findings

The four violation runs of this module are findings in `PROJECT.json`. Reading
the code for it also showed, without a run of its own:

* `xCOM.h:91` allows `register()` before `init()`, but `import_open` always
  initialises the server first;
* `component.h:249` says that loadtime imports are closed after `destroy()`;
  they are closed before;
* a component that nobody references and that uses `xCOM_GetSpecific`, or makes
  a query, from `destroy()` starts `component_destroy` again (`pycom.c:138`
  does), and `xCOM_SetSpecific` loses what it sets for a component nobody
  references, as the component is unloaded on return;
* a loadtime query that has no match is never finished;
* a `register()` method of the client that finishes the last query of the client
  and then fails lets the client be destroyed under `import_open`, which closes
  the import a second time;
* when `component_close_imports` closes the port-bound import that holds the last
  reference of the client itself, the nested `component_destroy` unloads the client
  (`lifecycle_destroy_skipped`), and `unregister_from_client` does not call the
  methods of the other port-bound imports any more, so that what their
  `register()` allocated stays. `RegistrationsBalanced` excepts them. It was
  stated without the exception as long as the runs had only three imports, and an
  attempt to prove it showed that it was false;
* a query that a component left unfinished when its `init()` failed stays with
  imports that `component_close_imports` freed; finishing it later, when `init()`
  is tried again, follows a pointer to one of them. `lifecycle_nested` therefore
  leaves out `abandon`, `lifecycle_misuse` has it.

## Tables: `HandleDir` and `HashTable`

The actions of `HandleDir` are the functions of `lib/handledir.c`, with one
disjunct for each way through them: a push on a page that has room, on a new
page, without memory, without a slot; a removal that leaves the page, frees it,
or finds nothing. The chains that the code threads through unused words are
sequences (`first`, `Page.first`, `pages`). Handles are decoded in unsigned
arithmetic, so that handle 0 becomes the largest page number there is
(`Decrement`). `HandleMap` says what the library relies on: a handle is new when it is given,
names its object until it is removed, and no call changes what others name.

`HashTable` has the functions of `lib/hashtable.c`: `resize()` is part of insertion
and removal, and fails where memory does. An insertion that cannot resize is
undone, with its value destroyed, but stays counted (`overcount`); the
property `ChainsExact` says precisely that. `KeyMap` is the map it implements.
An entry is at a place, a chain and a position on it, and the places are taken
in the order of a traversal (`Before`); `Rehashed` puts each entry on its new
chain, after those that come before it in the old array, as `insert_to_bucket`
does when `hashtable_do_rehash` hands it one entry after the other.

| Property | Says |
|---|---|
| `HandleDirTypeOK`, `FreeExact` | what is free is on one chain, once, through all filling, emptying and freeing of pages |
| `PushFailsOnlyWhenFull` | a push fails for lack of memory, or when every entry is in use |
| `ImplementsMap` | `HandleDir` implements `HandleMap` |
| `ChainsExact` | every entry is where a lookup searches it, once, in an array of prime size |
| `DestroyedOnce` | values go to the destructor once, when they leave the table or an insertion is undone |
| `ImplementsKeyMap` | `HashTable` implements `KeyMap`, whichever allocation fails |

Bounds (`MCParts.cfg`): three pages of two entries, with a gap of one handle
between them as in the code (`PageDiv` > `NumEntries`), and handles up to one
past the last; primes 1, 3 and 5, three keys of which two have the same code,
and three failed allocations. The table grows from 1 to 5 and shrinks by way of
3; insertions that are undone make it grow earlier than its entries would.

## The Python bridge: `Bridge`

A component in Python has a context with an interpreter of its own
(`src/pycom`), made by `pyCOM_Init` when its first port is registered. The
model is that of one thread, the one that imports: `import_open` and
`import_free` hold the import lock while they call components. A step is what
happens between two points where Python code runs; Python code calls the
library, so calls nest (`pyStack`). `py` holds the statics of `pycom.c`
(`mainStatePtr`, `components`), the contexts and what CPython 2 keeps: the
current thread state, the interpreters and the lock, which on Linux is a
counting semaphore. `previous` is the thread state a context saves in
`pyCOM_ContextEnter`.

| Property | Says |
|---|---|
| `ContextsCounted` | the count that decides when Python is finalised is that of the contexts, each with its interpreter; Python is initialised while there is one |
| `RunsAlive` | Python code runs with a thread state that was not deleted, unless a component was entered from within itself |
| `NestedNeverBlocks` | the thread never waits for itself at the lock of the interpreter |

The condition of `RunsAlive` is needed: there is one saved thread state for each
context, and entering it again overwrites it (pycom.c:179). TLC finds a
component that is entered from within itself by way of another one and is
destroyed in the Python code of that other one, which then goes on with a deleted
thread state. `NestedNeverBlocks` holds because `pyCOM_Init` releases the lock
once more than it took it (pycom.c:126): every call lets one more thread in, so
that the lock, on Linux, soon excludes nobody. A build of CPython with a mutex
would block at the first nested call.

Bounds: two components, of which one has `init()` and `destroy()`; three nested calls,
so that a component can be entered again through the other; one registration each; permits beyond
four are not counted, which only makes acquiring the lock harder. A component
with an `init()` method is taken to have had a registration before, or another
component to have initialised Python: otherwise the generated `init()` acquires
a lock that does not exist.

Seen on the way: `pyCOM_InvokeUnRegister` returns a variable it never sets
(pycom.c:340), so that the server may not be told (`Forget`); the error
callback of a queued call is wired to the result callback (`oErrorDef.ml_meth =
resultFunc`); the generated unregister method calls Python's *register* method
by name (`name_port_register` in `cpython.py`); a component whose `init()` fails
keeps its context, as `destroy()` is not called.

## Registry: bundles, ports, caches

One thread loads bundles, components are loaded and unloaded, clients query,
and the library is closed. `act` says where in a call the thread is; each step
of reading a cache, introspecting a library or freeing a component is an
action, since a process may end in between. Outside of the process there are the
installed `version` of each library and the `cache` files, which say nothing of
the version they were made from (`from` is history).

| Variable | Code |
|---|---|
| `bundles`, `components` | `component.c`: the list of bundles, each with its list; `ports` and `slots` are `component_t.ports` and `portsCount` |
| `hash` | `providersHash` in `ports.c`: for each interface the entries in their order, each with its key (the name kept in a port), and its list, which may be freed |
| `modules`, `initialized` | `init.c` |
| `found` | the candidates that `query_get_candidates` leaves |

Faults that are modelled: the process ends at any step, also within a write, or
the disk is full, so that a cache file is torn; a library is upgraded under its
cache; allocations fail, each where the code goes on (`ParseUnlinked` has the two ways in
which a new list of providers is lost). A hash entry keeps the name of a
port that may be freed: from then on a comparison with it goes either way
(`Hits`), which `stale` records.

| Property | Says |
|---|---|
| `ProvidersExact` | as long as no freed name was compared, each interface has one list at most, with each of its ports once |
| `PortsAsDeclared` | a loaded component has each port wired to the entry of its own interface, from a cache as from the library, however earlier processes ended, unless the cache is of another version |
| `FaultExplained` | the registry's memory is misused only after a component was freed; a table is read past its end only with a cache of another version |
| `ModulesBalanced` | modules are there between the first `xCOM_Init` and the last `xCOM_Destroy`, and at no other time |
| `QueryComplete` | a query misses no port that provides its interface, from the server and under the port that it names if it does, and finds none of another version or server; what it finds is in the order of loading |
| `CallsEnd` | loading and closing end |

Bounds (`MCRegistry.tla`): two libraries in one bundle and one interface, so
that components share a list; one library provides it twice, under two ports, and loses both
with its upgrade; one query takes any provider, the other names a server and one of its ports; four components are created between `xCOM_Init` and
`xCOM_Destroy`, which is the bundle loaded with both caches torn; one trouble,
a crash or a failed allocation. Deadlock is not checked: a fault ends a
behaviour, and so does a loaded library with nothing left to do.

Two runs show findings:

* `registry_hash`, `HashCleared`: `component.h:194` says that ports are cleared
  from the hash. The entry of an interface outlives its list; the next provider of it is
  linked to the list that was freed.
* `registry_port`, `QueryTargetsPort`: `interfaces.h:32` says of `interfaces_match`
  "If a port was specified for both, it should also match", and `xCOM.h:411` of the
  port that a query names "non-NULL to target a specific port". The comparison is
  guarded by `result == XC_OK`, where `result` is a `bool` and `XC_OK` is 0: it is
  reached only once the names of the interfaces differ. A query for one port of a
  component finds its other port as well. `QueryComplete` therefore claims no more
  than that the ports that are meant are among those found.

## Threads: `CallQueue`, `Locks`, `Spawn`

Components that the generic backend of the code generator writes have a queue
and a thread. `CallQueue` has that code: a method copies the call and signals a
semaphore, the thread wakes, takes the call, runs the handler; `destroy()` sets
`__quit`, signals, joins.

`Locks` writes every call of the API as the sequence of its lock steps, with
what it does to references and imports in between; `component_unref` and
`component_destroy` put the steps of destruction in front of what the thread
still has to do. The locks are those of queries, imports, components and of
each component, all recursive. A lock that is taken and released without
anything blocking in between is one step, `pass`. Left out are the mutexes of
`ports.c`, which are only taken under the lock of queries once all bundles are
loaded.

`Spawn` has main() of the spawn program statement by statement, its callbacks,
the services, the applications, and the test driver (`src/test`) as the work of
an application, each in its thread; `xCOM_Exec` and `xCOM_Quit` for both
builds. What a component does with a call is its habit: a sequence of answers and work,
where work calls the API.

At three points the program may go on to behaviour that C leaves undefined. `fault` then
says which (`Undefined`, `NullHandles`), and the model stops:

* `not_loaded`: whenever a component is to be initialised its library may turn out not to load;
  `component_init` ignores that (component.c:759) and goes on with an `init()` it
  never learned of, or with methods that are not there (`LoadFails`). A clean
  failure of `init()` is `ImportFails`;
* `freed_sibling`: an application that cannot be imported is freed, but stays in
  the chain of its query. If a later one starts and another is left behind it,
  `xCOM_QueryFinish` follows the chain back to the freed one (import.c:577),
  which takes three applications (`FreedSibling`);
* `null_handles`: without memory for the arrays of handles, main() reads handles from NULL.

| Property | Says |
|---|---|
| `QueueExact` | the semaphore counts the calls on the queue and the request to quit: the thread never wakes to an empty queue (it would keep the mutex and block itself) |
| `AnswersAwaited` | the application starts after every service answered, a service is dropped after it answered its `Stop()`, and no call is dropped, where services answer once |
| `UsedWhileThere` | no call goes through a freed import; no semaphore is signalled after its frame is gone, if tests answer once; no code is unmapped under its thread, if all components answer once, as the last thing they do |
| `NoDeadlock` | with one application, and components that answer once, as the last thing they do, threads never wait for each other |
| `SpawnEnds` | the program ends |
| `KeepsQueueSpec` | the library uses queues as `QueueSpec` says |

The settings of `MCSpawn` and why they are there: two services, one of which
works while main() goes on, and the driver, in the build with semaphores; the
GLib build, with a service and an application and with neither; a service that
answers twice, which main()'s semaphore cannot tell from another service's
answer; three applications, of which one is started and others are not imported or
freed before; a service that goes on
while a test answers twice, the case in which the semaphore of the driver is
signalled too late; an application that goes on after its answer. The
conditions in the properties exclude precisely the cases in which TLC finds the
contrary:

* two applications: main() finishes their query, with the lock of queries, and
  waits for that of imports to free the other import (query.c:307); the
  application, in `xCOM_Import`, has the lock of imports and waits for that of
  queries (`query_unlink_import`);
* a service that answers twice: main() takes the second answer for that of the
  next service and goes on to import the application, while that service may
  still be asking for the tests; it drops their imports with the lock of queries
  held, and `xCOM_Import` takes the two locks the other way round;
* a test that answers twice, held by a service as well: it is not joined when
  the driver drops it, and signals a semaphore whose frame is gone;
* a component that works after its last answer, or answers again: its code can
  be unmapped by the thread that joins, or by itself, when it drops the last
  reference to its own component.

The proofs of `UsedWhileThere` and `NoDeadlock` found earlier conditions too
weak: they only excluded work after the last answer. On settings
made for the cases in which the proofs failed, TLC then showed the deadlock of
a service that answers twice with only one application, and code that is
unmapped by a second answer.

Deadlock in TLC's sense is not checked, since the program ends; `NoDeadlock`
says that no set of threads waits for itself. Where the property does not hold
`SpawnEnds` is not claimed either. `SpawnEnds` also excludes: in the GLib build,
`g_main_loop_quit` before the loop runs is lost; when there is no memory for
the call that starts the application, its result is ignored, and nobody quits.

Not modelled here, and seen on the way: the result of a queued method is
ignored (cgeneric.py:415), so that a caller waits for ever if a method fails
without calling back; `query_new` returns `XC_OK` when
its first allocation fails (query.c:209); `port_new` and the cache lose the name
of the server a port asks for (ports.c:117, `compoent` in cache.c:192).

## Fairness

`Lifecycle` and `Registry`: a thread that is in a call goes on, and methods
return; nothing is asked of callers. `Spawn`: weak fairness of each thread:
threads are scheduled, and one that waits for a mutex or a semaphore obtains it
if it stays available. Weak fairness is enough because what is waited for is
not taken away for ever. `HandleDir`, `HashTable` and `Bridge` promise nothing
about time.

## Proofs

The theorems hold for every value of the constants; they assume what the
modules assume of their constants, and no more.

* `TypeCorrect` (`LifecycleProofs.tla`): `Spec => []TypeOK`. `TypeOK` is inductive
  as stated because the type of activations says which of them work on an import
  or a query. There is a lemma for each operation on the stack (`PushType`,
  `CallType`, `InvokeType`, `UnrefType`, ...), on lists (`WithoutType`,
  `AfterType`), on memory (`QueryNewType`), and one per group of actions; the
  theorem puts them together.
* `ListsCorrect` (`LifecycleProofs.tla`): `Spec => []ListsExact`. By itself
  `ListsExact` is not inductive: `component_close_imports` reads the pointer to
  the next import, then runs `import_free`, which calls components back, then
  takes the import it remembered off the list of the component it walks,
  whoever owns the import by then. The strengthening is `WalksOwn`: such a pointer, if it
  names a live import, names one of the component that is being walked (a
  dangling one is a fault and stops there). `ListsInv`, the conjunction of both,
  is inductive under `TypeOK`. Both depend on the call stack only through its
  activations of `import_free` and `component_close_imports` (`Traces`), so
  most actions are `Quiet`: they change neither lists, nor who an import belongs
  to, nor the traces. That leaves `query_new` (`QueryNewLists`), the start of a
  walk (`WalkStarts`), taking an import off its list (`ListLeft`, with
  `WithoutElements`) and the end of `import_free` (`FreeDoneLists`). The
  model reuses the memory of an import only once nothing points to it (`Fresh`),
  so that following a stale pointer shows up as the fault `dangling`; the proof
  of `QueryNewLists` relies on it.
* `RefsCorrect` (`LifecycleProofs.tla`): `Spec => []RefsExact`. Who holds a reference
  is spread over the imports, the queries and the call stack. Each activation
  has a set of `Tags`: the import it opens, closes or frees and for whom, the
  query it uses, the component it keeps around a method. The invariant
  `RefsInv` counts activations by tag (`Count`), so that an action is described by the
  tags it adds and removes (`Popped`, `Pushed`, `Replaced`, `StepKeeps`).
  `Balanced` is `RefsExact` in these terms; that it is inductive needs that an
  import is freed by one activation only (`FreedOnce`), else its reference would
  be dropped twice; that an activation knows the client of the import
  it works on (`OwnersKnown`), whose list `ListsExact` is about; that a query is
  finished once, while it is there (`UsedOnce`); and that what is counted is
  finite. A query that makes several imports takes as many references
  (`QueryMade`).
* `NoQueryLeftCorrect` (`LifecycleProofs.tla`): `Spec => []NoQueryLeft`, where every
  interface required at load time has a provider (`EachProvided`), which is so
  in all runs: a loadtime query without a match is never finished, see the
  findings. `QueriesUsed` says that a query that `component_init` made is in use
  by the activation that made it or by the one that finishes it.
* `HandleDirTypeCorrect`, `FreeCorrect`, `MapImplemented`, `PushFailsCorrect`
  (`HandleDirProofs.tla`): for any number and size of pages (at least two
  entries: with one, a full page would not go back on the list). The inductive
  invariant `HandleDirInv` is the type, `FreeExact` and that a destroyed
  directory has no pages. That handles name distinct entries
  (`HandleInjective`) needs division with a remainder for arbitrary `PageDiv`,
  which is proved from the definition (`Stride`, `Quotient`). The refinement
  shows that each step changes one word of the map at most (`WordChanged`,
  `MapKept`); that a push fails only when full follows from counting the free
  chain (`ChainLength`).
* `ChainsCorrect`, `DestroyedCorrect`, `KeyMapImplemented`
  (`HashTableProofs.tla`): for any keys, values and hash function, and any
  ascending list of sizes. An array in which each entry is on the chain of its
  key and no key is there twice (`WellPlaced`) stands for the set of its
  `Entries`. The lemmas say what inserting, removing and rehashing do to that set
  (`Inserted`, `Removed`, `RehashKeeps`), and the theorems follow from
  them, whatever the chains look like. That rehashing loses no entry rests on
  `Ranked`: the entries that go to one chain are numbered by how many
  of them come before, without a gap; a gap would have a least number
  (`LeastElement`). The closest prime of a size is a least element as well.
* `ContextsCountedCorrect` (`BridgeProofs.tla`): for any finite set of components
  in Python and any nesting. `Counted` is preserved by every function of the
  bridge (one lemma each), hence by every step; the call stack only matters for
  its type.
* `NestedCorrect` (`BridgeProofs.tla`): `BridgeSpec => []NestedNeverBlocks`.
  `PermitsOK` says that the lock has a permit for each context that is not
  entered, and one more: a call takes one and its component leaves those that
  count; a component that is entered again was not among them. The bound
  `MaxPermits`, from which on permits are not counted, has to be larger than the
  number of components, as it is in the run.
* `RunsAliveCorrect` (`BridgeProofs.tla`): `BridgeSpec => []RunsAlive`. `NestOK` says
  that, as long as no component was entered from within itself, the calls
  under way are of different components which keep their contexts, and that each
  call returns to the thread state of a call around it (`Below`) or to the main one.
* `QueueCorrect` (`SpawnProofs.tla`): `QueueSpec => [](QueueTypeOK /\
  QueueExact)`, for any components, methods and schedule. `QueueSpec` says that
  `init()` and `destroy()` alternate and that methods are called in between;
  that the library keeps to it is a theorem as well (`SpawnKeepsQueueSpec`,
  below).
* `AwaitCorrect` (`SpawnProofs.tla`): `SpawnSpec => []AnswersAwaited`, for any
  number of services, applications and tests, any habits and any schedule; a
  component is assumed to be called in one role, as a service, an application or
  a test, and to be found once by a query for it (`SpawnAssumption`): one
  component that is both an application and a test could run two drivers at a
  time, with one semaphore. `OneCall` says that main() has at most one call to a
  service under way: it is on the queue or being answered and the semaphore is
  0, or it is answered and the semaphore is 1; all other services are at rest. This holds
  because the other threads leave services alone: what a thread may still have to do is
  a sequence of its `Own` steps, which reference and destroy its own component and those
  that are no services, and only main() imports services (`ImportsOK`).
  No call is dropped because a service that is told to quit is about to be
  joined, by main(), which has no call under way then, or by itself (`QuitsOK`).
* The whole program of `Spawn`, for any number of services, applications and
  tests, any habits, in particular any calls of the API from inside methods, and
  any schedule (`SpawnProofs.tla`). What a reference count, a lock or the state of a
  component will be depends on the steps that every thread still has to do, a
  sequence of any length in `todo`. The invariant is therefore a *ledger*: it
  gives each thread an account of what it holds between two steps, that is how
  often it locked each mutex, the references it has to drop, the imports
  of its client, and the component that it is destroying, with the stage of that.
  `SpawnInv` says that there are accounts such that
  * they add up to what the library counts: a mutex is owned by the thread whose
    account has it, `imports` are those of the accounts, and the reference count
    of a component is the number of its `Holders` (`LocksKept`, `ImportsKept`,
    `RefsKept`);
  * the steps in `todo[t]` lead (`Leads`) from the account of thread `t` to
    what its program has to hold when the call returns (`AtRest`), and each of
    these steps does to the account what it does to the state (`Effect`);
  * the life cycle fits (`Lives`): a component is being unloaded, or up without
    references, only while some thread is destroying it, which has the lock of
    components (`Covered`) and finds it at the stage the next step expects.

  A step takes the first effect off one account and leaves the others alone
  (`Keeps`); where the code puts steps in front of the rest, as `component_unref`
  does, their net effect is none (`Net`). At the calls, the accounts
  follow what main() and the test driver have handles of (`MainPlace`). The results:
  * `SpawnTypeCorrect`: `SpawnSpec => []SpawnTypeOK`;
  * `SpawnKeepsQueueSpec`: `SpawnSpec => KeepsQueueSpec`, a refinement step by
    step, hence `SpawnQueues`: `QueueExact` holds in the program;
  * `SpawnBalanced`: a call returns without a mutex, with the imports the
    caller knows of (`CallsBalanced`); while no call is under way, reference counts
    are those of imports and queries, exactly (`RefsCounted`);
  * `SpawnServed`: the server of an open import is up, referenced and takes calls
    (`OpenServed`); while nobody has the lock of components, what is loaded is
    referenced and the other way round (`UnloadedUnused`);
  * `SpawnSound`: no step of the library finds what it works on gone
    (`StepsSound`);
  * `SpawnClean`: at the end nothing is locked, imported, referenced or
    loaded (`NothingLeft`);
  * `SpawnNoFreedImport`: the fault `freed_import` does not happen;
  * `SpawnInTime`: no answer of a service misses the semaphore of main(). It
    needs one more invariant, `SemsGone`: without the semaphore main() has
    started nothing yet or has dropped everything, so that no service
    is loaded (`ServiceGone`).
  * `SpawnFaults` (`SpawnWaitProofs.tla`): while components answer once, as the last thing
    they do (`AllPolite`), the faults are `not_loaded`, `freed_sibling`, with more
    than two applications, and `null_handles`, without the arrays (`OnlyThese`): of the
    undefined behaviour that the module knows, nothing is called that is
    freed or unmapped, and no answer comes late. That a step which ends in such a
    fault leaves everything else as it is (`Still`) is all the other theorems need to
    know of it. Not counted are failed allocations within the calls of the API. `PoliteInv` says who
    is called when: at most one application, by main(), which waits for its answer in
    the run loop before it drops it (`AppCalls`); at most one test, by the
    application, which waits for its answer on a semaphore that is there (`TestCalls`); all
    others do nothing and have nothing to do (`Idle`). Whoever is busy is therefore
    imported by the thread that waits for it (`BusyOpened`), so that it is not
    destroyed (`BusyUp`), by others or by itself. For the application this
    needs that main(), once it called it, only drops imports (`QueryEnds`,
    `OpenBefore`).
  * `SpawnUsed` (`SpawnWaitProofs.tla`): `SpawnSpec => []UsedWhileThere`. What is left
    is that no answer comes late if only the tests are known to answer once. Services
    and applications may then be busy at any time; but still only the application
    that main() started is ever called (`OneApp`), so that there is one driver and
    `TestCalls` holds (`Drives`), and a test answers a driver that waits
    (`ComponentInTime`).
  * `SpawnNoDeadlock` (`SpawnWaitProofs.tla`): `SpawnSpec => []NoDeadlock`. Threads
    that wait for each other are in calls of the library. By `PoliteInv`, at most one
    component is in such a call, and if main() is in one as well it is at the end of
    its query (`OneCaller`). With one application, that end closes no import
    (`QueryShort`): main() takes the lock of queries, drops a reference, for which
    it needs the lock of components, and gives the first lock back. So
    main() waits for the lock of components, and the component, which has it, for that of
    queries (`HeldAtEnd`, `NoPair`); but whoever has the lock of components gives it
    back before it asks for that of queries, which is an invariant of all the steps
    in `todo` (`InOrder`). The proof needs `LocksAssumption`: the mutexes of the
    modules of the library are not those of components.

  `OpenServed`, `UnloadedUnused`, `StepsSound` and the last line of `NothingLeft`
  are claimed while `fault` is `"none"`, since after the other faults but
  `freed_import`, which does not happen, the C program may do anything. None of these
  formulas is the property of a run of its own; TLC was used
  to check them on the settings of `MCSpawn` before they were proved.
* The registry, for any bundles, libraries, versions, caches, crashes and failed
  allocations. Each result uses the ones before it:
  * `RegistryTypeCorrect` (`RegistryProofs.tla`). The strengthening `TypeInv`
    adds what a call under way is about: the component being read exists, is of
    the library of the call, and none of its ports is freed yet. Without it,
    nothing says that the next port goes to an existing component.
  * `ModulesBalancedCorrect` (`RegistryProofs.tla`). `ModulesInv` says that, as
    long as there is no fault, the place of the call determines whether the
    modules are up (`PlaceTells`).
  * `PortsCorrect` (`RegistryProofs.tla`). `DataInv` says that every component,
    every cache file, torn or not, and the component that is being read are
    prefixes of the table of the version they are from. A crash while writing
    leaves a prefix too, which is why a later process that takes the file
    as it is either reads all ports or sees that the library has to be read.
  * `ProvidersCorrect` (`RegistryListsProofs.tla`). `ProvidersExact` says nothing
    of the lists from which it follows; `Exact` adds that an interface has one
    list at most, that a list is dead with its last port, and that the key
    of an entry belongs to a port on its list or is freed. While no freed name
    was compared, a lookup is therefore deterministic (`HitsFresh`), and
    registering and freeing a port each change one list by one
    port (`InterfaceGrows`, `InterfaceShrinks`).
  * `FaultsCorrect` (`RegistryListsProofs.tla`). `Told` says of each fault, of a
    comparison with a freed name and of a port without a list what must
    have happened before; `Exact`, `DataInv` and `ModulesInv` exclude the rest.
  * `QueryCorrect` (`RegistryListsProofs.tla`): `RegistrySpec => QueryComplete`.
    `Exact` gives the candidates; that they are in the order of
    loading is `InOrder`: a port is registered by the component that was created
    last, and goes to the end of its list. `Matching` keeps the order of the list it
    is given (`NthOrder`).

Model-checked only:

* liveness, `CallsReturn`, `CallsEnd` and `SpawnEnds`, is out of the prover's
  reach;
* `NoFault`, `OpenedReady`, `UnusedUnloaded`, `UnregisterPaired`,
  `RegistrationsBalanced`, `MethodsMapped`, `InitOnce`, `MandatoryImported` and
  `DestroyCalled` do not hold for every value of the constants, as the findings
  show: each depends on which methods fail, which calls clients make or on
  wirings without cycles, and is checked where it does hold.

## Running

    tlc -config MCLifecycleSession.cfg MCLifecycle.tla
    tlc -config MCParts.cfg MCParts.tla
    tlc -config MCRegistry.cfg MCRegistry.tla
    tlc -config MCRegistryHash.cfg MCRegistry.tla
    tlc -config MCRegistryPort.cfg MCRegistry.tla
    tlc -config MCSpawn.cfg MCSpawn.tla
    tlapm LifecycleProofs.tla

and likewise the other configurations of `MCLifecycle`, and `HandleDirProofs`,
`HashTableProofs`, `BridgeProofs`, `SpawnProofs`, `SpawnWaitProofs`, `RegistryProofs`
and `RegistryListsProofs` (`SpawnProofs` takes ten minutes or so, `LifecycleProofs`,
`SpawnWaitProofs` and the last two some minutes each).

The operators marked as mutants are faulty variants of the definition that
follows them (`mutants` in `PROJECT.json`): each property has one that breaks
it, which shows that the run can see such an error.

## Not modelled

* Vendored `ext/jansson`, tracing, samples and interface definitions keep no
  state of the framework. Of the code generator, only the queues it writes are
  modelled; the rest of its output converts arguments.
* The Mach semaphores are an alternative to the POSIX ones.
* `component_set_name`, `component_set_descr` and `xCOM_GetComponentBundlePath`
  copy or return strings.
* Loading bundles from several threads, the mutexes of `ports.c` and those of
  the lists of providers.
* Failed allocations of imports; of queries only that there is none.
* Python: the threads of queues that enter contexts for methods and results,
  objects and conversions, and waits between the interpreter lock and the
  locks of the library.
