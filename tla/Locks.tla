------------------------------- MODULE Locks -------------------------------
(***************************************************************************)
(* The calls of the API as several threads make them: the order in which   *)
(* each call takes the locks of the library (component.c, import.c,        *)
(* query.c), and what it does to references and imports, down to the       *)
(* init() and destroy() of components, which are those of CallQueue.       *)
(*                                                                         *)
(* A call is a sequence of steps, kept in todo.  A lock that is released   *)
(* before another one is taken is a single step ("pass").  The mutex of    *)
(* ports.c and those of the lists of providers are left out: with all      *)
(* bundles loaded they are only taken under the lock of queries.           *)
(***************************************************************************)
EXTENDS CallQueue, SequencesExt

CONSTANTS
  Anonymous,    \* the component in the name of which the program itself calls
  Nobody        \* no thread

Clients == Components \cup {Anonymous}
Threads == Components \cup {"main"}

\* The mutexes, all recursive; a component is also its own.
Mutexes == {"query", "import", "component"} \cup Clients

\* The mutexes of the library are those of no component.
ASSUME LocksAssumption == Clients \cap {"query", "import", "component"} = {}

VARIABLES
  owner, depth,  \* of each mutex
  todo,          \* the steps of the call each thread is in
  cstate,        \* component_t.state: "null", "up" or "unloading"
  refs,          \* component_t.references
  imports,       \* the imports of each client of each server: "none", "queried", "open"
  fault          \* undefined behaviour, which ends a behaviour

lockVars == <<owner, depth, todo, cstate, refs, imports, fault>>

LocksInit ==
  /\ owner = [m \in Mutexes |-> Nobody] /\ depth = [m \in Mutexes |-> 0]
  /\ todo = [t \in Threads |-> <<>>]
  /\ cstate = [c \in Clients |-> "null"]
  /\ refs = [c \in Clients |-> IF c = Anonymous THEN 1 ELSE 0]
  /\ imports = [p \in Clients \X Components |-> "none"]
  /\ fault = "none"

-----------------------------------------------------------------------------
(* What the functions of the library do, as steps *)

Do(op, x) == <<[op |-> op, on |-> x]>>
Holding(m, steps) == Do("lock", m) \o steps \o Do("unlock", m)
ForEach(op, client, servers) == [k \in DOMAIN servers |-> [op |-> op, on |-> <<client, servers[k]>>]]

\* An import made through a port is registered with its client, too; p is a
\* pair of a client and a server.  The program itself has no ports.
AtPort(p) ==
  IF p[1] = Anonymous THEN <<>>
  ELSE Do("ref", p[1]) \o Holding(p[1], Do("pass", p[1])) \o Do("unref", p[1])

\* import_free and import_close
import_free(p) ==
  Holding("import",
          (IF imports[p] = "open" THEN AtPort(p) \o Do("pass", p[2]) ELSE <<>>)
            \o Do("free", p) \o Do("unref", p[2]))

import_close(p) ==
  Do("ref", p[1]) \o Do("pass", p[1]) \o Do("unref", p[1]) \o import_free(p)

\* query_new, after which the client has an import of each server.
query_new(client, servers) ==
  Holding("query", Do("ref", client) \o ForEach("new", client, servers))

\* There is no memory for the query: query_free.
query_new_fails(client) == Holding("query", Do("ref", client) \o Do("unref", client))

\* component_ref_port keeps the lock of the component until component_unref_port.
component_ref_port(c, steps) == Holding(c, steps)

\* xCOM_QueryInterface and xCOM_QueryPort around query_new.
ByInterface(client, query) ==
  (IF client = Anonymous THEN Do("pass", "component") ELSE <<>>) \o query
ByPort(client, query) ==
  Do("ref", client) \o component_ref_port(client, query) \o Do("unref", client)

xCOM_QueryInterface(client, servers) == ByInterface(client, query_new(client, servers))
xCOM_QueryPort(client, servers) == ByPort(client, query_new(client, servers))

xCOM_QueryNext == Do("pass", "query")

\* Mutant: import_free_unused() is called, and takes its lock, in any case.
FinishAlways(client, unused) ==
  Holding("query", Holding("import", ForEach("close", client, unused)) \o Do("unref", client))

\* unused are the servers of the query that were not asked to be imported.  The
\* imports before the first one left are not freed: that is for the caller to see to.
xCOM_QueryFinish(client, unused) ==
  Holding("query",
          (IF unused = <<>> THEN <<>>
           ELSE Holding("import", ForEach("close", client, unused)))
            \o Do("unref", client))

\* import_open, component_init and import_register
xCOM_Import(client, s) ==
  Holding("import", Do("pass", "query") \o Holding(s, Do("init", s)) \o Do("pass", s)
                    \o AtPort(<<client, s>>) \o Do("open", <<client, s>>))

\* init() fails.
ImportFails(client, s) ==
  Holding("import", Do("pass", "query") \o Holding(s, Do("pass", s))
                    \o Do("close", <<client, s>>))

xCOM_UnImport(client, s) == Holding("import", Do("close", <<client, s>>))

-----------------------------------------------------------------------------
(* Steps of a thread *)

Step(t) == Head(todo[t])
Free(t, m) == owner[m] \in {Nobody, t}

Advance(t) == todo' = [todo EXCEPT ![t] = Tail(@)]
Instead(t, steps) == todo' = [todo EXCEPT ![t] = steps \o Tail(@)]

\* Mutant: the mutexes are not recursive.
LockOnce(t) ==
  /\ Step(t).op = "lock" /\ Free(t, Step(t).on)
  /\ owner' = [owner EXCEPT ![Step(t).on] = t]
  /\ depth' = [depth EXCEPT ![Step(t).on] = 1]
  /\ Advance(t)
  /\ UNCHANGED <<cstate, refs, imports, fault, queueVars>>

Lock(t) ==
  /\ Step(t).op = "lock" /\ Free(t, Step(t).on)
  /\ owner' = [owner EXCEPT ![Step(t).on] = t]
  /\ depth' = [depth EXCEPT ![Step(t).on] = @ + 1]
  /\ Advance(t)
  /\ UNCHANGED <<cstate, refs, imports, fault, queueVars>>

Unlock(t) ==
  /\ Step(t).op = "unlock"
  /\ depth' = [depth EXCEPT ![Step(t).on] = @ - 1]
  /\ owner' = [owner EXCEPT ![Step(t).on] = IF depth[Step(t).on] = 1 THEN Nobody ELSE @]
  /\ Advance(t)
  /\ UNCHANGED <<cstate, refs, imports, fault, queueVars>>

Pass(t) ==
  /\ Step(t).op = "pass" /\ Free(t, Step(t).on)
  /\ Advance(t)
  /\ UNCHANGED <<owner, depth, cstate, refs, imports, fault, queueVars>>

component_ref(t) ==
  /\ Step(t).op = "ref" /\ Free(t, "component")
  /\ refs' = [refs EXCEPT ![Step(t).on] = @ + 1]
  /\ Advance(t)
  /\ UNCHANGED <<owner, depth, cstate, imports, fault, queueVars>>

\* The last reference: component_destroy, with the lock of components.
component_unref(t) ==
  LET c == Step(t).on
  IN  /\ Step(t).op = "unref" /\ Free(t, "component")
      /\ refs' = [refs EXCEPT ![c] = @ - 1]
      /\ IF refs[c] = 1
           THEN /\ owner' = [owner EXCEPT !["component"] = t]
                /\ depth' = [depth EXCEPT !["component"] = @ + 1]
                /\ Instead(t, Holding(c, Do("destroy", c)) \o Do("unlock", "component"))
           ELSE Advance(t) /\ UNCHANGED <<owner, depth>>
      /\ UNCHANGED <<cstate, imports, fault, queueVars>>

\* import_new, which references the server first.
import_new(t) ==
  LET p == Step(t).on
  IN  /\ Step(t).op = "new" /\ Free(t, "component")
      /\ refs' = [refs EXCEPT ![p[2]] = @ + 1]
      /\ Instead(t, Do("pass", "import") \o Do("add", p))
      /\ UNCHANGED <<owner, depth, cstate, imports, fault, queueVars>>

\* query_add_import
Add(t) ==
  /\ Step(t).op = "add" /\ Free(t, Step(t).on[1])
  /\ imports' = [imports EXCEPT ![Step(t).on] = "queried"]
  /\ Advance(t)
  /\ UNCHANGED <<owner, depth, cstate, refs, fault, queueVars>>

Open(t) ==
  /\ Step(t).op = "open"
  /\ imports' = [imports EXCEPT ![Step(t).on] = "open"]
  /\ Advance(t)
  /\ UNCHANGED <<owner, depth, cstate, refs, fault, queueVars>>

\* A handle that names no import any more is refused.  The imports of a component
\* that is destroyed are released without taking each from its list.
Close(t) ==
  LET p == Step(t).on
  IN  /\ Step(t).op \in {"close", "release"}
      /\ Instead(t, IF imports[p] = "none" THEN <<>>
                    ELSE IF Step(t).op = "close" THEN import_close(p) ELSE import_free(p))
      /\ UNCHANGED <<owner, depth, cstate, refs, imports, fault, queueVars>>

FreeImport(t) ==
  /\ Step(t).op = "free"
  /\ imports' = [imports EXCEPT ![Step(t).on] = "none"]
  /\ Advance(t)
  /\ UNCHANGED <<owner, depth, cstate, refs, fault, queueVars>>

component_init(t) ==
  LET c == Step(t).on
  IN  /\ Step(t).op = "init"
      /\ IF cstate[c] = "up" THEN UNCHANGED <<cstate, queueVars>>
         ELSE cstate' = [cstate EXCEPT ![c] = "up"] /\ StartQueue(c)
      /\ Advance(t)
      /\ UNCHANGED <<owner, depth, refs, imports, fault>>

\* The servers of the imports of a component, in some order.
ImportsOf(c) == SetToSeq({s \in Components : imports[<<c, s>>] # "none"})

\* component_destroy: the imports are closed, then destroy() is called.  A
\* component that is being destroyed already, further up, is unloaded at once.
component_destroy(t) ==
  LET c == Step(t).on
  IN  /\ Step(t).op = "destroy"
      /\ IF cstate[c] = "up"
           THEN /\ cstate' = [cstate EXCEPT ![c] = "unloading"]
                /\ Instead(t, Holding(c, ForEach("release", c, ImportsOf(c))) \o Do("quit", c))
                /\ fault' = fault
           ELSE /\ cstate' = [cstate EXCEPT ![c] = "null"]
                /\ fault' = IF c # Anonymous /\ Alive(c) THEN "unmapped" ELSE fault
                /\ Advance(t)
      /\ UNCHANGED <<owner, depth, refs, imports, queueVars>>

\* Mutant: __quit is not set.
QuitForgotten(t) ==
  LET c == Step(t).on
  IN  /\ Step(t).op = "quit"
      /\ Instead(t, IF cstate[c] = "null" THEN <<>> ELSE Do("post", c))
      /\ UNCHANGED <<owner, depth, cstate, refs, imports, fault, queueVars>>

\* The generated destroy(), if the component is still loaded.
Quit(t) ==
  LET c == Step(t).on
  IN  /\ Step(t).op = "quit"
      /\ IF cstate[c] = "null" THEN Advance(t) /\ UNCHANGED queueVars
         ELSE SetQuit(c) /\ Instead(t, Do("post", c))
      /\ UNCHANGED <<owner, depth, cstate, refs, imports, fault>>

Post(t) ==
  /\ Step(t).op = "post"
  /\ PostQuit(Step(t).on)
  /\ Instead(t, Do("join", Step(t).on))
  /\ UNCHANGED <<owner, depth, cstate, refs, imports, fault>>

\* Mutant: the thread is not waited for.
JoinsNot(t) ==
  LET c == Step(t).on
  IN  /\ Step(t).op = "join"
      /\ cstate' = [cstate EXCEPT ![c] = "null"]
      /\ Advance(t)
      /\ UNCHANGED <<owner, depth, refs, imports, fault, queueVars>>

\* pthread_join, after which the component is unloaded; a thread that joins
\* itself is told so, which is ignored, and runs code that is unmapped.
Join(t) ==
  LET c == Step(t).on
  IN  /\ Step(t).op = "join" /\ (t = c \/ ~Alive(c))
      /\ fault' = IF t = c THEN "unmapped" ELSE fault
      /\ cstate' = [cstate EXCEPT ![c] = "null"]
      /\ Advance(t)
      /\ UNCHANGED <<owner, depth, refs, imports, queueVars>>

LibraryStep(t) ==
  /\ todo[t] # <<>>
  /\ \/ Lock(t) \/ Unlock(t) \/ Pass(t)
     \/ component_ref(t) \/ component_unref(t) \/ component_init(t) \/ component_destroy(t)
     \/ import_new(t) \/ Add(t) \/ Open(t) \/ Close(t) \/ FreeImport(t)
     \/ Quit(t) \/ Post(t) \/ Join(t)

\* The library cannot be loaded, which component_init does not notice: it calls an
\* init() it never learned of, or registers with methods that are not there.
LoadFails(t) ==
  /\ todo[t] # <<>>
  /\ Step(t).op = "init" /\ cstate[Step(t).on] = "null"
  /\ fault' = "not_loaded"

-----------------------------------------------------------------------------
(* Properties *)

LocksTypeOK ==
  /\ owner \in [Mutexes -> Threads \cup {Nobody}]
  /\ depth \in [Mutexes -> Nat]
  /\ \A m \in Mutexes : (owner[m] = Nobody) = (depth[m] = 0)
  /\ cstate \in [Clients -> {"null", "up", "unloading"}]
  /\ refs \in [Clients -> Nat]
  /\ imports \in [Clients \X Components -> {"none", "queried", "open"}]
  /\ fault \in {"none", "unmapped", "not_loaded", "freed_import", "freed_sibling",
                "late_answer", "null_handles"}

\* The thread that t waits for, or Nobody.
Awaited(t) ==
  CASE todo[t] = <<>> -> Nobody
    [] todo[t] # <<>> /\ Step(t).op \in {"lock", "pass"} /\ ~Free(t, Step(t).on) ->
         owner[Step(t).on]
    [] todo[t] # <<>> /\ Step(t).op \in {"ref", "unref", "new"} /\ ~Free(t, "component") ->
         owner["component"]
    [] todo[t] # <<>> /\ Step(t).op = "add" /\ ~Free(t, Step(t).on[1]) ->
         owner[Step(t).on[1]]
    [] todo[t] # <<>> /\ Step(t).op = "join" /\ t # Step(t).on /\ Alive(Step(t).on) ->
         Step(t).on
    [] OTHER -> Nobody

Deadlocked ==
  \E S \in (SUBSET Threads) \ {{}} : \A t \in S : Awaited(t) \in S
=============================================================================
