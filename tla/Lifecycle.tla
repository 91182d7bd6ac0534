------------------------------ MODULE Lifecycle ------------------------------
(***************************************************************************)
(* The component life cycle of the xCOM library as one thread executes it: *)
(* components are reference counted, loaded and initialised when an import *)
(* of one of their ports is opened, and destroyed and unloaded when the    *)
(* last reference goes (component.c); imports connect a client component   *)
(* to a server component (import.c); queries create imports (query.c).     *)
(*                                                                         *)
(* The library calls back into components (init, destroy and the ports'    *)
(* register and unregister methods) and is itself recursive, so its        *)
(* control state is a call stack.  A frame stands for one activation of    *)
(* component_init, component_destroy, component_close_imports,             *)
(* import_open, import_close, import_free, query_free, or of a method of a *)
(* component; calls that can neither recurse nor call back are part of the *)
(* step of their caller.  What a component does from inside a method, and  *)
(* what the application does, is any call of the API allowed by Api.       *)
(*                                                                         *)
(* Memory is modelled by identity: an identifier of a freed import is used *)
(* again only once no pointer to it is left, so that following a dangling  *)
(* pointer is recognised and recorded in fault, as is a failed assertion.  *)
(***************************************************************************)
EXTENDS Integers, Sequences, FiniteSets

CONSTANTS
  Components,         \* the components of the loaded bundles
  Anonymous,          \* the component that stands for the application
  Interfaces,         \* interface names
  Wirings,            \* the port tables to start from (see Wiring)
  ImportIds,          \* pool of imports: bounds the imports alive at once
  QueryIds,           \* pool of queries: bounds the queries alive at once
  Nil,                \* the NULL pointer and the absent component
  LoadOutcomes,       \* what dlopen and dlsym may do
  InitOutcomes,       \* what an init() method may return
  RegisterOutcomes,   \* what a register() method may return
  UnregisterOutcomes, \* what an unregister() method may return
  Api,                \* the calls that clients make
  MaxNesting          \* methods active at once from which API calls are made

Comps == Components \cup {Anonymous}

Port == [iface : Interfaces, optional : BOOLEAN, multiple : BOOLEAN]

\* The ports of all the components: who provides an interface, in the order of
\* the providers list, and which interfaces a component requires at load time
\* (in the order of its declaration) or at run time; and the interfaces that
\* the code of a component queries by name; whether its methods may fail, and how
\* many imports and queries clients leave in the pools for its loadtime imports.
Wiring == [providers : [Interfaces -> Seq(Components)],
           loadtime  : [Comps -> Seq(Port)],
           runtime   : [Comps -> SUBSET Interfaces],
           named     : [Comps -> SUBSET Interfaces],
           fails     : BOOLEAN,
           spare     : [imports : Nat, queries : Nat]]

Results    == {"ok", "error"}
Calls      == {"query", "port", "next", "finish", "import", "unimport", "drop",
               "accessor", "sibling", "specific", "early", "abandon",
               "in_destroy"}
PortMethods == {"register_server", "register_client",
                "unregister_server", "unregister_client"}
Methods    == {"init", "destroy"} \cup PortMethods

ASSUME WiringAssumption   == Wirings \subseteq Wiring
ASSUME PoolAssumption     == ImportIds \subseteq Nat /\ QueryIds \subseteq Nat
ASSUME NilAssumption      == Nil \notin ImportIds \cup QueryIds \cup Comps
ASSUME ComponentAssumption == Anonymous \notin Components
ASSUME OutcomeAssumption  ==
  /\ LoadOutcomes \subseteq {"ok", "no_library", "no_symbol"}
  /\ InitOutcomes \cup RegisterOutcomes \cup UnregisterOutcomes \subseteq Results
  /\ Api \subseteq Calls
  /\ MaxNesting \in Nat

VARIABLES
  wiring,    \* the port tables; never change here
  cstate,    \* component_t.state
  entry,     \* component_t.init and destroy, and the ports' methods: "unset"
             \* before the first load, "set" while the library is mapped, "null"
  refs,      \* component_t.references
  imports,   \* component_t.imports
  imp,       \* the imports (import_t), by identifier
  qry,       \* the queries (query_t), by identifier
  given,     \* the valid import handles that components or the application know
  stack,     \* the activations in progress, innermost first
  ret,       \* the result of the call that returned last
  fault,     \* undefined behaviour or a failed assertion, once it happened
  up         \* history: init() succeeded and destroy() was not called since

compVars == <<wiring, cstate, entry, refs, imports, up>>
objVars  == <<imp, qry, given>>
vars     == <<wiring, cstate, entry, refs, imports, up, imp, qry, given, stack, ret, fault>>

(***************************************************************************)
(* Types                                                                   *)
(***************************************************************************)
ComponentStates == {"null", "loaded", "initialized", "unloading"}
ImportStates == {"queried", "unregistered", "registered_to_server",
                 "registered_to_client", "opened"}
ImportPtr == ImportIds \cup {Nil}

\* port: the import belongs to a port of the client (clientPortName != NULL).
\* srvReg, cliReg: history, the register() of that side succeeded and its
\* unregister() did not return since.
Import == [st : ImportStates \cup {"free"}, query : QueryIds \cup {Nil},
           client : Comps, server : Comps, port : BOOLEAN,
           next : ImportPtr, prev : ImportPtr,
           srvReg : BOOLEAN, cliReg : BOOLEAN]

\* user: made by xCOM_QueryInterface or xCOM_QueryPort, not by a loadtime import.
Query == [live : BOOLEAN, user : BOOLEAN, client : Comps,
          first : ImportPtr, last : ImportPtr, cursor : ImportPtr]

Activations == {"init", "destroy", "close_imports", "open", "close", "free",
                "finish", "method"}
Points == Methods \cup
  {"start", "ports", "next", "imported", "finish", "port_done", "call",
   "called", "failed", "unload", "loop", "inited", "server", "client",
   "client_done", "switch", "release", "freed", "back", "forward"}

\* An activation: where it is (op, pc), its component c, import i, second
\* import pointer j, query q, port number k and result r so far.
Activation ==
  {f \in [op : Activations, pc : Points, c : Comps, i : ImportPtr, j : ImportPtr,
          q : QueryIds \cup {Nil}, k : Nat \ {0}, r : Results] :
     /\ f.op \in {"open", "close", "free"} \/ f.pc \in {"imported"} \cup PortMethods
          => f.i \in ImportIds
     /\ f.op = "finish" \/ f.pc \in {"next", "imported"} => f.q \in QueryIds}

Faults == {"none", "dangling", "assertion", "null_switch", "wild_call"}

TypeOK ==
  /\ wiring \in Wiring
  /\ cstate \in [Comps -> ComponentStates]
  /\ entry \in [Comps -> {"unset", "set", "null"}]
  /\ refs \in [Comps -> Nat]
  /\ imports \in [Comps -> Seq(ImportIds)]
  /\ imp \in [ImportIds -> Import]
  /\ qry \in [QueryIds -> Query]
  /\ given \subseteq ImportIds
  /\ stack \in Seq(Activation)
  /\ ret \in Results
  /\ fault \in Faults
  /\ up \in [Comps -> BOOLEAN]

(***************************************************************************)
(* Memory and the call stack                                               *)
(***************************************************************************)
NoImport == [st |-> "free", query |-> Nil, client |-> Anonymous,
             server |-> Anonymous, port |-> FALSE, next |-> Nil, prev |-> Nil,
             srvReg |-> FALSE, cliReg |-> FALSE]
NoQuery  == [live |-> FALSE, user |-> FALSE, client |-> Anonymous,
             first |-> Nil, last |-> Nil, cursor |-> Nil]

Live(i) == imp[i].st # "free"

\* The import memory that some pointer, or some caller's handle, still names.
Pointed == UNION
  ({given} \cup {{imp[i].next, imp[i].prev} : i \in {x \in ImportIds : Live(x)}}
           \cup {{qry[q].first, qry[q].last, qry[q].cursor} :
                    q \in {x \in QueryIds : qry[x].live}}
           \cup {{stack[n].i, stack[n].j} : n \in DOMAIN stack}
           \cup {{imports[c][n] : n \in DOMAIN imports[c]} : c \in Comps})
Reusable == {i \in ImportIds : ~Live(i)} \ Pointed

\* The n smallest reusable identifiers, in increasing order.
Fresh(ids, n) ==
  /\ ids \in [1..n -> Reusable]
  /\ \A a, b \in 1..n : a < b => ids[a] < ids[b]
  /\ \A i \in Reusable : n > 0 /\ i < ids[n] => \E a \in 1..n : ids[a] = i

Enter(op, pc, c, i, q) ==
  [op |-> op, pc |-> pc, c |-> c, i |-> i, j |-> Nil, q |-> q, k |-> 1, r |-> "ok"]

Top == Head(stack)
Rest == Tail(stack)
At(op, pc) == fault = "none" /\ stack # <<>> /\ Top.op = op /\ Top.pc = pc
Resume(pc) == [Top EXCEPT !.pc = pc]      \* the running activation, moved to pc
Call(f, pc) == stack' = <<f, Resume(pc)>> \o Rest
Goto(pc) == stack' = <<Resume(pc)>> \o Rest
Fault(kind) == fault' = kind /\ UNCHANGED <<compVars, objVars, stack, ret>>

\* Calling a method of component c about import i, with s to resume: a port
\* without a method, or a disabled port, answers XC_OK.
Invoke(method, c, i, s) ==
  IF entry[c] = "set"
    THEN stack' = <<Enter("method", method, c, i, Nil)>> \o s /\ ret' = ret
    ELSE stack' = s /\ ret' = "ok"

\* component_ref.  Mutant: the reference is not counted.
RefLost(c) == refs' = refs
Ref(c) == refs' = [refs EXCEPT ![c] = @ + 1]

\* component_unref, with s to resume: the last reference destroys the component.
\* Mutants: dropped twice; the count compared before it, or one too early.
DroppedTwice(n) == IF n = 0 THEN 0 ELSE n - 2
Dropped(n) == IF n = 0 THEN 0 ELSE n - 1
LastLate(c) == refs[c] = 0
LastEarly(c) == refs[c] \in {1, 2}
LastReference(c) == refs[c] = 1

Unref(c, s) ==
  /\ refs' = [refs EXCEPT ![c] = Dropped(@)]
  /\ fault' = IF refs[c] = 0 THEN "assertion" ELSE fault
  /\ stack' = IF LastReference(c) THEN <<Enter("destroy", "start", c, Nil, Nil)>> \o s ELSE s

\* component_load, called with outcome o of dlopen and dlsym.
Load(c, o) ==
  /\ o \in IF cstate[c] = "null" THEN LoadOutcomes ELSE {"ok"}
  /\ cstate' = IF cstate[c] = "null" /\ o # "no_library"
                 THEN [cstate EXCEPT ![c] = "loaded"] ELSE cstate
  /\ entry' = IF cstate[c] = "null" /\ o = "ok"
                THEN [entry EXCEPT ![c] = "set"] ELSE entry

\* XC_CLIST_REMOVE on the list of the imports of a client.  Mutant: the import
\* is freed but stays in the list.
WithoutNone(list, i) == list
Without(list, i) ==
  LET n == CHOOSE m \in DOMAIN list : list[m] = i
  IN IF \E m \in DOMAIN list : list[m] = i
       THEN SubSeq(list, 1, n - 1) \o SubSeq(list, n + 1, Len(list)) ELSE list
Listed(i) == \E n \in DOMAIN imports[imp[i].client] : imports[imp[i].client][n] = i
First(list) == IF list = <<>> THEN Nil ELSE list[1]
\* XC_CLIST_NEXT: the element after i, Nil for the end of the list.  Mutant:
\* the element is looked at again after it was freed.
AfterFreed(list, i) == i
After(list, i) ==
  IF \E n \in 1..Len(list) - 1 : list[n] = i
    THEN list[1 + CHOOSE n \in 1..Len(list) - 1 : list[n] = i] ELSE Nil

(***************************************************************************)
(* query_new: reference the client, then create one import per provider,   *)
(* chained to its siblings and added to the client's imports.  It cannot   *)
(* call back.  Out of memory and out of handles are not modelled; the      *)
(* provider lists hold the providers that match.                           *)
(***************************************************************************)
import_new(q, c, port, server, next, prev) ==
  [st |-> "queried", query |-> q, client |-> c, server |-> server, port |-> port,
   next |-> next, prev |-> prev, srvReg |-> FALSE, cliReg |-> FALSE]

\* import_set_next: the k-th of the n imports made, to which those beside it
\* are linked.
Linked(ids, n, k) == IF k \in 1..n THEN ids[k] ELSE Nil

component_add_import(c, ids) == [imports EXCEPT ![c] = @ \o ids]

QueryNew(c, iface, port, user, q, s) ==
  LET provs == wiring.providers[iface]
      n == Len(provs)
  IN /\ ~qry[q].live
     /\ \A p \in QueryIds : ~qry[p].live => q <= p
     /\ \E ids \in [1..n -> ImportIds] :
          /\ Fresh(ids, n)
          /\ LET New(k) == import_new(q, c, port, provs[k],
                                     Linked(ids, n, k + 1), Linked(ids, n, k - 1))
             IN /\ imp' = [i \in ImportIds |->
                             IF \E k \in 1..n : ids[k] = i
                               THEN New(CHOOSE k \in 1..n : ids[k] = i) ELSE imp[i]]
                /\ qry' = [qry EXCEPT ![q] =
                             [live |-> TRUE, user |-> user, client |-> c,
                              first |-> Linked(ids, n, 1), last |-> Linked(ids, n, n),
                              cursor |-> Linked(ids, n, 1)]]
                /\ imports' = component_add_import(c, ids)
                /\ refs' = [x \in Comps |-> refs[x] + (IF x = c THEN 1 ELSE 0)
                                          + Cardinality({k \in 1..n : provs[k] = x})]
     /\ stack' = s
     /\ UNCHANGED <<wiring, cstate, entry, up, given, fault>>

(***************************************************************************)
(* component_init                                                          *)
(***************************************************************************)
LoadtimePort == wiring.loadtime[Top.c][Top.k]

\* component_init has nothing to do.  Mutant: a second import initialises again.
InitialisedNever(c) == cstate[c] = "unloading"
Initialised(c) == cstate[c] \in {"initialized", "unloading"}

\* Load the library; the result of component_load is not looked at.
InitLoad ==
  /\ At("init", "start")
  /\ ~Initialised(Top.c)
  /\ \E o \in {"ok", "no_library", "no_symbol"} : Load(Top.c, o)
  /\ Goto("ports")
  /\ UNCHANGED <<wiring, refs, imports, up, objVars, ret, fault>>

\* A component past that point needs no initialisation.
InitAlready ==
  /\ At("init", "start")
  /\ Initialised(Top.c)
  /\ cstate' = [cstate EXCEPT ![Top.c] = "initialized"]
  /\ ret' = "ok"
  /\ stack' = Rest
  /\ UNCHANGED <<wiring, entry, refs, imports, up, objVars, fault>>

\* component_loadtime_import: query the interface of the next loadtime port.
\* A query without a match is not finished.
InitQuery ==
  /\ At("init", "ports")
  /\ Top.k <= Len(wiring.loadtime[Top.c])
  /\ \E q \in QueryIds :
       QueryNew(Top.c, LoadtimePort.iface, TRUE, FALSE, q,
         <<IF wiring.providers[LoadtimePort.iface] = <<>>
             THEN [Resume("port_done") EXCEPT !.r = "error"]
             ELSE [Resume("next") EXCEPT !.q = q, !.r = "ok"]>> \o Rest)
  /\ ret' = ret

\* xCOM_QueryNext and xCOM_Import on the next match, if there is one.
InitNext ==
  /\ At("init", "next")
  /\ LET q == Top.q
         i == qry[q].cursor
     IN IF i = Nil
          THEN /\ Call(Enter("finish", "start", qry[q].client, qry[q].first, q), "port_done")
               /\ UNCHANGED <<compVars, objVars, ret, fault>>
          ELSE IF ~Live(i) THEN Fault("dangling")
          ELSE /\ qry' = [qry EXCEPT ![q].cursor = imp[i].next]
               /\ stack' = <<Enter("open", "start", imp[i].client, i, Nil),
                             [Resume("imported") EXCEPT !.i = i]>> \o Rest
               /\ UNCHANGED <<compVars, imp, given, ret, fault>>

\* The first success ends a port that is not multiple.
PortSatisfied(port, r) == r = "ok" /\ ~port.multiple

InitImported ==
  /\ At("init", "imported")
  /\ given' = IF ret = "ok" THEN given \cup {Top.i} ELSE given
  /\ stack' =
       (IF PortSatisfied(LoadtimePort, ret)
          THEN <<Enter("finish", "start", qry[Top.q].client, qry[Top.q].first, Top.q),
                 [Resume("port_done") EXCEPT !.i = Nil, !.r = ret]>>
          ELSE <<[Resume("next") EXCEPT !.i = Nil, !.r = ret]>>) \o Rest
  /\ UNCHANGED <<compVars, imp, qry, ret, fault>>

\* The result of a port once an optional port is forgiven; it becomes the
\* result of component_loadtime_imports unless another port follows.  Mutant:
\* every port is forgiven.
PortForgiven(port, r) == "ok"
PortResult(port, r) == IF port.optional THEN "ok" ELSE r

InitPortDone ==
  /\ At("init", "port_done")
  /\ stack' = <<[Resume("ports") EXCEPT !.k = @ + 1, !.q = Nil,
                   !.r = PortResult(LoadtimePort, @)]>> \o Rest
  /\ UNCHANGED <<compVars, objVars, ret, fault>>

\* Call init().  A pointer that was never assigned holds any value.
InitCall ==
  /\ At("init", "ports")
  /\ Top.k > Len(wiring.loadtime[Top.c])
  /\ \/ /\ Top.r = "ok" /\ entry[Top.c] = "set"
        /\ Call(Enter("method", "init", Top.c, Nil, Nil), "called")
        /\ UNCHANGED <<compVars, objVars, ret, fault>>
     \/ /\ Top.r = "error" \/ entry[Top.c] # "set"
        /\ Goto("called")
        /\ ret' = Top.r
        /\ UNCHANGED <<compVars, objVars, fault>>
     \/ Top.r = "ok" /\ entry[Top.c] = "unset" /\ Fault("wild_call")

InitDone ==
  /\ At("init", "called")
  /\ IF ret = "ok"
       THEN /\ cstate' = [cstate EXCEPT ![Top.c] = "initialized"]
            /\ stack' = Rest
       ELSE /\ Call(Enter("close_imports", "loop", Top.c, First(imports[Top.c]), Nil), "failed")
            /\ UNCHANGED cstate
  /\ UNCHANGED <<wiring, entry, refs, imports, up, objVars, ret, fault>>

InitFailed ==
  /\ At("init", "failed")
  /\ stack' = Rest
  /\ ret' = "error"
  /\ UNCHANGED <<compVars, objVars, fault>>

(***************************************************************************)
(* component_destroy and component_unload                                  *)
(***************************************************************************)
\* Whether destroy() is due.  Mutant: not for a component that has imports.
DestroyableAlone(c) == cstate[c] = "initialized" /\ imports[c] = <<>>
Destroyable(c) == cstate[c] = "initialized"

DestroyStart ==
  /\ At("destroy", "start")
  /\ IF Destroyable(Top.c)
       THEN /\ cstate' = [cstate EXCEPT ![Top.c] = "unloading"]
            /\ Call(Enter("close_imports", "loop", Top.c, First(imports[Top.c]), Nil), "call")
       ELSE /\ Goto("unload")
            /\ UNCHANGED cstate
  /\ UNCHANGED <<wiring, entry, refs, imports, up, objVars, ret, fault>>

DestroyCall ==
  /\ At("destroy", "call")
  /\ \/ /\ entry[Top.c] = "set"
        /\ Call(Enter("method", "destroy", Top.c, Nil, Nil), "unload")
        /\ UNCHANGED <<compVars, objVars, ret, fault>>
     \/ /\ entry[Top.c] # "set"
        /\ Goto("unload")
        /\ UNCHANGED <<compVars, objVars, ret, fault>>
     \/ entry[Top.c] = "unset" /\ Fault("wild_call")

DestroyUnload ==
  /\ At("destroy", "unload")
  /\ cstate' = [cstate EXCEPT ![Top.c] = "null"]
  /\ entry' = [entry EXCEPT ![Top.c] = "null"]
  /\ up' = [up EXCEPT ![Top.c] = FALSE]
  /\ stack' = Rest
  /\ UNCHANGED <<wiring, refs, imports, objVars, ret, fault>>

\* component_close_imports: the next element is read before this one is freed.
CloseImportsStep ==
  /\ At("close_imports", "loop")
  /\ LET c == Top.c
         i == Top.i
     IN IF i = Nil
          THEN stack' = Rest /\ UNCHANGED <<compVars, objVars, ret, fault>>
          ELSE IF ~(Live(i) /\ Listed(i)) THEN Fault("dangling")
          ELSE /\ imports' = [imports EXCEPT ![c] = Without(@, i)]
               /\ stack' = <<Enter("free", "start", imp[i].client, i, Nil),
                             [Top EXCEPT !.i = After(imports[c], i)]>> \o Rest
               /\ UNCHANGED <<wiring, cstate, entry, refs, up, objVars, ret, fault>>

(***************************************************************************)
(* import_open                                                             *)
(***************************************************************************)
\* query_unlink_import: the query forgets import i.  Mutant: it does not.
UnlinkNot(i) == qry
Unlink(i) ==
  LET q == imp[i].query
  IN IF q # Nil /\ qry[q].live
       THEN [qry EXCEPT ![q].first = IF @ = i THEN imp[i].next ELSE @,
                        ![q].last  = IF @ = i THEN Nil ELSE @]
       ELSE qry

\* The handle is valid and the import was not opened before.
Openable(i) == imp[i].st \in {"queried", "unregistered"}

OpenStart ==
  /\ At("open", "start")
  /\ LET i == Top.i
     IN IF Openable(i)
          THEN /\ qry' = IF imp[i].st = "queried" THEN Unlink(i) ELSE qry
               /\ imp' = [imp EXCEPT ![i].st = "unregistered", ![i].query = Nil]
               /\ Call(Enter("init", "start", imp[i].server, Nil, Nil), "inited")
               /\ UNCHANGED ret
          ELSE /\ stack' = Rest
               /\ ret' = "error"
               /\ UNCHANGED <<imp, qry>>
  /\ UNCHANGED <<compVars, given, fault>>

\* An error of component_init or of register() ends the opening.
Refused(r) == r = "error"

\* register_to_server: component_init left the server initialised, so that
\* component_load has nothing to do.
OpenInited ==
  /\ At("open", "inited")
  /\ LET i == Top.i
     IN IF Refused(ret)
          THEN Goto("failed") /\ UNCHANGED <<ret, objVars, compVars, fault>>
          ELSE IF ~Live(i) THEN Fault("dangling")
          ELSE IF imp[i].st # "unregistered" THEN Fault("assertion")
          ELSE /\ Invoke("register_server", imp[i].server, i, <<Resume("server")>> \o Rest)
               /\ given' = given \cup {i}
               /\ UNCHANGED <<compVars, imp, qry, fault>>

\* register_to_client: reference and load the client around the call.
OpenServer ==
  /\ At("open", "server")
  /\ LET i == Top.i
         c == imp[i].client
     IN IF Refused(ret)
          THEN Goto("failed") /\ UNCHANGED <<compVars, objVars, ret, fault>>
          ELSE IF ~Live(i) THEN Fault("dangling")
          ELSE IF imp[i].port
            THEN /\ imp' = [imp EXCEPT ![i].st = "registered_to_server"]
                 /\ Ref(c)
                 /\ \E o \in {"ok", "no_library", "no_symbol"} :
                      /\ Load(c, o)
                      /\ IF o # "ok"
                           THEN Goto("client") /\ ret' = "error"
                           ELSE IF entry'[c] = "set"
                             THEN Call(Enter("method", "register_client", c, i, Nil), "client")
                                  /\ ret' = ret
                             ELSE Goto("client") /\ ret' = "ok"
                 /\ UNCHANGED <<wiring, imports, up, qry, given, fault>>
            ELSE /\ imp' = [imp EXCEPT ![i].st = "registered_to_client"]
                 /\ Goto("switch")
                 /\ UNCHANGED <<compVars, qry, given, ret, fault>>

\* What the method of the client's port returned is kept while the reference
\* to the client is dropped, which may destroy it.
Answered == [Resume("client_done") EXCEPT !.r = ret]

OpenClient ==
  /\ At("open", "client")
  /\ LET i == Top.i
     IN IF ~Live(i) THEN Fault("dangling")
        ELSE /\ Unref(imp[i].client, <<Answered>> \o Rest)
             /\ UNCHANGED <<wiring, cstate, entry, imports, up, objVars, ret>>

OpenClientDone ==
  /\ At("open", "client_done")
  /\ LET i == Top.i
     IN IF Refused(Top.r)
          THEN Goto("failed") /\ UNCHANGED <<compVars, objVars, ret, fault>>
          ELSE IF ~Live(i) THEN Fault("dangling")
          ELSE /\ imp' = [imp EXCEPT ![i].st = "registered_to_client"]
               /\ Goto("switch")
               /\ UNCHANGED <<compVars, qry, given, ret, fault>>

\* Copy the switch of the server's port for the client.
OpenSwitch ==
  /\ At("open", "switch")
  /\ LET i == Top.i
     IN IF ~Live(i) THEN Fault("dangling")
        ELSE IF entry[imp[i].server] # "set" THEN Fault("null_switch")
        ELSE /\ imp' = [imp EXCEPT ![i].st = "opened"]
             /\ stack' = Rest
             /\ ret' = "ok"
             /\ UNCHANGED <<compVars, qry, given, fault>>

\* An import that cannot be opened is closed.
OpenFailed ==
  /\ At("open", "failed")
  /\ Call(Enter("close", "start", Top.c, Top.i, Nil), "release")
  /\ UNCHANGED <<compVars, objVars, ret, fault>>

OpenFailedDone ==
  /\ At("open", "release")
  /\ stack' = Rest
  /\ ret' = "error"
  /\ UNCHANGED <<compVars, objVars, fault>>

(***************************************************************************)
(* import_close and import_free                                            *)
(***************************************************************************)
\* Take the import off its client's list, holding a reference to the client;
\* dropping that reference destroys a client that has no other.
CloseStart ==
  /\ At("close", "start")
  /\ LET i == Top.i
         c == imp[i].client
         free == <<Enter("free", "start", c, i, Nil)>> \o Rest
     IN IF ~(Live(i) /\ Listed(i)) THEN Fault("dangling")
        ELSE /\ imports' = [imports EXCEPT ![c] = Without(@, i)]
             /\ stack' = IF refs[c] = 0
                           THEN <<Enter("destroy", "start", c, Nil, Nil)>> \o free ELSE free
             /\ UNCHANGED <<wiring, cstate, entry, refs, up, objVars, ret, fault>>

\* Whether import_free calls unregister_from_client.  Mutants: open imports
\* are forgotten; imports that were never registered are not.
RegisteredHalf(i) == imp[i].st = "registered_to_client"
RegisteredOrNot(i) == imp[i].st # "queried"
Registered(i) == imp[i].st \in {"opened", "registered_to_client"}

\* unregister_from_client
FreeStart ==
  /\ At("free", "start")
  /\ LET i == Top.i
         c == imp[i].client
     IN IF ~Live(i) THEN Fault("dangling")
        ELSE IF Registered(i) /\ imp[i].port
          THEN /\ imp' = [imp EXCEPT ![i].st = "registered_to_client"]
               /\ Ref(c)
               /\ Invoke("unregister_client", c, i, <<Resume("client")>> \o Rest)
               /\ UNCHANGED <<wiring, cstate, entry, imports, up, qry, given, fault>>
          ELSE /\ imp' = IF Registered(i)
                           THEN [imp EXCEPT ![i].st = "registered_to_server"] ELSE imp
               /\ Goto("server")
               /\ UNCHANGED <<compVars, qry, given, ret, fault>>

FreeClient ==
  /\ At("free", "client")
  /\ LET i == Top.i
     IN IF ~Live(i) THEN Fault("dangling")
        ELSE /\ Unref(imp[i].client, <<Answered>> \o Rest)
             /\ UNCHANGED <<wiring, cstate, entry, imports, up, objVars, ret>>

\* An error leaves the import registered with its client.
FreeClientDone ==
  /\ At("free", "client_done")
  /\ LET i == Top.i
     IN IF Top.r = "error"
          THEN Goto("server") /\ UNCHANGED <<compVars, objVars, ret, fault>>
          ELSE IF ~Live(i) THEN Fault("dangling")
          ELSE /\ imp' = [imp EXCEPT ![i].st = "registered_to_server"]
               /\ Goto("server")
               /\ UNCHANGED <<compVars, qry, given, ret, fault>>

\* unregister_from_server
FreeServer ==
  /\ At("free", "server")
  /\ LET i == Top.i
     IN IF imp[i].st = "registered_to_server"
          THEN Invoke("unregister_server", imp[i].server, i, <<Resume("release")>> \o Rest)
          ELSE Goto("release") /\ UNCHANGED ret
  /\ UNCHANGED <<compVars, objVars, fault>>

\* Remove the handle and drop the reference to the server.
FreeRelease ==
  /\ At("free", "release")
  /\ LET i == Top.i
     IN IF ~Live(i) THEN Fault("dangling")
        ELSE /\ imp' = IF imp[i].st = "registered_to_server"
                         THEN [imp EXCEPT ![i].st = "unregistered"] ELSE imp
             /\ given' = given \ {i}
             /\ Unref(imp[i].server, <<Resume("freed")>> \o Rest)
             /\ UNCHANGED <<wiring, cstate, entry, imports, up, qry, ret>>

FreeDone ==
  /\ At("free", "freed")
  /\ imp' = [imp EXCEPT ![Top.i] = NoImport]
  /\ stack' = Rest
  /\ UNCHANGED <<compVars, qry, given, ret, fault>>

(***************************************************************************)
(* query_free: close the imports that were not opened, walking the chain   *)
(* back and then forth from the first import the query still knows         *)
(* (import_free_unused); drop the reference to the client.                 *)
(***************************************************************************)
FinishStart ==
  /\ At("finish", "start")
  /\ LET i == Top.i
     IN IF i = Nil
          THEN Goto("finish") /\ UNCHANGED <<compVars, objVars, ret, fault>>
          ELSE IF ~Live(i) THEN Fault("dangling")
          ELSE /\ stack' = <<[Resume("back") EXCEPT !.i = imp[i].prev, !.j = i]>> \o Rest
               /\ UNCHANGED <<compVars, objVars, ret, fault>>

Unused(i) == imp[i].st = "queried"

\* Visit import i: close it if it is unused, and move on to import succ.
FinishVisit(i, succ) ==
  LET on == <<[Top EXCEPT !.i = succ]>> \o Rest
  IN /\ stack' = IF Unused(i)
                   THEN <<Enter("close", "start", imp[i].client, i, Nil)>> \o on ELSE on
     /\ UNCHANGED <<compVars, objVars, ret, fault>>

FinishBack ==
  /\ At("finish", "back")
  /\ LET i == Top.i
     IN IF i = Nil
          THEN /\ stack' = <<[Resume("forward") EXCEPT !.i = Top.j, !.j = Nil]>> \o Rest
               /\ UNCHANGED <<compVars, objVars, ret, fault>>
          ELSE IF ~Live(i) THEN Fault("dangling")
          ELSE FinishVisit(i, imp[i].prev)

FinishForward ==
  /\ At("finish", "forward")
  /\ LET i == Top.i
     IN IF i = Nil
          THEN Goto("finish") /\ UNCHANGED <<compVars, objVars, ret, fault>>
          ELSE IF ~Live(i) THEN Fault("dangling")
          ELSE FinishVisit(i, imp[i].next)

\* The handle of the query goes.  Mutant: it stays.
QueryKept(q) == qry
QueryRemoved(q) == [qry EXCEPT ![q] = NoQuery]

FinishDone ==
  /\ At("finish", "finish")
  /\ qry' = QueryRemoved(Top.q)
  /\ Unref(Top.c, Rest)
  /\ ret' = "ok"
  /\ UNCHANGED <<wiring, cstate, entry, imports, up, imp, given>>

(***************************************************************************)
(* A method of a component returns. Without "abandon", an init() method    *)
(* finishes its queries before it returns an error.                        *)
(***************************************************************************)
Outcomes(method) ==
  CASE method = "destroy" -> Results
    [] method # "destroy" /\ ~wiring.fails -> {"ok"}
    [] method = "init" /\ wiring.fails -> InitOutcomes
    [] method \in {"register_server", "register_client"} /\ wiring.fails -> RegisterOutcomes
    [] OTHER -> UnregisterOutcomes

MethodReturn ==
  /\ fault = "none" /\ stack # <<>> /\ Top.op = "method"
  /\ ret' \in Outcomes(Top.pc)
  /\ Top.pc = "init" /\ ret' = "error" /\ "abandon" \notin Api =>
       \A q \in QueryIds : qry[q].live /\ qry[q].user => qry[q].client # Top.c
  /\ stack' = Rest
  /\ up' = CASE Top.pc = "init" /\ ret' = "ok" -> [up EXCEPT ![Top.c] = TRUE]
             [] Top.pc = "destroy" -> [up EXCEPT ![Top.c] = FALSE]
             [] OTHER -> up
  /\ imp' = CASE Top.pc = "register_server" -> [imp EXCEPT ![Top.i].srvReg = ret' = "ok"]
              [] Top.pc = "register_client" -> [imp EXCEPT ![Top.i].cliReg = ret' = "ok"]
              [] Top.pc = "unregister_server" -> [imp EXCEPT ![Top.i].srvReg = FALSE]
              [] Top.pc = "unregister_client" -> [imp EXCEPT ![Top.i].cliReg = FALSE]
              [] OTHER -> imp
  /\ UNCHANGED <<wiring, cstate, entry, refs, imports, qry, given, fault>>

(***************************************************************************)
(* The API.  The application and initialised components call it when       *)
(* nothing is in progress, a component also from inside its methods.  A    *)
(* client uses its own handles, does not use again a handle it closed, and *)
(* leaves alone an import that is being opened or closed.                  *)
(***************************************************************************)
\* Bound: the number of methods active at once.
Nesting == Cardinality({n \in DOMAIN stack : stack[n].op = "method"})

InMethod(c) == stack # <<>> /\ Top.op = "method" /\ Top.c = c

MayCall(c) ==
  /\ fault = "none"
  /\ \/ stack = <<>> /\ (c = Anonymous \/ cstate[c] = "initialized")
     \/ /\ InMethod(c) /\ Nesting <= MaxNesting
        /\ cstate[c] = "unloading" => "in_destroy" \in Api

\* The handle of i is still in the directory of imports, and somebody has it.
Released(i) == \E n \in DOMAIN stack :
  stack[n].i = i /\ stack[n].op = "free" /\ stack[n].pc = "freed"
Valid(i) == i \in given /\ Live(i) /\ ~Released(i)

InUse(i) == \E n \in DOMAIN stack :
  stack[n].i = i /\ stack[n].op \in {"open", "close", "free", "method"}

\* Bound: clients leave room in the pools for what the library needs itself.
Room(iface) ==
  /\ Cardinality(Reusable) >= wiring.spare.imports + Len(wiring.providers[iface])
  /\ Cardinality({q \in QueryIds : ~qry[q].live}) > wiring.spare.queries

xCOM_QueryInterface(c, iface) ==
  /\ "query" \in Api /\ MayCall(c) /\ Room(iface)
  /\ iface \in wiring.named[c]
  /\ \E q \in QueryIds : QueryNew(c, iface, FALSE, TRUE, q, stack)
  /\ ret' = "ok"

xCOM_QueryPort(c, iface) ==
  /\ "port" \in Api /\ MayCall(c) /\ Room(iface)
  /\ iface \in wiring.runtime[c]
  /\ \E q \in QueryIds : QueryNew(c, iface, TRUE, TRUE, q, stack)
  /\ ret' = "ok"

MayUse(q) ==
  /\ qry[q].live /\ qry[q].user /\ MayCall(qry[q].client)
  /\ \A n \in DOMAIN stack : stack[n].q # q

xCOM_QueryNext(q) ==
  /\ "next" \in Api /\ MayUse(q)
  /\ LET i == qry[q].cursor
     IN /\ i # Nil
        /\ IF ~Live(i) THEN Fault("dangling")
           ELSE /\ qry' = [qry EXCEPT ![q].cursor = imp[i].next]
                /\ given' = given \cup {i}
                /\ ret' = "ok"
                /\ UNCHANGED <<compVars, imp, stack, fault>>

xCOM_QueryFinish(q) ==
  /\ "finish" \in Api /\ MayUse(q)
  /\ stack' = <<Enter("finish", "start", qry[q].client, qry[q].first, q)>> \o stack
  /\ UNCHANGED <<compVars, objVars, ret, fault>>

xCOM_Import(i) ==
  /\ "import" \in Api /\ Valid(i) /\ ~InUse(i) /\ MayCall(imp[i].client)
  /\ stack' = <<Enter("open", "start", imp[i].client, i, Nil)>> \o stack
  /\ UNCHANGED <<compVars, objVars, ret, fault>>

\* "drop" stands for closing an import that is not open, "early" for closing
\* one while a query of the client is not finished.
xCOM_UnImport(i) ==
  /\ Valid(i) /\ ~InUse(i) /\ MayCall(imp[i].client)
  /\ (IF imp[i].st = "opened" THEN "unimport" ELSE "drop") \in Api
  /\ \/ "early" \in Api
     \/ \A q \in QueryIds : qry[q].live => qry[q].client # imp[i].client
  /\ stack' = <<Enter("close", "start", imp[i].client, i, Nil)>> \o stack
  /\ UNCHANGED <<compVars, objVars, ret, fault>>

\* xCOM_GetSwitch, xCOM_ImportSetSpecific, xCOM_ImportGetSpecific,
\* xCOM_ImportGetClient and xCOM_ImportGetServer assign the state they mean to
\* compare; either side may call them, also about an import it is told of.
Access(i) == imp' = [imp EXCEPT ![i].st = "opened"]

ImportAccessor(i) ==
  /\ "accessor" \in Api /\ Valid(i) /\ fault = "none"
  /\ stack = <<>> \/ InMethod(imp[i].client) \/ InMethod(imp[i].server)
  /\ Access(i)
  /\ UNCHANGED <<compVars, qry, given, stack, ret, fault>>

\* xCOM_GetNextImport also reads the handle of the next sibling.
xCOM_GetNextImport(i) ==
  /\ "sibling" \in Api /\ Valid(i) /\ MayCall(imp[i].client)
  /\ LET j == imp[i].next
     IN IF j # Nil /\ ~Live(j) THEN Fault("dangling")
        ELSE /\ Access(i)
             /\ given' = IF j = Nil THEN given ELSE given \cup {j}
             /\ UNCHANGED <<compVars, qry, stack, ret, fault>>

\* xCOM_SetSpecific, xCOM_GetSpecific and xCOM_GetComponentBundlePath take and
\* drop a reference, which matters to a component that has no other.
ComponentAccessor(c) ==
  /\ "specific" \in Api /\ MayCall(c) /\ refs[c] = 0
  /\ stack' = <<Enter("destroy", "start", c, Nil, Nil)>> \o stack
  /\ UNCHANGED <<compVars, objVars, ret, fault>>

(***************************************************************************)
(* The specification                                                       *)
(***************************************************************************)
Init ==
  /\ wiring \in Wirings
  /\ cstate = [c \in Comps |-> "null"]
  /\ entry = [c \in Comps |-> "unset"]
  /\ refs = [c \in Comps |-> 0]
  /\ imports = [c \in Comps |-> <<>>]
  /\ imp = [i \in ImportIds |-> NoImport]
  /\ qry = [q \in QueryIds |-> NoQuery]
  /\ given = {}
  /\ stack = <<>>
  /\ ret = "ok"
  /\ fault = "none"
  /\ up = [c \in Comps |-> FALSE]

ComponentStep ==
  \/ InitLoad \/ InitAlready \/ InitQuery \/ InitNext \/ InitImported
  \/ InitPortDone \/ InitCall \/ InitDone \/ InitFailed
  \/ DestroyStart \/ DestroyCall \/ DestroyUnload \/ CloseImportsStep

ImportStep ==
  \/ OpenStart \/ OpenInited \/ OpenServer \/ OpenClient \/ OpenClientDone
  \/ OpenSwitch \/ OpenFailed \/ OpenFailedDone
  \/ CloseStart \/ FreeStart \/ FreeClient \/ FreeClientDone \/ FreeServer \/ FreeRelease \/ FreeDone

QueryStep == FinishStart \/ FinishBack \/ FinishForward \/ FinishDone

\* A step of the library, or the return of a method.
Step == ComponentStep \/ ImportStep \/ QueryStep \/ MethodReturn

ApiCall ==
  \/ \E c \in Comps, iface \in Interfaces :
       xCOM_QueryInterface(c, iface) \/ xCOM_QueryPort(c, iface)
  \/ \E q \in QueryIds : xCOM_QueryNext(q) \/ xCOM_QueryFinish(q)
  \/ \E i \in ImportIds : \/ xCOM_Import(i) \/ xCOM_UnImport(i)
                          \/ ImportAccessor(i) \/ xCOM_GetNextImport(i)
  \/ \E c \in Comps : ComponentAccessor(c)

Next == Step \/ ApiCall

Spec == Init /\ [][Next]_vars

\* The thread that entered the library goes on, and methods return.
FairSpec == Spec /\ WF_vars(Step)

(***************************************************************************)
(* Properties                                                              *)
(***************************************************************************)
Activated(c, ops) == \E n \in DOMAIN stack : stack[n].c = c /\ stack[n].op \in ops
\* Who holds a reference to c: the imports it serves, the queries it issued,
\* and the activations that asked for one around a method of a client's port.
Holders(c) ==
  Cardinality({i \in ImportIds : Live(i) /\ imp[i].server = c /\ ~Released(i)})
  + Cardinality({q \in QueryIds : qry[q].live /\ qry[q].client = c})
  + Cardinality({n \in DOMAIN stack : /\ stack[n].op \in {"open", "free"}
                                      /\ stack[n].pc = "client"
                                      /\ stack[n].c = c})

\* The library never follows a pointer to a freed import, never fails an
\* assertion, never copies the switch of a disabled port and never calls
\* through a pointer it did not assign.
NoFault == fault = "none"

\* component_t.references counts the holders exactly (component_ref and
\* component_unref, import_new, import_free, query_new and query_free): a
\* missing or an extra count would keep a component for ever or unload it in use.
RefsExact == NoFault => \A c \in Comps : refs[c] = Holders(c)

\* A component nobody references is not loaded, unless it is being destroyed
\* ("when xCOM is finding a component to be no longer used, it will unload").
UnusedUnloaded ==
  \A c \in Comps : refs[c] = 0 /\ ~Activated(c, {"destroy"})
                     => cstate[c] = "null" /\ entry[c] # "set"

\* The list of a client's imports holds each of its imports once, less those
\* that import_free is tearing down.
Freeing(i) == \E n \in DOMAIN stack : stack[n].op = "free" /\ stack[n].i = i

ListsExact ==
  \A c \in Comps :
    /\ \A m, n \in DOMAIN imports[c] : imports[c][m] = imports[c][n] => m = n
    /\ {imports[c][n] : n \in DOMAIN imports[c]} =
         {i \in ImportIds : Live(i) /\ imp[i].client = c /\ ~Freeing(i)}

\* An open import that nobody is closing is registered on both sides with a
\* server that is initialised and mapped: its switch can be called.
OpenedReady ==
  \A i \in ImportIds :
    imp[i].st = "opened" /\ ~InUse(i) =>
      LET s == imp[i].server
      IN /\ cstate[s] = "initialized" /\ entry[s] = "set"
         /\ imp[i].srvReg /\ (imp[i].port => imp[i].cliReg)

\* Once import_free has let go of the server, unregister() was called on every
\* side whose register() accepted the import, so that no side keeps what it
\* allocated for it; but not on a client whose library is unmapped by then.
RegistrationsBalanced ==
  \A i \in ImportIds : Live(i) /\ Released(i) =>
    /\ ~imp[i].srvReg
    /\ imp[i].cliReg => entry[imp[i].client] # "set"

\* unregister() is only told of imports that register() of the same side
\* accepted ("clean-up things it would have for instance allocated").
UnregisterPaired ==
  \A n \in DOMAIN stack : stack[n].op = "method" =>
    /\ stack[n].pc = "unregister_server" => imp[stack[n].i].srvReg
    /\ stack[n].pc = "unregister_client" => imp[stack[n].i].cliReg

\* A library is not unmapped while one of its methods runs.
MethodsMapped ==
  \A n \in DOMAIN stack : stack[n].op = "method" => entry[stack[n].c] = "set"

\* init() is not called on a component that is initialised or being so.
InitOnce ==
  \A m, n \in DOMAIN stack :
    stack[m].op = "method" /\ stack[m].pc = "init" =>
      /\ ~up[stack[m].c]
      /\ stack[n].op = "method" /\ stack[n].pc = "init" /\ stack[n].c = stack[m].c
           => m = n

\* init() is called only once every mandatory loadtime port of the component
\* has an open import ("XC_OK on success, an xCOM error code otherwise").
InitCalled(c) ==
  Len(stack') > Len(stack) /\ Head(stack').c = c /\ Head(stack').pc = "init"

Imported(c, iface) == \E i \in ImportIds :
  /\ imp[i].st = "opened" /\ imp[i].client = c /\ imp[i].port
  /\ \E n \in DOMAIN wiring.providers[iface] : wiring.providers[iface][n] = imp[i].server

MandatoryImported ==
  [][\A c \in Comps : InitCalled(c) =>
       \A n \in DOMAIN wiring.loadtime[c] :
         wiring.loadtime[c][n].optional \/ Imported(c, wiring.loadtime[c][n].iface)]_vars

\* No query made for a loadtime import outlives component_init.
NoQueryLeft == stack = <<>> => \A q \in QueryIds : qry[q].live => qry[q].user

\* A component whose init() succeeded is not unloaded before its destroy()
\* was called (component_destroy).
DestroyCalled ==
  [][\A c \in Comps : entry[c] = "set" /\ entry'[c] # "set" => ~up[c]]_vars

\* Every call of the API returns.
CallsReturn == stack # <<>> ~> stack = <<>>
=============================================================================
