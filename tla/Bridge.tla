------------------------------- MODULE Bridge -------------------------------
(***************************************************************************)
(* The Python bridge (pycom.c) and the calls that the code generated for a *)
(* component in Python makes of it (codegen/cpython.py): a context with an *)
(* interpreter of its own for each component, created with its first port  *)
(* and ended with the component, and a saved thread state that each call   *)
(* into Python swaps in and out.                                           *)
(*                                                                         *)
(* One thread: the one that imports.  import_open and import_free hold the *)
(* import lock while they call into components, so pyCOM_Init, the calls   *)
(* of init, destroy, register and unregister, and pyCOM_Destroy are nested *)
(* (Python code calls the library again) and never interleaved.  A step is *)
(* what this thread does between two points where Python code runs.  The   *)
(* queue threads of the components, which enter contexts for methods and   *)
(* results, are left out.                                                  *)
(*                                                                         *)
(* External: CPython 2.  Its lock is a counting semaphore, as on Linux: to *)
(* release it without holding it lets one more in.                         *)
(***************************************************************************)
EXTENDS Naturals, Sequences, FiniteSets

CONSTANTS
  PyComponents,  \* components in Python
  WithInit,      \* those that declare an init() method
  WithDestroy,   \* those that declare a destroy() method
  NoState,       \* the NULL thread state
  MainState,     \* the thread state of Py_InitializeEx
  MaxPermits,    \* bound: permits of the interpreter lock that are counted
  MaxDepth,      \* bound: calls into Python in one another
  MaxPorts       \* bound: registrations of each component

ASSUME BridgeAssumption ==
  /\ IsFiniteSet(PyComponents)
  /\ WithInit \subseteq PyComponents /\ WithDestroy \subseteq PyComponents
  /\ NoState \notin PyComponents /\ MainState \notin PyComponents
  /\ NoState # MainState
  /\ MaxPermits \in Nat /\ MaxPermits > Cardinality(PyComponents)
  /\ MaxDepth \in Nat /\ MaxPorts \in Nat

VARIABLES
  py,         \* CPython and the statics and contexts of pycom.c
  pyStack,    \* the calls into Python under way, the innermost last
  pyPhase,    \* component_t.state of each component
  pyPorts,    \* registrations of each component
  reentered   \* history: a context was entered from within itself

bridgeVars == <<py, pyStack, pyPhase, pyPorts, reentered>>

\* The thread state of a component stands for its interpreter.
States == PyComponents \cup {NoState, MainState}

PyCall == [comp : PyComponents,
           op : {"init", "destroy", "register", "unregister"}]

-----------------------------------------------------------------------------
(* External: the interpreter lock and the thread states *)

\* PyEval_InitThreads: the first call creates the lock, and takes it.
InitThreads(s) == [s EXCEPT !.made = TRUE]

\* PyEval_ReleaseLock; permits above the bound only let more in.
ReleaseLock(s) == IF s.permits < MaxPermits THEN [s EXCEPT !.permits = @ + 1] ELSE s

\* PyEval_AcquireLock, where there is a permit.
AcquireLock(s) == [s EXCEPT !.permits = @ - 1]

\* PyThreadState_Swap
Swap(s, state) == [s EXCEPT !.current = state]

\* Py_EndInterpreter, of the current thread state.
EndInterpreter(s, c) == [s EXCEPT !.interpreters = @ \ {c}, !.current = NoState]

\* Py_Finalize: it keeps the lock.
Finalize(s) ==
  [s EXCEPT !.python = FALSE, !.interpreters = {}, !.current = NoState]

-----------------------------------------------------------------------------
(* pycom.c *)

\* Mutant: the lock is not released, as it was not taken.
InitKeepsLock(s) == Swap(s, MainState)

\* The end of pyCOM_Init.
InitEnd(s) == ReleaseLock(Swap(s, MainState))

\* pyCOM_Init up to the context: PyEval_SaveThread releases the lock.
PythonInitialised(s) ==
  IF s.mainStatePtr = NoState
    THEN ReleaseLock([s EXCEPT !.python = TRUE, !.mainStatePtr = MainState,
                               !.current = NoState])
    ELSE s

\* pyCOM_Init: a component that has a context keeps it; the lock is released
\* all the same.
InitExisting(s) == ReleaseLock(InitThreads(s))

InitContext(s, c) ==
  LET i == PythonInitialised(InitThreads(s))
  IN  InitEnd([i EXCEPT !.interpreters = @ \cup {c}, !.contexts = @ \cup {c},
                        !.components = @ + 1])

\* Out of memory, or no such Python module: the interpreter, if there is one, is
\* ended; Python stays initialised.
InitFailed(s) == InitEnd(PythonInitialised(InitThreads(s)))

\* pyCOM_ContextEnter and pyCOM_ContextLeave
Enter(s, c) ==
  IF c \in s.contexts
    THEN [AcquireLock(s) EXCEPT !.previous[c] = s.current, !.current = c]
    ELSE s

\* Mutant: it does not restore the thread state.
LeaveUnswapped(s, c) == IF c \in s.contexts THEN ReleaseLock(s) ELSE s

Leave(s, c) ==
  IF c \in s.contexts THEN ReleaseLock(Swap(s, s.previous[c])) ELSE s

\* Mutant: the components are not counted down.
DestroyUncounted(s, c) ==
  LET e == EndInterpreter(AcquireLock(s), c)
  IN  IF c \in s.contexts
        THEN ReleaseLock(Swap([e EXCEPT !.contexts = @ \ {c}], s.current))
        ELSE s

\* pyCOM_Destroy: the last component takes Python along.
Destroy(s, c) ==
  LET e == [EndInterpreter(AcquireLock(s), c)
              EXCEPT !.contexts = @ \ {c}, !.components = @ - 1]
  IN  IF c \notin s.contexts THEN s
      ELSE IF e.components = 0
        THEN [Finalize(e) EXCEPT !.mainStatePtr = NoState]
        ELSE ReleaseLock(Swap(e, s.current))

-----------------------------------------------------------------------------
(* The calls that the library makes of a component *)

BridgeInit ==
  /\ py = [made |-> FALSE, permits |-> 0, current |-> NoState, python |-> FALSE,
           interpreters |-> {}, mainStatePtr |-> NoState, components |-> 0,
           contexts |-> {}, previous |-> [c \in PyComponents |-> NoState]]
  /\ pyStack = <<>>
  /\ pyPhase = [c \in PyComponents |-> "loaded"]
  /\ pyPorts = [c \in PyComponents |-> 0]
  /\ reentered = FALSE

Entered(c) == \E i \in DOMAIN pyStack : pyStack[i].comp = c

\* Python code of the component runs from here on.
CallPython(s, c, op) ==
  /\ Len(pyStack) < MaxDepth
  /\ s.permits > 0
  /\ py' = Enter(s, c)
  /\ pyStack' = Append(pyStack, [comp |-> c, op |-> op])
  /\ reentered' = (reentered \/ Entered(c))

NoCall(s) == py' = s /\ UNCHANGED <<pyStack, reentered>>

\* component_init begins with the load-time imports.
Load(c) ==
  /\ pyPhase[c] = "loaded"
  /\ pyPhase' = [pyPhase EXCEPT ![c] = "importing"]
  /\ UNCHANGED <<py, pyStack, pyPorts, reentered>>

\* The generated onRegister of a port: of the client of a load-time import, or of
\* a component that is initialised.
Register(c) ==
  /\ pyPhase[c] \in {"importing", "initialized"}
  /\ pyPorts[c] < MaxPorts
  /\ \/ c \in py.contexts /\ CallPython(InitExisting(py), c, "register")
     \/ c \notin py.contexts /\ CallPython(InitContext(py, c), c, "register")
     \/ c \notin py.contexts /\ NoCall(InitFailed(py))
  /\ UNCHANGED <<pyPhase, pyPorts>>

\* The generated init of the component, when its load-time imports are made:
\* without a context there is no init() to call, and it fails.  A component
\* with init() needs a load-time import that was registered, or some other use
\* of Python before: there is no lock to take otherwise.
Initialise(c) ==
  /\ pyPhase[c] = "importing" /\ ~ Entered(c)
  /\ IF c \notin WithInit
       THEN /\ NoCall(py)
            /\ pyPhase' = [pyPhase EXCEPT ![c] = "initialized"]
       ELSE /\ py.made
            /\ IF c \in py.contexts
                 THEN CallPython(py, c, "init") /\ UNCHANGED pyPhase
                 ELSE /\ NoCall(py)
                      /\ pyPhase' = [pyPhase EXCEPT ![c] = "closing"]
  /\ UNCHANGED pyPorts

\* A load-time import failed: component_init closes the others.
GiveUp(c) ==
  /\ pyPhase[c] = "importing" /\ ~ Entered(c)
  /\ pyPhase' = [pyPhase EXCEPT ![c] = "closing"]
  /\ UNCHANGED <<py, pyStack, pyPorts, reentered>>

\* The last reference is dropped: component_destroy closes the imports.
Unload(c) ==
  /\ pyPhase[c] = "initialized" /\ ~ Entered(c)
  /\ pyPhase' = [pyPhase EXCEPT ![c] = "unloading"]
  /\ UNCHANGED <<py, pyStack, pyPorts, reentered>>

\* The generated onUnRegister of a port, when an import is closed.  Whether or not
\* the port declares unregister(), the object of the import is dropped, in Python.
UnRegister(c) ==
  /\ pyPhase[c] \in {"initialized", "closing", "unloading"}
  /\ pyPorts[c] > 0
  /\ CallPython(InitExisting(py), c, "unregister")
  /\ pyPorts' = [pyPorts EXCEPT ![c] = @ - 1]
  /\ UNCHANGED pyPhase

\* pyCOM_InvokeUnRegister returns a value it never sets: when it is not XC_OK,
\* unregister_from_client fails, and the server's port is not unregistered.
Forget(c) ==
  /\ pyPhase[c] = "initialized"
  /\ pyPorts[c] > 0
  /\ pyPorts' = [pyPorts EXCEPT ![c] = @ - 1]
  /\ UNCHANGED <<py, pyStack, pyPhase, reentered>>

\* A component that was not initialised is unloaded without destroy(): it keeps
\* its context.
Closed(c) ==
  /\ pyPhase[c] = "closing" /\ pyPorts[c] = 0 /\ ~ Entered(c)
  /\ pyPhase' = [pyPhase EXCEPT ![c] = "loaded"]
  /\ UNCHANGED <<py, pyStack, pyPorts, reentered>>

\* The generated destroy of the component, up to the call of destroy().
DestroyComponent(c) ==
  /\ pyPhase[c] = "unloading" /\ pyPorts[c] = 0 /\ ~ Entered(c)
  /\ py.permits > 0
  /\ IF c \in WithDestroy \cap py.contexts
       THEN CallPython(py, c, "destroy") /\ UNCHANGED pyPhase
       ELSE /\ NoCall(Destroy(py, c))
            /\ pyPhase' = [pyPhase EXCEPT ![c] = "loaded"]
  /\ UNCHANGED pyPorts

\* The caller's side of a method of a component in Python: its context is entered
\* to convert the arguments, by Python code or by any other client.
QueueMethod(c) ==
  /\ pyPhase[c] = "initialized" /\ pyPorts[c] > 0
  /\ py.permits > 0
  /\ py' = Leave(Enter(py, c), c)
  /\ reentered' = (reentered \/ Entered(c))
  /\ UNCHANGED <<pyStack, pyPhase, pyPorts>>

\* The innermost call returns: init, register and unregister leave their context;
\* destroy goes on with pyCOM_Destroy.
Return ==
  /\ pyStack # <<>>
  /\ LET call == pyStack[Len(pyStack)]
         c == call.comp
         left == Leave(py, c)
     IN  \/ /\ call.op = "register"
            /\ \E more \in {0, 1} : pyPorts' = [pyPorts EXCEPT ![c] = @ + more]
            /\ py' = left /\ UNCHANGED pyPhase
         \/ /\ call.op = "unregister"
            /\ py' = left /\ UNCHANGED <<pyPhase, pyPorts>>
         \/ /\ call.op = "init"
            /\ \E next \in {"initialized", "closing"} :
                 pyPhase' = [pyPhase EXCEPT ![c] = next]
            /\ py' = left /\ UNCHANGED pyPorts
         \/ /\ call.op = "destroy"
            /\ left.permits > 0
            /\ py' = Destroy(left, c)
            /\ pyPhase' = [pyPhase EXCEPT ![c] = "loaded"]
            /\ UNCHANGED pyPorts
  /\ pyStack' = SubSeq(pyStack, 1, Len(pyStack) - 1)
  /\ UNCHANGED reentered

BridgeNext ==
  \/ \E c \in PyComponents :
       \/ Load(c) \/ Register(c) \/ Initialise(c) \/ GiveUp(c) \/ Unload(c)
       \/ UnRegister(c) \/ Forget(c) \/ Closed(c) \/ DestroyComponent(c)
       \/ QueueMethod(c)
  \/ Return

BridgeSpec == BridgeInit /\ [][BridgeNext]_bridgeVars

-----------------------------------------------------------------------------
(* Properties *)

\* The count of components (pycom.c:27) is that of the contexts, each of which
\* has its interpreter; and Python is initialised as long as there is one, so
\* that Py_Finalize never ends an interpreter that a context still names.
ContextsCounted ==
  /\ py.components = Cardinality(py.contexts)
  /\ py.interpreters = py.contexts
  /\ py.python <=> py.mainStatePtr = MainState
  /\ py.contexts # {} => py.python

\* The thread states that there are.
Alive == py.interpreters \cup (IF py.python THEN {MainState} ELSE {})

\* While Python code runs, the thread has a thread state that was not deleted:
\* as long as no component was entered from within itself, which overwrites the
\* state that the outer call returns to (pycom.c:179).
RunsAlive ==
  pyStack # <<>> /\ ~ reentered => py.current \in Alive

\* The thread never waits for itself: a call into Python from within another one
\* finds the interpreter lock free, because each pyCOM_Init releases it once
\* more than it was taken (pycom.c:126).
NestedNeverBlocks == py.made => py.permits > 0
=============================================================================
