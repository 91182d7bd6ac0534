---------------------------- MODULE BridgeProofs ----------------------------
(***************************************************************************)
(* The count of the components in Python, the permits of the interpreter   *)
(* lock and the thread states that calls return to, for any number of      *)
(* components and any nesting of their calls.                              *)
(***************************************************************************)
EXTENDS Bridge, Integers, FiniteSetTheorems, TLAPS

\* What the state of CPython and of pycom.c looks like.
PyStates ==
  [made : BOOLEAN, permits : Int, current : States, python : BOOLEAN,
   interpreters : SUBSET PyComponents, mainStatePtr : {NoState, MainState},
   components : Nat, contexts : SUBSET PyComponents,
   previous : [PyComponents -> States]]

\* The inductive invariant, of such a state: ContextsCounted and its type.
Counted(s) ==
  /\ s \in PyStates
  /\ s.components = Cardinality(s.contexts)
  /\ s.interpreters = s.contexts
  /\ s.python <=> s.mainStatePtr = MainState
  /\ s.contexts # {} => s.python

CallsTypeOK == pyStack \in Seq(PyCall)

-----------------------------------------------------------------------------
(* What each function of the bridge preserves *)

\* What counts of a state.
SameCount(s, t) ==
  /\ t.python = s.python /\ t.interpreters = s.interpreters
  /\ t.mainStatePtr = s.mainStatePtr /\ t.components = s.components
  /\ t.contexts = s.contexts

LEMMA SameCountKept ==
  ASSUME NEW s, Counted(s), NEW t \in PyStates, SameCount(s, t)
  PROVE  Counted(t)
BY DEF Counted, SameCount

\* Releasing the lock, creating it and swapping the thread state count nothing.
LEMMA LockSame ==
  ASSUME NEW s \in PyStates, NEW state \in States
  PROVE  /\ ReleaseLock(s) \in PyStates /\ SameCount(s, ReleaseLock(s))
         /\ AcquireLock(s) \in PyStates /\ SameCount(s, AcquireLock(s))
         /\ InitThreads(s) \in PyStates /\ SameCount(s, InitThreads(s))
         /\ Swap(s, state) \in PyStates /\ SameCount(s, Swap(s, state))
<1>1. ReleaseLock(s) \in PyStates /\ SameCount(s, ReleaseLock(s))
  BY DEF PyStates, ReleaseLock, SameCount
<1>2. AcquireLock(s) \in PyStates /\ SameCount(s, AcquireLock(s))
  BY DEF PyStates, AcquireLock, SameCount
<1>3. InitThreads(s) \in PyStates /\ SameCount(s, InitThreads(s))
  BY DEF PyStates, InitThreads, SameCount
<1>4. Swap(s, state) \in PyStates /\ SameCount(s, Swap(s, state))
  BY DEF PyStates, Swap, SameCount
<1> QED
  BY <1>1, <1>2, <1>3, <1>4

LEMMA LockKept ==
  ASSUME NEW s, Counted(s), NEW state \in States
  PROVE  /\ Counted(ReleaseLock(s)) /\ Counted(AcquireLock(s))
         /\ Counted(InitThreads(s)) /\ Counted(Swap(s, state))
<1>1. s \in PyStates
  BY DEF Counted
<1> QED
  BY <1>1, LockSame, SameCountKept

\* They leave the contexts as they are, too.
LEMMA LockKeepsContexts ==
  ASSUME NEW s \in PyStates
  PROVE  InitThreads(s).contexts = s.contexts
BY DEF PyStates, InitThreads

\* Python is initialised after PythonInitialised, with the same contexts.
LEMMA PythonInitialisedKept ==
  ASSUME NEW s, Counted(s)
  PROVE  /\ Counted(PythonInitialised(s))
         /\ PythonInitialised(s).python
         /\ PythonInitialised(s).contexts = s.contexts
<1> DEFINE t == [s EXCEPT !.python = TRUE, !.mainStatePtr = MainState,
                          !.current = NoState]
<1>1. NoState \in States /\ MainState \in States
  BY DEF States
<1>2. /\ t \in PyStates
      /\ t.python = TRUE /\ t.mainStatePtr = MainState
      /\ t.interpreters = s.interpreters /\ t.components = s.components
      /\ t.contexts = s.contexts
  BY <1>1 DEF Counted, PyStates
<1>3. Counted(t)
  BY <1>2 DEF Counted
<1>4. ReleaseLock(t) \in PyStates /\ SameCount(t, ReleaseLock(t))
  BY <1>1, <1>2, LockSame
<1>5. Counted(ReleaseLock(t)) /\ ReleaseLock(t).python
      /\ ReleaseLock(t).contexts = s.contexts
  BY <1>2, <1>3, <1>4, SameCountKept DEF SameCount
<1>6. s.mainStatePtr # NoState => s.python
  BY DEF Counted, PyStates
<1> QED
  BY <1>5, <1>6 DEF PythonInitialised

\* pyCOM_Init of a component that has a context, and one that fails.
LEMMA InitWithoutContext ==
  ASSUME NEW s, Counted(s)
  PROVE  Counted(InitExisting(s)) /\ Counted(InitFailed(s))
<1>1. MainState \in States
  BY DEF States
<1>2. Counted(InitThreads(s))
  BY <1>1, LockKept
<1>3. Counted(InitExisting(s))
  BY <1>1, <1>2, LockKept DEF InitExisting
<1>4. Counted(PythonInitialised(InitThreads(s)))
  BY <1>2, PythonInitialisedKept
<1>5. Counted(Swap(PythonInitialised(InitThreads(s)), MainState))
  BY <1>1, <1>4, LockKept
<1> QED
  BY <1>1, <1>3, <1>5, LockKept DEF InitFailed, InitEnd

\* pyCOM_Init of a component that has none.
LEMMA InitWithContext ==
  ASSUME NEW s, Counted(s), NEW c \in PyComponents, c \notin s.contexts
  PROVE  Counted(InitContext(s, c))
<1> DEFINE i == PythonInitialised(InitThreads(s))
           t == [i EXCEPT !.interpreters = @ \cup {c}, !.contexts = @ \cup {c},
                          !.components = @ + 1]
<1>1. MainState \in States
  BY DEF States
<1>2. Counted(i) /\ i.python /\ i.contexts = s.contexts
  <2>1. s \in PyStates
    BY DEF Counted
  <2>2. Counted(InitThreads(s)) /\ InitThreads(s).contexts = s.contexts
    BY <1>1, <2>1, LockKept, LockKeepsContexts
  <2> QED
    BY <2>2, PythonInitialisedKept
<1>3. IsFiniteSet(i.contexts) /\ c \notin i.contexts
  <2>1. i.contexts \subseteq PyComponents
    BY <1>2 DEF Counted, PyStates
  <2> QED
    BY <2>1, <1>2, BridgeAssumption, FS_Subset
<1>4. Cardinality(i.contexts \cup {c}) = Cardinality(i.contexts) + 1
  BY <1>3, FS_AddElement
<1>5. Counted(t)
  <2>1. /\ i \in PyStates /\ i.components = Cardinality(i.contexts)
        /\ i.interpreters = i.contexts
        /\ i.python <=> i.mainStatePtr = MainState
    BY <1>2 DEF Counted
  <2>2. i \in PyStates
    BY <2>1
  <2> HIDE DEF i
  <2>3. /\ t \in PyStates
        /\ t.contexts = i.contexts \cup {c} /\ t.interpreters = i.interpreters \cup {c}
        /\ t.components = i.components + 1
        /\ t.python = i.python /\ t.mainStatePtr = i.mainStatePtr
    <3> DEFINE more == [i EXCEPT !.interpreters = @ \cup {c}]
               most == [more EXCEPT !.contexts = @ \cup {c}]
    <3>1. i.interpreters \cup {c} \in SUBSET PyComponents
          /\ i.contexts \cup {c} \in SUBSET PyComponents
          /\ i.components + 1 \in Nat
      BY <2>2 DEF PyStates
    <3>2. /\ more \in PyStates /\ more.interpreters = i.interpreters \cup {c}
          /\ more.contexts = i.contexts /\ more.components = i.components
          /\ more.python = i.python /\ more.mainStatePtr = i.mainStatePtr
      BY <2>2, <3>1 DEF PyStates
    <3> HIDE DEF more
    <3>3. /\ most \in PyStates /\ most.contexts = i.contexts \cup {c}
          /\ most.interpreters = more.interpreters
          /\ most.components = i.components
          /\ most.python = i.python /\ most.mainStatePtr = i.mainStatePtr
      BY <3>1, <3>2 DEF PyStates
    <3> HIDE DEF most
    <3> DEFINE all == [most EXCEPT !.components = @ + 1]
    <3>4. /\ all \in PyStates /\ all.contexts = most.contexts
          /\ all.interpreters = most.interpreters
          /\ all.components = i.components + 1
          /\ all.python = i.python /\ all.mainStatePtr = i.mainStatePtr
      BY <3>1, <3>3 DEF PyStates
    <3>5. all = t
      BY DEF more, most
    <3> QED
      BY <3>2, <3>3, <3>4, <3>5
  <2> QED
    BY <1>2, <1>4, <2>1, <2>3 DEF Counted
<1>6. Counted(Swap(t, MainState))
  BY <1>1, <1>5, LockKept
<1>7. Counted(ReleaseLock(Swap(t, MainState)))
  BY <1>1, <1>6, LockKept
<1> QED
  BY <1>7 DEF InitContext, InitEnd

\* pyCOM_ContextEnter and pyCOM_ContextLeave.
LEMMA EnterLeaveKept ==
  ASSUME NEW s, Counted(s), NEW c \in PyComponents
  PROVE  Counted(Enter(s, c)) /\ Counted(Leave(s, c))
<1>1. s.previous[c] \in States /\ s.current \in States /\ c \in States
  BY DEF Counted, PyStates, States
<1>2. Counted(Leave(s, c))
  BY <1>1, LockKept DEF Leave
<1>3. Counted(AcquireLock(s)) /\ AcquireLock(s).previous = s.previous
  BY <1>1, LockKept DEF AcquireLock, Counted, PyStates
<1>4. Counted([AcquireLock(s) EXCEPT !.previous[c] = s.current, !.current = c])
  BY <1>1, <1>3 DEF Counted, PyStates
<1> QED
  BY <1>2, <1>4 DEF Enter

\* pyCOM_Destroy.
LEMMA DestroyKept ==
  ASSUME NEW s, Counted(s), NEW c \in PyComponents
  PROVE  Counted(Destroy(s, c))
<1>1. CASE c \notin s.contexts
  BY <1>1 DEF Destroy
<1>2. CASE c \in s.contexts
  <2> DEFINE e == [EndInterpreter(AcquireLock(s), c)
                     EXCEPT !.contexts = @ \ {c}, !.components = @ - 1]
             f == [Finalize(e) EXCEPT !.mainStatePtr = NoState]
  <2>1. s.current \in States /\ NoState \in States
    BY DEF Counted, PyStates, States
  <2>2. /\ IsFiniteSet(s.contexts) /\ s.components = Cardinality(s.contexts)
        /\ s.contexts \subseteq PyComponents
    BY BridgeAssumption, FS_Subset DEF Counted, PyStates
  <2>3. /\ IsFiniteSet(s.contexts \ {c})
        /\ Cardinality(s.contexts \ {c}) = s.components - 1
    BY <1>2, <2>2, FS_RemoveElement
  <2>4. Cardinality(s.contexts \ {c}) \in Nat
    BY <2>3, FS_CardinalityType
  <2>5. /\ e.contexts = s.contexts \ {c} /\ e.interpreters = s.contexts \ {c}
        /\ e.components = s.components - 1 /\ e \in PyStates
        /\ e.python = s.python /\ e.mainStatePtr = s.mainStatePtr
    <3> DEFINE a == AcquireLock(s)
               b == EndInterpreter(a, c)
    <3>1. a \in PyStates /\ SameCount(s, a)
      BY <2>1, LockSame DEF Counted
    <3>2. s.interpreters = s.contexts /\ s.components \in Nat
      BY DEF Counted, PyStates
    <3> HIDE DEF a
    <3>3. /\ b \in PyStates /\ b.interpreters = a.interpreters \ {c}
          /\ b.contexts = a.contexts /\ b.components = a.components
          /\ b.python = a.python /\ b.mainStatePtr = a.mainStatePtr
      BY <2>1, <3>1 DEF PyStates, EndInterpreter
    <3> HIDE DEF b
    <3>4. b.components - 1 \in Nat /\ b.contexts = s.contexts
      BY <2>3, <2>4, <3>1, <3>3 DEF SameCount
    <3> DEFINE d == [b EXCEPT !.contexts = @ \ {c}, !.components = @ - 1]
    <3>5. /\ d \in PyStates /\ d.contexts = b.contexts \ {c}
          /\ d.components = b.components - 1 /\ d.interpreters = b.interpreters
          /\ d.python = b.python /\ d.mainStatePtr = b.mainStatePtr
      BY <3>3, <3>4 DEF PyStates
    <3>6. d = e
      BY DEF a, b
    <3> QED
      BY <3>1, <3>2, <3>3, <3>4, <3>5, <3>6 DEF SameCount
  <2>6. Counted(e)
    BY <1>2, <2>3, <2>5 DEF Counted
  <2>7. e.components = 0 => e.contexts = {}
    BY <2>3, <2>5, FS_EmptySet
  <2>8. e.components = 0 => Counted(f)
    BY <2>1, <2>5, <2>6, <2>7, BridgeAssumption DEF Counted, PyStates, Finalize
  <2>9. Counted(ReleaseLock(Swap(e, s.current)))
    BY <2>1, <2>6, LockKept
  <2> QED
    BY <1>2, <2>8, <2>9 DEF Destroy
<1> QED
  BY <1>1, <1>2

-----------------------------------------------------------------------------
(* The invariant *)

LEMMA CountedInit == BridgeInit => Counted(py) /\ CallsTypeOK
<1> SUFFICES ASSUME BridgeInit PROVE Counted(py) /\ CallsTypeOK
  OBVIOUS
<1>1. Cardinality({}) = 0
  BY FS_EmptySet
<1>2. [c \in PyComponents |-> NoState] \in [PyComponents -> States]
  BY DEF States
<1>3. Counted(py)
  BY <1>1, <1>2, BridgeAssumption DEF BridgeInit, Counted, PyStates, States
<1> QED
  BY <1>3 DEF BridgeInit, CallsTypeOK

\* A call into Python, made in a state that counts right.
LEMMA CallPythonKept ==
  ASSUME CallsTypeOK, NEW s, Counted(s), NEW c \in PyComponents,
         NEW op \in {"init", "destroy", "register", "unregister"},
         CallPython(s, c, op)
  PROVE  Counted(py') /\ CallsTypeOK'
<1>1. Counted(py')
  BY EnterLeaveKept DEF CallPython
<1>2. [comp |-> c, op |-> op] \in PyCall
  BY DEF PyCall
<1>3. CallsTypeOK'
  BY <1>2 DEF CallPython, CallsTypeOK
<1> QED
  BY <1>1, <1>3

LEMMA CountedNext ==
  Counted(py) /\ CallsTypeOK /\ [BridgeNext]_bridgeVars
    => Counted(py)' /\ CallsTypeOK'
<1> SUFFICES ASSUME Counted(py), CallsTypeOK, [BridgeNext]_bridgeVars
             PROVE  Counted(py') /\ CallsTypeOK'
  OBVIOUS
<1>1. CASE UNCHANGED bridgeVars
  BY <1>1 DEF bridgeVars, CallsTypeOK
<1>2. ASSUME NEW c \in PyComponents,
             Load(c) \/ GiveUp(c) \/ Unload(c) \/ Forget(c) \/ Closed(c)
      PROVE  Counted(py') /\ CallsTypeOK'
  BY <1>2 DEF Load, GiveUp, Unload, Forget, Closed, CallsTypeOK
<1>3. ASSUME NEW c \in PyComponents, Register(c)
      PROVE  Counted(py') /\ CallsTypeOK'
  <2>1. CASE CallPython(InitExisting(py), c, "register")
    BY <2>1, InitWithoutContext, CallPythonKept
  <2>2. CASE c \notin py.contexts /\ CallPython(InitContext(py, c), c, "register")
    BY <2>2, InitWithContext, CallPythonKept
  <2>3. CASE NoCall(InitFailed(py))
    BY <2>3, InitWithoutContext DEF NoCall, CallsTypeOK
  <2> QED
    BY <1>3, <2>1, <2>2, <2>3 DEF Register
<1>4. ASSUME NEW c \in PyComponents, Initialise(c)
      PROVE  Counted(py') /\ CallsTypeOK'
  <2>1. CASE NoCall(py)
    BY <2>1 DEF NoCall, CallsTypeOK
  <2>2. CASE CallPython(py, c, "init")
    BY <2>2, CallPythonKept
  <2> QED
    BY <1>4, <2>1, <2>2 DEF Initialise
<1>5. ASSUME NEW c \in PyComponents, UnRegister(c)
      PROVE  Counted(py') /\ CallsTypeOK'
  <2>1. CallPython(InitExisting(py), c, "unregister")
    BY <1>5 DEF UnRegister
  <2> QED
    BY <2>1, InitWithoutContext, CallPythonKept
<1>6. ASSUME NEW c \in PyComponents, DestroyComponent(c)
      PROVE  Counted(py') /\ CallsTypeOK'
  <2>1. CASE CallPython(py, c, "destroy")
    BY <2>1, CallPythonKept
  <2>2. CASE NoCall(Destroy(py, c))
    BY <2>2, DestroyKept DEF NoCall, CallsTypeOK
  <2> QED
    BY <1>6, <2>1, <2>2 DEF DestroyComponent
<1>7. ASSUME NEW c \in PyComponents, QueueMethod(c)
      PROVE  Counted(py') /\ CallsTypeOK'
  <2>1. Counted(Leave(Enter(py, c), c))
    BY EnterLeaveKept
  <2> QED
    BY <1>7, <2>1 DEF QueueMethod, CallsTypeOK
<1>8. ASSUME Return
      PROVE  Counted(py') /\ CallsTypeOK'
  <2> DEFINE call == pyStack[Len(pyStack)]
             left == Leave(py, call.comp)
  <2>1. pyStack # <<>> /\ pyStack \in Seq(PyCall)
    BY <1>8 DEF Return, CallsTypeOK
  <2>2. call \in PyCall
    BY <2>1
  <2>3. call.comp \in PyComponents
    BY <2>2 DEF PyCall
  <2>4. Counted(left)
    BY <2>3, EnterLeaveKept
  <2>5. Counted(Destroy(left, call.comp))
    BY <2>3, <2>4, DestroyKept
  <2>6. py' = left \/ py' = Destroy(left, call.comp)
    BY <1>8 DEF Return
  <2>7. SubSeq(pyStack, 1, Len(pyStack) - 1) \in Seq(PyCall)
    BY <2>1
  <2>8. CallsTypeOK'
    BY <1>8, <2>7 DEF Return, CallsTypeOK
  <2> QED
    BY <2>4, <2>5, <2>6, <2>8
<1> QED
  BY <1>1, <1>2, <1>3, <1>4, <1>5, <1>6, <1>7, <1>8 DEF BridgeNext

\* Whatever the nesting of the calls, the count of components is that of their
\* contexts, and Python is initialised as long as there is one.
THEOREM ContextsCountedCorrect == BridgeSpec => []ContextsCounted
<1>1. Counted(py) => ContextsCounted
  BY DEF Counted, ContextsCounted
<1> QED
  BY <1>1, CountedInit, CountedNext, PTL DEF BridgeSpec

-----------------------------------------------------------------------------
(* What each function does to the lock, the contexts and the thread states *)

Up(n) == IF n < MaxPermits THEN n + 1 ELSE n

LEMMA UpBounds ==
  ASSUME NEW n \in Int
  PROVE  /\ Up(n) \in Int /\ Up(n) >= n /\ Up(n) <= n + 1
         /\ \A k \in Int : n >= k /\ MaxPermits > k => Up(n) > k
BY BridgeAssumption DEF Up

LEMMA InitExistingDoes ==
  ASSUME NEW s \in PyStates
  PROVE  LET t == InitExisting(s)
         IN  /\ t.made /\ t.permits = Up(s.permits)
             /\ t.contexts = s.contexts /\ t.current = s.current
             /\ t.previous = s.previous
<1> DEFINE i == InitThreads(s)
<1>1. /\ i \in PyStates /\ i.made /\ i.permits = s.permits /\ i.contexts = s.contexts
      /\ i.current = s.current /\ i.previous = s.previous
  BY DEF PyStates, InitThreads
<1> HIDE DEF i
<1>2. LET t == ReleaseLock(i)
      IN  /\ t.made /\ t.permits = Up(i.permits)
          /\ t.contexts = i.contexts /\ t.current = i.current
          /\ t.previous = i.previous
  BY <1>1 DEF PyStates, ReleaseLock, Up
<1> QED
  BY <1>1, <1>2 DEF InitExisting, i

\* The first one of all lets two in.
LEMMA PythonInitialisedDoes ==
  ASSUME NEW s, Counted(s)
  PROVE  LET t == PythonInitialised(InitThreads(s))
         IN  /\ t \in PyStates
             /\ t.made /\ t.permits = (IF s.python THEN s.permits ELSE Up(s.permits))
             /\ t.contexts = s.contexts /\ t.previous = s.previous
<1> DEFINE i == InitThreads(s)
           j == [i EXCEPT !.python = TRUE, !.mainStatePtr = MainState, !.current = NoState]
<1>1. /\ i \in PyStates /\ i.made /\ i.permits = s.permits /\ i.contexts = s.contexts
      /\ i.previous = s.previous /\ i.mainStatePtr = s.mainStatePtr
  BY DEF PyStates, InitThreads, Counted
<1>2. s.python <=> s.mainStatePtr # NoState
  BY BridgeAssumption DEF Counted, PyStates
<1> HIDE DEF i
<1>3. /\ j \in PyStates /\ j.made /\ j.permits = i.permits /\ j.contexts = i.contexts
      /\ j.previous = i.previous
  BY <1>1 DEF PyStates, States
<1> HIDE DEF j
<1>4. LET t == ReleaseLock(j)
      IN  /\ t \in PyStates /\ t.made /\ t.permits = Up(j.permits)
          /\ t.contexts = j.contexts /\ t.previous = j.previous
  BY <1>3 DEF PyStates, ReleaseLock, Up
<1>5. PythonInitialised(i) = IF i.mainStatePtr = NoState THEN ReleaseLock(j) ELSE i
  BY DEF PythonInitialised, j
<1> QED
  BY <1>1, <1>2, <1>3, <1>4, <1>5 DEF i

LEMMA InitEndDoes ==
  ASSUME NEW s \in PyStates
  PROVE  LET t == InitEnd(s)
         IN  /\ t.made = s.made /\ t.permits = Up(s.permits)
             /\ t.contexts = s.contexts /\ t.current = MainState
             /\ t.previous = s.previous
<1> DEFINE i == Swap(s, MainState)
<1>1. /\ i \in PyStates /\ i.made = s.made /\ i.permits = s.permits
      /\ i.contexts = s.contexts /\ i.current = MainState /\ i.previous = s.previous
  BY DEF PyStates, Swap, States
<1> HIDE DEF i
<1>2. LET t == ReleaseLock(i)
      IN  /\ t.made = i.made /\ t.permits = Up(i.permits)
          /\ t.contexts = i.contexts /\ t.current = i.current
          /\ t.previous = i.previous
  BY <1>1 DEF PyStates, ReleaseLock, Up
<1> QED
  BY <1>1, <1>2 DEF InitEnd, i

\* pyCOM_Init that fails, and that makes a context.
LEMMA InitsDo ==
  ASSUME NEW s, Counted(s), NEW c \in PyComponents, c \notin s.contexts
  PROVE  /\ LET t == InitFailed(s)
            IN  /\ t.made /\ t.contexts = s.contexts /\ t.current = MainState
                /\ t.previous = s.previous
                /\ t.permits = Up(IF s.python THEN s.permits ELSE Up(s.permits))
         /\ LET t == InitContext(s, c)
            IN  /\ t.made /\ t.contexts = s.contexts \cup {c} /\ t.current = MainState
                /\ t.previous = s.previous
                /\ t.permits = Up(IF s.python THEN s.permits ELSE Up(s.permits))
<1> DEFINE i == PythonInitialised(InitThreads(s))
           more == [i EXCEPT !.interpreters = @ \cup {c}]
           most == [more EXCEPT !.contexts = @ \cup {c}]
           all == [most EXCEPT !.components = @ + 1]
<1>1. /\ i \in PyStates /\ i.made
      /\ i.permits = (IF s.python THEN s.permits ELSE Up(s.permits))
      /\ i.contexts = s.contexts /\ i.previous = s.previous
  BY PythonInitialisedDoes
<1> HIDE DEF i
<1>2. /\ more \in PyStates /\ more.made = i.made /\ more.permits = i.permits
      /\ more.contexts = i.contexts /\ more.previous = i.previous
  BY <1>1 DEF PyStates
<1> HIDE DEF more
<1>3. /\ most \in PyStates /\ most.made = more.made /\ most.permits = more.permits
      /\ most.contexts = more.contexts \cup {c} /\ most.previous = more.previous
  BY <1>2 DEF PyStates
<1> HIDE DEF most
<1>4. /\ all \in PyStates /\ all.made = most.made /\ all.permits = most.permits
      /\ all.contexts = most.contexts /\ all.previous = most.previous
  BY <1>3 DEF PyStates
<1>5. InitFailed(s) = InitEnd(i)
  BY DEF InitFailed, i
<1>6. InitContext(s, c) = InitEnd(all)
  BY DEF InitContext, all, most, more, i
<1> HIDE DEF all
<1>7. LET t == InitEnd(i)
      IN  /\ t.made /\ t.permits = Up(i.permits) /\ t.contexts = i.contexts
          /\ t.current = MainState /\ t.previous = i.previous
  BY <1>1, InitEndDoes
<1>8. LET t == InitEnd(all)
      IN  /\ t.made /\ t.permits = Up(all.permits) /\ t.contexts = all.contexts
          /\ t.current = MainState /\ t.previous = all.previous
  BY <1>1, <1>2, <1>3, <1>4, InitEndDoes
<1> QED
  BY <1>1, <1>2, <1>3, <1>4, <1>5, <1>6, <1>7, <1>8

LEMMA EnterDoes ==
  ASSUME NEW s \in PyStates, NEW c \in PyComponents
  PROVE  LET t == Enter(s, c)
         IN  /\ t.made = s.made /\ t.contexts = s.contexts
             /\ c \notin s.contexts => t = s
             /\ c \in s.contexts =>
                  /\ t.permits = s.permits - 1 /\ t.current = c
                  /\ t.previous = [s.previous EXCEPT ![c] = s.current]
<1> DEFINE a == AcquireLock(s)
<1>1. /\ a \in PyStates /\ a.made = s.made /\ a.contexts = s.contexts
      /\ a.permits = s.permits - 1 /\ a.previous = s.previous
  BY DEF PyStates, AcquireLock
<1>2. Enter(s, c) = IF c \in s.contexts
                    THEN [a EXCEPT !.previous[c] = s.current, !.current = c] ELSE s
  BY DEF Enter
<1> HIDE DEF a
<1> QED
  BY <1>1, <1>2 DEF PyStates

LEMMA LeaveDoes ==
  ASSUME NEW s \in PyStates, NEW c \in PyComponents
  PROVE  LET t == Leave(s, c)
         IN  /\ t.made = s.made /\ t.contexts = s.contexts /\ t.previous = s.previous
             /\ c \notin s.contexts => t = s
             /\ c \in s.contexts =>
                  t.permits = Up(s.permits) /\ t.current = s.previous[c]
<1> DEFINE a == Swap(s, s.previous[c])
<1>1. s.previous[c] \in States
  BY DEF PyStates
<1>2. /\ a \in PyStates /\ a.made = s.made /\ a.contexts = s.contexts
      /\ a.permits = s.permits /\ a.previous = s.previous /\ a.current = s.previous[c]
  BY <1>1 DEF PyStates, Swap
<1> HIDE DEF a
<1>3. LET t == ReleaseLock(a)
      IN  /\ t.made = a.made /\ t.contexts = a.contexts /\ t.previous = a.previous
          /\ t.permits = Up(a.permits) /\ t.current = a.current
  BY <1>2 DEF PyStates, ReleaseLock, Up
<1> QED
  BY <1>2, <1>3 DEF Leave, a

\* A context that is entered and left at once.
LEMMA PassesThrough ==
  ASSUME NEW s, Counted(s), NEW c \in PyComponents
  PROVE  LET t == Leave(Enter(s, c), c)
         IN  /\ t.made = s.made /\ t.contexts = s.contexts /\ t.current = s.current
             /\ c \notin s.contexts => t = s
             /\ c \in s.contexts =>
                  /\ t.permits = Up(s.permits - 1)
                  /\ t.previous = [s.previous EXCEPT ![c] = s.current]
<1> DEFINE e == Enter(s, c)
<1>1. s \in PyStates /\ e \in PyStates
  BY EnterLeaveKept DEF Counted
<1>2. /\ e.made = s.made /\ e.contexts = s.contexts
      /\ c \notin s.contexts => e = s
      /\ c \in s.contexts =>
           /\ e.permits = s.permits - 1 /\ e.current = c
           /\ e.previous = [s.previous EXCEPT ![c] = s.current]
  BY <1>1, EnterDoes
<1> HIDE DEF e
<1>3. LET t == Leave(e, c)
      IN  /\ t.made = e.made /\ t.contexts = e.contexts /\ t.previous = e.previous
          /\ c \notin e.contexts => t = e
          /\ c \in e.contexts =>
               t.permits = Up(e.permits) /\ t.current = e.previous[c]
  BY <1>1, LeaveDoes
<1>4. c \in s.contexts => e.previous[c] = s.current
  BY <1>1, <1>2 DEF PyStates
<1> QED
  BY <1>2, <1>3, <1>4 DEF e

LEMMA DestroyDoes ==
  ASSUME NEW s, Counted(s), NEW c \in PyComponents
  PROVE  LET t == Destroy(s, c)
         IN  /\ t.made = s.made /\ t.previous = s.previous
             /\ t.contexts = s.contexts \ {c}
             /\ c \notin s.contexts => t = s
             /\ c \in s.contexts /\ t.contexts = {} => t.permits = s.permits - 1
             /\ c \in s.contexts /\ t.contexts # {} =>
                  t.permits = Up(s.permits - 1) /\ t.current = s.current
<1>1. CASE c \notin s.contexts
  BY <1>1 DEF Destroy, Counted, PyStates
<1>2. CASE c \in s.contexts
  <2> DEFINE a == AcquireLock(s)
             b == EndInterpreter(a, c)
             d == [b EXCEPT !.contexts = @ \ {c}]
             e == [d EXCEPT !.components = @ - 1]
             f == [Finalize(e) EXCEPT !.mainStatePtr = NoState]
             g == Swap(e, s.current)
             Alike(t, u) == t.made = u.made /\ t.previous = u.previous
  <2>1. s \in PyStates /\ s.contexts \in SUBSET PyComponents /\ s.current \in States
        /\ NoState \in States /\ s.components = Cardinality(s.contexts)
    BY DEF Counted, PyStates, States
  <2>2. /\ a \in PyStates /\ Alike(s, a) /\ a.permits = s.permits - 1
        /\ a.contexts = s.contexts /\ a.components = s.components
    BY <2>1 DEF PyStates, AcquireLock
  <2> HIDE DEF a
  <2>3. /\ b \in PyStates /\ Alike(a, b) /\ b.permits = a.permits
        /\ b.contexts = a.contexts /\ b.components = a.components
    BY <2>1, <2>2 DEF PyStates, EndInterpreter
  <2> HIDE DEF b
  <2>4. /\ d \in PyStates /\ Alike(b, d) /\ d.permits = b.permits
        /\ d.contexts = b.contexts \ {c} /\ d.components = b.components
    BY <2>3 DEF PyStates
  <2> HIDE DEF d
  <2>5. IsFiniteSet(s.contexts)
    BY <2>1, BridgeAssumption, FS_Subset
  <2>6. /\ IsFiniteSet(s.contexts \ {c})
        /\ Cardinality(s.contexts \ {c}) = s.components - 1
        /\ Cardinality(s.contexts \ {c}) \in Nat
    BY <1>2, <2>1, <2>5, FS_RemoveElement, FS_CardinalityType
  <2>7. /\ e \in PyStates /\ Alike(d, e) /\ e.permits = d.permits
        /\ e.contexts = d.contexts /\ e.components = d.components - 1
    BY <2>2, <2>3, <2>4, <2>6 DEF PyStates
  <2> HIDE DEF e
  <2>8. e.components = 0 <=> e.contexts = {}
    BY <2>2, <2>3, <2>4, <2>6, <2>7, FS_EmptySet
  <2>9. Alike(e, f) /\ f.permits = e.permits /\ f.contexts = e.contexts
    BY <2>7 DEF PyStates, Finalize
  <2>10. /\ g \in PyStates /\ Alike(e, g) /\ g.permits = e.permits
         /\ g.contexts = e.contexts /\ g.current = s.current
    BY <2>1, <2>7 DEF PyStates, Swap
  <2> HIDE DEF g
  <2>11. LET t == ReleaseLock(g)
         IN  /\ Alike(g, t) /\ t.permits = Up(g.permits)
             /\ t.contexts = g.contexts /\ t.current = g.current
    BY <2>10 DEF PyStates, ReleaseLock, Up
  <2>12. Destroy(s, c) = IF e.components = 0 THEN f ELSE ReleaseLock(g)
    BY <1>2 DEF Destroy, e, d, b, a, f, g
  <2> HIDE DEF f
  <2> QED
    BY <1>2, <2>2, <2>3, <2>4, <2>7, <2>8, <2>9, <2>10, <2>11, <2>12
<1> QED
  BY <1>1, <1>2

-----------------------------------------------------------------------------
(* The permits of the interpreter lock *)

\* The components whose Python code is under way.
Running == {pyStack[i].comp : i \in DOMAIN pyStack}

\* The inductive invariant of NestedNeverBlocks: there is a permit for each
\* context that is not entered, and one more.
PermitsOK ==
  /\ ~py.made => py.permits = 0 /\ py.contexts = {} /\ ~py.python
  /\ py.made => py.permits > Cardinality(py.contexts \ Running)

LEMMA Cards ==
  ASSUME NEW T \in SUBSET PyComponents
  PROVE  /\ IsFiniteSet(T) /\ Cardinality(T) \in Nat /\ Cardinality(T) < MaxPermits
         /\ \A S \in SUBSET T : Cardinality(S) \in Nat /\ Cardinality(S) <= Cardinality(T)
         /\ \A c \in T : Cardinality(T \ {c}) = Cardinality(T) - 1
<1>1. IsFiniteSet(T) /\ Cardinality(T) <= Cardinality(PyComponents)
  BY BridgeAssumption, FS_Subset
<1>2. Cardinality(T) \in Nat /\ Cardinality(PyComponents) \in Nat
  BY <1>1, BridgeAssumption, FS_CardinalityType
<1>3. \A S \in SUBSET T : Cardinality(S) \in Nat /\ Cardinality(S) <= Cardinality(T)
  BY <1>1, FS_Subset, FS_CardinalityType
<1>4. \A c \in T : Cardinality(T \ {c}) = Cardinality(T) - 1
  BY <1>1, FS_RemoveElement
<1> QED
  BY <1>1, <1>2, <1>3, <1>4, BridgeAssumption

\* What a call adds to the components that run, and what its return takes away.
LEMMA RunningMore ==
  ASSUME CallsTypeOK, NEW s, NEW c \in PyComponents,
         NEW op \in {"init", "destroy", "register", "unregister"},
         CallPython(s, c, op)
  PROVE  Running' = Running \cup {c}
<1> DEFINE new == [comp |-> c, op |-> op]
<1>1. new \in PyCall /\ new.comp = c
  BY DEF PyCall
<1>2. pyStack' = Append(pyStack, new) /\ pyStack \in Seq(PyCall)
  BY DEF CallPython, CallsTypeOK
<1> HIDE DEF new
<1>3. /\ Len(pyStack) \in Nat /\ Len(pyStack') = Len(pyStack) + 1
      /\ DOMAIN pyStack = 1 .. Len(pyStack) /\ DOMAIN pyStack' = 1 .. Len(pyStack')
      /\ \A i \in DOMAIN pyStack : pyStack'[i] = pyStack[i]
      /\ pyStack'[Len(pyStack) + 1] = new
  BY <1>1, <1>2
<1> QED
  BY <1>1, <1>3 DEF Running

LEMMA RunningLess ==
  ASSUME CallsTypeOK, Return
  PROVE  LET call == pyStack[Len(pyStack)]
         IN  /\ call \in PyCall /\ call.comp \in PyComponents
             /\ Running = Running' \cup {call.comp}
<1>1. /\ pyStack \in Seq(PyCall) /\ pyStack # <<>>
      /\ pyStack' = SubSeq(pyStack, 1, Len(pyStack) - 1)
  BY DEF Return, CallsTypeOK
<1>2. /\ Len(pyStack) \in Nat \ {0} /\ Len(pyStack') = Len(pyStack) - 1
      /\ DOMAIN pyStack = 1 .. Len(pyStack) /\ DOMAIN pyStack' = 1 .. Len(pyStack')
      /\ \A i \in DOMAIN pyStack' : pyStack'[i] = pyStack[i]
      /\ pyStack[Len(pyStack)] \in PyCall
  <2>1. Len(pyStack) \in Nat \ {0} /\ DOMAIN pyStack = 1 .. Len(pyStack)
    BY <1>1
  <2>2. Len(pyStack) - 1 \in Nat /\ Len(pyStack) \in DOMAIN pyStack
    BY <2>1
  <2>3. pyStack[Len(pyStack)] \in PyCall
    BY <1>1, <2>2
  <2>4. pyStack' = [i \in 1 .. Len(pyStack) - 1 |-> pyStack[i]]
    BY <1>1, <2>1
  <2>5. \A i \in 1 .. Len(pyStack) - 1 : pyStack[i] \in PyCall
    BY <1>1, <2>1
  <2>6. pyStack' \in Seq(PyCall) /\ Len(pyStack') = Len(pyStack) - 1
    BY <2>2, <2>4, <2>5
  <2> QED
    BY <2>1, <2>3, <2>4, <2>6
<1>3. pyStack[Len(pyStack)].comp \in PyComponents
  BY <1>2 DEF PyCall
<1>4. DOMAIN pyStack = DOMAIN pyStack' \cup {Len(pyStack)}
  BY <1>2
<1> QED
  BY <1>2, <1>3, <1>4 DEF Running

\* A call into Python finds the lock free for the next one, in a state with a
\* permit for each context that is not entered, and two more when it enters one.
LEMMA CallPermits ==
  ASSUME CallsTypeOK, NEW s \in PyStates, s.made, NEW c \in PyComponents,
         NEW op \in {"init", "destroy", "register", "unregister"},
         CallPython(s, c, op),
         LET n == Cardinality(s.contexts \ (Running \cup {c}))
         IN  IF c \in s.contexts THEN s.permits > n + 1 ELSE s.permits > n
  PROVE  PermitsOK'
<1>1. Running' = Running \cup {c}
  BY RunningMore
<1>2. py' = Enter(s, c)
  BY DEF CallPython
<1>3. s.contexts \in SUBSET PyComponents /\ s.permits \in Int
  BY DEF PyStates
<1>4. Cardinality(s.contexts \ (Running \cup {c})) \in Nat
  BY <1>3, Cards
<1>5. py'.made /\ py'.contexts = s.contexts
      /\ py'.permits = (IF c \in s.contexts THEN s.permits - 1 ELSE s.permits)
  BY <1>2, EnterDoes
<1> QED
  BY <1>1, <1>3, <1>4, <1>5 DEF PermitsOK

\* Calls that keep the components that run.
LEMMA SameRunning ==
  ASSUME UNCHANGED pyStack
  PROVE  Running' = Running
BY DEF Running

LEMMA RegisterPermits ==
  ASSUME Counted(py), CallsTypeOK, PermitsOK, NEW c \in PyComponents,
         Register(c) \/ UnRegister(c)
  PROVE  PermitsOK'
<1> DEFINE n == Cardinality(py.contexts \ Running)
           m == Cardinality(py.contexts \ (Running \cup {c}))
<1>1. /\ py \in PyStates /\ py.contexts \in SUBSET PyComponents /\ py.permits \in Int
      /\ py.made \in BOOLEAN
  BY DEF Counted, PyStates
<1>2. m \in Nat /\ n \in Nat /\ m <= n /\ n < MaxPermits
  <2>1. py.contexts \ (Running \cup {c}) \in SUBSET (py.contexts \ Running)
    OBVIOUS
  <2> QED
    BY <1>1, <2>1, Cards
<1>3. m + 1 < MaxPermits /\ 1 < MaxPermits
  <2>1. py.contexts \ (Running \cup {c}) \in SUBSET (PyComponents \ {c})
    BY <1>1
  <2>2. PyComponents \in SUBSET PyComponents /\ PyComponents \ {c} \in SUBSET PyComponents
    OBVIOUS
  <2>3. Cardinality(PyComponents \ {c}) = Cardinality(PyComponents) - 1
    BY <2>2, Cards
  <2>4. m <= Cardinality(PyComponents \ {c}) /\ Cardinality(PyComponents \ {c}) \in Nat
    BY <2>1, <2>2, Cards
  <2>5. Cardinality(PyComponents) \in Nat /\ Cardinality(PyComponents) < MaxPermits
    BY <2>2, Cards
  <2> QED
    BY <1>2, <2>3, <2>4, <2>5, BridgeAssumption
<1>4. py.permits >= 0 /\ (py.made => py.permits > n) /\ MaxPermits \in Int
  BY <1>1, <1>2, BridgeAssumption DEF PermitsOK
<1>5. Up(py.permits) \in Int /\ Up(py.permits) > 0 /\ (py.made => Up(py.permits) > m + 1)
  <2> HIDE DEF m, n
  <2>1. /\ Up(py.permits) \in Int
        /\ \A k \in Int : py.permits >= k /\ MaxPermits > k => Up(py.permits) > k
    BY <1>1, UpBounds
  <2>2. Up(py.permits) > 0
    BY <1>3, <1>4, <2>1
  <2>3. ASSUME py.made PROVE Up(py.permits) > m + 1
    <3>1. py.permits >= m + 1 /\ m + 1 \in Int
      BY <1>1, <1>2, <1>4, <2>3
    <3> QED
      BY <1>3, <2>1, <3>1
  <2> QED
    BY <2>1, <2>2, <2>3
<1>6. ~py.made => py.permits = 0 /\ py.contexts = {} /\ ~py.python /\ m = 0 /\ n = 0
  BY FS_EmptySet DEF PermitsOK
<1>7. ASSUME NEW op \in {"register", "unregister"}, CallPython(InitExisting(py), c, op)
      PROVE  PermitsOK'
  <2>1. InitExisting(py) \in PyStates
    BY InitWithoutContext DEF Counted
  <2>2. /\ InitExisting(py).made /\ InitExisting(py).permits = Up(py.permits)
        /\ InitExisting(py).contexts = py.contexts
    BY <1>1, InitExistingDoes
  <2>3. IF c \in py.contexts THEN Up(py.permits) > m + 1 ELSE Up(py.permits) > m
    BY <1>2, <1>5, <1>6
  <2> QED
    BY <1>7, <2>1, <2>2, <2>3, CallPermits
<1>8. ASSUME c \notin py.contexts
      PROVE  LET p == Up(IF py.python THEN py.permits ELSE Up(py.permits))
             IN  p \in Int /\ p > m + 1 /\ p > n
  <2> DEFINE q == IF py.python THEN py.permits ELSE Up(py.permits)
  <2>1. q \in Int /\ q >= py.permits /\ (~py.python => q > 0)
    BY <1>1, <1>5, UpBounds
  <2>2. m = n
    <3>1. py.contexts \ (Running \cup {c}) = py.contexts \ Running
      BY <1>8
    <3> QED
      BY <3>1
  <2>3. q >= n + 1 /\ q >= m + 1
    BY <1>1, <1>2, <1>4, <1>6, <2>1, <2>2
  <2> HIDE DEF q
  <2>4. Up(q) \in Int /\ Up(q) > m + 1
    BY <1>2, <1>3, <2>1, <2>3, UpBounds
  <2> QED
    BY <1>2, <2>2, <2>4 DEF q
<1>9. CASE c \notin py.contexts /\ CallPython(InitContext(py, c), c, "register")
  <2> DEFINE s == InitContext(py, c)
  <2>1. s \in PyStates
    BY <1>9, InitWithContext DEF Counted
  <2>2. /\ s.made /\ s.contexts = py.contexts \cup {c}
        /\ s.permits = Up(IF py.python THEN py.permits ELSE Up(py.permits))
    BY <1>9, InitsDo
  <2>3. s.contexts \ (Running \cup {c}) = py.contexts \ (Running \cup {c})
    BY <2>2
  <2>4. s.permits > m + 1
    BY <1>8, <1>9, <2>2
  <2> HIDE DEF s
  <2> QED
    BY <1>9, <2>1, <2>2, <2>3, <2>4, CallPermits DEF s
<1>10. CASE c \notin py.contexts /\ NoCall(InitFailed(py))
  <2>1. py' = InitFailed(py) /\ Running' = Running
    BY <1>10, SameRunning DEF NoCall
  <2>2. /\ py'.made /\ py'.contexts = py.contexts
        /\ py'.permits = Up(IF py.python THEN py.permits ELSE Up(py.permits))
    BY <1>10, <2>1, InitsDo
  <2>3. py'.permits > n
    BY <1>8, <1>10, <2>2
  <2> QED
    BY <2>1, <2>2, <2>3 DEF PermitsOK
<1> QED
  BY <1>7, <1>9, <1>10 DEF Register, UnRegister

\* pyCOM_Destroy of a component that is not entered, in a call of its own.
LEMMA DestroyPermits ==
  ASSUME Counted(py), PermitsOK, NEW c \in PyComponents, c \notin Running,
         py' = Destroy(py, c), UNCHANGED pyStack
  PROVE  PermitsOK'
<1>1. /\ py \in PyStates /\ py.contexts \in SUBSET PyComponents /\ py.permits \in Int
      /\ py.made \in BOOLEAN /\ py.previous \in [PyComponents -> States]
  BY DEF Counted, PyStates
<1>2. Running' = Running
  BY SameRunning
<1>3. CASE c \notin py.contexts
  <2>1. py' = py
    BY <1>3, DestroyDoes
  <2> QED
    BY <1>2, <2>1 DEF PermitsOK
<1>4. CASE c \in py.contexts
  <2> DEFINE n == Cardinality(py.contexts \ Running)
             m == Cardinality(py'.contexts \ Running)
  <2>1. /\ py'.made = py.made /\ py'.contexts = py.contexts \ {c}
        /\ py'.contexts = {} => py'.permits = py.permits - 1
        /\ py'.contexts # {} => py'.permits = Up(py.permits - 1)
    BY <1>4, DestroyDoes
  <2>2. py.made /\ py.permits > n
    BY <1>4 DEF PermitsOK
  <2>3. n \in Nat /\ n < MaxPermits /\ m = n - 1
    <3>1. py'.contexts \ Running = (py.contexts \ Running) \ {c}
      BY <2>1
    <3>2. c \in py.contexts \ Running /\ py.contexts \ Running \in SUBSET PyComponents
      BY <1>1, <1>4
    <3> QED
      BY <3>1, <3>2, Cards
  <2>4. py'.contexts = {} => m = 0
    BY FS_EmptySet
  <2> HIDE DEF m, n
  <2>5. py.permits - 1 \in Int /\ py.permits - 1 >= n /\ MaxPermits > n
    BY <1>1, <2>2, <2>3
  <2>6. py'.permits > m
    <3>1. Up(py.permits - 1) > n
      BY <2>3, <2>5, UpBounds
    <3>2. Up(py.permits - 1) \in Int
      BY <2>5, UpBounds
    <3> QED
      BY <1>1, <2>1, <2>3, <2>5, <3>1, <3>2
  <2> QED
    BY <1>2, <2>1, <2>2, <2>6 DEF PermitsOK, m
<1> QED
  BY <1>3, <1>4

\* The calls of init() and destroy(), of a context that is not entered.
LEMMA EnterPermits ==
  ASSUME Counted(py), CallsTypeOK, PermitsOK, NEW c \in py.contexts, c \notin Running,
         NEW op \in {"init", "destroy"}, CallPython(py, c, op)
  PROVE  PermitsOK'
<1>1. /\ py \in PyStates /\ py.contexts \in SUBSET PyComponents /\ py.permits \in Int
      /\ c \in PyComponents
  BY DEF Counted, PyStates
<1>2. py.made /\ py.permits > Cardinality(py.contexts \ Running)
  BY DEF PermitsOK
<1>3. Cardinality(py.contexts \ (Running \cup {c})) = Cardinality(py.contexts \ Running) - 1
      /\ Cardinality(py.contexts \ Running) \in Nat
  <2>1. py.contexts \ (Running \cup {c}) = (py.contexts \ Running) \ {c}
    OBVIOUS
  <2>2. py.contexts \ Running \in SUBSET PyComponents
    BY <1>1
  <2> QED
    BY <2>1, <2>2, Cards
<1>4. py.permits > Cardinality(py.contexts \ (Running \cup {c})) + 1
  BY <1>1, <1>2, <1>3
<1> QED
  BY <1>1, <1>2, <1>4, CallPermits

LEMMA QueueMethodPermits ==
  ASSUME Counted(py), PermitsOK, NEW c \in PyComponents, QueueMethod(c)
  PROVE  PermitsOK'
<1>1. /\ py \in PyStates /\ py.contexts \in SUBSET PyComponents /\ py.permits \in Int
  BY DEF Counted, PyStates
<1>2. py' = Leave(Enter(py, c), c) /\ Running' = Running
  BY SameRunning DEF QueueMethod
<1>4. CASE c \notin py.contexts
  <2>1. py' = py
    BY <1>2, <1>4, PassesThrough
  <2> QED
    BY <1>2, <2>1 DEF PermitsOK
<1>5. CASE c \in py.contexts
  <2>1. py'.made = py.made /\ py'.contexts = py.contexts
        /\ py'.permits = Up(py.permits - 1)
    BY <1>2, <1>5, PassesThrough
  <2>2. py.made /\ py.permits > Cardinality(py.contexts \ Running)
    BY <1>5 DEF PermitsOK
  <2>3. py.contexts \ Running \in SUBSET PyComponents
    BY <1>1
  <2>4. Cardinality(py.contexts \ Running) \in Nat
        /\ Cardinality(py.contexts \ Running) < MaxPermits
    BY <2>3, Cards
  <2>5. Up(py.permits - 1) > Cardinality(py.contexts \ Running)
    <3>1. py.permits - 1 \in Int /\ py.permits - 1 >= Cardinality(py.contexts \ Running)
      BY <1>1, <2>2, <2>4
    <3> QED
      BY <2>4, <3>1, UpBounds
  <2> QED
    BY <1>2, <2>1, <2>2, <2>5 DEF PermitsOK
<1> QED
  BY <1>4, <1>5

LEMMA ReturnPermits ==
  ASSUME Counted(py), CallsTypeOK, PermitsOK, Return
  PROVE  PermitsOK'
<1> DEFINE c == pyStack[Len(pyStack)].comp
           left == Leave(py, c)
           n == Cardinality(py.contexts \ Running)
           m == Cardinality(py.contexts \ Running')
<1>1. /\ py \in PyStates /\ py.contexts \in SUBSET PyComponents /\ py.permits \in Int
  BY DEF Counted, PyStates
<1>2. c \in PyComponents /\ Running = Running' \cup {c}
  BY RunningLess
<1>3. py' = left \/ py' = Destroy(left, c)
  BY DEF Return
<1>4. Counted(left)
  BY <1>2, EnterLeaveKept
<1> HIDE DEF c
<1>5. CASE c \notin py.contexts
  <2>1. left = py
    BY <1>1, <1>2, <1>5, LeaveDoes
  <2>2. Destroy(py, c) = py
    BY <1>2, <1>5, DestroyDoes
  <2>3. py.contexts \ Running = py.contexts \ Running'
    BY <1>2, <1>5
  <2> QED
    BY <1>3, <2>1, <2>2, <2>3 DEF PermitsOK
<1>6. CASE c \in py.contexts
  <2>1. left.made = py.made /\ left.contexts = py.contexts /\ left.permits = Up(py.permits)
    BY <1>1, <1>2, <1>6, LeaveDoes
  <2>2. py.made /\ py.permits > n
    BY <1>6 DEF PermitsOK
  <2>3. n \in Nat /\ m \in Nat /\ n < MaxPermits /\ m < MaxPermits /\ m <= n + 1
        /\ 1 < MaxPermits
    <3>1. /\ py.contexts \ Running \in SUBSET PyComponents
          /\ py.contexts \ Running' \in SUBSET PyComponents
          /\ {c} \in SUBSET PyComponents
      BY <1>1, <1>2
    <3>2. n \in Nat /\ m \in Nat /\ n < MaxPermits /\ m < MaxPermits
      BY <3>1, Cards
    <3>3. Cardinality({c}) = 1
      BY FS_Singleton
    <3>4. 1 < MaxPermits
      BY <3>1, <3>3, Cards
    <3>5. (py.contexts \ Running') \ {c} = py.contexts \ Running
      BY <1>2
    <3>6. m <= n + 1
      <4>1. CASE c \in py.contexts \ Running'
        BY <3>1, <3>2, <3>5, <4>1, Cards
      <4>2. CASE c \notin py.contexts \ Running'
        <5>1. py.contexts \ Running' = py.contexts \ Running
          BY <3>5, <4>2
        <5> QED
          BY <3>2, <5>1
      <4> QED
        BY <4>1, <4>2
    <3> QED
      BY <3>2, <3>4, <3>6
  <2> HIDE DEF n
  <2>4. Up(py.permits) \in Int /\ Up(py.permits) > m /\ Up(py.permits) > n
        /\ Up(py.permits) > 1
    <3> HIDE DEF m
    <3>1. py.permits >= m /\ py.permits >= n /\ py.permits >= 1 /\ m \in Int /\ n \in Int
      BY <1>1, <2>2, <2>3
    <3> QED
      BY <1>1, <2>3, <3>1, UpBounds
  <2>5. CASE py' = left
    BY <2>1, <2>2, <2>4, <2>5 DEF PermitsOK
  <2>6. CASE py' = Destroy(left, c)
    <3> HIDE DEF left
    <3>1. /\ py'.made = left.made /\ py'.contexts = left.contexts \ {c}
          /\ py'.contexts = {} => py'.permits = left.permits - 1
          /\ py'.contexts # {} => py'.permits = Up(left.permits - 1)
      BY <1>2, <1>4, <1>6, <2>1, <2>6, DestroyDoes
    <3>2. py'.contexts \ Running' = py.contexts \ Running
      BY <1>2, <2>1, <3>1
    <3>3. n = Cardinality(py'.contexts \ Running')
      BY <3>2 DEF n
    <3>4. py'.contexts = {} => n = 0
      BY <3>3, FS_EmptySet
    <3>5. left.permits - 1 \in Int /\ left.permits - 1 >= n /\ left.permits > 1
      BY <2>1, <2>3, <2>4
    <3>6. Up(left.permits - 1) > n
      BY <2>3, <3>5, UpBounds
    <3>7. py'.permits > n
      BY <2>1, <2>4, <3>1, <3>4, <3>5, <3>6
    <3> QED
      BY <2>1, <2>2, <3>1, <3>3, <3>7 DEF PermitsOK
  <2> QED
    BY <1>3, <2>5, <2>6
<1> QED
  BY <1>5, <1>6

LEMMA PermitsNext ==
  Counted(py) /\ CallsTypeOK /\ PermitsOK /\ [BridgeNext]_bridgeVars => PermitsOK'
<1> SUFFICES ASSUME Counted(py), CallsTypeOK, PermitsOK, [BridgeNext]_bridgeVars
             PROVE  PermitsOK'
  OBVIOUS
<1>1. ASSUME UNCHANGED <<py, pyStack>> PROVE PermitsOK'
  BY <1>1, SameRunning DEF PermitsOK
<1>2. ASSUME NEW c \in PyComponents, Initialise(c) PROVE PermitsOK'
  <2>1. c \notin Running
    BY <1>2 DEF Initialise, Entered, Running
  <2>2. CASE NoCall(py)
    BY <1>1, <2>2 DEF NoCall
  <2>3. CASE c \in py.contexts /\ CallPython(py, c, "init")
    BY <2>1, <2>3, EnterPermits
  <2> QED
    BY <1>2, <2>2, <2>3 DEF Initialise
<1>3. ASSUME NEW c \in PyComponents, DestroyComponent(c) PROVE PermitsOK'
  <2>1. c \notin Running
    BY <1>3 DEF DestroyComponent, Entered, Running
  <2>2. CASE NoCall(Destroy(py, c))
    BY <2>1, <2>2, DestroyPermits DEF NoCall
  <2>3. CASE c \in py.contexts /\ CallPython(py, c, "destroy")
    BY <2>1, <2>3, EnterPermits
  <2> QED
    BY <1>3, <2>2, <2>3 DEF DestroyComponent
<1>4. ASSUME NEW c \in PyComponents,
             Load(c) \/ GiveUp(c) \/ Unload(c) \/ Forget(c) \/ Closed(c)
      PROVE  PermitsOK'
  BY <1>1, <1>4 DEF Load, GiveUp, Unload, Forget, Closed
<1>5. UNCHANGED bridgeVars => PermitsOK'
  BY <1>1 DEF bridgeVars
<1> QED
  BY <1>2, <1>3, <1>4, <1>5, RegisterPermits, QueueMethodPermits, ReturnPermits
  DEF BridgeNext

LEMMA PermitsInit == BridgeInit => PermitsOK
BY DEF BridgeInit, PermitsOK

\* The thread never waits for itself: whatever the nesting of the calls, a call
\* into Python from within another one finds the interpreter lock free.
THEOREM NestedCorrect == BridgeSpec => []NestedNeverBlocks
<1>1. Counted(py) /\ PermitsOK => NestedNeverBlocks
  <2> SUFFICES ASSUME Counted(py), PermitsOK, py.made PROVE py.permits > 0
    BY DEF NestedNeverBlocks
  <2>1. py.contexts \ Running \in SUBSET PyComponents /\ py.permits \in Int
    BY DEF Counted, PyStates
  <2>2. Cardinality(py.contexts \ Running) \in Nat
    BY <2>1, Cards
  <2> QED
    BY <2>1, <2>2 DEF PermitsOK
<1> QED
  BY <1>1, CountedInit, CountedNext, PermitsInit, PermitsNext, PTL DEF BridgeSpec

-----------------------------------------------------------------------------
(* The thread states *)

\* What the first n calls of the stack may leave for the next one.
Below(n) == {MainState} \cup {pyStack[i].comp : i \in 1 .. n}

\* As long as no component was entered from within itself: the calls that are
\* under way are of different components, each of which keeps its context; the
\* current thread state is that of one of them, or the main one, and a call
\* returns to that of a call around it.
Nested ==
  /\ \A i, j \in DOMAIN pyStack : pyStack[i].comp = pyStack[j].comp => i = j
  /\ Running \subseteq py.contexts
  /\ \A c \in PyComponents : pyPorts[c] > 0 => c \in py.contexts
  /\ \A i \in DOMAIN pyStack : pyStack[i].op = "destroy" =>
       pyPhase[pyStack[i].comp] = "unloading" /\ pyPorts[pyStack[i].comp] = 0
  /\ pyStack # <<>> => py.current \in Below(Len(pyStack))
  /\ \A i \in DOMAIN pyStack : i > 1 => py.previous[pyStack[i].comp] \in Below(i - 1)

\* The inductive invariant of RunsAlive.
NestOK ==
  /\ pyPorts \in [PyComponents -> Int] /\ DOMAIN pyPhase = PyComponents
  /\ reentered \in BOOLEAN
  /\ ~reentered => Nested

LEMMA StackFacts ==
  ASSUME CallsTypeOK
  PROVE  /\ Len(pyStack) \in Nat /\ DOMAIN pyStack = 1 .. Len(pyStack)
         /\ Running \subseteq PyComponents /\ Running = {pyStack[i].comp : i \in 1 .. Len(pyStack)}
         /\ pyStack # <<>> => Len(pyStack) \in DOMAIN pyStack /\ Running # {}
         /\ \A i \in DOMAIN pyStack : pyStack[i] \in PyCall /\ pyStack[i].comp \in Running
         /\ Below(Len(pyStack)) = Running \cup {MainState}
<1>1. pyStack \in Seq(PyCall)
  BY DEF CallsTypeOK
<1>2. Len(pyStack) \in Nat /\ DOMAIN pyStack = 1 .. Len(pyStack)
  BY <1>1
<1>3. \A i \in DOMAIN pyStack : pyStack[i] \in PyCall /\ pyStack[i].comp \in PyComponents
  <2>1. \A i \in DOMAIN pyStack : pyStack[i] \in PyCall
    BY <1>1
  <2> QED
    BY <2>1 DEF PyCall
<1>4. pyStack # <<>> => Len(pyStack) \in DOMAIN pyStack
  BY <1>1
<1> QED
  BY <1>2, <1>3, <1>4 DEF Running, Below

\* A step that leaves the calls as they are.
LEMMA StaysNested ==
  ASSUME CallsTypeOK, NestOK, UNCHANGED pyStack, reentered' \in BOOLEAN,
         pyPorts' \in [PyComponents -> Int], DOMAIN pyPhase' = PyComponents,
         ~reentered' =>
           /\ ~reentered
           /\ Running \subseteq py'.contexts
           /\ pyStack # <<>> => py'.current \in {py.current, MainState}
           /\ \A d \in Running : py'.previous[d] = py.previous[d]
           /\ \A d \in PyComponents :
                /\ pyPorts'[d] > 0 => d \in py'.contexts
                /\ pyPorts[d] = 0 => pyPorts'[d] = 0
                /\ d \in Running /\ pyPhase[d] = "unloading" => pyPhase'[d] = "unloading"
  PROVE  NestOK'
<1>1. SUFFICES ASSUME ~reentered' PROVE Nested'
  BY DEF NestOK
<1>2. Nested
  BY <1>1 DEF NestOK
<1>3. /\ pyStack' = pyStack /\ Running' = Running /\ Running \subseteq PyComponents
      /\ \A n : Below(n)' = Below(n)
      /\ \A i \in DOMAIN pyStack : pyStack[i].comp \in Running
  BY StackFacts DEF Running, Below
<1>4. pyStack # <<>> => py'.current \in Below(Len(pyStack))
  BY <1>1, <1>2, StackFacts DEF Nested
<1>5. \A i \in DOMAIN pyStack : i > 1 => py'.previous[pyStack[i].comp] \in Below(i - 1)
  BY <1>1, <1>2, <1>3 DEF Nested
<1>6. \A i \in DOMAIN pyStack : pyStack[i].op = "destroy" =>
        pyPhase'[pyStack[i].comp] = "unloading" /\ pyPorts'[pyStack[i].comp] = 0
  BY <1>1, <1>2, <1>3 DEF Nested
<1> QED
  BY <1>1, <1>2, <1>3, <1>4, <1>5, <1>6 DEF Nested

\* A call into Python.
LEMMA CallNested ==
  ASSUME CallsTypeOK, NestOK, NEW s \in PyStates, NEW c \in PyComponents,
         ~reentered => c \in s.contexts /\ py.contexts \subseteq s.contexts,
         s.previous = py.previous, s.current \in {py.current, MainState},
         NEW op \in {"init", "destroy", "register", "unregister"},
         CallPython(s, c, op), UNCHANGED pyPhase, pyPorts' \in [PyComponents -> Int],
         \A d \in PyComponents : /\ pyPorts[d] = 0 => pyPorts'[d] = 0
                                 /\ pyPorts'[d] > 0 => pyPorts[d] > 0,
         op = "destroy" => pyPhase[c] = "unloading" /\ pyPorts[c] = 0
  PROVE  NestOK'
<1>1. reentered' \in BOOLEAN
  BY DEF CallPython
<1>2. SUFFICES ASSUME ~reentered' PROVE Nested'
  BY <1>1 DEF NestOK
<1>3. Nested /\ c \notin Running /\ c \in s.contexts /\ py.contexts \subseteq s.contexts
  BY <1>2 DEF NestOK, CallPython, Entered, Running
<1> DEFINE new == [comp |-> c, op |-> op]
<1>0. PICK n : n = Len(pyStack)
  OBVIOUS
<1>4. new \in PyCall /\ new.comp = c /\ new.op = op
  BY DEF PyCall
<1>5. pyStack' = Append(pyStack, new) /\ pyStack \in Seq(PyCall)
  BY DEF CallPython, CallsTypeOK
<1> HIDE DEF new
<1>6. /\ n \in Nat /\ Len(pyStack') = n + 1
      /\ DOMAIN pyStack = 1 .. n /\ DOMAIN pyStack' = 1 .. n + 1
      /\ \A i \in 1 .. n : pyStack'[i] = pyStack[i]
      /\ pyStack'[n + 1] = new
  BY <1>0, <1>4, <1>5
<1>7. Running' = Running \cup {c} /\ Running \subseteq PyComponents
      /\ Below(n) = Running \cup {MainState}
      /\ \A i \in 1 .. n : pyStack[i].comp \in Running
  BY <1>0, <1>6, RunningMore, StackFacts
<1>8. /\ py'.contexts = s.contexts /\ py'.current = c
      /\ py'.previous = [py.previous EXCEPT ![c] = s.current]
  <2>1. py' = Enter(s, c)
    BY DEF CallPython
  <2>2. /\ Enter(s, c).contexts = s.contexts /\ Enter(s, c).current = c
        /\ Enter(s, c).previous = [s.previous EXCEPT ![c] = s.current]
    BY <1>3, EnterDoes
  <2> QED
    BY <2>1, <2>2
<1>9. py.previous = s.previous /\ s.previous \in [PyComponents -> States]
  BY DEF PyStates
<1>10. \A m \in 0 .. n : Below(m)' = Below(m)
  BY <1>6 DEF Below
<1>11. Below(n + 1)' = Running' \cup {MainState}
  BY <1>4, <1>6, <1>7 DEF Below, Running
<1>12. \A i, j \in DOMAIN pyStack' : pyStack'[i].comp = pyStack'[j].comp => i = j
  <2>1. \A i, j \in 1 .. n : pyStack[i].comp = pyStack[j].comp => i = j
    BY <1>3, <1>6 DEF Nested
  <2>2. \A i \in 1 .. n : pyStack'[i].comp # c /\ pyStack'[n + 1].comp = c
    BY <1>3, <1>4, <1>6, <1>7
  <2> QED
    BY <1>6, <2>1, <2>2
<1>13. Running' \subseteq py'.contexts
  BY <1>3, <1>7, <1>8 DEF Nested
<1>14. \A d \in PyComponents : pyPorts'[d] > 0 => d \in py'.contexts
  BY <1>3, <1>8 DEF Nested
<1>15. ASSUME NEW i \in DOMAIN pyStack', pyStack'[i].op = "destroy"
       PROVE  pyPhase'[pyStack'[i].comp] = "unloading" /\ pyPorts'[pyStack'[i].comp] = 0
  <2>1. CASE i = n + 1
    BY <1>4, <1>6, <1>15, <2>1
  <2>2. CASE i \in 1 .. n
    BY <1>3, <1>6, <1>7, <1>15, <2>2 DEF Nested
  <2> QED
    BY <1>6, <2>1, <2>2
<1>16. py'.current \in Below(n + 1)'
  BY <1>7, <1>8, <1>11
<1>17. ASSUME NEW i \in DOMAIN pyStack', i > 1
       PROVE  py'.previous[pyStack'[i].comp] \in Below(i - 1)'
  <2>1. CASE i = n + 1
    <3>1. py'.previous[c] = s.current /\ n >= 1 /\ n \in 0 .. n
      BY <1>6, <1>8, <1>9, <1>17, <2>1
    <3>2. py.current \in Below(n) /\ MainState \in Below(n)
      BY <1>0, <1>3, <1>6, <1>7, <3>1 DEF Nested
    <3> QED
      BY <1>4, <1>6, <1>10, <2>1, <3>1, <3>2
  <2>2. CASE i \in 1 .. n
    <3>1. pyStack'[i].comp = pyStack[i].comp /\ pyStack[i].comp # c
      BY <1>3, <1>6, <1>7, <2>2
    <3>2. py'.previous[pyStack[i].comp] = py.previous[pyStack[i].comp]
      BY <1>7, <1>8, <1>9, <2>2, <3>1
    <3>3. py.previous[pyStack[i].comp] \in Below(i - 1) /\ i - 1 \in 0 .. n
      BY <1>3, <1>6, <1>17, <2>2 DEF Nested
    <3> QED
      BY <1>10, <3>1, <3>2, <3>3
  <2> QED
    BY <1>6, <2>1, <2>2
<1>18. py'.current \in Below(Len(pyStack))'
  <2>1. Below(n + 1)' = Below(Len(pyStack))'
    BY <1>6 DEF Below
  <2> QED
    BY <1>16, <2>1
<1> QED
  BY <1>12, <1>13, <1>14, <1>15, <1>17, <1>18 DEF Nested

LEMMA RegisterNested ==
  ASSUME Counted(py), CallsTypeOK, NestOK, NEW c \in PyComponents, Register(c)
  PROVE  NestOK'
<1>1. py \in PyStates /\ UNCHANGED <<pyPhase, pyPorts>> /\ pyPorts \in [PyComponents -> Int]
  BY DEF Counted, Register, NestOK
<1>2. CASE c \in py.contexts /\ CallPython(InitExisting(py), c, "register")
  <2> DEFINE s == InitExisting(py)
  <2>1. /\ s \in PyStates /\ s.contexts = py.contexts /\ s.current = py.current
        /\ s.previous = py.previous
    BY <1>1, InitWithoutContext, InitExistingDoes DEF Counted
  <2> HIDE DEF s
  <2> QED
    BY <1>1, <1>2, <2>1, CallNested DEF s
<1>3. CASE c \notin py.contexts /\ CallPython(InitContext(py, c), c, "register")
  <2> DEFINE s == InitContext(py, c)
  <2>1. s \in PyStates
    BY <1>3, InitWithContext DEF Counted
  <2>2. /\ s.contexts = py.contexts \cup {c} /\ s.current = MainState
        /\ s.previous = py.previous
    BY <1>3, InitsDo
  <2> HIDE DEF s
  <2> QED
    BY <1>1, <1>3, <2>1, <2>2, CallNested DEF s
<1>4. CASE c \notin py.contexts /\ NoCall(InitFailed(py))
  <2>1. py' = InitFailed(py) /\ UNCHANGED <<pyStack, reentered>>
    BY <1>4 DEF NoCall
  <2>2. /\ py'.contexts = py.contexts /\ py'.current = MainState
        /\ py'.previous = py.previous
    BY <1>4, <2>1, InitsDo
  <2>3. ~reentered => Nested
    BY DEF NestOK
  <2> QED
    BY <1>1, <2>1, <2>2, <2>3, StaysNested DEF NestOK, Nested
<1> QED
  BY <1>2, <1>3, <1>4 DEF Register

LEMMA UnRegisterNested ==
  ASSUME Counted(py), CallsTypeOK, NestOK, NEW c \in PyComponents, UnRegister(c)
  PROVE  NestOK'
<1>1. /\ py \in PyStates /\ UNCHANGED pyPhase /\ pyPorts \in [PyComponents -> Int]
      /\ pyPorts[c] > 0 /\ pyPorts' = [pyPorts EXCEPT ![c] = @ - 1]
      /\ CallPython(InitExisting(py), c, "unregister")
  BY DEF Counted, UnRegister, NestOK
<1>2. ~reentered => c \in py.contexts
  BY <1>1 DEF NestOK, Nested
<1>3. /\ pyPorts' \in [PyComponents -> Int]
      /\ \A d \in PyComponents : /\ pyPorts[d] = 0 => pyPorts'[d] = 0
                                 /\ pyPorts'[d] > 0 => pyPorts[d] > 0
  BY <1>1
<1> DEFINE s == InitExisting(py)
<1>4. /\ s \in PyStates /\ s.contexts = py.contexts /\ s.current = py.current
      /\ s.previous = py.previous
  BY <1>1, InitWithoutContext, InitExistingDoes DEF Counted
<1> HIDE DEF s
<1> QED
  BY <1>1, <1>2, <1>3, <1>4, CallNested DEF s

\* Steps of the library between the calls of a component.
LEMMA PhasesNested ==
  ASSUME CallsTypeOK, NestOK, NEW c \in PyComponents,
         Load(c) \/ GiveUp(c) \/ Unload(c) \/ Forget(c) \/ Closed(c)
  PROVE  NestOK'
<1>1. /\ UNCHANGED <<py, pyStack, reentered>> /\ pyPorts \in [PyComponents -> Int]
      /\ DOMAIN pyPhase = PyComponents /\ reentered \in BOOLEAN
      /\ ~reentered => Nested
  BY DEF Load, GiveUp, Unload, Forget, Closed, NestOK
<1>2. /\ pyPorts' \in [PyComponents -> Int] /\ DOMAIN pyPhase' = PyComponents
      /\ \A d \in PyComponents : /\ pyPorts[d] = 0 => pyPorts'[d] = 0
                                 /\ pyPorts'[d] > 0 => pyPorts[d] > 0
                                 /\ pyPhase[d] = "unloading" => pyPhase'[d] = "unloading"
  BY <1>1 DEF Load, GiveUp, Unload, Forget, Closed
<1> QED
  BY <1>1, <1>2, StaysNested DEF Nested

LEMMA InitialiseNested ==
  ASSUME Counted(py), CallsTypeOK, NestOK, NEW c \in PyComponents, Initialise(c)
  PROVE  NestOK'
<1>1. /\ py \in PyStates /\ UNCHANGED pyPorts /\ pyPorts \in [PyComponents -> Int]
      /\ pyPhase[c] = "importing" /\ DOMAIN pyPhase = PyComponents
      /\ reentered \in BOOLEAN /\ (~reentered => Nested)
  BY DEF Counted, Initialise, NestOK
<1>2. CASE NoCall(py)
  <2>1. UNCHANGED <<py, pyStack, reentered>>
    BY <1>2 DEF NoCall
  <2>2. DOMAIN pyPhase' = PyComponents
        /\ \A d \in PyComponents : pyPhase[d] = "unloading" => pyPhase'[d] = "unloading"
    <3>1. CASE c \notin WithInit
      BY <1>1, <3>1 DEF Initialise
    <3>2. CASE c \in WithInit
      <4>1. CASE c \in py.contexts
        BY <1>1, <3>2, <4>1 DEF Initialise
      <4>2. CASE c \notin py.contexts
        BY <1>1, <3>2, <4>2 DEF Initialise
      <4> QED
        BY <4>1, <4>2
    <3> QED
      BY <3>1, <3>2
  <2> QED
    BY <1>1, <2>1, <2>2, StaysNested DEF Nested
<1>3. CASE c \in py.contexts /\ CallPython(py, c, "init") /\ UNCHANGED pyPhase
  BY <1>1, <1>3, CallNested
<1> QED
  BY <1>2, <1>3 DEF Initialise

LEMMA DestroyComponentNested ==
  ASSUME Counted(py), CallsTypeOK, NestOK, NEW c \in PyComponents, DestroyComponent(c)
  PROVE  NestOK'
<1>1. /\ py \in PyStates /\ UNCHANGED pyPorts /\ pyPorts \in [PyComponents -> Int]
      /\ pyPhase[c] = "unloading" /\ pyPorts[c] = 0 /\ DOMAIN pyPhase = PyComponents
      /\ reentered \in BOOLEAN /\ (~reentered => Nested) /\ c \notin Running
  BY DEF Counted, DestroyComponent, NestOK, Entered, Running
<1>2. CASE CallPython(py, c, "destroy") /\ c \in py.contexts /\ UNCHANGED pyPhase
  BY <1>1, <1>2, CallNested
<1>3. CASE NoCall(Destroy(py, c)) /\ pyPhase' = [pyPhase EXCEPT ![c] = "loaded"]
  <2>1. py' = Destroy(py, c) /\ UNCHANGED <<pyStack, reentered>>
    BY <1>3 DEF NoCall
  <2>2. /\ py'.contexts = py.contexts \ {c} /\ py'.previous = py.previous
        /\ py'.contexts # {} => py'.current = py.current
    BY <2>1, DestroyDoes
  <2>3. pyStack # <<>> => Running # {}
    BY StackFacts
  <2>4. ~reentered =>
          /\ Running \subseteq py'.contexts
          /\ pyStack # <<>> => py'.current \in {py.current, MainState}
    BY <1>1, <2>2, <2>3 DEF Nested
  <2>5. ~reentered => \A d \in PyComponents : pyPorts'[d] > 0 => d \in py'.contexts
    BY <1>1, <2>2 DEF Nested
  <2>6. \A d \in PyComponents :
          /\ pyPorts[d] = 0 => pyPorts'[d] = 0
          /\ d \in Running /\ pyPhase[d] = "unloading" => pyPhase'[d] = "unloading"
    BY <1>1, <1>3
  <2>7. DOMAIN pyPhase' = PyComponents
    BY <1>1, <1>3
  <2> QED
    BY <1>1, <2>1, <2>2, <2>4, <2>5, <2>6, <2>7, StaysNested
<1> QED
  BY <1>2, <1>3 DEF DestroyComponent

LEMMA QueueMethodNested ==
  ASSUME Counted(py), CallsTypeOK, NestOK, NEW c \in PyComponents, QueueMethod(c)
  PROVE  NestOK'
<1>1. /\ UNCHANGED <<pyStack, pyPhase, pyPorts>> /\ pyPorts \in [PyComponents -> Int]
      /\ py' = Leave(Enter(py, c), c) /\ DOMAIN pyPhase = PyComponents
      /\ reentered \in BOOLEAN /\ reentered' = (reentered \/ c \in Running)
      /\ ~reentered => Nested
  BY DEF QueueMethod, NestOK, Entered, Running
<1>2. /\ py'.contexts = py.contexts /\ py'.current = py.current
      /\ \A d \in PyComponents \ {c} : py'.previous[d] = py.previous[d]
  <2>1. py.previous \in [PyComponents -> States]
    BY DEF Counted, PyStates
  <2>2. CASE c \in py.contexts
    <3>1. /\ py'.contexts = py.contexts /\ py'.current = py.current
          /\ py'.previous = [py.previous EXCEPT ![c] = py.current]
      BY <1>1, <2>2, PassesThrough
    <3> QED
      BY <2>1, <3>1
  <2>3. CASE c \notin py.contexts
    BY <1>1, <2>3, PassesThrough
  <2> QED
    BY <2>2, <2>3
<1>3. Running \subseteq PyComponents
  BY StackFacts
<1> QED
  BY <1>1, <1>2, <1>3, StaysNested DEF Nested

\* A call returns to one around it that is still there.
LEMMA ReturnNested ==
  ASSUME Counted(py), CallsTypeOK, NestOK, Return
  PROVE  NestOK'
<1>0. PICK n, call : n = Len(pyStack) /\ call = pyStack[n]
  OBVIOUS
<1>1. /\ pyStack \in Seq(PyCall) /\ pyStack # <<>> /\ UNCHANGED reentered
      /\ pyStack' = SubSeq(pyStack, 1, n - 1)
  BY <1>0 DEF Return, CallsTypeOK
<1>2. n \in Nat \ {0} /\ DOMAIN pyStack = 1 .. n /\ call \in PyCall
  BY <1>0, <1>1
<1>3. /\ DOMAIN pyStack' = 1 .. n - 1 /\ Len(pyStack') = n - 1
      /\ \A i \in 1 .. n - 1 : pyStack'[i] = pyStack[i]
  <2>1. pyStack' = [i \in 1 .. n - 1 |-> pyStack[i]]
    BY <1>1, <1>2
  <2>2. \A i \in 1 .. n - 1 : pyStack[i] \in PyCall
    BY <1>1, <1>2
  <2>3. pyStack' \in Seq(PyCall) /\ Len(pyStack') = n - 1
    BY <1>2, <2>1, <2>2
  <2> QED
    BY <2>1, <2>3
<1> DEFINE c == call.comp
           left == Leave(py, c)
<1>4. c \in PyComponents /\ Counted(left)
  BY <1>2, EnterLeaveKept DEF PyCall
<1>5. /\ pyPorts \in [PyComponents -> Int] /\ DOMAIN pyPhase = PyComponents
      /\ reentered \in BOOLEAN /\ (~reentered => Nested)
  BY DEF NestOK
<1>6. /\ pyPorts' \in [PyComponents -> Int] /\ DOMAIN pyPhase' = PyComponents
      /\ pyPorts[c] # 0 \/ call.op # "destroy" \/ pyPorts'[c] = 0
      /\ \A d \in PyComponents \ {c} : pyPorts'[d] = pyPorts[d] /\ pyPhase'[d] = pyPhase[d]
      /\ IF call.op = "destroy" THEN py' = Destroy(left, c) ELSE py' = left
  <2>1. call.op \in {"init", "destroy", "register", "unregister"}
    BY <1>2 DEF PyCall
  <2>2. CASE call.op = "register"
    <3>1. /\ \E more \in {0, 1} : pyPorts' = [pyPorts EXCEPT ![c] = @ + more]
          /\ py' = left /\ UNCHANGED pyPhase
      BY <1>0, <2>2 DEF Return
    <3> QED
      BY <1>4, <1>5, <2>2, <3>1
  <2>3. CASE call.op = "unregister"
    BY <1>0, <1>5, <2>3 DEF Return
  <2>4. CASE call.op = "init"
    <3>1. /\ \E next \in {"initialized", "closing"} : pyPhase' = [pyPhase EXCEPT ![c] = next]
          /\ py' = left /\ UNCHANGED pyPorts
      BY <1>0, <2>4 DEF Return
    <3> QED
      BY <1>4, <1>5, <2>4, <3>1
  <2>5. CASE call.op = "destroy"
    <3>1. /\ py' = Destroy(left, c) /\ pyPhase' = [pyPhase EXCEPT ![c] = "loaded"]
          /\ UNCHANGED pyPorts
      BY <1>0, <2>5 DEF Return
    <3> QED
      BY <1>4, <1>5, <2>5, <3>1
  <2> QED
    BY <2>1, <2>2, <2>3, <2>4, <2>5
<1>7. SUFFICES ASSUME ~reentered PROVE Nested'
  <2>1. reentered' = reentered
    BY <1>1
  <2>2. (pyPorts \in [PyComponents -> Int] /\ DOMAIN pyPhase = PyComponents)'
    BY <1>6
  <2>3. ~reentered' => ~reentered
    BY <2>1
  <2>4. reentered' \in BOOLEAN
    BY <1>5, <2>1
  <2> QED
    BY <2>2, <2>3, <2>4 DEF NestOK
<1>8. Nested
  BY <1>5, <1>7
<1>9. /\ c \in py.contexts
      /\ \A i \in 1 .. n - 1 : pyStack[i].comp \in PyComponents \ {c}
                               /\ pyStack[i].comp \in py.contexts
      /\ call.op = "destroy" => pyPorts[c] = 0
  BY <1>0, <1>2, <1>8, StackFacts DEF Nested
<1>10. /\ left.contexts = py.contexts /\ left.previous = py.previous
       /\ left.current = py.previous[c]
  <2>1. py \in PyStates
    BY DEF Counted
  <2> QED
    BY <1>4, <1>9, <2>1, LeaveDoes
<1> HIDE DEF left, c
<1>11. /\ py'.previous = py.previous
       /\ py'.contexts = (IF call.op = "destroy" THEN py.contexts \ {c} ELSE py.contexts)
       /\ py'.contexts # {} => py'.current = py.previous[c]
  <2>1. CASE call.op = "destroy"
    <3>1. py' = Destroy(left, c) /\ c \in left.contexts
      BY <1>6, <1>9, <1>10, <2>1
    <3>2. /\ py'.previous = left.previous /\ py'.contexts = left.contexts \ {c}
          /\ py'.contexts # {} => py'.current = left.current
      BY <1>4, <3>1, DestroyDoes
    <3> QED
      BY <1>10, <2>1, <3>2
  <2>2. CASE call.op # "destroy"
    BY <1>6, <1>10, <2>2
  <2> QED
    BY <2>1, <2>2
<1>12. \A m \in 0 .. n - 1 : Below(m)' = Below(m)
  BY <1>2, <1>3 DEF Below
<1>13. \A i, j \in DOMAIN pyStack' : pyStack'[i].comp = pyStack'[j].comp => i = j
  BY <1>2, <1>3, <1>8 DEF Nested
<1>14. Running' \subseteq py'.contexts
  BY <1>3, <1>9, <1>11 DEF Running
<1>15. \A d \in PyComponents : pyPorts'[d] > 0 => d \in py'.contexts
  <2>1. pyPorts'[c] > 0 => call.op # "destroy"
    BY <1>6, <1>9
  <2> QED
    BY <1>6, <1>8, <1>9, <1>11, <2>1 DEF Nested
<1>16. \A i \in DOMAIN pyStack' : pyStack'[i].op = "destroy" =>
         pyPhase'[pyStack'[i].comp] = "unloading" /\ pyPorts'[pyStack'[i].comp] = 0
  BY <1>2, <1>3, <1>6, <1>8, <1>9 DEF Nested
<1>17. pyStack' # <<>> => py'.current \in Below(Len(pyStack))'
  <2> SUFFICES ASSUME pyStack' # <<>> PROVE py'.current \in Below(Len(pyStack))'
    OBVIOUS
  <2>1. n > 1 /\ 1 \in DOMAIN pyStack'
    BY <1>1, <1>2, <1>3
  <2>2. py'.contexts # {}
    BY <1>3, <1>14, <2>1 DEF Running
  <2>3. py.previous[c] \in Below(n - 1)
    BY <1>0, <1>2, <1>8, <2>1 DEF Nested, c
  <2>4. Below(n - 1)' = Below(Len(pyStack))' /\ n - 1 \in 0 .. n - 1
    BY <1>2, <1>3 DEF Below
  <2> QED
    BY <1>11, <1>12, <2>2, <2>3, <2>4
<1>18. \A i \in DOMAIN pyStack' : i > 1 =>
         py'.previous[pyStack'[i].comp] \in Below(i - 1)'
  BY <1>2, <1>3, <1>8, <1>11, <1>12 DEF Nested
<1> QED
  BY <1>13, <1>14, <1>15, <1>16, <1>17, <1>18 DEF Nested

LEMMA NestNext ==
  Counted(py) /\ CallsTypeOK /\ NestOK /\ [BridgeNext]_bridgeVars => NestOK'
<1> SUFFICES ASSUME Counted(py), CallsTypeOK, NestOK, [BridgeNext]_bridgeVars
             PROVE  NestOK'
  OBVIOUS
<1>1. CASE UNCHANGED bridgeVars
  BY <1>1 DEF bridgeVars, NestOK, Nested, Running, Below
<1>2. CASE BridgeNext
  BY <1>2, RegisterNested, UnRegisterNested, PhasesNested, InitialiseNested,
     DestroyComponentNested, QueueMethodNested, ReturnNested DEF BridgeNext
<1> QED
  BY <1>1, <1>2

LEMMA NestInit == BridgeInit => NestOK
<1> SUFFICES ASSUME BridgeInit PROVE NestOK
  OBVIOUS
<1>1. /\ pyStack = <<>> /\ DOMAIN pyStack = {} /\ reentered = FALSE
      /\ pyPorts \in [PyComponents -> Int] /\ DOMAIN pyPhase = PyComponents
      /\ \A c \in PyComponents : pyPorts[c] = 0
  BY DEF BridgeInit
<1>2. Nested
  BY <1>1 DEF Nested, Running
<1> QED
  BY <1>1, <1>2 DEF NestOK

\* While Python code runs, its thread state is one that was not deleted, as long
\* as no component was entered from within itself.
THEOREM RunsAliveCorrect == BridgeSpec => []RunsAlive
<1>1. Counted(py) /\ CallsTypeOK /\ NestOK => RunsAlive
  <2> SUFFICES ASSUME Counted(py), CallsTypeOK, NestOK, pyStack # <<>>, ~reentered
               PROVE  py.current \in Alive
    BY DEF RunsAlive
  <2>1. py.current \in Running \cup {MainState} /\ Running # {}
        /\ Running \subseteq py.contexts
    BY StackFacts DEF NestOK, Nested
  <2>2. py.python /\ py.interpreters = py.contexts
    BY <2>1 DEF Counted
  <2> QED
    BY <2>1, <2>2 DEF Alive
<1> QED
  BY <1>1, CountedInit, CountedNext, NestInit, NestNext, PTL DEF BridgeSpec
=============================================================================
