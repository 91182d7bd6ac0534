----------------------------- MODULE SpawnProofs -----------------------------
(***************************************************************************)
(* The call queue of a component, as long as the library keeps to          *)
(* QueueSpec; and the calls that main() of the spawn program makes of the  *)
(* services, for any number of services, applications and tests, whatever  *)
(* their methods do, and all schedules of their threads.  Then the whole   *)
(* program: which references, imports and mutexes every thread holds       *)
(* between two steps of the library (its account), that the accounts add   *)
(* up to the reference counts, the imports and the locks (the ledger), and *)
(* what follows for the life cycle of every component.                     *)
(***************************************************************************)
EXTENDS Spawn, SequenceTheorems, FunctionTheorems, FiniteSetTheorems,
        NaturalsInduction, WellFoundedInduction, TLAPS

-----------------------------------------------------------------------------
(* The call queue *)

QueueInv == QueueTypeOK /\ QueueExact

\* What QueueExact says of one component.
Exact(c) ==
  Alive(c) =>
    /\ thread[c] # "kept"
    /\ posts[c] + (IF thread[c] = "woken" THEN 1 ELSE 0) =
         Len(queue[c]) + (IF quit[c] = "posted" THEN 1 ELSE 0)

LEMMA ExactForEach == QueueExact <=> \A c \in Components : Exact(c)
  BY DEF QueueExact, Exact

LEMMA TypeStep ==
  ASSUME QueueTypeOK, QueueNext
  PROVE  QueueTypeOK'
<1> USE DEF QueueTypeOK, Doing
<1>0. PICK c \in Components :
        \/ StartQueue(c) \/ SetQuit(c) \/ PostQuit(c)
        \/ \E m \in Methods : Enqueue(c, m)
        \/ Wakes(c) \/ Takes(c) \/ Returns(c)
  BY DEF QueueNext
<1>1. CASE StartQueue(c)
  BY <1>1 DEF StartQueue
<1>2. CASE SetQuit(c)
  BY <1>2 DEF SetQuit
<1>3. CASE PostQuit(c)
  BY <1>3 DEF PostQuit
<1>4. ASSUME NEW m \in Methods, Enqueue(c, m)
      PROVE  QueueTypeOK'
  <2>1. Append(queue[c], m) \in Seq(Methods)
    OBVIOUS
  <2> QED BY <1>4, <2>1 DEF Enqueue
<1>5. CASE Wakes(c)
  BY <1>5 DEF Wakes
<1>6. CASE Takes(c)
  <2>1. CASE quit[c] # "no"
    <3>1. dropped[c] + Len(queue[c]) \in Nat
      OBVIOUS
    <3>2. dropped' \in [Components -> Nat]
      BY <1>6, <2>1, <3>1 DEF Takes
    <3>3. <<>> \in Seq(Methods)
      OBVIOUS
    <3>4. queue' = [queue EXCEPT ![c] = <<>>]
      BY <1>6, <2>1 DEF Takes
    <3>5. queue' \in [Components -> Seq(Methods)]
      BY <3>3, <3>4
    <3> QED BY <1>6, <2>1, <3>2, <3>5 DEF Takes
  <2>2. CASE quit[c] = "no"
    <3>1. queue[c] # <<>> => Tail(queue[c]) \in Seq(Methods)
      OBVIOUS
    <3>2. queue' \in [Components -> Seq(Methods)]
      BY <1>6, <2>2, <3>1 DEF Takes
    <3> QED BY <1>6, <2>2, <3>2 DEF Takes
  <2> QED BY <2>1, <2>2
<1>7. CASE Returns(c)
  BY <1>7 DEF Returns
<1> QED BY <1>0, <1>1, <1>2, <1>3, <1>4, <1>5, <1>6, <1>7

\* A step for one component leaves the others as they are.
LEMMA Elsewhere ==
  ASSUME QueueTypeOK, QueueExact, NEW c \in Components, Exact(c)',
         \A d \in Components \ {c} :
           /\ queue'[d] = queue[d] /\ posts'[d] = posts[d]
           /\ quit'[d] = quit[d] /\ thread'[d] = thread[d]
  PROVE  QueueExact'
<1>1. ASSUME NEW d \in Components
      PROVE  Exact(d)'
  <2>1. Exact(d)
    BY ExactForEach
  <2>2. CASE d # c
    BY <2>1, <2>2 DEF Exact, Alive
  <2> QED BY <2>2
<1> QED BY <1>1 DEF QueueExact, Exact

LEMMA ExactStep ==
  ASSUME QueueTypeOK, QueueExact, QueueNext
  PROVE  QueueExact'
<1> USE DEF QueueTypeOK, Doing
<1>0. PICK c \in Components :
        \/ ~Alive(c) /\ StartQueue(c)
        \/ Alive(c) /\ quit[c] = "no" /\ SetQuit(c)
        \/ quit[c] = "set" /\ PostQuit(c)
        \/ \E m \in Methods : Alive(c) /\ Enqueue(c, m)
        \/ Wakes(c) \/ Takes(c) \/ Returns(c)
  BY DEF QueueNext
<1>e. Exact(c)
  BY ExactForEach
<1>1. CASE StartQueue(c)
  <2>1. Exact(c)'
    BY <1>1 DEF StartQueue, Exact
  <2> QED BY <1>1, <2>1, Elsewhere DEF StartQueue
<1>2. CASE quit[c] = "no" /\ SetQuit(c)
  <2>1. Exact(c)'
    BY <1>2, <1>e DEF SetQuit, Exact, Alive
  <2> QED BY <1>2, <2>1, Elsewhere DEF SetQuit
<1>3. CASE quit[c] = "set" /\ PostQuit(c)
  <2>1. Exact(c)'
    BY <1>3, <1>e DEF PostQuit, Exact, Alive
  <2> QED BY <1>3, <2>1, Elsewhere DEF PostQuit
<1>4. ASSUME NEW m \in Methods, Enqueue(c, m)
      PROVE  QueueExact'
  <2>1. Len(Append(queue[c], m)) = Len(queue[c]) + 1
    OBVIOUS
  <2>2. Exact(c)'
    BY <1>4, <1>e, <2>1 DEF Enqueue, Exact, Alive
  <2> QED BY <1>4, <2>2, Elsewhere DEF Enqueue
<1>5. CASE Wakes(c)
  <2>1. Exact(c)'
    BY <1>5, <1>e DEF Wakes, Exact, Alive
  <2> QED BY <1>5, <2>1, Elsewhere DEF Wakes
<1>6. CASE Takes(c)
  <2>1. Exact(c)'
    <3>1. CASE quit[c] # "no"
      BY <1>6, <3>1 DEF Takes, Exact, Alive
    <3>2. CASE quit[c] = "no"
      \* The post that woke the thread was that of a call.
      <4>1. posts[c] + 1 = Len(queue[c])
        BY <1>6, <1>e, <3>2 DEF Takes, Exact, Alive
      <4>2. queue[c] # <<>> /\ Len(Tail(queue[c])) = Len(queue[c]) - 1
        BY <4>1
      <4> QED BY <1>6, <3>2, <4>1, <4>2 DEF Takes, Exact, Alive
    <3> QED BY <3>1, <3>2
  <2> QED BY <1>6, <2>1, Elsewhere DEF Takes
<1>7. CASE Returns(c)
  <2>1. Exact(c)'
    BY <1>7, <1>e DEF Returns, Exact, Alive
  <2> QED BY <1>7, <2>1, Elsewhere DEF Returns
<1> QED BY <1>0, <1>1, <1>2, <1>3, <1>4, <1>5, <1>6, <1>7

\* The semaphore of a queue counts the calls on it and the request to quit, for
\* any number of components, calls and threads: so the thread never takes the
\* branch in which it keeps the mutex of its queue.
THEOREM QueueCorrect == QueueSpec => [](QueueTypeOK /\ QueueExact)
<1>1. CallQueueInit => QueueInv
  BY DEF CallQueueInit, QueueInv, QueueTypeOK, QueueExact, Alive, Doing
<1>2. QueueInv /\ [QueueNext]_queueVars => QueueInv'
  <2>1. CASE QueueNext
    BY <2>1, TypeStep, ExactStep DEF QueueInv
  <2>2. CASE UNCHANGED queueVars
    BY <2>2 DEF queueVars, QueueInv, QueueTypeOK, QueueExact, Alive
  <2> QED BY <2>1, <2>2
<1> QED BY <1>1, <1>2, PTL DEF QueueSpec, QueueInv

ServiceSet == ToSet(Services)

-----------------------------------------------------------------------------
(* The steps a thread may be about to take: only main() imports services,  *)
(* and another thread references and destroys its own component and those  *)
(* that are no services.                                                   *)

Others == Components \ ServiceSet

MayTouch(t) == IF t = "main" THEN Clients ELSE Others \cup {t}
MayStart(t) == IF t = "main" THEN Components ELSE Others
MayImport(t) == (IF t = "main" THEN {Anonymous} ELSE MayTouch(t)) \X MayStart(t)
MayFree(t) == MayTouch(t) \X MayStart(t)

LockSteps == [op : {"lock", "unlock", "pass"}, on : Mutexes]

Own(t) ==
  LockSteps
    \cup [op : {"ref", "unref", "destroy", "quit", "post", "join"}, on : MayTouch(t)]
    \cup [op : {"init"}, on : MayStart(t)]
    \cup [op : {"new", "add", "open"}, on : MayImport(t)]
    \cup [op : {"close", "release", "free"}, on : MayFree(t)]

LEMMA Constants ==
  /\ Services \in Seq(Components) /\ Applications \in Seq(Components)
  /\ Tests \in Seq(Components)
  /\ ServiceSet \subseteq Components /\ Others \subseteq Components
  /\ \A k \in DOMAIN Services : Services[k] \in ServiceSet
  /\ \A k \in DOMAIN Tests : Tests[k] \in Others
  /\ \A k \in DOMAIN Applications : Applications[k] \in Others
  /\ Components \subseteq Clients /\ Clients \subseteq Mutexes
  /\ Anonymous \in Clients /\ Anonymous \notin Components /\ Nobody \notin Components
  /\ "main" \notin Components /\ "main" \in Threads /\ Components \subseteq Threads
<1>1. /\ Services \in Seq(Components) /\ Applications \in Seq(Components)
      /\ Tests \in Seq(Components)
  BY SpawnAssumption
<1>2. \A k \in DOMAIN Services : Services[k] \in Components
  BY <1>1, ElementOfSeq
<1>3. \A k \in DOMAIN Tests : Tests[k] \in Components
  BY <1>1, ElementOfSeq
<1>4. \A k \in DOMAIN Applications : Applications[k] \in Components
  BY <1>1, ElementOfSeq
<1>5. ServiceSet \subseteq Components /\ Others \subseteq Components
  BY <1>2 DEF ServiceSet, ToSet, Others
<1>6. \A k \in DOMAIN Services : Services[k] \in ServiceSet
  BY DEF ServiceSet, ToSet
<1>7. ServiceSet \cap (ToSet(Applications) \cup ToSet(Tests)) = {}
  BY SpawnAssumption DEF ServiceSet
<1>8. \A k \in DOMAIN Tests : Tests[k] \in Others
  <2> SUFFICES ASSUME NEW k \in DOMAIN Tests PROVE Tests[k] \in Others
    OBVIOUS
  <2>1. Tests[k] \in ToSet(Tests)
    BY DEF ToSet
  <2> QED BY <2>1, <1>3, <1>7 DEF Others
<1>9. \A k \in DOMAIN Applications : Applications[k] \in Others
  <2> SUFFICES ASSUME NEW k \in DOMAIN Applications PROVE Applications[k] \in Others
    OBVIOUS
  <2>1. Applications[k] \in ToSet(Applications)
    BY DEF ToSet
  <2> QED BY <2>1, <1>4, <1>7 DEF Others
<1>10. /\ Components \subseteq Clients /\ Clients \subseteq Mutexes /\ Anonymous \in Clients
       /\ "main" \in Threads /\ Components \subseteq Threads
  BY DEF Clients, Mutexes, Threads
<1>11. Anonymous \notin Components /\ Nobody \notin Components /\ "main" \notin Components
  BY SpawnAssumption
<1> QED
  BY <1>1, <1>5, <1>6, <1>8, <1>9, <1>10, <1>11

\* Sequences of such steps, and how they are put together.
LEMMA Concat ==
  ASSUME NEW S, NEW p \in Seq(S), NEW q \in Seq(S)
  PROVE  p \o q \in Seq(S)
OBVIOUS

LEMMA DoSteps ==
  ASSUME NEW t \in Threads
  PROVE  /\ \A op \in {"lock", "unlock", "pass"}, m \in Mutexes : Do(op, m) \in Seq(Own(t))
         /\ \A op \in {"ref", "unref", "destroy", "quit", "post", "join"}, c \in MayTouch(t) :
              Do(op, c) \in Seq(Own(t))
         /\ \A c \in MayStart(t) : Do("init", c) \in Seq(Own(t))
         /\ \A op \in {"new", "add", "open"}, p \in MayImport(t) : Do(op, p) \in Seq(Own(t))
         /\ \A op \in {"close", "release", "free"}, p \in MayFree(t) : Do(op, p) \in Seq(Own(t))
<1>0. \A x \in Own(t) : <<x>> \in Seq(Own(t))
  OBVIOUS
<1>1. \A op \in {"lock", "unlock", "pass"}, m \in Mutexes : [op |-> op, on |-> m] \in Own(t)
  BY DEF Own, LockSteps
<1>2. \A op \in {"ref", "unref", "destroy", "quit", "post", "join"}, c \in MayTouch(t) :
        [op |-> op, on |-> c] \in Own(t)
  BY DEF Own
<1>3. \A c \in MayStart(t) : [op |-> "init", on |-> c] \in Own(t)
  BY DEF Own
<1>4. \A op \in {"new", "add", "open"}, p \in MayImport(t) : [op |-> op, on |-> p] \in Own(t)
  BY DEF Own
<1>5. \A op \in {"close", "release", "free"}, p \in MayFree(t) : [op |-> op, on |-> p] \in Own(t)
  BY DEF Own
<1> QED
  BY <1>0, <1>1, <1>2, <1>3, <1>4, <1>5 DEF Do

LEMMA HoldingSteps ==
  ASSUME NEW t \in Threads, NEW m \in Mutexes, NEW q \in Seq(Own(t))
  PROVE  Holding(m, q) \in Seq(Own(t))
<1>1. Do("lock", m) \in Seq(Own(t)) /\ Do("unlock", m) \in Seq(Own(t))
  BY DoSteps
<1>2. Do("lock", m) \o q \in Seq(Own(t))
  BY <1>1, Concat
<1> QED
  BY <1>1, <1>2, Concat DEF Holding

LEMMA ForEachSteps ==
  ASSUME NEW t \in Threads, NEW client, NEW servers, NEW S, servers \in Seq(S),
         NEW op, \A s \in S : [op |-> op, on |-> <<client, s>>] \in Own(t)
  PROVE  ForEach(op, client, servers) \in Seq(Own(t))
<1>1. DOMAIN servers = 1 .. Len(servers) /\ Len(servers) \in Nat
  OBVIOUS
<1>2. \A k \in 1 .. Len(servers) : servers[k] \in S
  BY ElementOfSeq
<1>3. ForEach(op, client, servers) \in [1 .. Len(servers) -> Own(t)]
  BY <1>1, <1>2 DEF ForEach
<1> QED
  BY <1>1, <1>3, SeqDef

LEMMA TouchedMutex ==
  ASSUME NEW t \in Threads
  PROVE  /\ MayTouch(t) \subseteq Mutexes /\ MayStart(t) \subseteq MayTouch(t)
         /\ MayTouch(t) \subseteq Clients /\ MayStart(t) \subseteq Components
         /\ \A m \in {"query", "import", "component"} : m \in Mutexes
BY Constants DEF MayTouch, MayStart, Mutexes, Threads

LEMMA AtPortSteps ==
  ASSUME NEW t \in Threads, NEW p \in MayFree(t)
  PROVE  AtPort(p) \in Seq(Own(t))
<1>1. p[1] \in MayTouch(t) /\ p[1] \in Mutexes
  BY TouchedMutex DEF MayFree
<1>2. /\ Do("ref", p[1]) \in Seq(Own(t)) /\ Do("unref", p[1]) \in Seq(Own(t))
      /\ Do("pass", p[1]) \in Seq(Own(t))
  BY <1>1, DoSteps
<1>3. Holding(p[1], Do("pass", p[1])) \in Seq(Own(t))
  BY <1>1, <1>2, HoldingSteps
<1>4. Do("ref", p[1]) \o Holding(p[1], Do("pass", p[1])) \in Seq(Own(t))
  BY <1>2, <1>3, Concat
<1>5. Do("ref", p[1]) \o Holding(p[1], Do("pass", p[1])) \o Do("unref", p[1]) \in Seq(Own(t))
  BY <1>2, <1>4, Concat
<1>6. <<>> \in Seq(Own(t))
  OBVIOUS
<1> QED
  BY <1>5, <1>6 DEF AtPort

LEMMA FreeSteps ==
  ASSUME NEW t \in Threads, NEW p \in MayFree(t)
  PROVE  import_free(p) \in Seq(Own(t)) /\ import_close(p) \in Seq(Own(t))
<1>1. p[1] \in MayTouch(t) /\ p[1] \in Mutexes /\ p[2] \in MayTouch(t) /\ p[2] \in Mutexes
  BY TouchedMutex DEF MayFree
<1>2. /\ Do("ref", p[1]) \in Seq(Own(t)) /\ Do("unref", p[1]) \in Seq(Own(t))
      /\ Do("pass", p[1]) \in Seq(Own(t)) /\ Do("pass", p[2]) \in Seq(Own(t))
      /\ Do("free", p) \in Seq(Own(t)) /\ Do("unref", p[2]) \in Seq(Own(t))
  BY <1>1, DoSteps
<1>3. AtPort(p) \o Do("pass", p[2]) \in Seq(Own(t)) /\ <<>> \in Seq(Own(t))
  BY <1>2, AtPortSteps, Concat
<1> DEFINE first == IF imports[p] = "open" THEN AtPort(p) \o Do("pass", p[2]) ELSE <<>>
<1>4. first \in Seq(Own(t))
  BY <1>3
<1> HIDE DEF first
<1>5. first \o Do("free", p) \in Seq(Own(t))
  BY <1>2, <1>4, Concat
<1>6. first \o Do("free", p) \o Do("unref", p[2]) \in Seq(Own(t))
  BY <1>2, <1>5, Concat
<1>7. import_free(p) \in Seq(Own(t))
  BY <1>6, HoldingSteps, TouchedMutex DEF import_free, first
<1>8. Do("ref", p[1]) \o Do("pass", p[1]) \in Seq(Own(t))
  BY <1>2, Concat
<1>9. Do("ref", p[1]) \o Do("pass", p[1]) \o Do("unref", p[1]) \in Seq(Own(t))
  BY <1>2, <1>8, Concat
<1>10. import_close(p) \in Seq(Own(t))
  BY <1>7, <1>9, Concat DEF import_close
<1> QED
  BY <1>7, <1>10

\* The calls of the API.
LEMMA QueryNewSteps ==
  ASSUME NEW t \in Threads, NEW client, client \in MayTouch(t),
         {client} \X MayStart(t) \subseteq MayImport(t),
         NEW servers \in Seq(MayStart(t))
  PROVE  query_new(client, servers) \in Seq(Own(t))
<1>1. \A s \in MayStart(t) : [op |-> "new", on |-> <<client, s>>] \in Own(t)
  BY DEF Own
<1>2. ForEach("new", client, servers) \in Seq(Own(t))
  BY <1>1, ForEachSteps
<1>3. Do("ref", client) \in Seq(Own(t))
  BY DoSteps
<1>4. Do("ref", client) \o ForEach("new", client, servers) \in Seq(Own(t))
  BY <1>2, <1>3, Concat
<1> QED
  BY <1>4, HoldingSteps, TouchedMutex DEF query_new

LEMMA QueryFailsSteps ==
  ASSUME NEW t \in Threads, NEW client, client \in MayTouch(t)
  PROVE  query_new_fails(client) \in Seq(Own(t))
<1>1. Do("ref", client) \in Seq(Own(t)) /\ Do("unref", client) \in Seq(Own(t))
  BY DoSteps
<1>2. Do("ref", client) \o Do("unref", client) \in Seq(Own(t))
  BY <1>1, Concat
<1> QED
  BY <1>2, HoldingSteps, TouchedMutex DEF query_new_fails

LEMMA ByInterfaceSteps ==
  ASSUME NEW t \in Threads, NEW client, NEW q \in Seq(Own(t))
  PROVE  ByInterface(client, q) \in Seq(Own(t))
<1>1. Do("pass", "component") \in Seq(Own(t)) /\ <<>> \in Seq(Own(t))
  BY DoSteps, TouchedMutex
<1>2. Do("pass", "component") \o q \in Seq(Own(t)) /\ <<>> \o q \in Seq(Own(t))
  BY <1>1, Concat
<1> QED
  BY <1>2 DEF ByInterface

LEMMA ByPortSteps ==
  ASSUME NEW t \in Threads, NEW client, client \in MayTouch(t), NEW q \in Seq(Own(t))
  PROVE  ByPort(client, q) \in Seq(Own(t))
<1>1. Do("ref", client) \in Seq(Own(t)) /\ Do("unref", client) \in Seq(Own(t))
  BY DoSteps
<1>2. component_ref_port(client, q) \in Seq(Own(t))
  BY HoldingSteps, TouchedMutex DEF component_ref_port
<1>3. Do("ref", client) \o component_ref_port(client, q) \in Seq(Own(t))
  BY <1>1, <1>2, Concat
<1> QED
  BY <1>1, <1>3, Concat DEF ByPort

LEMMA NextSteps ==
  ASSUME NEW t \in Threads
  PROVE  xCOM_QueryNext \in Seq(Own(t))
BY DoSteps, TouchedMutex DEF xCOM_QueryNext

LEMMA FinishSteps ==
  ASSUME NEW t \in Threads, NEW client, client \in MayTouch(t), NEW unused \in Seq(MayStart(t))
  PROVE  xCOM_QueryFinish(client, unused) \in Seq(Own(t))
<1>1. \A s \in MayStart(t) : [op |-> "close", on |-> <<client, s>>] \in Own(t)
  BY DEF Own, MayFree
<1>2. ForEach("close", client, unused) \in Seq(Own(t))
  BY <1>1, ForEachSteps
<1> DEFINE first == IF unused = <<>> THEN <<>>
                    ELSE Holding("import", ForEach("close", client, unused))
<1>3. first \in Seq(Own(t))
  BY <1>2, HoldingSteps, TouchedMutex
<1> HIDE DEF first
<1>4. Do("unref", client) \in Seq(Own(t))
  BY DoSteps
<1>5. first \o Do("unref", client) \in Seq(Own(t))
  BY <1>3, <1>4, Concat
<1> QED
  BY <1>5, HoldingSteps, TouchedMutex DEF xCOM_QueryFinish, first

LEMMA ImportSteps ==
  ASSUME NEW t \in Threads, NEW client, client \in MayTouch(t),
         {client} \X MayStart(t) \subseteq MayImport(t), NEW s \in MayStart(t)
  PROVE  /\ xCOM_Import(client, s) \in Seq(Own(t))
         /\ ImportFails(client, s) \in Seq(Own(t))
         /\ xCOM_UnImport(client, s) \in Seq(Own(t))
<1> DEFINE p == <<client, s>>
<1>1. p \in MayImport(t) /\ p \in MayFree(t) /\ s \in Mutexes /\ s \in MayTouch(t)
  BY TouchedMutex DEF MayFree
<1>2. /\ Do("pass", "query") \in Seq(Own(t)) /\ Do("init", s) \in Seq(Own(t))
      /\ Do("pass", s) \in Seq(Own(t)) /\ AtPort(p) \in Seq(Own(t))
      /\ Do("open", p) \in Seq(Own(t)) /\ Do("close", p) \in Seq(Own(t))
  BY <1>1, DoSteps, AtPortSteps, TouchedMutex
<1>3. Holding(s, Do("init", s)) \in Seq(Own(t)) /\ Holding(s, Do("pass", s)) \in Seq(Own(t))
  BY <1>1, <1>2, HoldingSteps
<1>4. /\ Do("pass", "query") \o Holding(s, Do("init", s)) \in Seq(Own(t))
      /\ Do("pass", "query") \o Holding(s, Do("pass", s)) \in Seq(Own(t))
  BY <1>2, <1>3, Concat
<1>5. /\ Do("pass", "query") \o Holding(s, Do("init", s)) \o Do("pass", s) \in Seq(Own(t))
      /\ Do("pass", "query") \o Holding(s, Do("pass", s)) \o Do("close", p) \in Seq(Own(t))
  BY <1>2, <1>4, Concat
<1>6. Do("pass", "query") \o Holding(s, Do("init", s)) \o Do("pass", s) \o AtPort(p)
        \in Seq(Own(t))
  BY <1>2, <1>5, Concat
<1>7. Do("pass", "query") \o Holding(s, Do("init", s)) \o Do("pass", s) \o AtPort(p)
        \o Do("open", p) \in Seq(Own(t))
  BY <1>2, <1>6, Concat
<1>8. xCOM_Import(client, s) \in Seq(Own(t))
  BY <1>7, HoldingSteps, TouchedMutex DEF xCOM_Import
<1>9. ImportFails(client, s) \in Seq(Own(t))
  BY <1>5, HoldingSteps, TouchedMutex DEF ImportFails
<1>10. xCOM_UnImport(client, s) \in Seq(Own(t))
  BY <1>2, HoldingSteps, TouchedMutex DEF xCOM_UnImport
<1> QED
  BY <1>8, <1>9, <1>10

-----------------------------------------------------------------------------
(* What the steps of the library preserve *)

Steps == UNION {Own(t) : t \in Threads}

TodoOK ==
  /\ todo \in [Threads -> Seq(Steps)]
  /\ \A t \in Threads : todo[t] \in Seq(Own(t))

\* Only main() imports services.
ImportsOK ==
  /\ imports \in [Clients \X Components -> {"none", "queried", "open"}]
  /\ \A c \in Components, s \in ServiceSet : imports[<<c, s>>] = "none"

QueuesOK ==
  /\ queue \in [Components -> Seq(Methods)]
  /\ dropped \in [Components -> Nat]
  /\ quit \in [Components -> {"no", "set", "posted"}]
  /\ thread \in [Components -> Doing]

LibraryOK == TodoOK /\ ImportsOK /\ QueuesOK

LEMMA TodoStep ==
  ASSUME TodoOK, NEW t \in Threads, NEW q \in Seq(Own(t)), todo' = [todo EXCEPT ![t] = q]
  PROVE  TodoOK'
<1>1. Own(t) \subseteq Steps
  BY DEF Steps
<1>2. q \in Seq(Steps)
  BY <1>1
<1>3. todo' \in [Threads -> Seq(Steps)]
  BY <1>2 DEF TodoOK
<1>4. ASSUME NEW u \in Threads
      PROVE  todo'[u] \in Seq(Own(u))
  BY <1>4 DEF TodoOK
<1> QED
  BY <1>3, <1>4 DEF TodoOK

\* The step a thread is about to take, and the next ones.
LEMMA StepOwned ==
  ASSUME TodoOK, NEW t \in Threads, todo[t] # <<>>
  PROVE  Step(t) \in Own(t) /\ Tail(todo[t]) \in Seq(Own(t))
<1>1. todo[t] \in Seq(Own(t))
  BY DEF TodoOK
<1> QED
  BY <1>1 DEF Step

\* What a step of the library does to them.
Moves(t) == Advance(t) \/ \E q \in Seq(Own(t)) : Instead(t, q)

LEMMA MovesOK ==
  ASSUME TodoOK, NEW t \in Threads, todo[t] # <<>>, Moves(t)
  PROVE  TodoOK'
<1>1. CASE Advance(t)
  BY <1>1, StepOwned, TodoStep DEF Advance
<1>2. ASSUME NEW q \in Seq(Own(t)), Instead(t, q)
      PROVE  TodoOK'
  <2>1. q \o Tail(todo[t]) \in Seq(Own(t))
    BY StepOwned, Concat
  <2> QED BY <1>2, <2>1, TodoStep DEF Instead
<1> QED
  BY <1>1, <1>2 DEF Moves

\* What such a step is about.
LEMMA StepKinds ==
  ASSUME NEW t \in Threads, NEW x \in Own(t)
  PROVE  /\ x.op \in {"lock", "unlock", "pass"} => x.on \in Mutexes
         /\ x.op \in {"ref", "unref", "destroy", "quit", "post", "join"} => x.on \in MayTouch(t)
         /\ x.op = "init" => x.on \in MayStart(t)
         /\ x.op \in {"new", "add", "open"} => x.on \in MayImport(t)
         /\ x.op \in {"close", "release", "free"} => x.on \in MayFree(t)
BY DEF Own, LockSteps

\* A sequence of a finite set is one of its elements.
LEMMA ElementsOf ==
  ASSUME NEW S, IsFiniteSet(S)
  PROVE  SetToSeq(S) \in Seq(S)
<1>1. Cardinality(S) \in Nat
  BY FS_CardinalityType
<1>2. \E f : f \in [1 .. Cardinality(S) -> S] /\ IsInjective(f)
  <2>1. PICK f : f \in Bijection(1 .. Cardinality(S), S)
    BY FS_CardinalityType DEF ExistsBijection
  <2>2. f \in [1 .. Cardinality(S) -> S]
    BY <2>1 DEF Bijection, Injection
  <2>3. IsInjective(f)
    BY <2>1, <2>2 DEF Bijection, Injection, IsInjective
  <2> QED BY <2>2, <2>3
<1>3. SetToSeq(S) \in [1 .. Cardinality(S) -> S]
  BY <1>2 DEF SetToSeq
<1> QED
  BY <1>1, <1>3, SeqDef

LEMMA SeqLarger ==
  ASSUME NEW S, NEW T, S \subseteq T, NEW q \in Seq(S)
  PROVE  q \in Seq(T)
OBVIOUS

LEMMA ImportsOwned ==
  ASSUME ImportsOK, NEW t \in Threads, NEW c \in MayTouch(t)
  PROVE  ImportsOf(c) \in Seq(MayStart(t))
<1> DEFINE S == {s \in Components : imports[<<c, s>>] # "none"}
<1>1. IsFiniteSet(S)
  BY SpawnAssumption, FS_Subset
<1>2. SetToSeq(S) \in Seq(S)
  BY <1>1, ElementsOf
<1>3. S \subseteq MayStart(t)
  <2>1. CASE t = "main"
    BY <2>1 DEF MayStart
  <2>2. CASE t # "main"
    <3>1. c \in Components
      BY <2>2, Constants DEF MayTouch, Threads, Others
    <3> QED BY <2>2, <3>1, Constants DEF MayStart, ImportsOK, Others
  <2> QED BY <2>1, <2>2
<1>4. SetToSeq(S) \in Seq(MayStart(t))
  <2> HIDE DEF S
  <2> QED BY <1>2, <1>3, SeqLarger
<1> QED
  BY <1>4 DEF ImportsOf

\* Steps that leave the imports and the queues alone.
LEMMA LockStepsOK ==
  ASSUME LibraryOK, NEW t \in Threads, todo[t] # <<>>,
         Lock(t) \/ Unlock(t) \/ Pass(t) \/ component_ref(t) \/ component_unref(t)
           \/ import_new(t) \/ Close(t) \/ component_destroy(t) \/ Join(t)
  PROVE  Moves(t) /\ UNCHANGED <<queue, dropped, quit, thread, imports>>
<1> DEFINE x == Step(t)
<1>1. TodoOK /\ ImportsOK /\ x \in Own(t)
  BY StepOwned DEF LibraryOK
<1>2. CASE Lock(t) \/ Unlock(t) \/ Pass(t) \/ component_ref(t) \/ Join(t)
  BY <1>1, <1>2 DEF Moves, Lock, Unlock, Pass, component_ref, Join, queueVars
<1>3. CASE component_unref(t)
  <2>1. x.on \in MayTouch(t) /\ x.on \in Mutexes
    BY <1>1, <1>3, StepKinds, TouchedMutex DEF component_unref
  <2>2. Do("destroy", x.on) \in Seq(Own(t)) /\ Do("unlock", "component") \in Seq(Own(t))
    BY <2>1, DoSteps, TouchedMutex
  <2>3. Holding(x.on, Do("destroy", x.on)) \in Seq(Own(t))
    BY <2>1, <2>2, HoldingSteps
  <2>4. Holding(x.on, Do("destroy", x.on)) \o Do("unlock", "component") \in Seq(Own(t))
    BY <2>2, <2>3, Concat
  <2>5. Advance(t) \/ Instead(t, Holding(x.on, Do("destroy", x.on)) \o Do("unlock", "component"))
    BY <1>3 DEF component_unref
  <2>6. Moves(t)
    BY <1>1, <2>4, <2>5 DEF Moves
  <2> QED BY <1>3, <2>6 DEF component_unref, queueVars
<1>4. CASE import_new(t)
  <2>1. x.on \in MayImport(t)
    BY <1>1, <1>4, StepKinds DEF import_new
  <2>2. Do("pass", "import") \in Seq(Own(t)) /\ Do("add", x.on) \in Seq(Own(t))
    BY <2>1, DoSteps, TouchedMutex
  <2>3. Do("pass", "import") \o Do("add", x.on) \in Seq(Own(t))
    BY <2>2, Concat
  <2>4. Moves(t)
    BY <1>1, <1>4, <2>3 DEF Moves, import_new
  <2> QED BY <1>4, <2>4 DEF import_new, queueVars
<1>5. CASE Close(t)
  <2>1. x.on \in MayFree(t)
    BY <1>1, <1>5, StepKinds DEF Close
  <2>2. PICK q \in {<<>>, import_close(x.on), import_free(x.on)} : Instead(t, q)
    BY <1>5 DEF Close
  <2>3. <<>> \in Seq(Own(t))
    OBVIOUS
  <2>4. q \in Seq(Own(t))
    BY <2>1, <2>2, <2>3, FreeSteps
  <2>5. Moves(t)
    BY <1>1, <2>2, <2>4 DEF Moves
  <2> QED BY <1>5, <2>5 DEF Close, queueVars
<1>6. CASE component_destroy(t)
  <2>1. x.on \in MayTouch(t) /\ x.on \in Mutexes
    BY <1>1, <1>6, StepKinds, TouchedMutex DEF component_destroy
  <2>2. ImportsOf(x.on) \in Seq(MayStart(t))
    BY <1>1, <2>1, ImportsOwned
  <2>3. \A s \in MayStart(t) : [op |-> "release", on |-> <<x.on, s>>] \in Own(t)
    BY <2>1 DEF Own, MayFree
  <2>4. ForEach("release", x.on, ImportsOf(x.on)) \in Seq(Own(t))
    BY <2>2, <2>3, ForEachSteps
  <2>5. Holding(x.on, ForEach("release", x.on, ImportsOf(x.on))) \in Seq(Own(t))
    BY <2>1, <2>4, HoldingSteps
  <2>6. Do("quit", x.on) \in Seq(Own(t))
    BY <2>1, DoSteps
  <2>7. Holding(x.on, ForEach("release", x.on, ImportsOf(x.on))) \o Do("quit", x.on)
          \in Seq(Own(t))
    BY <2>5, <2>6, Concat
  <2>8. \/ Advance(t)
        \/ Instead(t, Holding(x.on, ForEach("release", x.on, ImportsOf(x.on)))
                        \o Do("quit", x.on))
    BY <1>6 DEF component_destroy
  <2>9. Moves(t)
    BY <1>1, <2>7, <2>8 DEF Moves
  <2> QED BY <1>6, <2>9 DEF component_destroy, queueVars
<1> QED
  BY <1>2, <1>3, <1>4, <1>5, <1>6

\* Only main() makes an import of a service.
LEMMA ImportStepsOK ==
  ASSUME LibraryOK, NEW t \in Threads, todo[t] # <<>>, Add(t) \/ Open(t) \/ FreeImport(t)
  PROVE  Moves(t) /\ ImportsOK' /\ UNCHANGED <<queue, dropped, quit, thread>>
<1> DEFINE x == Step(t)
<1>1. TodoOK /\ ImportsOK /\ x \in Own(t)
  BY StepOwned DEF LibraryOK
<1>2. Moves(t)
  BY <1>1 DEF Moves, Add, Open, FreeImport
<1>3. UNCHANGED <<queue, dropped, quit, thread>>
  BY DEF Add, Open, FreeImport, queueVars
<1>4. PICK v \in {"none", "queried", "open"} :
        /\ imports' = [imports EXCEPT ![x.on] = v]
        /\ v # "none" => x.on \in MayImport(t)
  BY <1>1, StepKinds DEF Add, Open, FreeImport
<1>5. imports' \in [Clients \X Components -> {"none", "queried", "open"}]
  BY <1>1, <1>4 DEF ImportsOK
<1>6. ASSUME NEW c \in Components, NEW s \in ServiceSet
      PROVE  imports'[<<c, s>>] = "none"
  <2>1. imports[<<c, s>>] = "none" /\ <<c, s>> \in Clients \X Components
    BY <1>1, Constants DEF ImportsOK
  <2>2. CASE x.on = <<c, s>>
    <3>1. <<c, s>> \notin MayImport(t)
      BY Constants DEF MayImport, MayStart, Others
    <3> QED BY <1>4, <2>1, <2>2, <3>1, <1>1 DEF ImportsOK
  <2>3. CASE x.on # <<c, s>>
    BY <1>1, <1>4, <2>1, <2>3 DEF ImportsOK
  <2> QED BY <2>2, <2>3
<1> QED
  BY <1>2, <1>3, <1>5, <1>6 DEF ImportsOK

LEMMA QueueStepsOK ==
  ASSUME LibraryOK, NEW t \in Threads, todo[t] # <<>>,
         component_init(t) \/ Quit(t) \/ Post(t)
  PROVE  Moves(t) /\ QueuesOK' /\ UNCHANGED <<imports, dropped>>
<1> DEFINE x == Step(t)
<1>1. TodoOK /\ QueuesOK /\ x \in Own(t)
  BY StepOwned DEF LibraryOK
<1>2. CASE component_init(t)
  <2>1. Moves(t)
    BY <1>1, <1>2 DEF Moves, component_init
  <2>2. <<>> \in Seq(Methods)
    OBVIOUS
  <2>3. QueuesOK' /\ dropped' = dropped
    BY <1>1, <1>2, <2>2 DEF component_init, StartQueue, QueuesOK, queueVars, Doing
  <2> QED BY <1>2, <2>1, <2>3 DEF component_init
<1>3. CASE Quit(t)
  <2>1. Do("post", x.on) \in Seq(Own(t))
    BY <1>1, <1>3, StepKinds, DoSteps DEF Quit
  <2>2. Moves(t)
    BY <1>1, <1>3, <2>1 DEF Moves, Quit
  <2>3. QueuesOK' /\ dropped' = dropped
    BY <1>1, <1>3 DEF Quit, SetQuit, QueuesOK, queueVars
  <2> QED BY <1>3, <2>2, <2>3 DEF Quit
<1>4. CASE Post(t)
  <2>1. Do("join", x.on) \in Seq(Own(t))
    BY <1>1, <1>4, StepKinds, DoSteps DEF Post
  <2>2. Moves(t)
    BY <1>1, <1>4, <2>1 DEF Moves, Post
  <2>3. QueuesOK' /\ dropped' = dropped
    BY <1>1, <1>4 DEF Post, PostQuit, QueuesOK, queueVars
  <2> QED BY <1>4, <2>2, <2>3 DEF Post
<1> QED
  BY <1>2, <1>3, <1>4

LEMMA LibraryStepOK ==
  ASSUME LibraryOK, NEW t \in Threads, LibraryStep(t)
  PROVE  LibraryOK' /\ dropped' = dropped /\ Moves(t)
<1>1. CASE Lock(t) \/ Unlock(t) \/ Pass(t) \/ component_ref(t) \/ component_unref(t)
             \/ import_new(t) \/ Close(t) \/ component_destroy(t) \/ Join(t)
  BY <1>1, LockStepsOK, MovesOK DEF LibraryStep, LibraryOK, ImportsOK, QueuesOK
<1>2. CASE Add(t) \/ Open(t) \/ FreeImport(t)
  BY <1>2, ImportStepsOK, MovesOK DEF LibraryStep, LibraryOK, QueuesOK
<1>3. CASE component_init(t) \/ Quit(t) \/ Post(t)
  BY <1>3, QueueStepsOK, MovesOK DEF LibraryStep, LibraryOK, ImportsOK
<1> QED
  BY <1>1, <1>2, <1>3 DEF LibraryStep

-----------------------------------------------------------------------------
(* What the steps of main() and of the components preserve *)

WorkStates ==
  [at : {"idle", "ask", "query", "test", "run", "await", "unimport", "summary"}, k : Nat \ {0}]

MainStatements ==
  {"boot", "services", "service", "start", "wait", "applications", "application", "launch",
   "finish", "exec", "run", "leave", "stop", "stopped", "drop", "clean", "done"}

MainOK ==
  /\ setting \in Setting
  /\ at \in MainStatements /\ i \in Nat \ {0}
  /\ started \in ToSet(Applications) \cup {Nobody}
  /\ at \in {"start", "wait", "stopped", "drop"} => i \in DOMAIN TheServices
  /\ at = "launch" => started \in ToSet(Applications)

WorksOK ==
  /\ agenda \in [Components -> Seq(Items)]
  /\ work \in [Components -> WorkStates]
  /\ \A c \in Components : work[c].at \in {"run", "await", "unimport"} => work[c].k \in DOMAIN Tests

CountsOK ==
  /\ sems \in [{"main", "tests"} -> Nat \cup {NoSem}]
  /\ answered \in [Components -> Nat] /\ accepted \in [Components -> Nat]

ProgramOK == LibraryOK /\ MainOK /\ WorksOK /\ CountsOK

LEMMA MainCallsOK ==
  ASSUME TodoOK, NEW q \in Seq(Own("main")), MainCalls(q)
  PROVE  TodoOK'
BY TodoStep, Constants DEF MainCalls

LEMMA CompCallsOK ==
  ASSUME TodoOK, NEW c \in Components, NEW q \in Seq(Own(c)), CompCalls(c, q)
  PROVE  TodoOK'
BY TodoStep, Constants DEF CompCalls

\* A part of a sequence.
LEMMA PartOf ==
  ASSUME NEW S, NEW q \in Seq(S), NEW m \in Nat \ {0}, NEW n \in 0 .. Len(q)
  PROVE  /\ SubSeq(q, m, n) \in Seq(S)
         /\ \A k \in DOMAIN SubSeq(q, 1, n) : k \in DOMAIN q /\ SubSeq(q, 1, n)[k] = q[k]
<1>1. Len(q) \in Nat /\ DOMAIN q = 1 .. Len(q) /\ n \in Nat
  OBVIOUS
<1>2. CASE m <= n
  <2>1. \A k \in m .. n : k \in 1 .. Len(q) /\ q[k] \in S
    BY <1>1, <1>2
  <2>2. SubSeq(q, m, n) \in Seq(S)
    BY <1>1, <1>2, <2>1, SubSeqProperties
  <2> QED BY <2>2, <1>1
<1>3. CASE m > n
  <2>1. SubSeq(q, m, n) = <<>>
    BY <1>1, <1>3
  <2> QED BY <2>1, <1>1
<1> QED
  BY <1>1, <1>2, <1>3

LEMMA TheServicesOK ==
  ASSUME setting \in Setting
  PROVE  /\ TheServices \in Seq(Components) /\ TheApplications \in Seq(Components)
         /\ \A k \in DOMAIN TheServices : TheServices[k] \in ServiceSet
         /\ \A k \in DOMAIN TheApplications : TheApplications[k] \in ToSet(Applications)
         /\ DOMAIN TheServices = 1 .. Len(TheServices) /\ Len(TheServices) \in Nat
         /\ DOMAIN TheApplications = 1 .. Len(TheApplications) /\ Len(TheApplications) \in Nat
<1>1. setting.services \in 0 .. Len(Services) /\ setting.applications \in 0 .. Len(Applications)
  BY DEF Setting
<1>2. /\ TheServices \in Seq(Components)
      /\ \A k \in DOMAIN TheServices : k \in DOMAIN Services /\ TheServices[k] = Services[k]
  BY <1>1, Constants, PartOf, 1 \in Nat \ {0} DEF TheServices
<1>3. /\ TheApplications \in Seq(Components)
      /\ \A k \in DOMAIN TheApplications :
           k \in DOMAIN Applications /\ TheApplications[k] = Applications[k]
  BY <1>1, Constants, PartOf, 1 \in Nat \ {0} DEF TheApplications
<1>4. \A k \in DOMAIN TheApplications : TheApplications[k] \in ToSet(Applications)
  BY <1>3 DEF ToSet
<1>5. \A k \in DOMAIN TheServices : TheServices[k] \in ServiceSet
  BY <1>2, Constants
<1>6. /\ DOMAIN TheServices = 1 .. Len(TheServices) /\ Len(TheServices) \in Nat
      /\ DOMAIN TheApplications = 1 .. Len(TheApplications) /\ Len(TheApplications) \in Nat
  BY <1>2, <1>3
<1> QED
  BY <1>2, <1>3, <1>4, <1>5, <1>6

\* The program itself may import any component, and other threads those that are
\* no services.
LEMMA ClientsOK ==
  /\ Anonymous \in MayTouch("main") /\ MayStart("main") = Components
  /\ {Anonymous} \X MayStart("main") \subseteq MayImport("main")
  /\ \A c \in Components :
       c \in MayTouch(c) /\ MayStart(c) = Others /\ {c} \X MayStart(c) \subseteq MayImport(c)
BY Constants DEF MayTouch, MayStart, MayImport

LEMMA EnqueueOK ==
  ASSUME QueuesOK, NEW c \in Components, NEW m \in {"Start", "Stop", "Run"}, Enqueue(c, m)
  PROVE  QueuesOK' /\ thread' = thread /\ quit' = quit /\ dropped' = dropped
<1>1. m \in Methods
  BY SpawnAssumption
<1>2. Append(queue[c], m) \in Seq(Methods)
  BY <1>1 DEF QueuesOK
<1> QED
  BY <1>2 DEF Enqueue, QueuesOK

\* main() while it calls the library.
LEMMA MainLibraryCalls ==
  ASSUME ProgramOK,
         QueryServices \/ NoArrays \/ ImportService \/ FinishServices \/ QueryApplications
           \/ ImportApplication \/ FinishApplications \/ Leave \/ DropService
  PROVE  /\ ProgramOK' /\ fault' = fault
         /\ UNCHANGED <<queue, dropped, quit, thread, agenda, work, sems, answered, accepted>>
<1>1. /\ TodoOK /\ setting \in Setting /\ i \in Nat \ {0}
      /\ started \in ToSet(Applications) \cup {Nobody}
  BY DEF ProgramOK, LibraryOK, MainOK
<1>2. UNCHANGED <<queue, dropped, quit, thread, agenda, work, sems, answered, accepted,
                  imports, setting, fault>>
  BY DEF QueryServices, NoArrays, ImportService, FinishServices, QueryApplications,
         ImportApplication, FinishApplications, Leave, DropService, threadsAlone, locksAlone,
         answerVars, workVars, queueVars
<1>3. "main" \in Threads /\ Anonymous \in MayTouch("main") /\ MayStart("main") = Components
  BY Constants, ClientsOK
<1>4. \A k \in DOMAIN TheServices : TheServices[k] \in Components
  BY <1>1, TheServicesOK, ElementOfSeq
<1>5. \A k \in DOMAIN TheApplications : TheApplications[k] \in Components
  BY <1>1, TheServicesOK, ElementOfSeq
<1>6. \A s \in Components :
        /\ xCOM_QueryNext \o xCOM_Import(Anonymous, s) \in Seq(Own("main"))
        /\ xCOM_QueryNext \o ImportFails(Anonymous, s) \in Seq(Own("main"))
        /\ xCOM_UnImport(Anonymous, s) \in Seq(Own("main"))
  <2> SUFFICES ASSUME NEW s \in Components
               PROVE  /\ xCOM_QueryNext \o xCOM_Import(Anonymous, s) \in Seq(Own("main"))
                      /\ xCOM_QueryNext \o ImportFails(Anonymous, s) \in Seq(Own("main"))
                      /\ xCOM_UnImport(Anonymous, s) \in Seq(Own("main"))
    OBVIOUS
  <2>1. /\ xCOM_Import(Anonymous, s) \in Seq(Own("main"))
        /\ ImportFails(Anonymous, s) \in Seq(Own("main"))
        /\ xCOM_UnImport(Anonymous, s) \in Seq(Own("main"))
    BY <1>3, ClientsOK, ImportSteps
  <2>2. xCOM_QueryNext \in Seq(Own("main"))
    BY <1>3, NextSteps
  <2> QED BY <2>1, <2>2, Concat
<1>7. \A q \in Seq(Components) :
        /\ xCOM_QueryInterface(Anonymous, q) \in Seq(Own("main"))
        /\ ByInterface(Anonymous, query_new_fails(Anonymous)) \in Seq(Own("main"))
        /\ xCOM_QueryFinish(Anonymous, q) \in Seq(Own("main"))
  <2> SUFFICES ASSUME NEW q \in Seq(Components)
               PROVE  /\ xCOM_QueryInterface(Anonymous, q) \in Seq(Own("main"))
                      /\ ByInterface(Anonymous, query_new_fails(Anonymous)) \in Seq(Own("main"))
                      /\ xCOM_QueryFinish(Anonymous, q) \in Seq(Own("main"))
    OBVIOUS
  <2>1. /\ query_new(Anonymous, q) \in Seq(Own("main"))
        /\ query_new_fails(Anonymous) \in Seq(Own("main"))
    BY <1>3, ClientsOK, QueryNewSteps, QueryFailsSteps
  <2> QED BY <1>3, <2>1, ByInterfaceSteps, FinishSteps DEF xCOM_QueryInterface
<1>8. <<>> \in Seq(Components)
  OBVIOUS
<1>9. TodoOK'
  <2>1. CASE QueryServices
    BY <1>1, <1>7, <2>1, TheServicesOK, MainCallsOK DEF QueryServices
  <2>2. CASE NoArrays
    BY <1>1, <1>7, <2>2, TheServicesOK, MainCallsOK DEF NoArrays
  <2>3. CASE ImportService
    <3>1. i \in DOMAIN TheServices
      BY <1>1, <2>3, TheServicesOK DEF ImportService
    <3> QED BY <1>1, <1>4, <1>6, <2>3, <3>1, MainCallsOK DEF ImportService
  <2>4. CASE FinishServices
    BY <1>1, <1>7, <1>8, <2>4, MainCallsOK DEF FinishServices
  <2>5. CASE QueryApplications
    BY <1>1, <1>7, <2>5, TheServicesOK, MainCallsOK DEF QueryApplications
  <2>6. CASE ImportApplication
    <3>1. i \in DOMAIN TheApplications
      BY <1>1, <2>6, TheServicesOK DEF ImportApplication
    <3> QED BY <1>1, <1>5, <1>6, <2>6, <3>1, MainCallsOK DEF ImportApplication
  <2>7. CASE FinishApplications
    <3>1. Len(TheApplications) \in 0 .. Len(TheApplications)
      BY <1>1, TheServicesOK
    <3>2. SubSeq(TheApplications, i, Len(TheApplications)) \in Seq(Components)
      BY <1>1, <3>1, TheServicesOK, PartOf
    <3> QED BY <1>1, <1>7, <2>7, <3>2, MainCallsOK DEF FinishApplications
  <2>8. CASE Leave
    <3>1. CASE started = Nobody
      BY <1>1, <1>2, <2>8, <3>1 DEF Leave, TodoOK
    <3>2. CASE started # Nobody
      <4>1. started \in Components
        BY <1>1, <3>2, Constants DEF ToSet, Others
      <4> QED BY <1>1, <1>6, <2>8, <3>2, <4>1, MainCallsOK DEF Leave
    <3> QED BY <3>1, <3>2
  <2>9. CASE DropService
    <3>1. i \in DOMAIN TheServices
      BY <2>9 DEF DropService, Main, ProgramOK, MainOK
    <3> QED BY <1>1, <1>4, <1>6, <2>9, <3>1, MainCallsOK DEF DropService
  <2> QED BY <2>1, <2>2, <2>3, <2>4, <2>5, <2>6, <2>7, <2>8, <2>9
<1>10. LibraryOK'
  BY <1>2, <1>9 DEF ProgramOK, LibraryOK, ImportsOK, QueuesOK
<1>11. WorksOK' /\ CountsOK'
  BY <1>2 DEF ProgramOK, WorksOK, CountsOK
<1>12. TheServices' = TheServices
  BY <1>2 DEF TheServices
<1>13. MainOK'
  <2>1. CASE ImportService
    <3>1. i \in DOMAIN TheServices
      BY <1>1, <2>1, TheServicesOK DEF ImportService
    <3> QED BY <1>1, <1>2, <1>12, <2>1, <3>1 DEF ImportService, MainOK, MainStatements, GoOn
  <2>2. CASE ImportApplication
    <3>1. i \in DOMAIN TheApplications
      BY <1>1, <2>2, TheServicesOK DEF ImportApplication
    <3>2. TheApplications[i] \in ToSet(Applications)
      BY <1>1, <3>1, TheServicesOK
    <3> QED BY <1>1, <1>2, <1>12, <2>2, <3>2 DEF ImportApplication, MainOK, MainStatements, GoOn
  <2>3. CASE QueryServices \/ NoArrays \/ FinishServices \/ QueryApplications
               \/ FinishApplications \/ Leave \/ DropService
    <3>1. /\ at' \in {"service", "clean", "stop", "applications", "application", "leave", "exec"}
          /\ i' \in {1, i + 1} /\ started' = started
      BY <2>3
      DEF QueryServices, NoArrays, FinishServices, QueryApplications, FinishApplications,
          Leave, DropService, GoOn
    <3> QED BY <1>1, <1>2, <1>12, <3>1 DEF MainOK, MainStatements
  <2> QED BY <2>1, <2>2, <2>3
<1> QED
  BY <1>2, <1>10, <1>11, <1>13 DEF ProgramOK

\* main() while it does not.
LEMMA MainOwnSteps ==
  ASSUME ProgramOK,
         Boot \/ StartService \/ StartFails \/ WaitService \/ StartApplication \/ ExecWaits
           \/ ExecRuns \/ ExecReturns \/ StopService \/ SkipService \/ NullHandles
           \/ WaitStopped \/ CleanUp
  PROVE  ProgramOK' /\ todo' = todo
<1>1. /\ setting \in Setting /\ i \in Nat \ {0} /\ QueuesOK
      /\ started \in ToSet(Applications) \cup {Nobody}
  BY DEF ProgramOK, LibraryOK, MainOK
<1>2. UNCHANGED <<todo, imports, setting, agenda, work, answered>>
  BY DEF Boot, StartService, StartFails, WaitService, StartApplication, ExecWaits, ExecRuns,
         ExecReturns, StopService, SkipService, NullHandles, WaitStopped, CleanUp, MainWaits,
         threadsAlone, answerVars, workVars, queueVars, lockVars
<1>3. TheServices' = TheServices
  BY <1>2 DEF TheServices
<1>4. at \in {"start", "wait", "stopped", "drop"} => i \in DOMAIN TheServices
  BY DEF ProgramOK, MainOK
<1>5. \A k \in DOMAIN TheServices : TheServices[k] \in Components
  BY <1>1, TheServicesOK, ElementOfSeq
<1>6. WorksOK'
  BY <1>2 DEF ProgramOK, WorksOK
<1>7. TodoOK' /\ ImportsOK'
  BY <1>2 DEF ProgramOK, LibraryOK, TodoOK, ImportsOK
<1>8. CASE Boot
  <2>1. QueuesOK' /\ CountsOK' /\ MainOK'
    BY <1>1, <1>2, <1>3, <1>8
    DEF Boot, GoOn, QueuesOK, queueVars, CountsOK, ProgramOK, MainOK, MainStatements, NoSem
  <2> QED BY <1>2, <1>6, <1>7, <2>1 DEF ProgramOK, LibraryOK
<1>9. CASE StartService
  <2>1. QueuesOK'
    BY <1>1, <1>4, <1>5, <1>9, EnqueueOK DEF StartService, Main
  <2>2. CountsOK' /\ MainOK'
    BY <1>1, <1>2, <1>3, <1>4, <1>5, <1>9
    DEF StartService, Main, GoOn, answerVars, CountsOK, ProgramOK, MainOK, MainStatements
  <2> QED BY <1>2, <1>6, <1>7, <2>1, <2>2 DEF ProgramOK, LibraryOK
<1>10. CASE StartApplication
  <2>1. started \in Components
    BY <1>10, Constants DEF StartApplication, Main, ProgramOK, MainOK, ToSet, Others
  <2>2. QueuesOK'
    <3>1. CASE Enqueue(started, "Start")
      BY <1>1, <2>1, <3>1, EnqueueOK
    <3>2. CASE UNCHANGED queueVars
      BY <1>1, <3>2 DEF QueuesOK, queueVars
    <3> QED BY <1>10, <3>1, <3>2 DEF StartApplication
  <2>3. CountsOK' /\ MainOK'
    BY <1>1, <1>2, <1>3, <2>1, <1>10
    DEF StartApplication, GoOn, CountsOK, ProgramOK, MainOK, MainStatements
  <2> QED BY <1>2, <1>6, <1>7, <2>2, <2>3 DEF ProgramOK, LibraryOK
<1>11. CASE StopService
  <2>0. i \in DOMAIN TheServices
    BY <1>1, <1>11, TheServicesOK DEF StopService
  <2>1. QueuesOK'
    <3>1. CASE Enqueue(TheServices[i], "Stop")
      BY <1>1, <1>5, <2>0, <3>1, EnqueueOK
    <3>2. CASE UNCHANGED queueVars
      BY <1>1, <3>2 DEF QueuesOK, queueVars
    <3> QED BY <1>11, <3>1, <3>2 DEF StopService
  <2>2. CountsOK' /\ MainOK'
    BY <1>1, <1>2, <1>3, <1>5, <2>0, <1>11
    DEF StopService, GoOn, answerVars, CountsOK, ProgramOK, MainOK, MainStatements
  <2> QED BY <1>2, <1>6, <1>7, <2>1, <2>2 DEF ProgramOK, LibraryOK
<1>12. CASE WaitService \/ WaitStopped
  <2>1. QueuesOK'
    BY <1>1, <1>12 DEF WaitService, WaitStopped, MainWaits, QueuesOK, queueVars
  <2>2. MainOK'
    BY <1>1, <1>2, <1>3, <1>4, <1>12
    DEF WaitService, WaitStopped, MainWaits, Main, GoOn, MainOK, MainStatements
  <2>3. sems["main"] \in Nat \ {0} /\ sems["main"] - 1 \in Nat
    BY <1>12 DEF WaitService, WaitStopped, MainWaits, ProgramOK, CountsOK
  <2>4. CountsOK'
    BY <1>2, <1>12, <2>3 DEF WaitService, WaitStopped, MainWaits, ProgramOK, CountsOK
  <2> QED BY <1>2, <1>6, <1>7, <2>1, <2>2, <2>4 DEF ProgramOK, LibraryOK
<1>13. CASE StartFails \/ ExecWaits \/ ExecRuns \/ ExecReturns \/ SkipService
              \/ NullHandles \/ CleanUp
  <2>1. QueuesOK'
    BY <1>1, <1>13
    DEF StartFails, ExecWaits, ExecRuns, ExecReturns, SkipService, NullHandles, CleanUp,
        threadsAlone, QueuesOK, queueVars
  <2>2. MainOK'
    BY <1>1, <1>2, <1>3, <1>4, <1>13
    DEF StartFails, ExecWaits, ExecRuns, ExecReturns, SkipService, NullHandles, CleanUp,
        ProgramOK, MainOK, MainStatements, GoOn, mainVars
  <2>3. CountsOK'
    BY <1>2, <1>13
    DEF StartFails, ExecWaits, ExecRuns, ExecReturns, SkipService, NullHandles, CleanUp,
        threadsAlone, answerVars, ProgramOK, CountsOK, NoSem
  <2> QED BY <1>2, <1>6, <1>7, <2>1, <2>2, <2>3 DEF ProgramOK, LibraryOK
<1> QED
  BY <1>8, <1>9, <1>10, <1>11, <1>12, <1>13

LEMMA MainUntouched ==
  ASSUME MainOK, setting' = setting, at' = at, i' = i, started' = started
  PROVE  MainOK' /\ TheServices' = TheServices
<1>1. TheServices' = TheServices
  BY DEF TheServices
<1> QED
  BY <1>1 DEF MainOK

\* A component that takes its calls.
LEMMA ThreadStepsOK ==
  ASSUME ProgramOK, NEW c \in Components, WakesUp(c) \/ TakesCall(c) \/ CallReturns(c)
  PROVE  ProgramOK' /\ todo' = todo
<1>1. QueuesOK /\ setting \in Setting
  BY DEF ProgramOK, LibraryOK, MainOK
<1>2. UNCHANGED <<setting, at, i, started, sems, answered, accepted, work, todo, imports>>
  BY DEF WakesUp, TakesCall, CallReturns, spawnVars, mainVars, answerVars, workVars,
         compAlone, lockVars
<1>3. MainOK' /\ CountsOK' /\ TodoOK' /\ ImportsOK'
  BY <1>2, MainUntouched DEF ProgramOK, LibraryOK, CountsOK, TodoOK, ImportsOK
<1>4. CASE WakesUp(c) \/ CallReturns(c)
  <2>1. QueuesOK'
    BY <1>1, <1>4 DEF WakesUp, CallReturns, Wakes, Returns, QueuesOK, Doing
  <2>2. WorksOK'
    BY <1>4 DEF WakesUp, CallReturns, spawnVars, workVars, ProgramOK, WorksOK
  <2> QED BY <1>2, <1>3, <2>1, <2>2 DEF ProgramOK, LibraryOK
<1>5. CASE TakesCall(c)
  <2>1. QueuesOK'
    <3>1. queue[c] \in Seq(Methods) /\ <<>> \in Seq(Methods)
      BY <1>1 DEF QueuesOK
    <3>2. queue[c] # <<>> => Tail(queue[c]) \in Seq(Methods)
      BY <3>1
    <3>3. queue' \in [Components -> Seq(Methods)]
      BY <1>1, <1>5, <3>1, <3>2 DEF TakesCall, Takes, QueuesOK
    <3>4. dropped[c] + Len(queue[c]) \in Nat
      BY <1>1, <3>1 DEF QueuesOK
    <3>5. dropped' \in [Components -> Nat]
      BY <1>1, <1>5, <3>4 DEF TakesCall, Takes, QueuesOK
    <3> QED BY <1>1, <1>5, <3>3, <3>5 DEF TakesCall, Takes, QueuesOK, Doing
  <2>2. setting.habit[c] \in Seq(Items) /\ <<>> \in Seq(Items)
    BY <1>1 DEF Setting
  <2>3. WorksOK'
    BY <1>2, <1>5, <2>2 DEF TakesCall, ProgramOK, WorksOK
  <2> QED BY <1>2, <1>3, <2>1, <2>3 DEF ProgramOK, LibraryOK
<1> QED
  BY <1>4, <1>5

\* Its answers.
LEMMA AnswersOK ==
  ASSUME ProgramOK, NEW c \in Components,
         ServiceAnswers(c) \/ TestAnswers(c) \/ ApplicationAnswers(c)
  PROVE  ProgramOK' /\ todo' = todo
<1>1. UNCHANGED <<setting, at, i, started, accepted, work, todo, imports, queue, dropped, quit,
                  thread>>
  BY DEF ServiceAnswers, TestAnswers, ApplicationAnswers, Signals, mainVars, compAlone,
         lockVars, queueVars
<1>2. MainOK' /\ LibraryOK'
  BY <1>1, MainUntouched DEF ProgramOK, LibraryOK, TodoOK, ImportsOK, QueuesOK
<1>3. Answering(c)
  BY DEF ServiceAnswers, TestAnswers, ApplicationAnswers, Signals
<1>4. agenda[c] # <<>> => Tail(agenda[c]) \in Seq(Items)
  <2>1. agenda[c] \in Seq(Items)
    BY DEF ProgramOK, WorksOK
  <2> QED BY <2>1
<1>5. WorksOK'
  BY <1>1, <1>3, <1>4 DEF Answering, ProgramOK, WorksOK
<1>6. answered' \in [Components -> Nat]
  BY <1>3 DEF Answering, ProgramOK, CountsOK
<1>7. sems' \in [{"main", "tests"} -> Nat \cup {NoSem}]
  BY DEF ServiceAnswers, TestAnswers, ApplicationAnswers, Signals, ProgramOK, CountsOK
<1> QED
  BY <1>1, <1>2, <1>5, <1>6, <1>7 DEF ProgramOK, CountsOK

\* Its work.
LEMMA WorkStepsOK ==
  ASSUME ProgramOK, NEW c \in Components,
         BeginsWork(c) \/ Asks(c) \/ QueriesTests(c) \/ ImportsTest(c) \/ RunsTest(c)
           \/ AwaitsTest(c) \/ UnImportsTest(c) \/ FinishesTests(c) \/ EndsTests(c)
  PROVE  ProgramOK' /\ UNCHANGED <<answered, dropped, quit, thread>> /\ sems'["main"] = sems["main"]
<1>1. UNCHANGED <<setting, at, i, started, accepted, imports, answered>>
  BY DEF BeginsWork, Asks, QueriesTests, ImportsTest, RunsTest, AwaitsTest, UnImportsTest,
         FinishesTests, EndsTests, mainVars, answerVars, compAlone, locksAlone, lockVars
<1>2. MainOK'
  BY <1>1, MainUntouched DEF ProgramOK
<1>3. /\ TodoOK /\ QueuesOK /\ work \in [Components -> WorkStates]
      /\ agenda \in [Components -> Seq(Items)]
      /\ work[c].k \in Nat \ {0}
      /\ work[c].at \in {"run", "await", "unimport"} => work[c].k \in DOMAIN Tests
      /\ sems \in [{"main", "tests"} -> Nat \cup {NoSem}]
  BY DEF ProgramOK, LibraryOK, WorksOK, CountsOK, WorkStates
<1>4. /\ DOMAIN Tests = 1 .. Len(Tests) /\ Len(Tests) \in Nat /\ Tests \in Seq(Others)
      /\ \A k \in DOMAIN Tests : Tests[k] \in Others /\ Tests[k] \in Components
  <2>1. Tests \in [1 .. Len(Tests) -> Others] /\ Len(Tests) \in Nat
    BY Constants
  <2>2. Tests \in Seq(Others)
    BY <2>1, SeqDef
  <2> QED BY <2>1, <2>2, Constants
<1>5. c \in Threads /\ c \in MayTouch(c) /\ MayStart(c) = Others
  BY Constants, ClientsOK
<1>6. /\ xCOM_QueryInterface(c, Tests) \o xCOM_QueryFinish(c, Tests) \in Seq(Own(c))
      /\ xCOM_QueryPort(c, Tests) \in Seq(Own(c))
      /\ ByPort(c, query_new_fails(c)) \in Seq(Own(c))
      /\ xCOM_QueryFinish(c, <<>>) \in Seq(Own(c))
  <2>1. query_new(c, Tests) \in Seq(Own(c)) /\ query_new_fails(c) \in Seq(Own(c))
    BY <1>4, <1>5, ClientsOK, QueryNewSteps, QueryFailsSteps
  <2>2. /\ xCOM_QueryInterface(c, Tests) \in Seq(Own(c))
        /\ xCOM_QueryPort(c, Tests) \in Seq(Own(c))
        /\ ByPort(c, query_new_fails(c)) \in Seq(Own(c))
    BY <1>5, <2>1, ByInterfaceSteps, ByPortSteps DEF xCOM_QueryInterface, xCOM_QueryPort
  <2>3. <<>> \in Seq(Others)
    OBVIOUS
  <2>4. xCOM_QueryFinish(c, Tests) \in Seq(Own(c)) /\ xCOM_QueryFinish(c, <<>>) \in Seq(Own(c))
    BY <1>4, <1>5, <2>3, FinishSteps
  <2> QED BY <2>2, <2>4, Concat
<1>7. ASSUME NEW s \in Others
      PROVE  /\ xCOM_QueryNext \o xCOM_Import(c, s) \in Seq(Own(c))
             /\ xCOM_QueryNext \o ImportFails(c, s) \in Seq(Own(c))
             /\ xCOM_UnImport(c, s) \in Seq(Own(c))
  <2>1. /\ xCOM_Import(c, s) \in Seq(Own(c)) /\ ImportFails(c, s) \in Seq(Own(c))
        /\ xCOM_UnImport(c, s) \in Seq(Own(c))
    BY <1>5, ClientsOK, ImportSteps
  <2>2. xCOM_QueryNext \in Seq(Own(c))
    BY <1>5, NextSteps
  <2> QED BY <2>1, <2>2, Concat
<1>8. TodoOK'
  <2>1. CASE BeginsWork(c) \/ RunsTest(c) \/ AwaitsTest(c) \/ EndsTests(c)
    <3>1. todo' = todo
      BY <2>1 DEF BeginsWork, RunsTest, AwaitsTest, EndsTests, lockVars
    <3> QED BY <1>3, <3>1 DEF TodoOK
  <2>2. CASE Asks(c)
    BY <1>3, <1>6, <2>2, CompCallsOK DEF Asks
  <2>3. CASE QueriesTests(c)
    BY <1>3, <1>6, <2>3, CompCallsOK DEF QueriesTests
  <2>4. CASE ImportsTest(c)
    <3>1. work[c].k \in DOMAIN Tests
      BY <1>3, <1>4, <2>4 DEF ImportsTest
    <3> QED BY <1>3, <1>4, <1>7, <2>4, <3>1, CompCallsOK DEF ImportsTest
  <2>5. CASE UnImportsTest(c)
    <3>1. work[c].k \in DOMAIN Tests
      BY <1>3, <2>5 DEF UnImportsTest, Working
    <3> QED BY <1>3, <1>4, <1>7, <2>5, <3>1, CompCallsOK DEF UnImportsTest
  <2>6. CASE FinishesTests(c)
    BY <1>3, <1>6, <2>6, CompCallsOK DEF FinishesTests
  <2> QED BY <2>1, <2>2, <2>3, <2>4, <2>5, <2>6
<1>9. QueuesOK' /\ UNCHANGED <<dropped, quit, thread>>
  <2>1. CASE RunsTest(c)
    <3>1. Tests[work[c].k] \in Components
      BY <1>3, <1>4, <2>1 DEF RunsTest, Working
    <3>2. CASE Enqueue(Tests[work[c].k], "Run")
      BY <1>3, <3>1, <3>2, EnqueueOK
    <3>3. CASE UNCHANGED queueVars
      BY <1>3, <3>3 DEF QueuesOK, queueVars
    <3> QED BY <2>1, <3>2, <3>3 DEF RunsTest
  <2>2. CASE BeginsWork(c) \/ Asks(c) \/ QueriesTests(c) \/ ImportsTest(c) \/ AwaitsTest(c)
               \/ UnImportsTest(c) \/ FinishesTests(c) \/ EndsTests(c)
    <3>1. UNCHANGED queueVars
      BY <2>2 DEF BeginsWork, Asks, QueriesTests, ImportsTest, AwaitsTest, UnImportsTest,
                  FinishesTests, EndsTests
    <3> QED BY <1>3, <3>1 DEF QueuesOK, queueVars
  <2> QED BY <2>1, <2>2
<1>10. agenda' \in [Components -> Seq(Items)]
  <2>1. CASE BeginsWork(c)
    <3>1. agenda[c] \in Seq(Items) /\ agenda[c] # <<>>
      BY <1>3, <2>1 DEF BeginsWork
    <3>2. Tail(agenda[c]) \in Seq(Items)
      BY <3>1
    <3> QED BY <1>3, <2>1, <3>2 DEF BeginsWork
  <2>2. CASE Asks(c) \/ QueriesTests(c) \/ ImportsTest(c) \/ AwaitsTest(c) \/ RunsTest(c)
               \/ UnImportsTest(c) \/ FinishesTests(c) \/ EndsTests(c)
    BY <1>3, <2>2 DEF Asks, QueriesTests, ImportsTest, AwaitsTest, RunsTest, UnImportsTest,
                      FinishesTests, EndsTests
  <2> QED BY <2>1, <2>2
<1>11. \/ work' = work
       \/ \E a \in {"idle", "ask", "query", "test", "run", "await", "unimport", "summary"},
             n \in Nat \ {0} :
            /\ WorkAt(c, a, n)
            /\ a \in {"run", "await", "unimport"} => n \in DOMAIN Tests
  <2>1. CASE BeginsWork(c) \/ Asks(c) \/ QueriesTests(c) \/ FinishesTests(c) \/ EndsTests(c)
    BY <2>1 DEF BeginsWork, Asks, QueriesTests, FinishesTests, EndsTests
  <2>2. CASE ImportsTest(c)
    <3>1. work[c].k \in DOMAIN Tests /\ work[c].k + 1 \in Nat \ {0}
      BY <1>3, <1>4, <2>2 DEF ImportsTest
    <3> QED BY <1>3, <2>2, <3>1 DEF ImportsTest
  <2>3. CASE RunsTest(c)
    <3>1. work[c].k \in DOMAIN Tests
      BY <1>3, <2>3 DEF RunsTest, Working
    <3> QED BY <1>3, <2>3, <3>1 DEF RunsTest
  <2>4. CASE AwaitsTest(c)
    <3>1. work[c].k \in DOMAIN Tests
      BY <1>3, <2>4 DEF AwaitsTest, Working
    <3> QED BY <1>3, <2>4, <3>1 DEF AwaitsTest
  <2>5. CASE UnImportsTest(c)
    <3>1. work[c].k + 1 \in Nat \ {0}
      BY <1>3
    <3> QED BY <1>3, <2>5, <3>1 DEF UnImportsTest
  <2> QED BY <2>1, <2>2, <2>3, <2>4, <2>5
<1>12. WorksOK'
  <2>1. CASE work' = work
    BY <1>10, <2>1 DEF ProgramOK, WorksOK
  <2>2. ASSUME NEW a \in {"idle", "ask", "query", "test", "run", "await", "unimport", "summary"},
               NEW n \in Nat \ {0}, WorkAt(c, a, n),
               a \in {"run", "await", "unimport"} => n \in DOMAIN Tests
        PROVE  WorksOK'
    <3>1. [at |-> a, k |-> n] \in WorkStates
      BY DEF WorkStates
    <3>2. work' = [work EXCEPT ![c] = [at |-> a, k |-> n]]
      BY <2>2 DEF WorkAt
    <3>3. work' \in [Components -> WorkStates]
      BY <1>3, <3>1, <3>2
    <3>4. ASSUME NEW d \in Components, work'[d].at \in {"run", "await", "unimport"}
          PROVE  work'[d].k \in DOMAIN Tests
      <4>1. CASE d = c
        BY <1>3, <2>2, <3>2, <3>4, <4>1
      <4>2. CASE d # c
        <5>1. work'[d] = work[d]
          BY <1>3, <3>2, <4>2
        <5> QED BY <3>4, <5>1 DEF ProgramOK, WorksOK
      <4> QED BY <4>1, <4>2
    <3> QED BY <1>10, <3>3, <3>4 DEF WorksOK
  <2> QED BY <1>11, <2>1, <2>2
<1>13. sems' \in [{"main", "tests"} -> Nat \cup {NoSem}] /\ sems'["main"] = sems["main"]
  <2>1. CASE AwaitsTest(c)
    <3>1. sems["tests"] - 1 \in Nat
      BY <1>3, <2>1 DEF AwaitsTest
    <3> QED BY <1>3, <2>1, <3>1 DEF AwaitsTest
  <2>2. CASE QueriesTests(c) \/ EndsTests(c)
    BY <1>3, <2>2 DEF QueriesTests, EndsTests, NoSem
  <2>3. CASE BeginsWork(c) \/ Asks(c) \/ ImportsTest(c) \/ RunsTest(c) \/ UnImportsTest(c)
               \/ FinishesTests(c)
    BY <1>3, <2>3 DEF BeginsWork, Asks, ImportsTest, RunsTest, UnImportsTest, FinishesTests,
                      answerVars
  <2> QED BY <2>1, <2>2, <2>3
<1>14. CountsOK'
  BY <1>1, <1>13 DEF ProgramOK, CountsOK
<1>15. ImportsOK'
  BY <1>1 DEF ProgramOK, LibraryOK, ImportsOK
<1> QED
  BY <1>1, <1>2, <1>8, <1>9, <1>12, <1>13, <1>14, <1>15 DEF ProgramOK, LibraryOK

LEMMA InLibraryOK ==
  ASSUME ProgramOK, NEW t \in Threads, InLibrary(t)
  PROVE  ProgramOK' /\ dropped' = dropped
<1>1. LibraryOK' /\ dropped' = dropped
  BY LibraryStepOK DEF InLibrary, ProgramOK
<1>2. UNCHANGED <<setting, at, i, started, agenda, work, sems, answered, accepted>>
  BY DEF InLibrary, spawnVars, mainVars, answerVars, workVars
<1>3. MainOK' /\ WorksOK' /\ CountsOK'
  BY <1>2, MainUntouched DEF ProgramOK, WorksOK, CountsOK
<1> QED
  BY <1>1, <1>3 DEF ProgramOK

-----------------------------------------------------------------------------
(* Services that are told to quit *)

Ending(s) == {[op |-> "post", on |-> s], [op |-> "join", on |-> s]}
EndIn(steps, s) == \E k \in DOMAIN steps : steps[k] \in Ending(s)

\* The thread of a service that was told to quit is joined before anything else
\* happens to it, by main() or by itself.
Leaving(s) == thread[s] \in {"none", "ended"} \/ EndIn(todo["main"], s) \/ EndIn(todo[s], s)

QuitsOK == fault = "none" => \A s \in ServiceSet : quit[s] = "no" \/ Leaving(s)

LEMMA EndKept ==
  ASSUME NEW S, NEW q \in Seq(S), q # <<>>, NEW r \in Seq(S), NEW s, EndIn(q, s),
         Head(q) \notin Ending(s)
  PROVE  EndIn(Tail(q), s) /\ EndIn(r \o Tail(q), s)
<1>1. PICK k \in 1 .. Len(q) : q[k] \in Ending(s)
  <2>1. DOMAIN q = 1 .. Len(q)
    OBVIOUS
  <2> QED BY <2>1 DEF EndIn
<1>2. k # 1
  <2>1. Head(q) = q[1]
    OBVIOUS
  <2> QED BY <1>1, <2>1
<1>3. Len(Tail(q)) = Len(q) - 1 /\ Tail(q) \in Seq(S)
  OBVIOUS
<1>4. k - 1 \in 1 .. Len(Tail(q)) /\ Tail(q)[k - 1] = q[k]
  BY <1>1, <1>2, <1>3
<1>5. EndIn(Tail(q), s)
  <2>1. k - 1 \in DOMAIN Tail(q)
    BY <1>3, <1>4
  <2> QED BY <1>1, <1>4, <2>1 DEF EndIn
<1>6. r \o Tail(q) \in Seq(S) /\ Len(r \o Tail(q)) = Len(r) + Len(Tail(q))
  BY <1>3
<1>7. (r \o Tail(q))[Len(r) + (k - 1)] = Tail(q)[k - 1]
  BY <1>3, <1>4
<1>8. Len(r) + (k - 1) \in DOMAIN (r \o Tail(q))
  BY <1>4, <1>6
<1>9. EndIn(r \o Tail(q), s)
  BY <1>1, <1>4, <1>7, <1>8 DEF EndIn
<1> QED
  BY <1>5, <1>9

LEMMA EndFirst ==
  ASSUME NEW S, NEW x \in S, NEW q \in Seq(S), NEW s, x \in Ending(s)
  PROVE  EndIn(<<x>> \o q, s)
<1>1. /\ <<x>> \o q \in Seq(S) /\ Len(<<x>> \o q) = 1 + Len(q) /\ (<<x>> \o q)[1] = x
      /\ Len(q) \in Nat
  OBVIOUS
<1>2. 1 \in DOMAIN (<<x>> \o q)
  BY <1>1
<1> QED
  BY <1>1, <1>2 DEF EndIn

LEMMA NothingEnds == \A s : ~EndIn(<<>>, s)
BY DEF EndIn

\* What a step of the library does to a service.
LEMMA LibraryEffect ==
  ASSUME LibraryOK, NEW t \in Threads, LibraryStep(t), NEW s \in ServiceSet
  PROVE  /\ t # "main" => queue'[s] = queue[s] /\ thread'[s] = thread[s]
         /\ queue'[s] \in {queue[s], <<>>}
         /\ \A u \in Threads : u # t => todo'[u] = todo[u]
<1>1. todo[t] # <<>> /\ TodoOK /\ QueuesOK /\ s \in Components
  BY Constants DEF LibraryStep, LibraryOK
<1>2. \E q : todo' = [todo EXCEPT ![t] = q]
  BY DEF LibraryStep, Lock, Unlock, Pass, component_ref, component_unref, component_init,
         component_destroy, import_new, Add, Open, Close, FreeImport, Quit, Post, Join,
         Advance, Instead
<1>3. \A u \in Threads : u # t => todo'[u] = todo[u]
  BY <1>1, <1>2 DEF TodoOK
<1>4. CASE component_init(t)
  <2>1. t # "main" => Step(t).on # s
    BY <1>1, <1>4, StepOwned, StepKinds, Constants DEF component_init, MayStart, Others
  <2>2. \/ queue' = queue /\ thread' = thread
        \/ StartQueue(Step(t).on)
    BY <1>4 DEF component_init, queueVars
  <2>3. queue'[s] \in {queue[s], <<>>}
    BY <1>1, <2>2 DEF StartQueue, QueuesOK
  <2>4. Step(t).on # s => queue'[s] = queue[s] /\ thread'[s] = thread[s]
    BY <1>1, <2>2 DEF StartQueue, QueuesOK
  <2> QED BY <1>3, <2>1, <2>3, <2>4
<1>5. CASE ~component_init(t)
  <2>1. queue' = queue /\ thread' = thread
    BY <1>5 DEF LibraryStep, Lock, Unlock, Pass, component_ref, component_unref,
                component_destroy, import_new, Add, Open, Close, FreeImport, Quit, Post, Join,
                queueVars, SetQuit, PostQuit
  <2> QED BY <1>3, <2>1
<1> QED
  BY <1>4, <1>5

\* A step that takes another one than Post and Join from the list.
LEMMA LeavingKept ==
  ASSUME LibraryOK, NEW t \in Threads, todo[t] # <<>>, NEW s \in ServiceSet, Leaving(s),
         Moves(t), Step(t) \notin Ending(s), thread'[s] = thread[s]
  PROVE  Leaving(s)'
<1>1. /\ todo \in [Threads -> Seq(Steps)] /\ todo[t] \in Seq(Own(t))
      /\ s \in Threads /\ "main" \in Threads
  BY Constants DEF LibraryOK, TodoOK
<1>2. <<>> \in Seq(Own(t))
  OBVIOUS
<1>3. PICK v : todo' = [todo EXCEPT ![t] = v] /\ (EndIn(todo[t], s) => EndIn(v, s))
  <2>1. CASE Advance(t)
    <3>1. EndIn(todo[t], s) => EndIn(Tail(todo[t]), s)
      BY <1>1, <1>2, EndKept DEF Step
    <3> QED BY <2>1, <3>1 DEF Advance
  <2>2. ASSUME NEW q \in Seq(Own(t)), Instead(t, q)
        PROVE  \E v : todo' = [todo EXCEPT ![t] = v] /\ (EndIn(todo[t], s) => EndIn(v, s))
    <3>1. EndIn(todo[t], s) => EndIn(q \o Tail(todo[t]), s)
      BY <1>1, EndKept DEF Step
    <3> QED BY <2>2, <3>1 DEF Instead
  <2> QED BY <2>1, <2>2 DEF Moves
<1>4. ASSUME NEW u \in Threads, EndIn(todo[u], s)
      PROVE  EndIn(todo'[u], s)
  <2>1. CASE u = t
    <3>1. todo'[u] = v
      BY <1>1, <1>3, <2>1
    <3> QED BY <1>3, <1>4, <2>1, <3>1
  <2>2. CASE u # t
    <3>1. todo'[u] = todo[u]
      BY <1>1, <1>3, <2>2
    <3> QED BY <1>4, <3>1
  <2> QED BY <2>1, <2>2
<1>5. CASE thread[s] \in {"none", "ended"}
  BY <1>5 DEF Leaving
<1>6. CASE EndIn(todo["main"], s) \/ EndIn(todo[s], s)
  <2>1. EndIn(todo'["main"], s) \/ EndIn(todo'[s], s)
    BY <1>1, <1>4, <1>6
  <2> QED BY <2>1 DEF Leaving
<1> QED
  BY <1>5, <1>6 DEF Leaving

\* A service is told to quit by main() or by itself, which then joins it.
LEMMA QuitLibrary ==
  ASSUME LibraryOK, QuitsOK, NEW t \in Threads, fault = "none", LibraryStep(t)
  PROVE  QuitsOK'
<1> SUFFICES ASSUME fault' = "none", NEW s \in ServiceSet, quit'[s] # "no"
             PROVE  Leaving(s)'
  BY DEF QuitsOK, Leaving
<1> DEFINE x == Step(t)
<1>1. /\ todo[t] # <<>> /\ TodoOK /\ QueuesOK /\ x \in Own(t)
      /\ s \in Components /\ s \in Threads /\ "main" \in Threads
      /\ Tail(todo[t]) \in Seq(Own(t)) /\ todo \in [Threads -> Seq(Steps)]
  BY StepOwned, Constants DEF LibraryStep, LibraryOK, TodoOK
<1>2. quit[s] = "no" \/ Leaving(s)
  BY DEF QuitsOK
<1>3. x.op \in {"quit", "post", "join"} /\ x.on = s => t \in {"main", s}
  BY <1>1, StepKinds, Constants DEF MayTouch, Others
<1>4. x \in Ending(s) => x.op \in {"post", "join"} /\ x.on = s
  BY DEF Ending
<1>5. ASSUME NEW op \in {"post", "join"}, t \in {"main", s}, Instead(t, Do(op, s))
      PROVE  Leaving(s)'
  <2>1. todo'[t] = Do(op, s) \o Tail(todo[t])
    BY <1>1, <1>5 DEF Instead
  <2>2. s \in MayTouch(t)
    BY <1>1, <1>5, Constants DEF MayTouch, Clients
  <2>3. [op |-> op, on |-> s] \in Own(t) /\ [op |-> op, on |-> s] \in Ending(s)
    BY <2>2 DEF Own, Ending
  <2>4. EndIn(<<[op |-> op, on |-> s]>> \o Tail(todo[t]), s)
    BY <1>1, <2>3, EndFirst
  <2>5. EndIn(todo'[t], s)
    BY <2>1, <2>4 DEF Do
  <2> QED BY <1>5, <2>5 DEF Leaving
<1>6. ASSUME quit'[s] = quit[s], thread'[s] = thread[s], x \notin Ending(s)
      PROVE  Leaving(s)'
  <2>1. Leaving(s)
    BY <1>2, <1>6
  <2> QED BY <1>1, <1>6, <2>1, LibraryStepOK, LeavingKept
<1>7. CASE Quit(t)
  <2>1. x \notin Ending(s)
    BY <1>4, <1>7 DEF Quit
  <2>2. CASE UNCHANGED queueVars
    BY <1>6, <2>1, <2>2 DEF queueVars
  <2>3. CASE SetQuit(x.on) /\ Instead(t, Do("post", x.on))
    <3>1. CASE x.on = s
      BY <1>3, <1>5, <1>7, <2>3, <3>1 DEF Quit
    <3>2. CASE x.on # s
      BY <1>1, <1>6, <2>1, <2>3, <3>2 DEF SetQuit, QueuesOK
    <3> QED BY <3>1, <3>2
  <2> QED BY <1>7, <2>2, <2>3 DEF Quit
<1>8. CASE Post(t)
  <2>1. CASE x.on = s
    BY <1>3, <1>5, <1>8, <2>1 DEF Post
  <2>2. CASE x.on # s
    BY <1>1, <1>4, <1>6, <1>8, <2>2 DEF Post, PostQuit, QueuesOK
  <2> QED BY <2>1, <2>2
<1>9. CASE Join(t)
  <2>1. CASE x.on = s
    <3>1. t # s
      BY <1>9, <2>1 DEF Join
    <3>2. thread[s] \in {"none", "ended"} /\ thread' = thread
      BY <1>9, <2>1, <3>1 DEF Join, Alive, queueVars
    <3> QED BY <3>2 DEF Leaving
  <2>2. CASE x.on # s
    BY <1>4, <1>6, <1>9, <2>2 DEF Join, queueVars
  <2> QED BY <2>1, <2>2
<1>10. CASE component_init(t)
  <2>1. x \notin Ending(s)
    BY <1>4, <1>10 DEF component_init
  <2>2. CASE UNCHANGED queueVars
    BY <1>6, <2>1, <2>2 DEF queueVars
  <2>3. CASE StartQueue(x.on)
    <3>1. x.on # s
      BY <1>1, <2>3 DEF StartQueue, QueuesOK
    <3>2. quit'[s] = quit[s] /\ thread'[s] = thread[s]
      BY <1>1, <2>3, <3>1 DEF StartQueue, QueuesOK
    <3> QED BY <1>6, <2>1, <3>2
  <2> QED BY <1>10, <2>2, <2>3 DEF component_init
<1>11. CASE Lock(t) \/ Unlock(t) \/ Pass(t) \/ component_ref(t) \/ component_unref(t)
              \/ component_destroy(t) \/ import_new(t) \/ Add(t) \/ Open(t) \/ Close(t)
              \/ FreeImport(t)
  <2>1. x.op \notin {"post", "join"} /\ UNCHANGED queueVars
    BY <1>11 DEF Lock, Unlock, Pass, component_ref, component_unref, component_destroy,
                 import_new, Add, Open, Close, FreeImport
  <2> QED BY <1>4, <1>6, <2>1 DEF queueVars
<1> QED
  BY <1>7, <1>8, <1>9, <1>10, <1>11 DEF LibraryStep

\* The steps of main() and of the components that are none of the library.
LEMMA QuitElsewhere ==
  ASSUME ProgramOK, QuitsOK, fault = "none", NEW t \in Threads,
         \/ todo' = todo
         \/ todo[t] = <<>> /\ \A u \in Threads : u # t => todo'[u] = todo[u],
         quit' = quit,
         \A s \in ServiceSet : thread[s] \in {"none", "ended"} => thread'[s] \in {"none", "ended"}
  PROVE  QuitsOK'
<1> SUFFICES ASSUME NEW s \in ServiceSet, quit[s] # "no"
             PROVE  Leaving(s)'
  BY DEF QuitsOK, Leaving
<1>1. Leaving(s) /\ s \in Threads /\ "main" \in Threads
  BY Constants DEF QuitsOK
<1>2. ASSUME NEW u \in Threads, EndIn(todo[u], s)
      PROVE  EndIn(todo'[u], s)
  <2>1. todo[u] # <<>>
    BY <1>2, NothingEnds
  <2>2. todo'[u] = todo[u]
    BY <2>1
  <2> QED BY <1>2, <2>2
<1>3. CASE thread[s] \in {"none", "ended"}
  BY <1>3 DEF Leaving
<1>4. CASE EndIn(todo["main"], s) \/ EndIn(todo[s], s)
  <2>1. EndIn(todo'["main"], s) \/ EndIn(todo'[s], s)
    BY <1>1, <1>2, <1>4
  <2> QED BY <2>1 DEF Leaving
<1> QED
  BY <1>1, <1>3, <1>4 DEF Leaving

-----------------------------------------------------------------------------
(* The calls that main() waits for *)

Resting(s) == agenda[s] = <<>> /\ todo[s] = <<>> /\ work[s].at = "idle"

\* A service that answered each of its calls,
Quiet(s) == queue[s] = <<>> /\ Resting(s) /\ answered[s] = accepted[s] /\ dropped[s] = 0

\* and one that has a call to answer: it is on the queue, or under way.
Pending(s) ==
  /\ answered[s] + 1 = accepted[s] /\ dropped[s] = 0
  /\ \/ Len(queue[s]) = 1 /\ Resting(s)
     \/ queue[s] = <<>> /\ thread[s] = "call" /\ AnswersLast(agenda[s])

Awaiting == at \in {"wait", "stopped"}

\* main() has at most one call under way, and waits for its answer.
OneCall ==
  IF Awaiting
    THEN /\ todo["main"] = <<>>
         /\ \/ sems["main"] = 0 /\ Pending(TheServices[i])
            \/ sems["main"] = 1 /\ Quiet(TheServices[i])
         /\ \A d \in ServiceSet \ {TheServices[i]} : Quiet(d)
    ELSE /\ \A d \in ServiceSet : Quiet(d)
         /\ at \notin {"boot", "clean", "done"} => sems["main"] = 0

PoliteServices == \A k \in DOMAIN Services : Polite(Services[k])

AwaitInv == ProgramOK /\ QuitsOK /\ (PoliteServices => OneCall)

\* What a service is, as far as that counts.
Untouched(d) ==
  /\ queue'[d] = queue[d] /\ thread'[d] = thread[d] /\ dropped'[d] = dropped[d]
  /\ agenda'[d] = agenda[d] /\ todo'[d] = todo[d] /\ work'[d] = work[d]
  /\ answered'[d] = answered[d] /\ accepted'[d] = accepted[d]

LEMMA UntouchedKept ==
  ASSUME NEW d \in ServiceSet, Untouched(d)
  PROVE  /\ Quiet(d) => Quiet(d)'
         /\ Pending(d) => Pending(d)'
BY DEF Untouched, Quiet, Pending, Resting, AnswersLast

\* The thread of one component does not touch a service that is another one.
LEMMA OtherUntouched ==
  ASSUME ProgramOK, NEW d \in ServiceSet, NEW c \in Components, c # d, ComponentStep(c)
  PROVE  Untouched(d)
<1>1. /\ d \in Components /\ d \in Threads /\ TodoOK /\ QueuesOK /\ WorksOK /\ CountsOK
  BY Constants DEF ProgramOK, LibraryOK
<1>2. CASE WakesUp(c)
  BY <1>1, <1>2
  DEF WakesUp, Wakes, spawnVars, lockVars, workVars, answerVars, Untouched, QueuesOK
<1>3. CASE TakesCall(c)
  BY <1>1, <1>3
  DEF TakesCall, Takes, compAlone, lockVars, answerVars, Untouched, QueuesOK, WorksOK
<1>4. CASE CallReturns(c)
  BY <1>1, <1>4
  DEF CallReturns, Returns, spawnVars, lockVars, workVars, answerVars, Untouched, QueuesOK
<1>5. CASE ServiceAnswers(c) \/ TestAnswers(c) \/ ApplicationAnswers(c)
  <2>1. Answering(c) /\ UNCHANGED <<work, todo, accepted, queueVars>>
    BY <1>5 DEF ServiceAnswers, TestAnswers, ApplicationAnswers, Signals, compAlone, lockVars
  <2> QED BY <1>1, <2>1 DEF Answering, queueVars, Untouched, WorksOK, CountsOK
<1>6. CASE BeginsWork(c)
  BY <1>1, <1>6
  DEF BeginsWork, WorkAt, compAlone, answerVars, queueVars, lockVars, Untouched, WorksOK
<1>7. CASE Asks(c) \/ QueriesTests(c) \/ ImportsTest(c) \/ AwaitsTest(c) \/ UnImportsTest(c)
             \/ FinishesTests(c) \/ EndsTests(c)
  <2>1. UNCHANGED <<queueVars, agenda, answered, accepted>>
    BY <1>7 DEF Asks, QueriesTests, ImportsTest, AwaitsTest, UnImportsTest, FinishesTests,
                EndsTests, compAlone, answerVars
  <2>2. todo'[d] = todo[d]
    BY <1>1, <1>7 DEF Asks, QueriesTests, ImportsTest, AwaitsTest, UnImportsTest,
                FinishesTests, EndsTests, CompCalls, lockVars, TodoOK
  <2>3. work'[d] = work[d]
    BY <1>1, <1>7 DEF Asks, QueriesTests, ImportsTest, AwaitsTest, UnImportsTest,
                FinishesTests, EndsTests, WorkAt, WorksOK
  <2> QED BY <2>1, <2>2, <2>3 DEF queueVars, Untouched
<1>8. CASE RunsTest(c)
  <2>1. UNCHANGED <<agenda, answered, accepted, todo>>
    BY <1>8 DEF RunsTest, compAlone, answerVars
  <2>2. work'[d] = work[d]
    BY <1>1, <1>8 DEF RunsTest, WorkAt, WorksOK
  <2>3. Tests[work[c].k] # d
    <3>1. work[c].k \in DOMAIN Tests
      BY <1>1, <1>8 DEF RunsTest, Working, WorksOK
    <3> QED BY <3>1, Constants DEF Others
  <2>4. Enqueue(Tests[work[c].k], "Run") \/ UNCHANGED queueVars
    BY <1>8 DEF RunsTest
  <2>5. queue'[d] = queue[d] /\ thread'[d] = thread[d] /\ dropped'[d] = dropped[d]
    BY <1>1, <2>3, <2>4 DEF Enqueue, queueVars, QueuesOK
  <2> QED BY <2>1, <2>2, <2>5 DEF Untouched
<1> QED
  BY <1>2, <1>3, <1>4, <1>5, <1>6, <1>7, <1>8 DEF ComponentStep

\* The semaphore of main() is signalled by services only.
LEMMA SemUntouched ==
  ASSUME ProgramOK, NEW c \in Components, ComponentStep(c), ~ServiceAnswers(c)
  PROVE  sems'["main"] = sems["main"]
<1>1. CASE WakesUp(c) \/ TakesCall(c) \/ CallReturns(c) \/ ApplicationAnswers(c)
  BY <1>1 DEF WakesUp, TakesCall, CallReturns, ApplicationAnswers, spawnVars, answerVars
<1>2. CASE TestAnswers(c)
  BY <1>2 DEF TestAnswers, Signals, ProgramOK, CountsOK
<1>3. CASE BeginsWork(c) \/ Asks(c) \/ QueriesTests(c) \/ ImportsTest(c) \/ RunsTest(c)
             \/ AwaitsTest(c) \/ UnImportsTest(c) \/ FinishesTests(c) \/ EndsTests(c)
  BY <1>3, WorkStepsOK
<1> QED
  BY <1>1, <1>2, <1>3 DEF ComponentStep

\* A service of which the agenda is empty does nothing but to take calls.
LEMMA RestingThread ==
  ASSUME ProgramOK, NEW s \in ServiceSet, Resting(s), ComponentStep(s)
  PROVE  WakesUp(s) \/ TakesCall(s) \/ CallReturns(s)
BY DEF Resting, ComponentStep, ServiceAnswers, TestAnswers, ApplicationAnswers, Signals,
       Answering, BeginsWork, Asks, QueriesTests, ImportsTest, RunsTest, AwaitsTest,
       UnImportsTest, FinishesTests, EndsTests, Working

\* A service that is quiet remains so, whatever threads do.
LEMMA QuietThread ==
  ASSUME ProgramOK, NEW s \in ServiceSet, Quiet(s), NEW c \in Components, ComponentStep(c)
  PROVE  Quiet(s)' /\ (c = s => sems'["main"] = sems["main"])
<1>1. CASE c # s
  BY <1>1, OtherUntouched, UntouchedKept
<1>2. CASE c = s
  <2>1. s \in Components /\ QueuesOK /\ WorksOK /\ Resting(s)
    BY Constants DEF ProgramOK, LibraryOK, Quiet
  <2>2. WakesUp(s) \/ TakesCall(s) \/ CallReturns(s)
    BY <1>2, <2>1, RestingThread
  <2>3. CASE WakesUp(s)
    BY <2>3 DEF WakesUp, Wakes, spawnVars, lockVars, workVars, answerVars, Quiet, Resting
  <2>4. CASE TakesCall(s)
    <3>1. queue[s] = <<>> /\ dropped[s] = 0 /\ Len(queue[s]) = 0
      BY DEF Quiet
    <3>2. queue'[s] = <<>> /\ dropped'[s] = 0 /\ thread'[s] # "call"
      BY <2>1, <2>4, <3>1 DEF TakesCall, Takes, QueuesOK
    <3>3. agenda'[s] = <<>>
      BY <2>1, <2>4, <3>2 DEF TakesCall, WorksOK
    <3> QED BY <2>4, <3>2, <3>3 DEF TakesCall, compAlone, lockVars, answerVars, Quiet, Resting
  <2>5. CASE CallReturns(s)
    BY <2>5 DEF CallReturns, Returns, spawnVars, lockVars, workVars, answerVars, Quiet, Resting
  <2> QED BY <1>2, <2>2, <2>3, <2>4, <2>5 DEF WakesUp, TakesCall, CallReturns, spawnVars, answerVars
<1> QED
  BY <1>1, <1>2

LEMMA QuietLibrary ==
  ASSUME ProgramOK, NEW s \in ServiceSet, Quiet(s), NEW t \in Threads, InLibrary(t)
  PROVE  Quiet(s)'
<1>1. LibraryOK /\ LibraryStep(t) /\ s \in Threads
  BY Constants DEF ProgramOK, InLibrary
<1>2. t # s
  BY DEF Quiet, Resting, InLibrary, LibraryStep
<1>3. queue'[s] = <<>> /\ todo'[s] = todo[s] /\ dropped' = dropped
  BY <1>1, <1>2, LibraryEffect, LibraryStepOK DEF Quiet
<1> QED
  BY <1>3 DEF Quiet, Resting, InLibrary, spawnVars, workVars, answerVars

LEMMA OneElement ==
  ASSUME NEW S, NEW q \in Seq(S), Len(q) = 1
  PROVE  q # <<>> /\ Tail(q) = <<>>
<1>1. Len(<<>>) = 0
  OBVIOUS
<1>2. q # <<>>
  BY <1>1
<1>3. Tail(q) \in Seq(S) /\ Len(Tail(q)) = 0
  BY <1>2
<1>4. Tail(q) = <<>>
  BY <1>3, EmptySeq
<1> QED
  BY <1>2, <1>4

\* A service that has a call to answer does so once, and is quiet then.
LEMMA PendingThread ==
  ASSUME ProgramOK, QuitsOK, PoliteServices, todo["main"] = <<>>, sems["main"] = 0,
         NEW s \in ServiceSet, Pending(s), \A d \in ServiceSet \ {s} : Quiet(d),
         NEW c \in Components, ComponentStep(c)
  PROVE  \/ Pending(s)' /\ sems'["main"] = 0
         \/ Quiet(s)' /\ sems'["main"] = 1
<1>1. s \in Components /\ QueuesOK /\ WorksOK /\ CountsOK /\ setting \in Setting
  BY Constants DEF ProgramOK, LibraryOK, MainOK
<1>2. Polite(s)
  BY DEF PoliteServices, ServiceSet, ToSet
<1>3. queue[s] \in Seq(Methods) /\ agenda[s] \in Seq(Items)
  BY <1>1 DEF QueuesOK, WorksOK
<1>4. CASE c # s
  <2>1. Pending(s)'
    BY <1>4, OtherUntouched, UntouchedKept
  <2>2. ~ServiceAnswers(c)
    <3>1. c \in ServiceSet => agenda[c] = <<>>
      BY <1>4 DEF Quiet, Resting
    <3> QED BY <3>1 DEF ServiceAnswers, Signals, Answering, ServiceSet
  <2> QED BY <2>1, <2>2, SemUntouched
<1>5. CASE c = s /\ WakesUp(s)
  BY <1>5 DEF WakesUp, Wakes, spawnVars, lockVars, workVars, answerVars, Pending, Resting
<1>6. CASE c = s /\ TakesCall(s)
  <2>1. thread[s] = "woken" /\ fault = "none"
    BY <1>6 DEF TakesCall, Takes
  <2>2. Len(queue[s]) = 1 /\ Resting(s) /\ queue[s] # <<>>
    BY <1>3, <2>1, OneElement DEF Pending
  <2>3. quit[s] = "no"
    BY <2>1, <2>2, NothingEnds DEF QuitsOK, Leaving, Resting
  <2>4. Tail(queue[s]) = <<>>
    BY <1>3, <2>2, OneElement
  <2>5. queue'[s] = <<>> /\ thread'[s] = "call" /\ dropped' = dropped
    BY <1>1, <1>6, <2>2, <2>3, <2>4 DEF TakesCall, Takes, QueuesOK
  <2>6. agenda'[s] = setting.habit[s]
    BY <1>1, <1>6, <2>5 DEF TakesCall, WorksOK
  <2>7. Pending(s)'
    BY <1>2, <1>6, <2>5, <2>6 DEF TakesCall, compAlone, answerVars, Polite, AnswersLast, Pending
  <2> QED BY <1>6, <2>7 DEF TakesCall, answerVars
<1>7. CASE c = s /\ CallReturns(s)
  <2>1. agenda[s] = <<>>
    BY <1>7 DEF CallReturns
  <2>2. Len(queue[s]) = 1 /\ Resting(s)
    BY <2>1 DEF Pending, AnswersLast
  <2> QED BY <1>7, <2>2
          DEF CallReturns, Returns, spawnVars, lockVars, workVars, answerVars, Pending, Resting
<1>8. CASE c = s /\ ~(WakesUp(s) \/ TakesCall(s) \/ CallReturns(s))
  \* Its call is under way.
  <2>1. ~Resting(s)
    BY <1>8, RestingThread
  <2>2. queue[s] = <<>> /\ thread[s] = "call" /\ AnswersLast(agenda[s])
    BY <2>1 DEF Pending
  <2>3. ~TestAnswers(s) /\ ~ApplicationAnswers(s)
    <3>1. s \notin ToSet(Tests) /\ s \notin ToSet(Applications)
      BY SpawnAssumption DEF ServiceSet
    <3> QED BY <3>1 DEF TestAnswers, ApplicationAnswers
  <2>4. CASE ServiceAnswers(s)
    <3>1. Head(agenda[s]) = "answer" /\ Resting(s)' /\ queue'[s] = queue[s]
      <4>1. Head(agenda[s]) = "answer" /\ agenda[s] # <<>>
        BY <2>4 DEF ServiceAnswers, Signals, Answering
      <4>2. Len(agenda[s]) = 1
        <5>1. Len(agenda[s]) \in Nat \ {0} /\ Head(agenda[s]) = agenda[s][1] /\ 1 \in DOMAIN agenda[s]
          BY <1>3, <4>1
        <5> QED BY <2>2, <4>1, <5>1 DEF AnswersLast
      <4>3. Tail(agenda[s]) = <<>>
        BY <1>3, <4>2, OneElement
      <4>4. agenda'[s] = <<>>
        BY <1>1, <2>4, <4>3 DEF ServiceAnswers, Signals, Answering, WorksOK
      <4>5. work'[s].at = "idle" /\ todo'[s] = <<>> /\ queue'[s] = queue[s]
        BY <2>4 DEF ServiceAnswers, Signals, Answering, Working, Busy, Calm, queueVars
      <4> QED BY <4>1, <4>4, <4>5 DEF Resting
    <3>2. answered'[s] = answered[s] + 1 /\ accepted' = accepted /\ dropped' = dropped
      BY <1>1, <2>4 DEF ServiceAnswers, Signals, Answering, compAlone, queueVars, CountsOK
    <3>3. sems'["main"] = 1
      BY <1>1, <2>4 DEF ServiceAnswers, Signals, CountsOK, NoSem
    <3> QED BY <2>2, <3>1, <3>2, <3>3 DEF Pending, Quiet
  <2>5. CASE BeginsWork(s)
    <3>1. agenda[s] # <<>> /\ Head(agenda[s]) = "work"
      BY <2>5 DEF BeginsWork
    <3>2. AnswersLast(Tail(agenda[s]))
      <4>1. Len(agenda[s]) # 1
        <5>1. Head(agenda[s]) = agenda[s][1] /\ DOMAIN agenda[s] = 1 .. Len(agenda[s])
          BY <1>3, <3>1
        <5> QED BY <2>2, <3>1, <5>1 DEF AnswersLast
      <4>2. /\ Len(Tail(agenda[s])) = Len(agenda[s]) - 1 /\ Tail(agenda[s]) \in Seq(Items)
            /\ Len(agenda[s]) \in Nat \ {0, 1}
        BY <1>3, <3>1, <4>1
      <4>3. \A k \in 1 .. Len(agenda[s]) - 1 :
              Tail(agenda[s])[k] = agenda[s][k + 1] /\ k + 1 \in DOMAIN agenda[s]
        BY <1>3, <3>1, <4>2
      <4>4. DOMAIN Tail(agenda[s]) = 1 .. Len(agenda[s]) - 1
        BY <4>2
      <4>5. Tail(agenda[s]) # <<>>
        <5>1. Len(<<>>) = 0
          OBVIOUS
        <5>2. Len(Tail(agenda[s])) # 0
          BY <4>2
        <5> QED BY <5>1, <5>2
      <4> QED BY <2>2, <4>2, <4>3, <4>4, <4>5 DEF AnswersLast
    <3>3. agenda'[s] = Tail(agenda[s])
      BY <1>1, <2>5 DEF BeginsWork, WorksOK
    <3>4. AnswersLast(agenda'[s])
      BY <3>2, <3>3
    <3> QED BY <2>2, <2>5, <3>4
            DEF BeginsWork, compAlone, answerVars, queueVars, Pending, AnswersLast
  <2>6. CASE Asks(s) \/ QueriesTests(s) \/ ImportsTest(s) \/ RunsTest(s) \/ AwaitsTest(s)
               \/ UnImportsTest(s) \/ FinishesTests(s) \/ EndsTests(s)
    <3>1. /\ UNCHANGED <<answered, dropped, quit, thread, agenda, accepted>>
          /\ sems'["main"] = sems["main"]
      BY <2>6, WorkStepsOK, <1>1 DEF Asks, QueriesTests, ImportsTest, RunsTest, AwaitsTest,
         UnImportsTest, FinishesTests, EndsTests, compAlone
    <3>2. queue'[s] = queue[s]
      <4>1. CASE RunsTest(s)
        <5>1. Tests[work[s].k] # s
          <6>1. work[s].k \in DOMAIN Tests
            BY <1>1, <4>1 DEF RunsTest, Working, WorksOK
          <6> QED BY <6>1, Constants DEF Others
        <5>2. Enqueue(Tests[work[s].k], "Run") \/ UNCHANGED queueVars
          BY <4>1 DEF RunsTest
        <5> QED BY <1>1, <5>1, <5>2 DEF Enqueue, queueVars, QueuesOK
      <4>2. CASE ~RunsTest(s)
        BY <2>6, <4>2 DEF Asks, QueriesTests, ImportsTest, AwaitsTest, UnImportsTest,
                          FinishesTests, EndsTests, queueVars
      <4> QED BY <4>1, <4>2
    <3> QED BY <2>2, <3>1, <3>2 DEF Pending, AnswersLast
  <2> QED BY <1>8, <2>3, <2>4, <2>5, <2>6 DEF ComponentStep
<1> QED
  BY <1>4, <1>5, <1>6, <1>7, <1>8

LEMMA PendingLibrary ==
  ASSUME ProgramOK, NEW s \in ServiceSet, Pending(s), NEW t \in Threads, t # "main", InLibrary(t)
  PROVE  Pending(s)'
<1>1. LibraryOK /\ LibraryStep(t) /\ s \in Threads
  BY Constants DEF ProgramOK, InLibrary
<1>2. queue'[s] = queue[s] /\ thread'[s] = thread[s] /\ dropped' = dropped
  BY <1>1, LibraryEffect, LibraryStepOK
<1>3. UNCHANGED <<agenda, work, answered, accepted>>
  BY DEF InLibrary, spawnVars, workVars, answerVars
<1>4. Resting(s) => todo'[s] = todo[s]
  <2>1. Resting(s) => t # s
    BY DEF Resting, InLibrary, LibraryStep
  <2> QED BY <1>1, <2>1, LibraryEffect
<1> QED
  BY <1>2, <1>3, <1>4 DEF Pending, Resting, AnswersLast

-----------------------------------------------------------------------------
(* The invariant *)

LEMMA AwaitInit == SpawnInit => AwaitInv
<1> SUFFICES ASSUME SpawnInit PROVE AwaitInv
  OBVIOUS
<1>1. TodoOK /\ \A t \in Threads : todo[t] = <<>>
  BY DEF SpawnInit, LocksInit, TodoOK
<1>2. LibraryOK
  <2>1. ImportsOK
    BY Constants DEF SpawnInit, LocksInit, ImportsOK
  <2>2. QueuesOK
    BY DEF SpawnInit, CallQueueInit, QueuesOK, Doing
  <2> QED BY <1>1, <2>1, <2>2 DEF LibraryOK
<1>3. MainOK
  <2>1. setting \in Setting
    BY SpawnAssumption DEF SpawnInit
  <2> QED BY <2>1 DEF SpawnInit, MainOK, MainStatements
<1>4. WorksOK /\ CountsOK
  BY DEF SpawnInit, WorksOK, WorkStates, CountsOK, NoSem
<1>5. QuitsOK
  BY Constants DEF SpawnInit, CallQueueInit, QuitsOK
<1>6. OneCall
  <2>1. \A d \in ServiceSet : Quiet(d)
    BY <1>1, Constants DEF SpawnInit, CallQueueInit, Quiet, Resting
  <2> QED BY <2>1 DEF SpawnInit, OneCall, Awaiting
<1> QED
  BY <1>2, <1>3, <1>4, <1>5, <1>6 DEF AwaitInv, ProgramOK

LEMMA MainStepTyped ==
  ASSUME ProgramOK, MainStep
  PROVE  ProgramOK'
BY MainLibraryCalls, MainOwnSteps DEF MainStep

LEMMA ComponentStepTyped ==
  ASSUME ProgramOK, NEW c \in Components, ComponentStep(c)
  PROVE  ProgramOK'
BY ThreadStepsOK, AnswersOK, WorkStepsOK DEF ComponentStep

\* Requests to quit
LEMMA QuitMain ==
  ASSUME ProgramOK, QuitsOK, MainStep
  PROVE  QuitsOK'
<1>1. "main" \in Threads /\ TodoOK /\ QueuesOK
  BY Constants DEF ProgramOK, LibraryOK
<1>2. fault = "none" /\ todo["main"] = <<>>
  BY DEF MainStep, Boot, QueryServices, NoArrays, ImportService, StartService, StartFails,
         WaitService, MainWaits, FinishServices, QueryApplications, ImportApplication,
         StartApplication, FinishApplications, ExecWaits, ExecRuns, ExecReturns, Leave,
         StopService, SkipService, NullHandles, WaitStopped, DropService, CleanUp, Main, Calm
<1>3. \A u \in Threads : u # "main" => todo'[u] = todo[u]
  <2>1. todo' = todo \/ \E q : MainCalls(q)
    BY DEF MainStep, Boot, QueryServices, NoArrays, ImportService, StartService, StartFails,
           WaitService, MainWaits, FinishServices, QueryApplications, ImportApplication,
           StartApplication, FinishApplications, ExecWaits, ExecRuns, ExecReturns, Leave,
           StopService, SkipService, NullHandles, WaitStopped, DropService, CleanUp, lockVars
  <2> QED BY <1>1, <2>1 DEF MainCalls, TodoOK
<1>4. quit' = quit /\ thread' = thread
  BY DEF MainStep, Boot, QueryServices, NoArrays, ImportService, StartService, StartFails,
         WaitService, MainWaits, FinishServices, QueryApplications, ImportApplication,
         StartApplication, FinishApplications, ExecWaits, ExecRuns, ExecReturns, Leave,
         StopService, SkipService, NullHandles, WaitStopped, DropService, CleanUp,
         threadsAlone, queueVars, Enqueue
<1> QED
  BY <1>1, <1>2, <1>3, <1>4, QuitElsewhere

LEMMA QuitComponent ==
  ASSUME ProgramOK, QuitsOK, NEW c \in Components, ComponentStep(c)
  PROVE  QuitsOK'
<1>1. c \in Threads /\ TodoOK /\ QueuesOK
  BY Constants DEF ProgramOK, LibraryOK
<1>2. CASE WakesUp(c) \/ TakesCall(c) \/ CallReturns(c)
  <2>1. fault = "none" /\ todo' = todo
    BY <1>2, ThreadStepsOK DEF WakesUp, TakesCall, CallReturns, Working, Busy
  <2>2. quit' = quit
    BY <1>2 DEF WakesUp, TakesCall, CallReturns, Wakes, Takes, Returns
  <2>3. \A s \in ServiceSet : thread[s] \in {"none", "ended"} => thread'[s] = thread[s]
    BY <1>1, <1>2, Constants DEF WakesUp, TakesCall, CallReturns, Wakes, Takes, Returns, QueuesOK
  <2> QED BY <1>1, <2>1, <2>2, <2>3, QuitElsewhere
<1>3. CASE ServiceAnswers(c) \/ TestAnswers(c) \/ ApplicationAnswers(c)
  <2>1. fault = "none" /\ todo' = todo /\ quit' = quit /\ thread' = thread
    BY <1>3, AnswersOK DEF ServiceAnswers, TestAnswers, ApplicationAnswers, Signals, Answering,
       Working, Busy, queueVars
  <2> QED BY <1>1, <2>1, QuitElsewhere
<1>4. CASE BeginsWork(c) \/ Asks(c) \/ QueriesTests(c) \/ ImportsTest(c) \/ RunsTest(c)
             \/ AwaitsTest(c) \/ UnImportsTest(c) \/ FinishesTests(c) \/ EndsTests(c)
  <2>1. quit' = quit /\ thread' = thread
    BY <1>4, WorkStepsOK
  <2>2. fault = "none" /\ todo[c] = <<>>
    BY <1>4 DEF BeginsWork, Asks, QueriesTests, ImportsTest, RunsTest, AwaitsTest,
                UnImportsTest, FinishesTests, EndsTests, Working, Busy, Calm
  <2>3. todo' = todo \/ \E q : CompCalls(c, q)
    BY <1>4 DEF BeginsWork, Asks, QueriesTests, ImportsTest, RunsTest, AwaitsTest,
                UnImportsTest, FinishesTests, EndsTests, lockVars
  <2>4. \A u \in Threads : u # c => todo'[u] = todo[u]
    BY <1>1, <2>3 DEF CompCalls, TodoOK
  <2> QED BY <1>1, <2>1, <2>2, <2>4, QuitElsewhere
<1> QED
  BY <1>2, <1>3, <1>4 DEF ComponentStep

\* Calls
LEMMA OneCallComponent ==
  ASSUME AwaitInv, PoliteServices, NEW c \in Components, ComponentStep(c)
  PROVE  OneCall'
<1>1. ProgramOK /\ QuitsOK /\ OneCall /\ MainOK /\ setting \in Setting /\ TodoOK
  BY DEF AwaitInv, ProgramOK, MainOK, LibraryOK
<1>2. UNCHANGED <<setting, at, i>>
  BY DEF ComponentStep, WakesUp, TakesCall, CallReturns, ServiceAnswers, TestAnswers, Signals,
         ApplicationAnswers, BeginsWork, Asks, QueriesTests, ImportsTest, RunsTest, AwaitsTest,
         UnImportsTest, FinishesTests, EndsTests, compAlone, mainVars, spawnVars
<1>3. TheServices' = TheServices
  BY <1>2 DEF TheServices
<1>4. todo["main"] = <<>> => todo'["main"] = <<>>
  <2>1. c # "main"
    BY Constants
  <2>2. todo' = todo \/ \E q : CompCalls(c, q)
    BY DEF ComponentStep, WakesUp, TakesCall, CallReturns, ServiceAnswers, TestAnswers, Signals,
           ApplicationAnswers, BeginsWork, Asks, QueriesTests, ImportsTest, RunsTest, AwaitsTest,
           UnImportsTest, FinishesTests, EndsTests, lockVars
  <2> QED BY <1>1, <2>1, <2>2, Constants DEF CompCalls, TodoOK
<1>5. \A d \in ServiceSet : Quiet(d) => Quiet(d)'
  BY <1>1, QuietThread
<1>6. (c \in ServiceSet => Quiet(c)) => sems'["main"] = sems["main"]
  <2>1. CASE c \in ServiceSet
    BY <1>1, <2>1, QuietThread
  <2>2. CASE c \notin ServiceSet
    BY <1>1, <2>2, SemUntouched DEF ServiceAnswers, ServiceSet
  <2> QED BY <2>1, <2>2
<1>7. CASE Awaiting
  <2>1. PICK s \in ServiceSet : s = TheServices[i]
    BY <1>1, <1>7, TheServicesOK DEF MainOK, Awaiting
  <2>5. TheServices'[i'] = s /\ Awaiting'
    BY <1>2, <1>3, <1>7, <2>1 DEF Awaiting
  <2>2. \A d \in ServiceSet \ {s} : Quiet(d) /\ Quiet(d)'
    BY <1>1, <1>5, <1>7, <2>1 DEF OneCall
  <2>3. CASE sems["main"] = 0 /\ Pending(s)
    <3>1. \/ Pending(s)' /\ sems'["main"] = 0
          \/ Quiet(s)' /\ sems'["main"] = 1
      BY <1>1, <1>7, <2>1, <2>2, <2>3, PendingThread DEF OneCall
    <3> QED BY <1>1, <1>4, <1>7, <2>2, <2>5, <3>1 DEF OneCall
  <2>4. CASE sems["main"] = 1 /\ Quiet(s)
    <3>1. sems'["main"] = 1 /\ Quiet(s)'
      BY <1>5, <1>6, <2>1, <2>2, <2>4
    <3> QED BY <1>1, <1>4, <1>7, <2>2, <2>5, <3>1 DEF OneCall
  <2> QED BY <1>1, <1>7, <2>1, <2>3, <2>4 DEF OneCall
<1>8. CASE ~Awaiting
  BY <1>1, <1>2, <1>5, <1>6, <1>8 DEF OneCall, Awaiting
<1> QED
  BY <1>7, <1>8

LEMMA OneCallLibrary ==
  ASSUME AwaitInv, PoliteServices, NEW t \in Threads, InLibrary(t)
  PROVE  OneCall'
<1>1. ProgramOK /\ OneCall /\ MainOK /\ setting \in Setting /\ LibraryOK
  BY DEF AwaitInv, ProgramOK, MainOK
<1>2. UNCHANGED <<setting, at, i, sems>>
  BY DEF InLibrary, spawnVars, mainVars, answerVars
<1>3. TheServices' = TheServices
  BY <1>2 DEF TheServices
<1>4. \A d \in ServiceSet : Quiet(d) => Quiet(d)'
  BY <1>1, QuietLibrary
<1>5. CASE Awaiting
  <2>1. PICK s \in ServiceSet : s = TheServices[i]
    BY <1>1, <1>5, TheServicesOK DEF MainOK, Awaiting
  <2>6. TheServices'[i'] = s /\ Awaiting' /\ sems' = sems
    BY <1>2, <1>3, <1>5, <2>1 DEF Awaiting
  <2>2. t # "main" /\ todo["main"] = <<>>
    BY <1>1, <1>5 DEF OneCall, InLibrary, LibraryStep
  <2>3. todo'["main"] = <<>>
    <3>1. \A u \in Threads : u # t => todo'[u] = todo[u]
      BY <1>1, <2>1, LibraryEffect DEF InLibrary
    <3> QED BY <2>2, <3>1, Constants
  <2>4. Pending(s) => Pending(s)'
    BY <1>1, <2>1, <2>2, PendingLibrary
  <2>5. \A d \in ServiceSet \ {s} : Quiet(d)'
    BY <1>1, <1>4, <1>5, <2>1 DEF OneCall
  <2> QED BY <1>1, <1>4, <1>5, <2>1, <2>3, <2>4, <2>5, <2>6 DEF OneCall
<1>6. CASE ~Awaiting
  BY <1>1, <1>2, <1>4, <1>6 DEF OneCall, Awaiting
<1> QED
  BY <1>5, <1>6

\* main() itself starts a call only when none is under way.
LEMMA OneCallStarts ==
  ASSUME ProgramOK, OneCall, todo["main"] = <<>>, NEW s \in ServiceSet, s = TheServices[i],
         at \in {"start", "stop"}, at' \in {"wait", "stopped"}, NEW m, Enqueue(s, m),
         accepted' = [accepted EXCEPT ![s] = @ + 1],
         UNCHANGED <<setting, i, sems, todo, agenda, work, answered>>
  PROVE  OneCall'
<1>1. QueuesOK /\ CountsOK /\ s \in Components
  BY Constants DEF ProgramOK, LibraryOK
<1>2. \A d \in ServiceSet : Quiet(d)
  BY DEF OneCall, Awaiting
<1>3. sems'["main"] = 0 /\ todo'["main"] = <<>> /\ Awaiting'
  BY DEF OneCall, Awaiting
<1>4. TheServices'[i'] = s
  BY DEF TheServices
<1>5. Pending(s)'
  <2>1. queue[s] = <<>> /\ Resting(s) /\ answered[s] = accepted[s] /\ dropped[s] = 0
    BY <1>2 DEF Quiet
  <2>2. queue'[s] = Append(<<>>, m) /\ dropped' = dropped
    BY <1>1, <2>1 DEF Enqueue, QueuesOK
  <2>3. Len(queue'[s]) = 1
    BY <2>2
  <2>4. accepted'[s] = answered'[s] + 1
    BY <1>1, <2>1 DEF CountsOK
  <2> QED BY <2>1, <2>2, <2>3, <2>4 DEF Pending, Resting
<1>6. ASSUME NEW d \in ServiceSet \ {s}
      PROVE  Quiet(d)'
  <2>1. queue'[d] = queue[d] /\ dropped' = dropped /\ accepted'[d] = accepted[d]
    BY <1>1, Constants DEF Enqueue, QueuesOK, CountsOK
  <2> QED BY <1>2, <2>1 DEF Quiet, Resting
<1> QED
  BY <1>3, <1>4, <1>5, <1>6 DEF OneCall

\* Its other steps start none.
LEMMA OneCallNone ==
  ASSUME OneCall, ~Awaiting, ~Awaiting',
         UNCHANGED <<dropped, agenda, work, answered>>,
         \A d \in ServiceSet :
           queue'[d] = queue[d] /\ todo'[d] = todo[d] /\ accepted'[d] = accepted[d],
         at' \in {"boot", "clean", "done"} \/ sems'["main"] = 0
  PROVE  OneCall'
<1>1. \A d \in ServiceSet : Quiet(d)
  BY DEF OneCall
<1>2. \A d \in ServiceSet : Quiet(d)'
  BY <1>1 DEF Quiet, Resting
<1> QED
  BY <1>2 DEF OneCall

LEMMA OneCallMain ==
  ASSUME AwaitInv, PoliteServices, MainStep
  PROVE  OneCall'
<1>1. ProgramOK /\ OneCall /\ MainOK /\ setting \in Setting /\ TodoOK /\ QueuesOK /\ CountsOK
  BY DEF AwaitInv, ProgramOK, MainOK, LibraryOK
<1>2. \A k \in DOMAIN TheServices : TheServices[k] \in ServiceSet
  BY <1>1, TheServicesOK
<1>3. CASE StartService
  <2>1. i \in DOMAIN TheServices
    BY <1>1, <1>3 DEF StartService, Main, MainOK
  <2>2. PICK s \in ServiceSet : s = TheServices[i]
    BY <1>2, <2>1
  <2> QED BY <1>1, <1>3, <2>2, OneCallStarts
          DEF StartService, Main, Calm, GoOn, lockVars, answerVars, workVars
<1>4. CASE StopService
  <2>1. i \in DOMAIN TheServices
    BY <1>1, <1>4, TheServicesOK DEF StopService, MainOK
  <2>2. PICK s \in ServiceSet : s = TheServices[i]
    BY <1>2, <2>1
  <2>3. UNCHANGED <<setting, sems, todo, agenda, work, answered>> /\ todo["main"] = <<>> /\ at = "stop"
    BY <1>4 DEF StopService, Main, Calm, lockVars, answerVars, workVars
  <2>4. CASE Enqueue(s, "Stop") /\ accepted' = [accepted EXCEPT ![s] = @ + 1]
             /\ GoOn("stopped", i)
    BY <1>1, <2>2, <2>3, <2>4, OneCallStarts DEF GoOn
  <2>5. CASE GoOn("drop", i) /\ UNCHANGED <<queueVars, accepted>>
    <3>1. ~Awaiting /\ ~Awaiting' /\ sems'["main"] = 0
      BY <1>1, <2>3, <2>5 DEF OneCall, Awaiting, GoOn
    <3> QED BY <1>1, <2>3, <2>5, <3>1, OneCallNone DEF queueVars
  <2> QED BY <1>4, <2>2, <2>4, <2>5 DEF StopService
<1>5. CASE WaitService \/ WaitStopped
  <2>1. Awaiting /\ sems["main"] # 0
    BY <1>5 DEF WaitService, WaitStopped, MainWaits, Main, Awaiting
  <2>2. sems["main"] = 1 /\ \A d \in ServiceSet : Quiet(d)
    BY <1>1, <2>1 DEF OneCall
  <2>3. sems'["main"] = 0 /\ ~Awaiting'
    BY <1>1, <1>5, <2>2 DEF WaitService, WaitStopped, MainWaits, GoOn, CountsOK, Awaiting
  <2>4. UNCHANGED <<queue, dropped, todo, agenda, work, answered, accepted>>
    BY <1>5 DEF WaitService, WaitStopped, MainWaits, queueVars, lockVars, workVars
  <2>5. \A d \in ServiceSet : Quiet(d)'
    BY <2>2, <2>4 DEF Quiet, Resting
  <2> QED BY <2>3, <2>5 DEF OneCall
<1>6. CASE StartApplication
  <2>1. started \in Others
    <3>1. started \in ToSet(Applications)
      BY <1>1, <1>6 DEF StartApplication, Main, MainOK
    <3> QED BY <3>1, Constants DEF ToSet
  <2>2. ~Awaiting /\ ~Awaiting' /\ sems'["main"] = 0
    BY <1>1, <1>6 DEF StartApplication, Main, GoOn, Awaiting, OneCall
  <2>3. UNCHANGED <<dropped, agenda, work, answered, todo>>
    BY <1>6 DEF StartApplication, Enqueue, queueVars, lockVars, workVars
  <2>4. ASSUME NEW d \in ServiceSet
        PROVE  queue'[d] = queue[d] /\ accepted'[d] = accepted[d]
    <3>1. d # started /\ d \in Components
      BY <2>1, Constants DEF Others
    <3>2. CASE Enqueue(started, "Start") /\ accepted' = [accepted EXCEPT ![started] = @ + 1]
      BY <1>1, <3>1, <3>2 DEF Enqueue, QueuesOK, CountsOK
    <3>3. CASE UNCHANGED <<queueVars, accepted>>
      BY <3>3 DEF queueVars
    <3> QED BY <1>6, <3>2, <3>3 DEF StartApplication
  <2> QED BY <1>1, <2>2, <2>3, <2>4, OneCallNone
<1>7. CASE QueryServices \/ NoArrays \/ ImportService \/ FinishServices \/ QueryApplications
             \/ ImportApplication \/ FinishApplications \/ Leave \/ DropService
  <2>1. UNCHANGED <<queue, dropped, quit, thread, agenda, work, sems, answered, accepted>>
    BY <1>1, <1>7, MainLibraryCalls
  <2>2. at \in {"services", "service", "applications", "application", "finish", "leave", "drop"}
    BY <1>7 DEF QueryServices, NoArrays, ImportService, FinishServices, QueryApplications,
                ImportApplication, FinishApplications, Leave, DropService, Main
  <2>3. ~Awaiting'
    BY <1>7 DEF QueryServices, NoArrays, ImportService, FinishServices, QueryApplications,
                ImportApplication, FinishApplications, Leave, DropService, GoOn, Awaiting
  <2>4. ~Awaiting /\ sems'["main"] = 0
    BY <1>1, <2>1, <2>2 DEF OneCall, Awaiting
  <2>5. \A d \in ServiceSet : todo'[d] = todo[d]
    <3>1. todo' = todo \/ \E q : MainCalls(q)
      BY <1>7 DEF QueryServices, NoArrays, ImportService, FinishServices, QueryApplications,
                  ImportApplication, FinishApplications, Leave, DropService
    <3> QED BY <1>1, <3>1, Constants DEF MainCalls, TodoOK
  <2> QED BY <1>1, <2>1, <2>3, <2>4, <2>5, OneCallNone
<1>8. CASE Boot \/ CleanUp
  <2>1. ~Awaiting /\ ~Awaiting'
    BY <1>8 DEF Boot, CleanUp, Main, GoOn, Awaiting
  <2>2. at' \in {"boot", "clean", "done"} \/ sems'["main"] = 0
    BY <1>1, <1>8 DEF Boot, CleanUp, GoOn, CountsOK
  <2> QED BY <1>1, <1>8, <2>1, <2>2, OneCallNone
          DEF Boot, CleanUp, queueVars, lockVars, workVars
<1>9. CASE StartFails \/ ExecWaits \/ ExecRuns \/ ExecReturns \/ SkipService \/ NullHandles
  <2>1. /\ UNCHANGED <<queue, dropped, agenda, work, sems, answered, accepted, todo>>
        /\ at \notin {"boot", "clean", "done", "wait", "stopped"}
        /\ at' \notin {"wait", "stopped"}
    BY <1>9 DEF StartFails, ExecWaits, ExecRuns, ExecReturns, SkipService, NullHandles, Main,
                GoOn, queueVars, lockVars, workVars, answerVars, threadsAlone, mainVars
  <2>2. ~Awaiting /\ ~Awaiting' /\ sems'["main"] = 0
    BY <1>1, <2>1 DEF Awaiting, OneCall
  <2> QED BY <1>1, <2>1, <2>2, OneCallNone
<1> QED
  BY <1>3, <1>4, <1>5, <1>6, <1>7, <1>8, <1>9 DEF MainStep

\* Nothing changes but the fault, if anything does.
Still ==
  /\ UNCHANGED <<spawnVars, queueVars, owner, depth, todo, cstate, refs, imports>>
  /\ \/ fault' = fault
     \/ fault' = "not_loaded"
     \/ fault' = "freed_sibling" /\ Len(TheApplications) > 2

LEMMA StutterStill == UNCHANGED vars => Still
BY DEF Still, vars, lockVars

LEMMA StepCases ==
  ASSUME SpawnNext, setting \in Setting
  PROVE  \/ MainStep \/ Still
         \/ \E c \in Components : ComponentStep(c)
         \/ \E t \in Threads : InLibrary(t)
<1>1. ASSUME NEW t, Undefined(t)
      PROVE  Still
  <2>1. CASE LoadFails(t)
    BY <1>1, <2>1 DEF Undefined, LoadFails, Still
  <2>2. CASE FreedSibling
    <3>1. TheApplications \in Seq(Components)
      BY TheServicesOK
    <3>2. Len(TheApplications) > 2
      BY <2>2, <3>1 DEF FreedSibling, Main
    <3> QED BY <1>1, <2>2, <3>2 DEF Undefined, FreedSibling, Still
  <2> QED BY <1>1, <2>1, <2>2 DEF Undefined
<1> QED
  BY <1>1, Constants DEF SpawnNext, MainThread, ComponentThread

LEMMA AwaitStutter ==
  ASSUME AwaitInv, Still
  PROVE  AwaitInv'
<1>1. /\ UNCHANGED <<queue, dropped, quit, thread, todo, imports, setting, at, i, started>>
      /\ UNCHANGED <<sems, agenda, work, answered, accepted>>
      /\ fault' = "none" => fault = "none"
  BY DEF Still, queueVars, spawnVars, mainVars, answerVars, workVars
<1>2. ProgramOK'
  BY <1>1, MainUntouched
  DEF AwaitInv, ProgramOK, LibraryOK, TodoOK, ImportsOK, QueuesOK, WorksOK, CountsOK
<1>3. QuitsOK'
  BY <1>1 DEF AwaitInv, QuitsOK, Leaving
<1>4. PoliteServices' => PoliteServices
  BY <1>1 DEF PoliteServices, Polite, AnswersLast
<1>5. OneCall => OneCall'
  <2>1. \A d \in ServiceSet : Untouched(d)
    BY <1>1 DEF Untouched
  <2>2. \A d \in ServiceSet : (Quiet(d) => Quiet(d)') /\ (Pending(d) => Pending(d)')
    BY <2>1, UntouchedKept
  <2>3. TheServices' = TheServices
    BY <1>1 DEF TheServices
  <2>4. CASE Awaiting
    <3>1. PICK s \in ServiceSet : s = TheServices[i]
      BY <2>4, TheServicesOK DEF AwaitInv, ProgramOK, MainOK, Awaiting
    <3>2. TheServices'[i'] = s
      BY <1>1, <2>3, <3>1
    <3> QED BY <1>1, <2>2, <2>4, <3>1, <3>2 DEF OneCall, Awaiting
  <2>5. CASE ~Awaiting
    BY <1>1, <2>2, <2>5 DEF OneCall, Awaiting
  <2> QED BY <2>4, <2>5
<1> QED
  BY <1>2, <1>3, <1>4, <1>5 DEF AwaitInv

LEMMA AwaitStep ==
  ASSUME AwaitInv, SpawnNext
  PROVE  AwaitInv'
<1>0. SUFFICES ASSUME ~Still PROVE AwaitInv'
  BY AwaitStutter
<1>1. ProgramOK /\ QuitsOK /\ (PoliteServices => OneCall)
  BY DEF AwaitInv
<1>cases. \/ MainStep \/ \E c \in Components : ComponentStep(c)
          \/ \E t \in Threads : InLibrary(t)
  BY <1>0, <1>1, StepCases DEF ProgramOK, MainOK
<1>2. setting' = setting
  BY <1>0, <1>cases DEF InLibrary, spawnVars, MainStep, Boot,
     QueryServices, NoArrays, ImportService, StartService, StartFails, WaitService, WaitStopped,
     MainWaits, FinishServices, QueryApplications, ImportApplication, StartApplication,
     FinishApplications, ExecWaits, ExecRuns, ExecReturns, Leave, StopService, SkipService,
     NullHandles, DropService, CleanUp, threadsAlone, ComponentStep, WakesUp, TakesCall,
     CallReturns, ServiceAnswers, TestAnswers, Signals, ApplicationAnswers, BeginsWork, Asks,
     QueriesTests, ImportsTest, RunsTest, AwaitsTest, UnImportsTest, FinishesTests, EndsTests,
     compAlone
<1>3. PoliteServices' => PoliteServices
  BY <1>2 DEF PoliteServices, Polite, AnswersLast
<1>4. CASE MainStep
  BY <1>1, <1>3, <1>4, MainStepTyped, QuitMain, OneCallMain DEF AwaitInv
<1>5. ASSUME NEW c \in Components, ComponentStep(c)
      PROVE  AwaitInv'
  BY <1>1, <1>3, <1>5, ComponentStepTyped, QuitComponent, OneCallComponent DEF AwaitInv
<1>6. ASSUME NEW t \in Threads, InLibrary(t)
      PROVE  AwaitInv'
  <2>1. ProgramOK'
    BY <1>1, <1>6, InLibraryOK
  <2>2. QuitsOK'
    BY <1>1, <1>6, QuitLibrary DEF InLibrary, ProgramOK
  <2> QED BY <1>3, <1>6, <2>1, <2>2, OneCallLibrary DEF AwaitInv
<1> QED
  BY <1>4, <1>5, <1>6, <1>cases

\* Where AnswersAwaited looks, main() waits for nothing.
LEMMA AwaitAnswered == AwaitInv => AnswersAwaited
<1> SUFFICES ASSUME AwaitInv, PoliteServices
             PROVE  /\ at \in {"applications", "application", "launch", "finish", "exec", "run",
                               "leave"} =>
                         \A s \in ToSet(Services) : answered[s] = accepted[s]
                    /\ at = "drop" => answered[TheServices[i]] = accepted[TheServices[i]]
                    /\ \A s \in ToSet(Services) : dropped[s] = 0
  BY DEF AnswersAwaited, PoliteServices
<1>1. OneCall /\ setting \in Setting /\ MainOK
  BY DEF AwaitInv, ProgramOK, MainOK
<1>2. ~Awaiting => \A s \in ToSet(Services) : answered[s] = accepted[s]
  BY <1>1 DEF OneCall, Quiet, ServiceSet
<1>3. \A s \in ToSet(Services) : dropped[s] = 0
  BY <1>1 DEF OneCall, Quiet, Pending, ServiceSet
<1>4. at = "drop" => TheServices[i] \in ToSet(Services)
  BY <1>1, TheServicesOK DEF MainOK, ServiceSet
<1> QED
  BY <1>2, <1>3, <1>4 DEF Awaiting

\* main() has at most one call to the services under way, for any number of
\* services, applications and tests, and any schedule of their threads: each call
\* that a service took is answered before the application is called, and before
\* the service is dropped, so that no call is left behind on a queue.
THEOREM AwaitCorrect == SpawnSpec => []AnswersAwaited
<1>1. SpawnInit => AwaitInv
  BY AwaitInit
<1>2. AwaitInv /\ [SpawnNext]_vars => AwaitInv'
  BY AwaitStep, AwaitStutter, StutterStill
<1>3. AwaitInv => AnswersAwaited
  BY AwaitAnswered
<1> QED
  BY <1>1, <1>2, <1>3, PTL DEF SpawnSpec

-----------------------------------------------------------------------------
(* Accounts: what a thread holds between two steps, and what its steps do  *)
(* to it                                                                   *)

\* A thread calls the library in the name of one client.
Client(t) == IF t = "main" THEN Anonymous ELSE t

\* held: how often the thread locked each mutex; refs: the references it took
\* and will drop itself; imp: the imports of its client, where "ready" is one
\* that is not open yet but of which the server is initialised; dying: the
\* component it destroys, and the step of that which comes next.
Statuses == {"none", "queried", "ready", "open"}
Stages == {"none", "destroy", "quit", "post", "join"}
Account == [held : [Mutexes -> Nat], refs : [Clients -> Nat], imp : [Components -> Statuses],
            dying : Components \cup {Nobody}, stage : Stages]

\* A component with imports holds a reference to itself, that of its query; and
\* components are destroyed under the lock of components.
Covered(t, a) ==
  /\ t # "main" /\ (\E s \in Components : a.imp[s] # "none") => a.refs[t] > 0
  /\ a.dying = Nobody <=> a.stage = "none"
  /\ a.dying # Nobody => a.held["component"] > 0

SameRefs(a, b) == b.refs = a.refs /\ b.imp = a.imp
SameLocks(a, b) == b.held = a.held
SameDying(a, b) == b.dying = a.dying /\ b.stage = a.stage

\* The steps that destroy a component end that.
Ends(a, x, b) ==
  /\ a.dying = x.on /\ a.stage = x.op /\ b.dying = Nobody /\ b.stage = "none"
  /\ SameRefs(a, b) /\ SameLocks(a, b)

\* What step x of thread t does to its account, a before and b after it.
LockEffect(a, x, b) ==
  /\ SameRefs(a, b) /\ SameDying(a, b)
  /\ \/ x.op = "lock" /\ b.held = [a.held EXCEPT ![x.on] = @ + 1]
     \/ x.op = "unlock" /\ a.held[x.on] > 0 /\ b.held = [a.held EXCEPT ![x.on] = @ - 1]

RefEffect(a, x, b) ==
  /\ b.imp = a.imp
  /\ \/ x.op = "ref" /\ b.refs = [a.refs EXCEPT ![x.on] = @ + 1]
     \/ x.op = "unref" /\ a.refs[x.on] > 0 /\ b.refs = [a.refs EXCEPT ![x.on] = @ - 1]

ImportEffect(t, a, x, b) ==
  LET p == x.on
      Becomes(v) == b.imp = [a.imp EXCEPT ![p[2]] = v]
  IN  /\ p[1] = Client(t)
      /\ \/ x.op = "new" /\ a.imp[p[2]] = "none" /\ Becomes("queried") /\ b.refs = a.refs
         \/ /\ x.op = "add" /\ a.imp[p[2]] = "none" /\ Becomes("queried")
            /\ a.refs[p[2]] > 0 /\ b.refs = [a.refs EXCEPT ![p[2]] = @ - 1]
         \/ x.op = "open" /\ a.imp[p[2]] = "ready" /\ Becomes("open") /\ b.refs = a.refs
         \/ x.op = "close" /\ Becomes("none") /\ b.refs = a.refs
         \/ /\ x.op = "free" /\ a.imp[p[2]] # "none" /\ Becomes("none")
            /\ b.refs = [a.refs EXCEPT ![p[2]] = @ + 1]

InitEffect(a, x, b) ==
  /\ x.op = "init" /\ a.imp[x.on] = "queried"
  /\ b.imp = [a.imp EXCEPT ![x.on] = "ready"] /\ b.refs = a.refs

Effect(t, a, x, b) ==
  /\ Covered(t, a) /\ Covered(t, b)
  /\ \/ LockEffect(a, x, b)
     \/ x.op \in {"destroy", "quit", "post", "join"} /\ Ends(a, x, b)
     \/ /\ a.dying = Nobody /\ b.dying = Nobody /\ SameLocks(a, b)
        /\ \/ x.op = "pass" /\ SameRefs(a, b)
           \/ RefEffect(a, x, b) \/ ImportEffect(t, a, x, b) \/ InitEffect(a, x, b)

\* The steps lead from account a to account b.
Leads(t, steps, a, b) ==
  \E L \in [1 .. Len(steps) + 1 -> Account] :
    /\ L[1] = a /\ L[Len(steps) + 1] = b
    /\ \A k \in 1 .. Len(steps) : Effect(t, L[k], steps[k], L[k + 1])

LEMMA LeadsNowhere ==
  ASSUME NEW t, NEW a, NEW b
  PROVE  /\ a \in Account => Leads(t, <<>>, a, a)
         /\ Leads(t, <<>>, a, b) => a = b /\ a \in Account
<1>1. Len(<<>>) = 0
  OBVIOUS
<1>2. ASSUME a \in Account
      PROVE  Leads(t, <<>>, a, a)
  <2> DEFINE L == [k \in 1 .. 1 |-> a]
  <2>1. L \in [1 .. 0 + 1 -> Account] /\ L[1] = a
    BY <1>2
  <2>2. L[0 + 1] = a
    OBVIOUS
  <2>3. \A k \in 1 .. 0 : Effect(t, L[k], <<>>[k], L[k + 1])
    OBVIOUS
  <2> HIDE DEF L
  <2> QED BY <1>1, <2>1, <2>2, <2>3 DEF Leads
<1>3. Leads(t, <<>>, a, b) => a = b /\ a \in Account
  BY <1>1 DEF Leads
<1> QED
  BY <1>2, <1>3

LEMMA LeadsBounds ==
  ASSUME NEW t, NEW S, NEW s \in Seq(S), NEW a, NEW b, Leads(t, s, a, b)
  PROVE  a \in Account /\ b \in Account
<1>1. Len(s) \in Nat
  OBVIOUS
<1> QED
  BY <1>1 DEF Leads

LEMMA LeadsOne ==
  ASSUME NEW t, NEW op, NEW x, NEW a \in Account, NEW b \in Account,
         Effect(t, a, [op |-> op, on |-> x], b)
  PROVE  Leads(t, Do(op, x), a, b)
<1> DEFINE L == [k \in 1 .. 2 |-> IF k = 1 THEN a ELSE b]
<1>1. Len(Do(op, x)) = 1 /\ Do(op, x)[1] = [op |-> op, on |-> x]
  BY DEF Do
<1>2. L \in [1 .. 1 + 1 -> Account] /\ L[1] = a /\ L[1 + 1] = b
  OBVIOUS
<1>3. \A k \in 1 .. 1 : k = 1
  OBVIOUS
<1> HIDE DEF L
<1> QED
  BY <1>1, <1>2, <1>3 DEF Leads

LEMMA LeadsOn ==
  ASSUME NEW t, NEW S, NEW p \in Seq(S), NEW q \in Seq(S), NEW a, NEW b, NEW c,
         Leads(t, p, a, b), Leads(t, q, b, c)
  PROVE  Leads(t, p \o q, a, c)
<1>1. /\ Len(p) \in Nat /\ Len(q) \in Nat /\ Len(p \o q) = Len(p) + Len(q)
      /\ \A k \in 1 .. Len(p) : (p \o q)[k] = p[k]
      /\ \A k \in 1 .. Len(q) : (p \o q)[Len(p) + k] = q[k]
  OBVIOUS
<1>2. PICK L \in [1 .. Len(p) + 1 -> Account] :
        /\ L[1] = a /\ L[Len(p) + 1] = b
        /\ \A k \in 1 .. Len(p) : Effect(t, L[k], p[k], L[k + 1])
  BY DEF Leads
<1>3. PICK M \in [1 .. Len(q) + 1 -> Account] :
        /\ M[1] = b /\ M[Len(q) + 1] = c
        /\ \A k \in 1 .. Len(q) : Effect(t, M[k], q[k], M[k + 1])
  BY DEF Leads
<1> DEFINE m == Len(p)
           N == [k \in 1 .. m + Len(q) + 1 |-> IF k <= m THEN L[k] ELSE M[k - m]]
<1>4. N \in [1 .. m + Len(q) + 1 -> Account]
  BY <1>1
<1>5. N[1] = a
  BY <1>1, <1>2, <1>3
<1>6. N[m + Len(q) + 1] = c
  BY <1>1, <1>3
<1>7. ASSUME NEW k \in 1 .. m + Len(q)
      PROVE  Effect(t, N[k], (p \o q)[k], N[k + 1])
  <2>1. CASE k < m
    <3>1. k \in 1 .. m /\ N[k] = L[k] /\ N[k + 1] = L[k + 1] /\ (p \o q)[k] = p[k]
      BY <1>1, <2>1
    <3> HIDE DEF N
    <3> QED BY <1>2, <3>1
  <2>2. CASE k = m
    <3>1. k \in 1 .. m /\ N[k] = L[k] /\ N[k + 1] = L[k + 1] /\ (p \o q)[k] = p[k]
      BY <1>1, <1>2, <1>3, <2>2
    <3> HIDE DEF N
    <3> QED BY <1>2, <3>1
  <2>3. CASE k > m
    <3> DEFINE j == k - m
    <3>1. /\ j \in 1 .. Len(q) /\ N[k] = M[j] /\ N[k + 1] = M[j + 1] /\ k = m + j
      BY <1>1, <2>3
    <3>2. (p \o q)[k] = q[j]
      BY <1>1, <3>1
    <3> HIDE DEF N, j
    <3> QED BY <1>3, <3>1, <3>2
  <2> QED BY <1>1, <2>1, <2>2, <2>3
<1> HIDE DEF N
<1> QED
  BY <1>1, <1>4, <1>5, <1>6, <1>7 DEF Leads

\* The first step, and those after it.
LEMMA LeadsFirst ==
  ASSUME NEW t, NEW S, NEW s \in Seq(S), s # <<>>, NEW a, NEW c, Leads(t, s, a, c)
  PROVE  \E b \in Account : Effect(t, a, Head(s), b) /\ Leads(t, Tail(s), b, c)
<1>1. /\ Len(s) \in Nat \ {0} /\ Head(s) = s[1] /\ Len(Tail(s)) = Len(s) - 1
      /\ \A k \in 1 .. Len(s) - 1 : Tail(s)[k] = s[k + 1]
  OBVIOUS
<1>2. PICK L \in [1 .. Len(s) + 1 -> Account] :
        /\ L[1] = a /\ L[Len(s) + 1] = c
        /\ \A k \in 1 .. Len(s) : Effect(t, L[k], s[k], L[k + 1])
  BY DEF Leads
<1> DEFINE M == [k \in 1 .. Len(s) |-> L[k + 1]]
<1>3. M \in [1 .. Len(Tail(s)) + 1 -> Account] /\ M[1] = L[2] /\ M[Len(Tail(s)) + 1] = c
  BY <1>1, <1>2
<1>4. ASSUME NEW k \in 1 .. Len(Tail(s))
      PROVE  Effect(t, M[k], Tail(s)[k], M[k + 1])
  <2>1. /\ k + 1 \in 1 .. Len(s) /\ M[k] = L[k + 1] /\ M[k + 1] = L[k + 1 + 1]
        /\ Tail(s)[k] = s[k + 1]
    BY <1>1
  <2> HIDE DEF M
  <2> QED BY <1>2, <2>1
<1>5. Effect(t, a, Head(s), L[2]) /\ L[2] \in Account
  <2>1. 1 \in 1 .. Len(s) /\ 1 + 1 = 2 /\ 2 \in 1 .. Len(s) + 1
    BY <1>1
  <2>2. Effect(t, L[1], s[1], L[1 + 1])
    BY <1>2, <2>1
  <2> QED BY <1>1, <1>2, <2>1, <2>2
<1> HIDE DEF M
<1>6. Leads(t, Tail(s), L[2], c)
  BY <1>3, <1>4 DEF Leads
<1> QED
  BY <1>5, <1>6

-----------------------------------------------------------------------------
(* What the calls of the API do to an account: locks are as before.        *)

Acc(h, r, m) == [held |-> h, refs |-> r, imp |-> m, dying |-> Nobody, stage |-> "none"]
Plus(r, c) == [r EXCEPT ![c] = @ + 1]
Set(m, s, v) == [m EXCEPT ![s] = v]
SetAll(m, S, v) == [s \in Components |-> IF s \in S THEN v ELSE m[s]]

\* The references and imports of a thread that does not destroy anything.
Fine(t, r, m) ==
  /\ r \in [Clients -> Nat] /\ m \in [Components -> Statuses]
  /\ t # "main" /\ (\E s \in Components : m[s] # "none") => r[t] > 0

Net(t, steps, r, m, r2, m2) ==
  /\ \E S : steps \in Seq(S)
  /\ \A h \in [Mutexes -> Nat] : Leads(t, steps, Acc(h, r, m), Acc(h, r2, m2))

LEMMA AccTyped ==
  ASSUME NEW t, NEW h \in [Mutexes -> Nat], NEW r, NEW m, Fine(t, r, m)
  PROVE  Acc(h, r, m) \in Account /\ Covered(t, Acc(h, r, m))
BY DEF Acc, Account, Covered, Fine, Stages

\* One more, and one less.
LEMMA UpDown ==
  ASSUME NEW S, NEW r \in [S -> Nat], NEW c \in S
  PROVE  /\ [r EXCEPT ![c] = @ + 1] \in [S -> Nat] /\ [r EXCEPT ![c] = @ + 1][c] > 0
         /\ r = [[r EXCEPT ![c] = @ + 1] EXCEPT ![c] = @ - 1]
<1> DEFINE p == [r EXCEPT ![c] = @ + 1]
<1>1. p \in [S -> Nat] /\ p[c] = r[c] + 1 /\ r[c] \in Nat
  OBVIOUS
<1> DEFINE q == [p EXCEPT ![c] = @ - 1]
<1>2. DOMAIN q = S /\ \A x \in S : q[x] = r[x]
  BY <1>1
<1>3. q = [x \in S |-> q[x]]
  BY <1>2
<1>4. r = [x \in S |-> r[x]]
  OBVIOUS
<1>5. q = r
  <2> HIDE DEF q
  <2> QED BY <1>2, <1>3, <1>4, Zenon
<1> QED
  BY <1>1, <1>5

LEMMA PlusFine ==
  ASSUME NEW t, NEW r, NEW m, Fine(t, r, m), NEW c \in Clients
  PROVE  Fine(t, Plus(r, c), m)
BY DEF Fine, Plus

LEMMA DoSeq == \A op, x : Do(op, x) \in Seq({[op |-> op, on |-> x]})
BY DEF Do

LEMMA OnSeq ==
  ASSUME NEW S, NEW T, NEW p \in Seq(S), NEW q \in Seq(T)
  PROVE  p \in Seq(S \cup T) /\ q \in Seq(S \cup T) /\ p \o q \in Seq(S \cup T)
OBVIOUS

LEMMA NetOn ==
  ASSUME NEW t, NEW p, NEW q, NEW r, NEW m, NEW r1, NEW m1, NEW r2, NEW m2,
         Net(t, p, r, m, r1, m1), Net(t, q, r1, m1, r2, m2)
  PROVE  Net(t, p \o q, r, m, r2, m2)
<1>1. PICK S, T : p \in Seq(S) /\ q \in Seq(T)
  BY DEF Net
<1>2. /\ p \in Seq(S \cup T) /\ q \in Seq(S \cup T) /\ p \o q \in Seq(S \cup T)
  BY <1>1, OnSeq
<1>3. ASSUME NEW h \in [Mutexes -> Nat]
      PROVE  Leads(t, p \o q, Acc(h, r, m), Acc(h, r2, m2))
  <2>1. Leads(t, p, Acc(h, r, m), Acc(h, r1, m1)) /\ Leads(t, q, Acc(h, r1, m1), Acc(h, r2, m2))
    BY DEF Net
  <2> QED BY <1>2, <2>1, LeadsOn
<1> QED
  BY <1>2, <1>3 DEF Net

LEMMA NetEmpty ==
  ASSUME NEW t, NEW r, NEW m, Fine(t, r, m)
  PROVE  Net(t, <<>>, r, m, r, m)
<1>1. <<>> \in Seq({})
  OBVIOUS
<1>2. \A h \in [Mutexes -> Nat] : Leads(t, <<>>, Acc(h, r, m), Acc(h, r, m))
  BY AccTyped, LeadsNowhere
<1> QED
  BY <1>1, <1>2 DEF Net

LEMMA NetOne ==
  ASSUME NEW t, NEW op, NEW x, NEW r, NEW m, NEW r2, NEW m2, Fine(t, r, m), Fine(t, r2, m2),
         \A h \in [Mutexes -> Nat] :
           \/ op = "pass" /\ r2 = r /\ m2 = m
           \/ RefEffect(Acc(h, r, m), [op |-> op, on |-> x], Acc(h, r2, m2))
           \/ ImportEffect(t, Acc(h, r, m), [op |-> op, on |-> x], Acc(h, r2, m2))
           \/ InitEffect(Acc(h, r, m), [op |-> op, on |-> x], Acc(h, r2, m2))
  PROVE  Net(t, Do(op, x), r, m, r2, m2)
<1>1. ASSUME NEW h \in [Mutexes -> Nat]
      PROVE  Leads(t, Do(op, x), Acc(h, r, m), Acc(h, r2, m2))
  <2>1. /\ Acc(h, r, m) \in Account /\ Covered(t, Acc(h, r, m))
        /\ Acc(h, r2, m2) \in Account /\ Covered(t, Acc(h, r2, m2))
    BY AccTyped
  <2>2. /\ Acc(h, r, m).dying = Nobody /\ Acc(h, r2, m2).dying = Nobody
        /\ SameLocks(Acc(h, r, m), Acc(h, r2, m2))
        /\ r2 = r /\ m2 = m => SameRefs(Acc(h, r, m), Acc(h, r2, m2))
        /\ [op |-> op, on |-> x].op = op
    BY DEF Acc, SameLocks, SameRefs
  <2>3. Effect(t, Acc(h, r, m), [op |-> op, on |-> x], Acc(h, r2, m2))
    BY <2>1, <2>2 DEF Effect
  <2> QED BY <2>1, <2>3, LeadsOne
<1>2. Do(op, x) \in Seq({[op |-> op, on |-> x]})
  BY DoSeq
<1> QED
  BY <1>1, <1>2 DEF Net

LEMMA NetPass ==
  ASSUME NEW t, NEW x, NEW r, NEW m, Fine(t, r, m)
  PROVE  Net(t, Do("pass", x), r, m, r, m)
BY NetOne

LEMMA NetRef ==
  ASSUME NEW t, NEW c \in Clients, NEW r, NEW m, Fine(t, r, m)
  PROVE  /\ Net(t, Do("ref", c), r, m, Plus(r, c), m)
         /\ Net(t, Do("unref", c), Plus(r, c), m, r, m)
<1>1. Fine(t, Plus(r, c), m)
  BY PlusFine
<1>2. r \in [Clients -> Nat]
  BY DEF Fine
<1>3. \A h : RefEffect(Acc(h, r, m), [op |-> "ref", on |-> c], Acc(h, Plus(r, c), m))
  BY DEF RefEffect, Acc, Plus
<1>4. Plus(r, c)[c] > 0 /\ r = [Plus(r, c) EXCEPT ![c] = @ - 1]
  BY <1>2, UpDown DEF Plus
<1>5. \A h : RefEffect(Acc(h, Plus(r, c), m), [op |-> "unref", on |-> c], Acc(h, r, m))
  BY <1>4 DEF RefEffect, Acc
<1> QED
  BY <1>1, <1>3, <1>5, NetOne

LEMMA NetInit ==
  ASSUME NEW t, NEW s \in Components, NEW r, NEW m, Fine(t, r, m), m[s] = "queried"
  PROVE  /\ Net(t, Do("init", s), r, m, r, Set(m, s, "ready"))
         /\ Fine(t, r, Set(m, s, "ready"))
<1>1. Fine(t, r, Set(m, s, "ready"))
  BY DEF Fine, Set, Statuses
<1>2. \A h : InitEffect(Acc(h, r, m), [op |-> "init", on |-> s], Acc(h, r, Set(m, s, "ready")))
  BY DEF InitEffect, Acc, Set
<1> QED
  BY <1>1, <1>2, NetOne

LEMMA NetOpen ==
  ASSUME NEW t, NEW s \in Components, NEW r, NEW m, Fine(t, r, m), m[s] = "ready"
  PROVE  /\ Net(t, Do("open", <<Client(t), s>>), r, m, r, Set(m, s, "open"))
         /\ Fine(t, r, Set(m, s, "open"))
<1>1. Fine(t, r, Set(m, s, "open"))
  BY DEF Fine, Set, Statuses
<1>2. \A h : ImportEffect(t, Acc(h, r, m), [op |-> "open", on |-> <<Client(t), s>>],
                          Acc(h, r, Set(m, s, "open")))
  BY DEF ImportEffect, Acc, Set
<1> QED
  BY <1>1, <1>2, NetOne

LEMMA NetClose ==
  ASSUME NEW t, NEW s \in Components, NEW r, NEW m, Fine(t, r, m)
  PROVE  /\ Net(t, Do("close", <<Client(t), s>>), r, m, r, Set(m, s, "none"))
         /\ Fine(t, r, Set(m, s, "none"))
<1>1. Fine(t, r, Set(m, s, "none"))
  BY DEF Fine, Set, Statuses
<1>2. \A h : ImportEffect(t, Acc(h, r, m), [op |-> "close", on |-> <<Client(t), s>>],
                          Acc(h, r, Set(m, s, "none")))
  BY DEF ImportEffect, Acc, Set
<1> QED
  BY <1>1, <1>2, NetOne

LEMMA NetFree ==
  ASSUME NEW t, NEW s \in Components, NEW r, NEW m, Fine(t, r, m), m[s] # "none"
  PROVE  /\ Net(t, Do("free", <<Client(t), s>>), r, m, Plus(r, s), Set(m, s, "none"))
         /\ Fine(t, r, Set(m, s, "none"))
<1>1. Fine(t, r, Set(m, s, "none"))
  BY DEF Fine, Set, Statuses
<1>2. Fine(t, Plus(r, s), Set(m, s, "none"))
  BY <1>1, PlusFine DEF Clients
<1>3. \A h : ImportEffect(t, Acc(h, r, m), [op |-> "free", on |-> <<Client(t), s>>],
                          Acc(h, Plus(r, s), Set(m, s, "none")))
  BY DEF ImportEffect, Acc, Set, Plus
<1> QED
  BY <1>1, <1>2, <1>3, NetOne

LEMMA NetAdd ==
  ASSUME NEW t, NEW s \in Components, NEW r, NEW m, Fine(t, r, Set(m, s, "queried")),
         m \in [Components -> Statuses], m[s] = "none"
  PROVE  Net(t, Do("add", <<Client(t), s>>), Plus(r, s), m, r, Set(m, s, "queried"))
<1>1. Fine(t, r, m) /\ Fine(t, Plus(r, s), m)
  <2>1. \A u \in Components : m[u] # "none" => Set(m, s, "queried")[u] # "none"
    BY DEF Set
  <2>2. Fine(t, r, m)
    BY <2>1 DEF Fine
  <2> QED BY <2>2, PlusFine DEF Clients
<1>2. Plus(r, s)[s] > 0 /\ r = [Plus(r, s) EXCEPT ![s] = @ - 1]
  <2>1. r \in [Clients -> Nat] /\ s \in Clients
    BY DEF Fine, Clients
  <2> QED BY <2>1, UpDown DEF Plus
<1>3. \A h : ImportEffect(t, Acc(h, Plus(r, s), m), [op |-> "add", on |-> <<Client(t), s>>],
                          Acc(h, r, Set(m, s, "queried")))
  BY <1>2 DEF ImportEffect, Acc, Set
<1> QED
  BY <1>1, <1>3, NetOne

LEMMA NetHolding ==
  ASSUME NEW t, NEW x \in Mutexes, NEW q, NEW r, NEW m, NEW r2, NEW m2,
         Fine(t, r, m), Fine(t, r2, m2), Net(t, q, r, m, r2, m2)
  PROVE  Net(t, Holding(x, q), r, m, r2, m2)
<1>1. PICK S : q \in Seq(S)
  BY DEF Net
<1> DEFINE l == [op |-> "lock", on |-> x]
           u == [op |-> "unlock", on |-> x]
           T == {l} \cup S
<1>2. Do("lock", x) \in Seq({l}) /\ Do("unlock", x) \in Seq({u})
  BY DoSeq
<1>3. /\ Do("lock", x) \in Seq(T) /\ q \in Seq(T) /\ Do("lock", x) \o q \in Seq(T)
  BY <1>1, <1>2, OnSeq
<1>4. /\ Do("lock", x) \o q \in Seq(T \cup {u}) /\ Do("unlock", x) \in Seq(T \cup {u})
      /\ Do("lock", x) \o q \o Do("unlock", x) \in Seq(T \cup {u})
  BY <1>2, <1>3, OnSeq
<1>5. ASSUME NEW h \in [Mutexes -> Nat]
      PROVE  Leads(t, Holding(x, q), Acc(h, r, m), Acc(h, r2, m2))
  <2> DEFINE g == [h EXCEPT ![x] = @ + 1]
  <2>1. g \in [Mutexes -> Nat] /\ g[x] > 0 /\ h = [g EXCEPT ![x] = @ - 1]
    BY UpDown
  <2>2. /\ Acc(h, r, m) \in Account /\ Covered(t, Acc(h, r, m))
        /\ Acc(g, r, m) \in Account /\ Covered(t, Acc(g, r, m))
        /\ Acc(h, r2, m2) \in Account /\ Covered(t, Acc(h, r2, m2))
        /\ Acc(g, r2, m2) \in Account /\ Covered(t, Acc(g, r2, m2))
    BY <2>1, AccTyped
  <2>3. LockEffect(Acc(h, r, m), l, Acc(g, r, m))
    BY DEF LockEffect, Acc, SameRefs, SameDying
  <2>4. LockEffect(Acc(g, r2, m2), u, Acc(h, r2, m2))
    <3> HIDE DEF g
    <3> QED BY <2>1 DEF LockEffect, Acc, SameRefs, SameDying
  <2>5. Leads(t, q, Acc(g, r, m), Acc(g, r2, m2))
    BY <2>1 DEF Net
  <2> HIDE DEF g
  <2>6. Leads(t, Do("lock", x), Acc(h, r, m), Acc(g, r, m))
    BY <2>2, <2>3, LeadsOne DEF Effect
  <2>7. Leads(t, Do("unlock", x), Acc(g, r2, m2), Acc(h, r2, m2))
    BY <2>2, <2>4, LeadsOne DEF Effect
  <2>8. Leads(t, Do("lock", x) \o q, Acc(h, r, m), Acc(g, r2, m2))
    BY <1>3, <2>5, <2>6, LeadsOn
  <2> QED BY <1>4, <2>7, <2>8, LeadsOn DEF Holding
<1> QED
  BY <1>4, <1>5 DEF Net, Holding

LEMMA ClientMutex ==
  ASSUME NEW t \in Threads
  PROVE  Client(t) \in Clients /\ Client(t) \in Mutexes
BY DEF Client, Clients, Mutexes, Threads

LEMMA NetAtPort ==
  ASSUME NEW t \in Threads, NEW s, NEW r, NEW m, Fine(t, r, m)
  PROVE  Net(t, AtPort(<<Client(t), s>>), r, m, r, m)
<1> DEFINE c == Client(t)
<1>1. c \in Clients /\ c \in Mutexes
  BY ClientMutex
<1>2. Fine(t, Plus(r, c), m)
  BY <1>1, PlusFine
<1>3. Net(t, Holding(c, Do("pass", c)), Plus(r, c), m, Plus(r, c), m)
  BY <1>1, <1>2, NetPass, NetHolding
<1>4. Net(t, Do("ref", c) \o Holding(c, Do("pass", c)), r, m, Plus(r, c), m)
  BY <1>1, <1>3, NetRef, NetOn
<1>5. Net(t, Do("ref", c) \o Holding(c, Do("pass", c)) \o Do("unref", c), r, m, r, m)
  BY <1>1, <1>4, NetRef, NetOn
<1> HIDE DEF c
<1> QED
  BY <1>5, NetEmpty DEF AtPort, c

\* The imports made by a query, of different servers.
LEMMA NetNewEach ==
  ASSUME NEW t \in Threads, NEW servers \in Seq(Components), IsInjective(servers),
         NEW r, NEW m, Fine(t, r, m), t # "main" => r[t] > 0,
         \A k \in DOMAIN servers : m[servers[k]] = "none"
  PROVE  /\ Net(t, ForEach("new", Client(t), servers), r, m,
                r, SetAll(m, ToSet(servers), "queried"))
         /\ Fine(t, r, SetAll(m, ToSet(servers), "queried"))
<1> DEFINE n == Len(servers)
           c == Client(t)
           steps == ForEach("new", c, servers)
           Upto(k) == {servers[j] : j \in 1 .. k - 1}
           M(k) == SetAll(m, Upto(k), "queried")
<1>1. /\ n \in Nat /\ DOMAIN servers = 1 .. n /\ \A k \in 1 .. n : servers[k] \in Components
      /\ r \in [Clients -> Nat] /\ m \in [Components -> Statuses]
  BY ElementOfSeq DEF Fine
<1>2. /\ steps \in Seq([op : {"new"}, on : {c} \X Components]) /\ Len(steps) = n
      /\ \A k \in 1 .. n : steps[k] = [op |-> "new", on |-> <<c, servers[k]>>]
  <2>1. steps = [k \in 1 .. n |-> [op |-> "new", on |-> <<c, servers[k]>>]]
    BY <1>1 DEF ForEach
  <2> DEFINE T == [op : {"new"}, on : {c} \X Components]
  <2> HIDE DEF steps
  <2>2. steps \in [1 .. n -> T]
    BY <1>1, <2>1
  <2>3. steps \in Seq(T)
    <3> HIDE DEF T, n
    <3> QED BY <1>1, <2>2, SeqDef
  <2>4. Len(steps) = n
    BY <1>1, <2>1, <2>3
  <2> QED BY <2>1, <2>3, <2>4
<1>3. \A k : M(k) \in [Components -> Statuses] /\ Fine(t, r, M(k))
  <2> SUFFICES ASSUME NEW k PROVE M(k) \in [Components -> Statuses] /\ Fine(t, r, M(k))
    OBVIOUS
  <2>1. M(k) \in [Components -> Statuses]
    BY <1>1 DEF SetAll, Statuses
  <2> HIDE DEF M
  <2> QED BY <1>1, <2>1 DEF Fine
<1>4. M(1) = m
  <2>1. Upto(1) = {}
    OBVIOUS
  <2>2. M(1) = [s \in Components |-> m[s]]
    BY <2>1 DEF SetAll
  <2> QED BY <1>1, <2>2
<1>5. M(n + 1) = SetAll(m, ToSet(servers), "queried")
  <2>1. Upto(n + 1) = ToSet(servers)
    BY <1>1 DEF ToSet
  <2> QED BY <2>1
<1>6. ASSUME NEW k \in 1 .. n
      PROVE  M(k)[servers[k]] = "none" /\ M(k + 1) = [M(k) EXCEPT ![servers[k]] = "queried"]
  <2>1. servers[k] \in Components /\ servers[k] \notin Upto(k) /\ m[servers[k]] = "none"
    BY <1>1 DEF IsInjective
  <2>2. Upto(k + 1) = Upto(k) \cup {servers[k]}
    BY <1>1
  <2> HIDE DEF Upto
  <2> QED BY <2>1, <2>2 DEF SetAll
<1>7. ASSUME NEW h \in [Mutexes -> Nat]
      PROVE  Leads(t, steps, Acc(h, r, m), Acc(h, r, M(n + 1)))
  <2> DEFINE L == [k \in 1 .. n + 1 |-> Acc(h, r, M(k))]
  <2>1. \A k \in 1 .. n + 1 : Acc(h, r, M(k)) \in Account /\ Covered(t, Acc(h, r, M(k)))
    <3> HIDE DEF M
    <3> QED BY <1>3, AccTyped
  <2>2. L \in [1 .. n + 1 -> Account] /\ L[1] = Acc(h, r, m) /\ L[n + 1] = Acc(h, r, M(n + 1))
    <3> HIDE DEF M
    <3> QED BY <1>1, <1>4, <2>1
  <2>3. ASSUME NEW k \in 1 .. n
        PROVE  Effect(t, L[k], steps[k], L[k + 1])
    <3> DEFINE a == Acc(h, r, M(k))
               b == Acc(h, r, M(k + 1))
    <3>1. L[k] = a /\ L[k + 1] = b /\ Covered(t, a) /\ Covered(t, b)
      <4> HIDE DEF M
      <4> QED BY <1>1, <2>1
    <3>2. ImportEffect(t, a, [op |-> "new", on |-> <<c, servers[k]>>], b)
      <4> HIDE DEF M
      <4> QED BY <1>6 DEF ImportEffect, Acc
    <3>3. a.dying = Nobody /\ b.dying = Nobody /\ SameLocks(a, b)
      BY DEF Acc, SameLocks
    <3> HIDE DEF a, b, L, steps
    <3> QED BY <1>2, <3>1, <3>2, <3>3 DEF Effect
  <2> HIDE DEF L, M, steps
  <2> QED BY <1>2, <2>2, <2>3 DEF Leads
<1> HIDE DEF M, steps
<1> QED
  BY <1>2, <1>3, <1>5, <1>7 DEF Net, steps

\* The imports that a query closes.
LEMMA NetCloseEach ==
  ASSUME NEW t \in Threads, NEW servers \in Seq(Components), NEW r, NEW m, Fine(t, r, m)
  PROVE  /\ Net(t, ForEach("close", Client(t), servers), r, m,
                r, SetAll(m, ToSet(servers), "none"))
         /\ Fine(t, r, SetAll(m, ToSet(servers), "none"))
<1> DEFINE n == Len(servers)
           c == Client(t)
           steps == ForEach("close", c, servers)
           Upto(k) == {servers[j] : j \in 1 .. k - 1}
           M(k) == SetAll(m, Upto(k), "none")
<1>1. /\ n \in Nat /\ DOMAIN servers = 1 .. n /\ \A k \in 1 .. n : servers[k] \in Components
      /\ r \in [Clients -> Nat] /\ m \in [Components -> Statuses]
  BY ElementOfSeq DEF Fine
<1>2. /\ steps \in Seq([op : {"close"}, on : {c} \X Components]) /\ Len(steps) = n
      /\ \A k \in 1 .. n : steps[k] = [op |-> "close", on |-> <<c, servers[k]>>]
  <2>1. steps = [k \in 1 .. n |-> [op |-> "close", on |-> <<c, servers[k]>>]]
    BY <1>1 DEF ForEach
  <2> DEFINE T == [op : {"close"}, on : {c} \X Components]
  <2> HIDE DEF steps
  <2>2. steps \in [1 .. n -> T]
    BY <1>1, <2>1
  <2>3. steps \in Seq(T)
    <3> HIDE DEF T, n
    <3> QED BY <1>1, <2>2, SeqDef
  <2>4. Len(steps) = n
    BY <1>1, <2>1, <2>3
  <2> QED BY <2>1, <2>3, <2>4
<1>3. \A k : M(k) \in [Components -> Statuses] /\ Fine(t, r, M(k))
  <2> SUFFICES ASSUME NEW k PROVE M(k) \in [Components -> Statuses] /\ Fine(t, r, M(k))
    OBVIOUS
  <2>1. M(k) \in [Components -> Statuses]
    BY <1>1 DEF SetAll, Statuses
  <2>2. \A s \in Components : M(k)[s] # "none" => m[s] # "none"
    BY DEF SetAll
  <2> HIDE DEF M
  <2> QED BY <1>1, <2>1, <2>2 DEF Fine
<1>4. M(1) = m
  <2>1. Upto(1) = {}
    OBVIOUS
  <2>2. M(1) = [s \in Components |-> m[s]]
    BY <2>1 DEF SetAll
  <2> QED BY <1>1, <2>2
<1>5. M(n + 1) = SetAll(m, ToSet(servers), "none")
  <2>1. Upto(n + 1) = ToSet(servers)
    BY <1>1 DEF ToSet
  <2> QED BY <2>1
<1>6. ASSUME NEW k \in 1 .. n
      PROVE  M(k + 1) = [M(k) EXCEPT ![servers[k]] = "none"]
  <2>1. servers[k] \in Components
    BY <1>1
  <2>2. Upto(k + 1) = Upto(k) \cup {servers[k]}
    BY <1>1
  <2> HIDE DEF Upto
  <2> QED BY <2>1, <2>2 DEF SetAll
<1>7. ASSUME NEW h \in [Mutexes -> Nat]
      PROVE  Leads(t, steps, Acc(h, r, m), Acc(h, r, M(n + 1)))
  <2> DEFINE L == [k \in 1 .. n + 1 |-> Acc(h, r, M(k))]
  <2>1. \A k \in 1 .. n + 1 : Acc(h, r, M(k)) \in Account /\ Covered(t, Acc(h, r, M(k)))
    <3> HIDE DEF M
    <3> QED BY <1>3, AccTyped
  <2>2. L \in [1 .. n + 1 -> Account] /\ L[1] = Acc(h, r, m) /\ L[n + 1] = Acc(h, r, M(n + 1))
    <3> HIDE DEF M
    <3> QED BY <1>1, <1>4, <2>1
  <2>3. ASSUME NEW k \in 1 .. n
        PROVE  Effect(t, L[k], steps[k], L[k + 1])
    <3> DEFINE a == Acc(h, r, M(k))
               b == Acc(h, r, M(k + 1))
    <3>1. L[k] = a /\ L[k + 1] = b /\ Covered(t, a) /\ Covered(t, b)
      <4> HIDE DEF M
      <4> QED BY <1>1, <2>1
    <3>2. ImportEffect(t, a, [op |-> "close", on |-> <<c, servers[k]>>], b)
      <4> HIDE DEF M
      <4> QED BY <1>6 DEF ImportEffect, Acc
    <3>3. a.dying = Nobody /\ b.dying = Nobody /\ SameLocks(a, b)
      BY DEF Acc, SameLocks
    <3> HIDE DEF a, b, L, steps
    <3> QED BY <1>2, <3>1, <3>2, <3>3 DEF Effect
  <2> HIDE DEF L, M, steps
  <2> QED BY <1>2, <2>2, <2>3 DEF Leads
<1> HIDE DEF M, steps
<1> QED
  BY <1>2, <1>3, <1>5, <1>7 DEF Net, steps

LEMMA Library == {"query", "import", "component"} \subseteq Mutexes /\ Components \subseteq Mutexes
                 /\ Components \subseteq Clients
BY DEF Mutexes, Clients

LEMMA NetQueryNew ==
  ASSUME NEW t \in Threads, NEW servers \in Seq(Components), IsInjective(servers),
         NEW r, NEW m, Fine(t, r, m), \A k \in DOMAIN servers : m[servers[k]] = "none"
  PROVE  /\ Net(t, query_new(Client(t), servers), r, m,
                Plus(r, Client(t)), SetAll(m, ToSet(servers), "queried"))
         /\ Fine(t, Plus(r, Client(t)), SetAll(m, ToSet(servers), "queried"))
<1> DEFINE c == Client(t)
           m2 == SetAll(m, ToSet(servers), "queried")
<1>1. c \in Clients /\ Fine(t, Plus(r, c), m)
  BY ClientMutex, PlusFine
<1>2. t # "main" => Plus(r, c)[t] > 0
  BY <1>1, UpDown DEF Plus, Fine, Client
<1>3. Net(t, ForEach("new", c, servers), Plus(r, c), m, Plus(r, c), m2) /\ Fine(t, Plus(r, c), m2)
  BY <1>1, <1>2, NetNewEach
<1>4. Net(t, Do("ref", c), r, m, Plus(r, c), m)
  BY <1>1, NetRef
<1> HIDE DEF m2, c
<1>5. Net(t, Do("ref", c) \o ForEach("new", c, servers), r, m, Plus(r, c), m2)
  BY <1>3, <1>4, NetOn
<1>6. Net(t, query_new(c, servers), r, m, Plus(r, c), m2)
  BY <1>3, <1>5, NetHolding, Library DEF query_new
<1> QED
  BY <1>3, <1>6 DEF m2, c

LEMMA NetQueryFails ==
  ASSUME NEW t \in Threads, NEW r, NEW m, Fine(t, r, m)
  PROVE  Net(t, query_new_fails(Client(t)), r, m, r, m)
<1>1. Client(t) \in Clients
  BY ClientMutex
<1>2. Net(t, Do("ref", Client(t)) \o Do("unref", Client(t)), r, m, r, m)
  BY <1>1, NetRef, NetOn
<1> QED
  BY <1>2, NetHolding, Library DEF query_new_fails

LEMMA NetByInterface ==
  ASSUME NEW t, NEW client, NEW q, NEW r, NEW m, NEW r2, NEW m2, Fine(t, r, m),
         Net(t, q, r, m, r2, m2)
  PROVE  Net(t, ByInterface(client, q), r, m, r2, m2)
<1>1. Net(t, Do("pass", "component") \o q, r, m, r2, m2)
  BY NetPass, NetOn
<1>2. Net(t, <<>> \o q, r, m, r2, m2)
  BY NetEmpty, NetOn
<1> QED
  BY <1>1, <1>2 DEF ByInterface

\* The query is made while there is one more reference.
LEMMA NetByPort ==
  ASSUME NEW t \in Threads, NEW q, NEW r, NEW m, NEW r2, NEW m2, Fine(t, r, m), Fine(t, r2, m2),
         Net(t, q, Plus(r, Client(t)), m, Plus(r2, Client(t)), m2)
  PROVE  Net(t, ByPort(Client(t), q), r, m, r2, m2)
<1> DEFINE c == Client(t)
<1>1. c \in Clients /\ c \in Mutexes /\ Fine(t, Plus(r, c), m) /\ Fine(t, Plus(r2, c), m2)
  BY ClientMutex, PlusFine
<1> HIDE DEF c
<1>2. Net(t, component_ref_port(c, q), Plus(r, c), m, Plus(r2, c), m2)
  BY <1>1, NetHolding DEF component_ref_port, c
<1>3. Net(t, Do("ref", c) \o component_ref_port(c, q), r, m, Plus(r2, c), m2)
  BY <1>1, <1>2, NetRef, NetOn
<1>4. Net(t, Do("ref", c) \o component_ref_port(c, q) \o Do("unref", c), r, m, r2, m2)
  BY <1>1, <1>3, NetRef, NetOn
<1> QED
  BY <1>4 DEF ByPort, c

LEMMA NetFinish ==
  ASSUME NEW t \in Threads, NEW unused \in Seq(Components), NEW r, NEW m,
         Fine(t, Plus(r, Client(t)), m), Fine(t, r, SetAll(m, ToSet(unused), "none"))
  PROVE  Net(t, xCOM_QueryFinish(Client(t), unused), Plus(r, Client(t)), m,
             r, SetAll(m, ToSet(unused), "none"))
<1> DEFINE c == Client(t)
           m2 == SetAll(m, ToSet(unused), "none")
           first == IF unused = <<>> THEN <<>> ELSE Holding("import", ForEach("close", c, unused))
<1>1. c \in Clients
  BY ClientMutex
<1>2. /\ Net(t, ForEach("close", c, unused), Plus(r, c), m, Plus(r, c), m2)
      /\ Fine(t, Plus(r, c), m2)
  BY NetCloseEach
<1>3. Net(t, first, Plus(r, c), m, Plus(r, c), m2)
  <2>1. CASE unused = <<>>
    <3>1. ToSet(unused) = {}
      BY <2>1 DEF ToSet
    <3>2. m2 = m
      BY <3>1 DEF SetAll, Fine
    <3> QED BY <2>1, <3>2, NetEmpty
  <2>2. CASE unused # <<>>
    <3> HIDE DEF m2, c
    <3>1. first = Holding("import", ForEach("close", c, unused))
      BY <2>2
    <3> HIDE DEF first
    <3> QED BY <1>2, <3>1, NetHolding, Library DEF c
  <2> QED BY <2>1, <2>2
<1> HIDE DEF first, m2, c
<1>4. Net(t, Do("unref", c), Plus(r, c), m2, r, m2)
  BY <1>1, NetRef DEF m2
<1>5. Net(t, first \o Do("unref", c), Plus(r, c), m, r, m2)
  BY <1>3, <1>4, NetOn
<1>6. Net(t, Holding("query", first \o Do("unref", c)), Plus(r, c), m, r, m2)
  BY <1>5, NetHolding, Library DEF m2, c
<1> QED
  BY <1>6 DEF xCOM_QueryFinish, first, m2, c

LEMMA NetImport ==
  ASSUME NEW t \in Threads, NEW s \in Components, NEW r, NEW m, Fine(t, r, m), m[s] = "queried"
  PROVE  /\ Net(t, xCOM_QueryNext \o xCOM_Import(Client(t), s), r, m, r, Set(m, s, "open"))
         /\ Fine(t, r, Set(m, s, "open"))
<1> DEFINE c == Client(t)
           m1 == Set(m, s, "ready")
<1>1. Net(t, Do("init", s), r, m, r, m1) /\ Fine(t, r, m1)
  BY NetInit
<1>2. m1[s] = "ready" /\ Set(m1, s, "open") = Set(m, s, "open")
  BY DEF Set, Fine
<1>3. /\ Net(t, Do("open", <<c, s>>), r, m1, r, Set(m, s, "open"))
      /\ Fine(t, r, Set(m, s, "open"))
  BY <1>1, <1>2, NetOpen
<1> HIDE DEF c, m1
<1>4. Net(t, Holding(s, Do("init", s)), r, m, r, m1)
  BY <1>1, NetHolding, Library
<1>5. Net(t, Do("pass", "query") \o Holding(s, Do("init", s)), r, m, r, m1)
  BY <1>4, NetPass, NetOn
<1>6. Net(t, Do("pass", "query") \o Holding(s, Do("init", s)) \o Do("pass", s), r, m, r, m1)
  BY <1>1, <1>5, NetPass, NetOn
<1>7. Net(t, Do("pass", "query") \o Holding(s, Do("init", s)) \o Do("pass", s)
               \o AtPort(<<c, s>>), r, m, r, m1)
  BY <1>1, <1>6, NetAtPort, NetOn DEF c
<1>8. Net(t, Do("pass", "query") \o Holding(s, Do("init", s)) \o Do("pass", s)
               \o AtPort(<<c, s>>) \o Do("open", <<c, s>>), r, m, r, Set(m, s, "open"))
  BY <1>3, <1>7, NetOn
<1>9. Net(t, xCOM_Import(c, s), r, m, r, Set(m, s, "open"))
  BY <1>3, <1>8, NetHolding, Library DEF xCOM_Import
<1>10. Net(t, xCOM_QueryNext, r, m, r, m)
  BY NetPass DEF xCOM_QueryNext
<1> QED
  BY <1>3, <1>9, <1>10, NetOn DEF c

LEMMA NetUnImport ==
  ASSUME NEW t \in Threads, NEW s \in Components, NEW r, NEW m, Fine(t, r, m)
  PROVE  /\ Net(t, xCOM_UnImport(Client(t), s), r, m, r, Set(m, s, "none"))
         /\ Net(t, xCOM_QueryNext \o ImportFails(Client(t), s), r, m, r, Set(m, s, "none"))
         /\ Fine(t, r, Set(m, s, "none"))
<1> DEFINE c == Client(t)
           m2 == Set(m, s, "none")
<1>1. Net(t, Do("close", <<c, s>>), r, m, r, m2) /\ Fine(t, r, m2)
  BY NetClose
<1> HIDE DEF c, m2
<1>2. Net(t, xCOM_UnImport(c, s), r, m, r, m2)
  BY <1>1, NetHolding, Library DEF xCOM_UnImport
<1>3. Net(t, Holding(s, Do("pass", s)), r, m, r, m)
  BY NetPass, NetHolding, Library
<1>4. Net(t, Do("pass", "query") \o Holding(s, Do("pass", s)), r, m, r, m)
  BY <1>3, NetPass, NetOn
<1>5. Net(t, Do("pass", "query") \o Holding(s, Do("pass", s)) \o Do("close", <<c, s>>), r, m, r, m2)
  BY <1>1, <1>4, NetOn
<1>6. Net(t, ImportFails(c, s), r, m, r, m2)
  BY <1>1, <1>5, NetHolding, Library DEF ImportFails
<1>7. Net(t, xCOM_QueryNext, r, m, r, m)
  BY NetPass DEF xCOM_QueryNext
<1> QED
  BY <1>1, <1>2, <1>6, <1>7, NetOn DEF c, m2

\* The steps that close an import there is.
LEMMA NetImportFree ==
  ASSUME NEW t \in Threads, NEW s \in Components, NEW r, NEW m, Fine(t, r, m), m[s] # "none"
  PROVE  Net(t, import_close(<<Client(t), s>>), r, m, r, Set(m, s, "none"))
<1> DEFINE c == Client(t)
           p == <<c, s>>
           m2 == Set(m, s, "none")
           first == IF imports[p] = "open" THEN AtPort(p) \o Do("pass", p[2]) ELSE <<>>
<1>1. Net(t, AtPort(p) \o Do("pass", p[2]), r, m, r, m)
  BY NetAtPort, NetPass, NetOn
<1>2. Net(t, <<>>, r, m, r, m)
  BY NetEmpty
<1>3. Net(t, first, r, m, r, m)
  BY <1>1, <1>2
<1>4. p[1] = c /\ p[2] = s /\ s \in Clients /\ c \in Clients
  BY ClientMutex, Library
<1>5. Net(t, Do("free", p), r, m, Plus(r, s), m2) /\ Fine(t, r, m2)
  BY NetFree
<1> HIDE DEF first, m2, p, c
<1>6. Net(t, Do("unref", s), Plus(r, s), m2, r, m2)
  BY <1>4, <1>5, NetRef
<1>7. Net(t, first \o Do("free", p), r, m, Plus(r, s), m2)
  BY <1>3, <1>5, NetOn
<1>8. Net(t, first \o Do("free", p) \o Do("unref", s), r, m, r, m2)
  BY <1>6, <1>7, NetOn
<1>9. Net(t, import_free(p), r, m, r, m2)
  BY <1>4, <1>5, <1>8, NetHolding, Library DEF import_free, first
<1>10. Net(t, Do("ref", c), r, m, Plus(r, c), m) /\ Net(t, Do("unref", c), Plus(r, c), m, r, m)
  BY <1>4, NetRef
<1>11. Net(t, Do("pass", c), Plus(r, c), m, Plus(r, c), m)
  BY <1>4, NetPass, PlusFine
<1>12. Net(t, Do("ref", c) \o Do("pass", c), r, m, Plus(r, c), m)
  BY <1>10, <1>11, NetOn
<1>13. Net(t, Do("ref", c) \o Do("pass", c) \o Do("unref", c), r, m, r, m)
  BY <1>10, <1>12, NetOn
<1>14. Net(t, import_close(p), r, m, r, m2)
  BY <1>4, <1>9, <1>13, NetOn DEF import_close
<1> QED
  BY <1>14 DEF m2, p, c

-----------------------------------------------------------------------------
(* The ledger: what the accounts of the threads say of the locks, of the   *)
(* imports and of the references                                           *)

\* The elements of a sequence from the k-th one on.
From(q, k) == {q[j] : j \in {j \in DOMAIN q : j >= k}}

\* The imports, when those of Opened are open, and others of Queried are not yet.
Imps(Opened, Queried) ==
  [s \in Components |-> IF s \in Opened THEN "open" ELSE IF s \in Queried THEN "queried" ELSE "none"]

\* References to its client: that of a query.
Own1(t, n) == [c \in Clients |-> IF c = Client(t) THEN n ELSE 0]

\* Between two calls of the API, the state of the program says what a thread holds.
Asked(t) ==
  IF t = "main" THEN at \in {"service", "start", "wait", "application", "launch", "finish"}
  ELSE work[t].at \in {"test", "run", "await", "unimport"}

MainQueried ==
  CASE at = "service" -> From(TheServices, i)
    [] at \in {"start", "wait"} -> From(TheServices, i + 1)
    [] at \in {"application", "finish"} -> From(TheApplications, i)
    [] at = "launch" -> From(TheApplications, i + 1)
    [] OTHER -> {}

ServicesOpened ==
  CASE at \in {"stop", "stopped", "drop"} -> From(TheServices, i) \cap handles
    [] at \in {"clean", "done"} -> {}
    [] OTHER -> handles \ {Nobody}

MainOpened ==
  ServicesOpened
    \cup (IF at \in {"launch", "finish", "exec", "run", "leave"} THEN {started} \ {Nobody} ELSE {})

TestsQueried(c) ==
  CASE work[c].at = "test" -> From(Tests, work[c].k)
    [] work[c].at \in {"run", "await", "unimport"} -> From(Tests, work[c].k + 1)
    [] OTHER -> {}

TestsOpened(c) ==
  IF work[c].at \in {"run", "await", "unimport"} THEN {Tests[work[c].k]} ELSE {}

AtRest(t) ==
  Acc([m \in Mutexes |-> 0], Own1(t, IF Asked(t) THEN 1 ELSE 0),
      IF t = "main" THEN Imps(MainOpened, MainQueried) ELSE Imps(TestsOpened(t), TestsQueried(t)))

\* Who refers to a component: the references of threads are numbered from 1 on,
\* the imports, and the reference of the program to itself, are 0.
Holders(G, c) ==
  {h \in Threads \X Nat :
     \/ h[2] \in 1 .. G[h[1]].refs[c]
     \/ h[2] = 0 /\ c \in Components /\ G[h[1]].imp[c] # "none"
     \/ h[2] = 0 /\ h[1] = "main" /\ c = Anonymous}

Shown(v) == IF v = "ready" THEN "queried" ELSE v

LocksKept(G) ==
  /\ owner \in [Mutexes -> Threads \cup {Nobody}] /\ depth \in [Mutexes -> Nat]
  /\ \A m \in Mutexes : (owner[m] = Nobody) = (depth[m] = 0)
  /\ \A t \in Threads, m \in Mutexes : G[t].held[m] = IF owner[m] = t THEN depth[m] ELSE 0

ImportsKept(G) ==
  /\ imports \in [Clients \X Components -> {"none", "queried", "open"}]
  /\ \A t \in Threads, s \in Components : imports[<<Client(t), s>>] = Shown(G[t].imp[s])

RefsKept(G) ==
  /\ refs \in [Clients -> Nat]
  /\ \A c \in Clients : IsFiniteSet(Holders(G, c)) /\ Cardinality(Holders(G, c)) = refs[c]

TodoKept(G) ==
  \A t \in Threads : Covered(t, G[t]) /\ Leads(t, todo[t], G[t], AtRest(t))

Ledger(G) ==
  G \in [Threads -> Account] /\ TodoKept(G) /\ LocksKept(G) /\ ImportsKept(G) /\ RefsKept(G)

\* The state of a component, and that of one that is being destroyed.
Stated(G, c) ==
  /\ cstate[c] = "up" => Alive(c) /\ quit[c] = "no"
  /\ cstate[c] = "null" => ~Alive(c)
  /\ cstate[c] = "unloading" \/ (cstate[c] = "up" /\ refs[c] = 0) =>
       \E t \in Threads : G[t].dying = c
  /\ \A t \in Threads : G[t].imp[c] \in {"ready", "open"} => cstate[c] = "up"

DyingOK(c, stage) ==
  /\ refs[c] = 0
  /\ stage = "destroy" <=> cstate[c] # "unloading"
  /\ stage = "quit" => Alive(c) /\ quit[c] = "no"
  /\ stage = "post" => quit[c] = "set"

Lives(G) ==
  /\ cstate \in [Clients -> {"null", "up", "unloading"}]
  /\ \A c \in Components : Stated(G, c)
  /\ \A t \in Threads : G[t].dying # Nobody => DyingOK(G[t].dying, G[t].stage)

Becoming(G, t, b) == [G EXCEPT ![t] = b]

LEMMA BecomingAt ==
  ASSUME NEW G \in [Threads -> Account], NEW t \in Threads, NEW b \in Account
  PROVE  /\ Becoming(G, t, b) \in [Threads -> Account] /\ Becoming(G, t, b)[t] = b
         /\ \A u \in Threads : u # t => Becoming(G, t, b)[u] = G[u]
BY DEF Becoming

-----------------------------------------------------------------------------
(* Holders of references *)

LEMMA HolderIn ==
  ASSUME NEW G, NEW c, NEW u \in Threads, NEW k \in Nat
  PROVE  <<u, k>> \in Holders(G, c) <=>
           \/ k \in 1 .. G[u].refs[c]
           \/ k = 0 /\ c \in Components /\ G[u].imp[c] # "none"
           \/ k = 0 /\ u = "main" /\ c = Anonymous
BY DEF Holders

\* A thread with one more reference, in B.
LEMMA HolderMore ==
  ASSUME NEW t \in Threads, NEW c \in Clients, NEW A \in [Threads -> Account],
         NEW B \in [Threads -> Account], \A u \in Threads : u # t => B[u] = A[u],
         B[t].refs[c] = A[t].refs[c] + 1,
         c \in Components => (B[t].imp[c] = "none" <=> A[t].imp[c] = "none")
  PROVE  \E x : Holders(B, c) = Holders(A, c) \cup {x} /\ x \notin Holders(A, c)
<1> DEFINE n == A[t].refs[c]
           x == <<t, n + 1>>
<1>1. n \in Nat /\ B[t].refs[c] = n + 1
  BY DEF Account
<1>2. ASSUME NEW u \in Threads, NEW k \in Nat
      PROVE  <<u, k>> \in Holders(B, c) <=> <<u, k>> \in Holders(A, c) \cup {x}
  <2>1. CASE u # t
    BY <2>1, HolderIn
  <2>2. CASE u = t
    <3>1. k \in 1 .. n + 1 <=> k \in 1 .. n \/ k = n + 1
      BY <1>1
    <3>2. <<u, k>> = x <=> k = n + 1
      BY <2>2
    <3> HIDE DEF x
    <3> QED BY <1>1, <2>2, <3>1, <3>2, HolderIn
  <2> QED BY <2>1, <2>2
<1>3. x \notin Holders(A, c)
  BY <1>1, HolderIn
<1>4. n + 1 \in Nat
  BY <1>1
<1> HIDE DEF n
<1>5. Holders(B, c) \subseteq Threads \X Nat /\ Holders(A, c) \cup {x} \subseteq Threads \X Nat
  BY <1>4 DEF Holders
<1> HIDE DEF x
<1>6. Holders(B, c) = Holders(A, c) \cup {x}
  BY <1>2, <1>5
<1> QED
  BY <1>3, <1>6

\* A reference that becomes an import.
LEMMA HolderSwap ==
  ASSUME NEW t \in Threads, NEW c \in Components, NEW A \in [Threads -> Account],
         NEW B \in [Threads -> Account], \A u \in Threads : u # t => B[u] = A[u],
         A[t].refs[c] = B[t].refs[c] + 1, A[t].imp[c] = "none", B[t].imp[c] # "none"
  PROVE  \E x, y : /\ Holders(B, c) = (Holders(A, c) \ {x}) \cup {y}
                   /\ Holders(A, c) = (Holders(B, c) \ {y}) \cup {x}
                   /\ x \in Holders(A, c) /\ y \notin Holders(A, c)
                   /\ y \in Holders(B, c) /\ x \notin Holders(B, c)
<1> DEFINE n == B[t].refs[c]
           x == <<t, n + 1>>
           y == <<t, 0>>
<1>1. n \in Nat /\ A[t].refs[c] = n + 1 /\ c \in Clients /\ c # Anonymous
  BY Constants DEF Account
<1>2. ASSUME NEW u \in Threads, NEW k \in Nat
      PROVE  /\ <<u, k>> \in Holders(B, c) <=> <<u, k>> \in (Holders(A, c) \ {x}) \cup {y}
             /\ <<u, k>> \in Holders(A, c) <=> <<u, k>> \in (Holders(B, c) \ {y}) \cup {x}
  <2>1. CASE u # t
    <3>1. B[u] = A[u] /\ <<u, k>> # x /\ <<u, k>> # y
      BY <2>1
    <3>2. B[u].refs[c] = A[u].refs[c] /\ B[u].imp[c] = A[u].imp[c]
      BY <3>1
    <3> HIDE DEF x, y
    <3>3. <<u, k>> \in Holders(B, c) <=> <<u, k>> \in Holders(A, c)
      BY <3>2, HolderIn
    <3> QED BY <3>1, <3>3
  <2>2. CASE u = t
    <3>1. k \in 1 .. n + 1 <=> k \in 1 .. n \/ k = n + 1
      BY <1>1
    <3>2. (<<u, k>> = x <=> k = n + 1) /\ (<<u, k>> = y <=> k = 0)
      BY <2>2
    <3>3. <<u, k>> \in Holders(A, c) <=> k \in 1 .. n + 1
      BY <1>1, <2>2, HolderIn
    <3>4. <<u, k>> \in Holders(B, c) <=> k \in 1 .. n \/ k = 0
      BY <1>1, <2>2, HolderIn
    <3>5. n + 1 \notin 1 .. n /\ n + 1 # 0 /\ 0 \notin 1 .. n + 1
      BY <1>1
    <3> HIDE DEF x, y
    <3> QED BY <3>1, <3>2, <3>3, <3>4, <3>5
  <2> QED BY <2>1, <2>2
<1>3. n + 1 \in Nat /\ 0 \in Nat
  BY <1>1
<1>4. x \in Holders(A, c) /\ y \notin Holders(A, c) /\ y \in Holders(B, c) /\ x \notin Holders(B, c)
  <2>1. n + 1 \in 1 .. n + 1 /\ n + 1 \notin 1 .. n /\ n + 1 # 0 /\ 0 \notin 1 .. n + 1
    BY <1>1
  <2> QED BY <1>1, <1>3, <2>1, HolderIn
<1> HIDE DEF n
<1>5. Holders(B, c) \subseteq Threads \X Nat /\ Holders(A, c) \subseteq Threads \X Nat
  BY DEF Holders
<1>6. x \in Threads \X Nat /\ y \in Threads \X Nat
  BY <1>3
<1>7. \A h \in Threads \X Nat : \E u \in Threads, k \in Nat : h = <<u, k>>
  OBVIOUS
<1> HIDE DEF x, y
<1>8. Holders(B, c) = (Holders(A, c) \ {x}) \cup {y} /\ Holders(A, c) = (Holders(B, c) \ {y}) \cup {x}
  BY <1>2, <1>5, <1>6, <1>7
<1> QED
  BY <1>4, <1>8

LEMMA HolderSame ==
  ASSUME NEW t \in Threads, NEW c \in Clients, NEW A \in [Threads -> Account],
         NEW B \in [Threads -> Account], \A u \in Threads : u # t => B[u] = A[u],
         B[t].refs[c] = A[t].refs[c],
         c \in Components => (B[t].imp[c] = "none" <=> A[t].imp[c] = "none")
  PROVE  Holders(B, c) = Holders(A, c)
<1>1. ASSUME NEW u \in Threads, NEW k \in Nat
      PROVE  <<u, k>> \in Holders(B, c) <=> <<u, k>> \in Holders(A, c)
  <2>1. B[u].refs[c] = A[u].refs[c]
    BY <1>1
  <2>2. c \in Components => (B[u].imp[c] = "none" <=> A[u].imp[c] = "none")
    BY <1>1
  <2> QED BY <2>1, <2>2, HolderIn
<1>2. Holders(B, c) \subseteq Threads \X Nat /\ Holders(A, c) \subseteq Threads \X Nat
  BY DEF Holders
<1>3. \A h \in Threads \X Nat : \E u \in Threads, k \in Nat : h = <<u, k>>
  OBVIOUS
<1> QED
  BY <1>1, <1>2, <1>3

\* What changes the references.
LEMMA RefsSame ==
  ASSUME NEW G \in [Threads -> Account], NEW t \in Threads, NEW b \in Account, RefsKept(G),
         refs' = refs, b.refs = G[t].refs,
         \A s \in Components : b.imp[s] = "none" <=> G[t].imp[s] = "none"
  PROVE  RefsKept(Becoming(G, t, b))'
<1> DEFINE H == Becoming(G, t, b)
<1>1. /\ H \in [Threads -> Account] /\ H[t] = b
      /\ \A u \in Threads : u # t => H[u] = G[u]
  BY BecomingAt
<1> HIDE DEF H
<1>2. \A c \in Clients : Holders(H, c) = Holders(G, c)
  BY <1>1, HolderSame
<1> QED
  BY <1>2 DEF RefsKept, H

LEMMA RefsUp ==
  ASSUME NEW G \in [Threads -> Account], NEW t \in Threads, NEW b \in Account, RefsKept(G),
         NEW c \in Clients, refs' = [refs EXCEPT ![c] = @ + 1],
         b.refs = [G[t].refs EXCEPT ![c] = @ + 1], b.imp = G[t].imp
  PROVE  RefsKept(Becoming(G, t, b))'
<1> DEFINE H == Becoming(G, t, b)
<1>1. /\ H \in [Threads -> Account] /\ H[t] = b
      /\ \A u \in Threads : u # t => H[u] = G[u]
  BY BecomingAt
<1>2. G[t].refs \in [Clients -> Nat] /\ refs \in [Clients -> Nat]
  BY DEF Account, RefsKept
<1> HIDE DEF H
<1>3. ASSUME NEW d \in Clients
      PROVE  IsFiniteSet(Holders(H, d)) /\ Cardinality(Holders(H, d)) = refs'[d]
  <2>1. IsFiniteSet(Holders(G, d)) /\ Cardinality(Holders(G, d)) = refs[d]
    BY DEF RefsKept
  <2>2. CASE d # c
    <3>1. H[t].refs[d] = G[t].refs[d] /\ H[t].imp = G[t].imp /\ refs'[d] = refs[d]
      BY <1>1, <1>2, <2>2
    <3> QED BY <1>1, <2>1, <3>1, HolderSame
  <2>3. CASE d = c
    <3>1. /\ H[t].refs[d] = G[t].refs[d] + 1 /\ H[t].imp = G[t].imp
          /\ refs'[d] = refs[d] + 1
      BY <1>1, <1>2, <2>3
    <3>2. PICK x : Holders(H, d) = Holders(G, d) \cup {x} /\ x \notin Holders(G, d)
      BY <1>1, <3>1, HolderMore
    <3> QED BY <2>1, <3>1, <3>2, FS_AddElement
  <2> QED BY <2>2, <2>3
<1>4. refs' \in [Clients -> Nat]
  BY <1>2
<1> QED
  BY <1>3, <1>4 DEF RefsKept, H

LEMMA RefsDown ==
  ASSUME NEW G \in [Threads -> Account], NEW t \in Threads, NEW b \in Account, RefsKept(G),
         NEW c \in Clients, refs' = [refs EXCEPT ![c] = @ - 1], G[t].refs[c] > 0,
         b.refs = [G[t].refs EXCEPT ![c] = @ - 1], b.imp = G[t].imp
  PROVE  RefsKept(Becoming(G, t, b))'
<1> DEFINE H == Becoming(G, t, b)
<1>1. /\ H \in [Threads -> Account] /\ H[t] = b
      /\ \A u \in Threads : u # t => H[u] = G[u]
  BY BecomingAt
<1>2. G[t].refs \in [Clients -> Nat] /\ refs \in [Clients -> Nat]
  BY DEF Account, RefsKept
<1> HIDE DEF H
<1>3. ASSUME NEW d \in Clients
      PROVE  IsFiniteSet(Holders(H, d)) /\ Cardinality(Holders(H, d)) = refs'[d] /\ refs'[d] \in Nat
  <2>1. IsFiniteSet(Holders(G, d)) /\ Cardinality(Holders(G, d)) = refs[d] /\ refs[d] \in Nat
    BY <1>2 DEF RefsKept
  <2>2. CASE d # c
    <3>1. H[t].refs[d] = G[t].refs[d] /\ H[t].imp = G[t].imp /\ refs'[d] = refs[d]
      BY <1>1, <1>2, <2>2
    <3> QED BY <1>1, <2>1, <3>1, HolderSame
  <2>3. CASE d = c
    <3>1. /\ G[t].refs[d] = H[t].refs[d] + 1 /\ H[t].imp = G[t].imp
          /\ refs'[d] = refs[d] - 1
      BY <1>1, <1>2, <2>3
    <3>2. PICK x : Holders(G, d) = Holders(H, d) \cup {x} /\ x \notin Holders(H, d)
      BY <1>1, <3>1, HolderMore
    <3>3. Holders(H, d) \subseteq Holders(G, d)
      BY <3>2
    <3>4. IsFiniteSet(Holders(H, d))
      BY <2>1, <3>3, FS_Subset
    <3>5. Cardinality(Holders(G, d)) = Cardinality(Holders(H, d)) + 1
      BY <3>2, <3>4, FS_AddElement
    <3>6. Cardinality(Holders(H, d)) \in Nat
      BY <3>4, FS_CardinalityType
    <3> QED BY <2>1, <3>1, <3>4, <3>5, <3>6
  <2> QED BY <2>2, <2>3
<1>4. refs' \in [Clients -> Nat]
  BY <1>2, <1>3
<1> QED
  BY <1>3, <1>4 DEF RefsKept, H

\* One more element in place of another one.
LEMMA CardinalitySwap ==
  ASSUME NEW S, IsFiniteSet(S), NEW x \in S, NEW y, y \notin S
  PROVE  IsFiniteSet((S \ {x}) \cup {y}) /\ Cardinality((S \ {x}) \cup {y}) = Cardinality(S)
<1>1. /\ IsFiniteSet(S \ {x}) /\ Cardinality(S \ {x}) = Cardinality(S) - 1
      /\ Cardinality(S) \in Nat /\ Cardinality(S \ {x}) \in Nat
  BY FS_RemoveElement, FS_CardinalityType
<1>2. y \notin S \ {x}
  OBVIOUS
<1>3. /\ IsFiniteSet((S \ {x}) \cup {y})
      /\ Cardinality((S \ {x}) \cup {y}) = Cardinality(S \ {x}) + 1
  BY <1>1, <1>2, FS_AddElement
<1> QED
  BY <1>1, <1>3

LEMMA RefsSwap ==
  ASSUME NEW G \in [Threads -> Account], NEW t \in Threads, NEW b \in Account, RefsKept(G),
         NEW s \in Components, refs' = refs, NEW v \in Statuses, b.imp = [G[t].imp EXCEPT ![s] = v],
         \/ /\ G[t].imp[s] = "none" /\ v # "none" /\ G[t].refs[s] > 0
            /\ b.refs = [G[t].refs EXCEPT ![s] = @ - 1]
         \/ /\ G[t].imp[s] # "none" /\ v = "none"
            /\ b.refs = [G[t].refs EXCEPT ![s] = @ + 1]
  PROVE  RefsKept(Becoming(G, t, b))'
<1> DEFINE H == Becoming(G, t, b)
<1>1. /\ H \in [Threads -> Account] /\ H[t] = b
      /\ \A u \in Threads : u # t => H[u] = G[u]
  BY BecomingAt
<1>2. /\ G[t].refs \in [Clients -> Nat] /\ refs \in [Clients -> Nat] /\ s \in Clients
      /\ G[t].imp \in [Components -> Statuses]
  BY Constants DEF Account, RefsKept
<1> HIDE DEF H
<1>3. ASSUME NEW d \in Clients
      PROVE  IsFiniteSet(Holders(H, d)) /\ Cardinality(Holders(H, d)) = refs'[d]
  <2>1. IsFiniteSet(Holders(G, d)) /\ Cardinality(Holders(G, d)) = refs[d]
    BY DEF RefsKept
  <2>2. CASE d # s
    <3>1. /\ H[t].refs[d] = G[t].refs[d]
          /\ d \in Components => H[t].imp[d] = G[t].imp[d]
      BY <1>1, <1>2, <2>2
    <3> QED BY <1>1, <2>1, <3>1, HolderSame
  <2>3. CASE d = s
    <3>1. H[t].imp[s] = v
      BY <1>1, <1>2
    <3>2. CASE G[t].imp[s] = "none" /\ v # "none" /\ G[t].refs[s] > 0
               /\ b.refs = [G[t].refs EXCEPT ![s] = @ - 1]
      <4>1. G[t].refs[s] = H[t].refs[s] + 1
        BY <1>1, <1>2, <3>2
      <4>2. PICK x, y : /\ Holders(H, s) = (Holders(G, s) \ {x}) \cup {y}
                        /\ x \in Holders(G, s) /\ y \notin Holders(G, s)
        BY <1>1, <3>1, <3>2, <4>1, HolderSwap
      <4> QED BY <2>1, <2>3, <4>2, CardinalitySwap
    <3>3. CASE G[t].imp[s] # "none" /\ v = "none"
               /\ b.refs = [G[t].refs EXCEPT ![s] = @ + 1]
      <4>1. /\ H[t].refs[s] = G[t].refs[s] + 1 /\ H[t].imp[s] = "none" /\ G[t].imp[s] # "none"
            /\ \A u \in Threads : u # t => G[u] = H[u]
        BY <1>1, <1>2, <3>1, <3>3
      <4>2. PICK x, y : /\ Holders(H, s) = (Holders(G, s) \ {y}) \cup {x}
                        /\ y \in Holders(G, s) /\ x \notin Holders(G, s)
        BY <1>1, <4>1, HolderSwap
      <4> QED BY <2>1, <2>3, <4>2, CardinalitySwap
    <3> QED BY <3>2, <3>3
  <2> QED BY <2>2, <2>3
<1> QED
  BY <1>2, <1>3 DEF RefsKept, H

\* A component that nothing refers to.
LEMMA NoHolders ==
  ASSUME NEW G \in [Threads -> Account], RefsKept(G), NEW c \in Components, refs[c] = 0
  PROVE  \A u \in Threads : G[u].refs[c] = 0 /\ G[u].imp[c] = "none"
<1>1. c \in Clients /\ IsFiniteSet(Holders(G, c)) /\ Cardinality(Holders(G, c)) = 0
  BY Constants DEF RefsKept
<1>2. Holders(G, c) = {}
  BY <1>1, FS_EmptySet
<1>3. ASSUME NEW u \in Threads
      PROVE  G[u].refs[c] = 0 /\ G[u].imp[c] = "none"
  <2>1. G[u].refs[c] \in Nat
    BY <1>1 DEF Account
  <2>2. <<u, 1>> \notin Holders(G, c) /\ <<u, 0>> \notin Holders(G, c)
    BY <1>2
  <2>3. 1 \notin 1 .. G[u].refs[c] /\ G[u].imp[c] = "none"
    BY <2>2, HolderIn
  <2> QED BY <2>1, <2>3
<1> QED
  BY <1>3

\* The program refers to itself.
LEMMA ProgramHeld ==
  ASSUME NEW G \in [Threads -> Account], RefsKept(G), NEW t \in Threads, G[t].refs[Anonymous] > 0
  PROVE  refs[Anonymous] # 1
<1> DEFINE H == Holders(G, Anonymous)
<1>1. /\ Anonymous \in Clients /\ "main" \in Threads /\ IsFiniteSet(H)
      /\ Cardinality(H) = refs[Anonymous] /\ G[t].refs[Anonymous] \in Nat
  BY Constants DEF RefsKept, Account
<1>2. <<"main", 0>> \in H /\ <<t, 1>> \in H
  <2>1. 1 \in 1 .. G[t].refs[Anonymous]
    BY <1>1
  <2> QED BY <1>1, <2>1, HolderIn
<1>3. ASSUME Cardinality(H) = 1
      PROVE  FALSE
  <2> HIDE DEF H
  <2>1. \E x : H = {x}
    BY <1>1, <1>3, FS_Singleton
  <2> QED BY <1>2, <2>1
<1> QED
  BY <1>1, <1>3

-----------------------------------------------------------------------------
(* Locks and imports *)

LEMMA LocksSame ==
  ASSUME NEW G \in [Threads -> Account], NEW t \in Threads, NEW b \in Account, LocksKept(G),
         owner' = owner, depth' = depth, b.held = G[t].held
  PROVE  LocksKept(Becoming(G, t, b))'
<1> DEFINE H == Becoming(G, t, b)
<1>1. H[t] = b /\ \A u \in Threads : u # t => H[u] = G[u]
  BY BecomingAt
<1> HIDE DEF H
<1>2. \A u \in Threads : H[u].held = G[u].held
  BY <1>1
<1> QED
  BY <1>2 DEF LocksKept, H

LEMMA LocksMore ==
  ASSUME NEW G \in [Threads -> Account], NEW t \in Threads, NEW b \in Account, LocksKept(G),
         NEW m \in Mutexes, Free(t, m), owner' = [owner EXCEPT ![m] = t],
         depth' = [depth EXCEPT ![m] = @ + 1], b.held = [G[t].held EXCEPT ![m] = @ + 1]
  PROVE  LocksKept(Becoming(G, t, b))'
<1> DEFINE H == Becoming(G, t, b)
<1>1. H[t] = b /\ \A u \in Threads : u # t => H[u] = G[u]
  BY BecomingAt
<1> HIDE DEF H
<1>2. /\ owner \in [Mutexes -> Threads \cup {Nobody}] /\ depth \in [Mutexes -> Nat]
      /\ G[t].held \in [Mutexes -> Nat] /\ Nobody \notin Threads
      /\ \A x \in Mutexes : (owner[x] = Nobody) = (depth[x] = 0)
      /\ \A u \in Threads, x \in Mutexes : G[u].held[x] = IF owner[x] = u THEN depth[x] ELSE 0
  BY SpawnAssumption DEF LocksKept, Account, Threads
<1>3. owner' \in [Mutexes -> Threads \cup {Nobody}] /\ depth' \in [Mutexes -> Nat]
  BY <1>2
<1>4. \A x \in Mutexes : (owner'[x] = Nobody) = (depth'[x] = 0)
  BY <1>2
<1>5. ASSUME NEW u \in Threads, NEW x \in Mutexes
      PROVE  H[u].held[x] = IF owner'[x] = u THEN depth'[x] ELSE 0
  <2>1. G[u].held[x] = IF owner[x] = u THEN depth[x] ELSE 0
    BY <1>2
  <2>2. CASE x # m
    <3>1. owner'[x] = owner[x] /\ depth'[x] = depth[x] /\ H[u].held[x] = G[u].held[x]
      BY <1>1, <1>2, <2>2
    <3> QED BY <2>1, <3>1
  <2>3. CASE x = m
    <3>1. owner'[x] = t /\ depth'[x] = depth[x] + 1 /\ owner[x] \in {Nobody, t}
      BY <1>2, <2>3 DEF Free
    <3>2. CASE u = t
      <4>1. H[u].held[x] = G[u].held[x] + 1
        BY <1>1, <1>2, <2>3, <3>2
      <4>2. G[u].held[x] = depth[x]
        BY <1>2, <2>1, <2>3, <3>1, <3>2
      <4> QED BY <3>1, <3>2, <4>1, <4>2
    <3>3. CASE u # t
      <4>1. H[u].held[x] = G[u].held[x] /\ owner[x] # u
        BY <1>1, <1>2, <3>1, <3>3
      <4> QED BY <2>1, <3>1, <3>3, <4>1
    <3> QED BY <3>2, <3>3
  <2> QED BY <2>2, <2>3
<1> QED
  BY <1>3, <1>4, <1>5 DEF LocksKept, H

\* A mutex that a thread unlocks is its own.
LEMMA LocksFewer ==
  ASSUME NEW G \in [Threads -> Account], NEW t \in Threads, NEW b \in Account, LocksKept(G),
         NEW m \in Mutexes, G[t].held[m] > 0, depth' = [depth EXCEPT ![m] = @ - 1],
         owner' = [owner EXCEPT ![m] = IF depth[m] = 1 THEN Nobody ELSE @],
         b.held = [G[t].held EXCEPT ![m] = @ - 1]
  PROVE  LocksKept(Becoming(G, t, b))'
<1> DEFINE H == Becoming(G, t, b)
<1>1. H[t] = b /\ \A u \in Threads : u # t => H[u] = G[u]
  BY BecomingAt
<1> HIDE DEF H
<1>2. /\ owner \in [Mutexes -> Threads \cup {Nobody}] /\ depth \in [Mutexes -> Nat]
      /\ G[t].held \in [Mutexes -> Nat] /\ Nobody \notin Threads
      /\ \A x \in Mutexes : (owner[x] = Nobody) = (depth[x] = 0)
      /\ \A u \in Threads, x \in Mutexes : G[u].held[x] = IF owner[x] = u THEN depth[x] ELSE 0
  BY SpawnAssumption DEF LocksKept, Account, Threads
<1>3. owner[m] = t /\ depth[m] = G[t].held[m] /\ depth[m] \in Nat \ {0}
  BY <1>2
<1>4. owner' \in [Mutexes -> Threads \cup {Nobody}] /\ depth' \in [Mutexes -> Nat]
  <2>1. depth[m] - 1 \in Nat
    BY <1>3
  <2> QED BY <1>2, <2>1
<1>5. \A x \in Mutexes : (owner'[x] = Nobody) = (depth'[x] = 0)
  <2> SUFFICES ASSUME NEW x \in Mutexes PROVE (owner'[x] = Nobody) = (depth'[x] = 0)
    OBVIOUS
  <2>1. CASE x # m
    BY <1>2, <2>1
  <2>2. CASE x = m
    BY <1>2, <1>3, <2>2
  <2> QED BY <2>1, <2>2
<1>6. ASSUME NEW u \in Threads, NEW x \in Mutexes
      PROVE  H[u].held[x] = IF owner'[x] = u THEN depth'[x] ELSE 0
  <2>1. G[u].held[x] = IF owner[x] = u THEN depth[x] ELSE 0
    BY <1>2
  <2>2. CASE x # m
    <3>1. owner'[x] = owner[x] /\ depth'[x] = depth[x] /\ H[u].held[x] = G[u].held[x]
      BY <1>1, <1>2, <2>2
    <3> QED BY <2>1, <3>1
  <2>3. CASE x = m
    <3>1. depth'[x] = depth[x] - 1 /\ owner'[x] = IF depth[x] = 1 THEN Nobody ELSE t
      BY <1>2, <1>3, <2>3
    <3>2. CASE u = t
      <4>1. H[u].held[x] = depth[x] - 1
        BY <1>1, <1>2, <1>3, <2>3, <3>2
      <4> QED BY <1>2, <1>3, <2>3, <3>1, <3>2, <4>1
    <3>3. CASE u # t
      <4>1. H[u].held[x] = G[u].held[x] /\ owner[x] # u /\ owner'[x] # u
        BY <1>1, <1>2, <1>3, <2>3, <3>1, <3>3
      <4> QED BY <2>1, <4>1
    <3> QED BY <3>2, <3>3
  <2> QED BY <2>2, <2>3
<1> QED
  BY <1>4, <1>5, <1>6 DEF LocksKept, H

LEMMA ClientOfOne ==
  ASSUME NEW t \in Threads, NEW u \in Threads, Client(t) = Client(u)
  PROVE  t = u
BY Constants DEF Client, Threads

LEMMA ImportsSame ==
  ASSUME NEW G \in [Threads -> Account], NEW t \in Threads, NEW b \in Account, ImportsKept(G),
         imports' = imports, \A s \in Components : Shown(b.imp[s]) = Shown(G[t].imp[s])
  PROVE  ImportsKept(Becoming(G, t, b))'
<1> DEFINE H == Becoming(G, t, b)
<1>1. H[t] = b /\ \A u \in Threads : u # t => H[u] = G[u]
  BY BecomingAt
<1> HIDE DEF H
<1>2. \A u \in Threads, s \in Components : Shown(H[u].imp[s]) = Shown(G[u].imp[s])
  BY <1>1
<1> QED
  BY <1>2 DEF ImportsKept, H

LEMMA ImportsSet ==
  ASSUME NEW G \in [Threads -> Account], NEW t \in Threads, NEW b \in Account, ImportsKept(G),
         NEW s \in Components, NEW v \in {"none", "queried", "open"},
         imports' = [imports EXCEPT ![<<Client(t), s>>] = v], b.imp = [G[t].imp EXCEPT ![s] = v]
  PROVE  ImportsKept(Becoming(G, t, b))'
<1> DEFINE H == Becoming(G, t, b)
           p == <<Client(t), s>>
<1>1. H[t] = b /\ \A u \in Threads : u # t => H[u] = G[u]
  BY BecomingAt
<1> HIDE DEF H
<1>2. /\ imports \in [Clients \X Components -> {"none", "queried", "open"}]
      /\ G[t].imp \in [Components -> Statuses] /\ p \in Clients \X Components /\ v = Shown(v)
      /\ \A u \in Threads, x \in Components : imports[<<Client(u), x>>] = Shown(G[u].imp[x])
  BY ClientMutex DEF ImportsKept, Account, Shown
<1>3. ASSUME NEW u \in Threads, NEW x \in Components
      PROVE  imports'[<<Client(u), x>>] = Shown(H[u].imp[x])
  <2>1. <<Client(u), x>> \in Clients \X Components
    BY ClientMutex
  <2>2. CASE u = t /\ x = s
    <3>1. H[u].imp[x] = v
      BY <1>1, <1>2, <2>2
    <3>2. imports'[<<Client(u), x>>] = v
      BY <1>2, <2>2
    <3> QED BY <1>2, <3>1, <3>2
  <2>3. CASE u # t \/ x # s
    <3>1. <<Client(u), x>> # p
      BY <2>3, ClientOfOne
    <3>2. H[u].imp[x] = G[u].imp[x]
      BY <1>1, <1>2, <2>3
    <3>3. imports'[<<Client(u), x>>] = imports[<<Client(u), x>>]
      BY <1>2, <2>1, <3>1
    <3> QED BY <1>2, <3>2, <3>3
  <2> QED BY <2>2, <2>3
<1>4. imports' \in [Clients \X Components -> {"none", "queried", "open"}]
  BY <1>2
<1> QED
  BY <1>3, <1>4 DEF ImportsKept, H

-----------------------------------------------------------------------------
(* The steps that destroy a component *)

Up(a, x) == [held |-> [a.held EXCEPT ![x] = @ + 1], refs |-> a.refs, imp |-> a.imp,
             dying |-> a.dying, stage |-> a.stage]

\* A thread that destroys c.
Dead(a, c, stage) == [held |-> a.held, refs |-> a.refs, imp |-> a.imp, dying |-> c, stage |-> stage]

LEMMA UpOK ==
  ASSUME NEW t, NEW a \in Account, Covered(t, a), NEW x \in Mutexes
  PROVE  /\ Up(a, x) \in Account /\ Covered(t, Up(a, x)) /\ Up(a, x).held[x] > 0
         /\ Effect(t, a, [op |-> "lock", on |-> x], Up(a, x))
         /\ Effect(t, Up(a, x), [op |-> "unlock", on |-> x], a)
<1> DEFINE g == [a.held EXCEPT ![x] = @ + 1]
<1>1. a.held \in [Mutexes -> Nat] /\ "component" \in Mutexes
  BY DEF Account, Mutexes
<1>2. g \in [Mutexes -> Nat] /\ g[x] > 0 /\ a.held = [g EXCEPT ![x] = @ - 1]
  BY <1>1, UpDown
<1>3. a.held["component"] > 0 => g["component"] > 0
  BY <1>1
<1>4. Up(a, x) = [held |-> g, refs |-> a.refs, imp |-> a.imp, dying |-> a.dying, stage |-> a.stage]
  BY DEF Up
<1> HIDE DEF g
<1>5. Up(a, x) \in Account
  BY <1>2, <1>4 DEF Account
<1>6. Covered(t, Up(a, x))
  BY <1>3, <1>4 DEF Covered
<1>7. LockEffect(a, [op |-> "lock", on |-> x], Up(a, x))
  BY <1>4 DEF LockEffect, SameRefs, SameDying, g
<1>8. LockEffect(Up(a, x), [op |-> "unlock", on |-> x], a)
  BY <1>2, <1>4 DEF LockEffect, SameRefs, SameDying
<1> QED
  BY <1>2, <1>4, <1>5, <1>6, <1>7, <1>8 DEF Effect

LEMMA DeadOK ==
  ASSUME NEW t, NEW a \in Account, Covered(t, a), a.dying = Nobody, a.held["component"] > 0,
         NEW c \in Components, NEW stage \in {"destroy", "quit", "post", "join"}
  PROVE  /\ Dead(a, c, stage) \in Account /\ Covered(t, Dead(a, c, stage))
         /\ Effect(t, Dead(a, c, stage), [op |-> stage, on |-> c], a)
<1>1. a.stage = "none" /\ c # Nobody
  BY Constants DEF Covered
<1>2. Dead(a, c, stage) \in Account
  BY DEF Dead, Account, Stages
<1>3. Covered(t, Dead(a, c, stage))
  BY <1>1 DEF Covered, Dead
<1>4. Ends(Dead(a, c, stage), [op |-> stage, on |-> c], a)
  BY <1>1 DEF Ends, Dead, SameRefs, SameLocks
<1> QED
  BY <1>2, <1>3, <1>4 DEF Effect

LEMMA LeadsHolding ==
  ASSUME NEW t, NEW S, NEW q \in Seq(S), NEW x \in Mutexes, NEW a \in Account, NEW b \in Account,
         Covered(t, a), Covered(t, b), Leads(t, q, Up(a, x), Up(b, x))
  PROVE  /\ Leads(t, Holding(x, q), a, b)
         /\ \E T : Holding(x, q) \in Seq(T)
<1> DEFINE l == [op |-> "lock", on |-> x]
           u == [op |-> "unlock", on |-> x]
           T == {l} \cup S
<1>1. Do("lock", x) \in Seq({l}) /\ Do("unlock", x) \in Seq({u})
  BY DoSeq
<1>2. Do("lock", x) \in Seq(T) /\ q \in Seq(T) /\ Do("lock", x) \o q \in Seq(T)
  BY <1>1, OnSeq
<1>3. /\ Do("lock", x) \o q \in Seq(T \cup {u}) /\ Do("unlock", x) \in Seq(T \cup {u})
      /\ Do("lock", x) \o q \o Do("unlock", x) \in Seq(T \cup {u})
  BY <1>1, <1>2, OnSeq
<1>4. Leads(t, Do("lock", x), a, Up(a, x)) /\ Leads(t, Do("unlock", x), Up(b, x), b)
  BY UpOK, LeadsOne
<1>5. Leads(t, Do("lock", x) \o q, a, Up(b, x))
  BY <1>2, <1>4, LeadsOn
<1>6. Leads(t, Do("lock", x) \o q \o Do("unlock", x), a, b)
  BY <1>3, <1>4, <1>5, LeadsOn
<1> QED
  BY <1>3, <1>6 DEF Holding

\* component_destroy, after the last reference was dropped, ...
LEMMA LeadsDestroy ==
  ASSUME NEW t, NEW a \in Account, Covered(t, a), a.dying = Nobody, NEW c \in Components
  PROVE  LET b == Dead(Up(a, "component"), c, "destroy")
             q == Holding(c, Do("destroy", c)) \o Do("unlock", "component")
         IN  b \in Account /\ Covered(t, b) /\ Leads(t, q, b, a) /\ \E S : q \in Seq(S)
<1> DEFINE u == Up(a, "component")
           b == Dead(u, c, "destroy")
<1>1. /\ "component" \in Mutexes /\ c \in Mutexes
  BY Constants DEF Mutexes
<1>2. /\ u \in Account /\ Covered(t, u) /\ u.held["component"] > 0 /\ u.dying = Nobody
      /\ Leads(t, Do("unlock", "component"), u, a)
  BY <1>1, UpOK, LeadsOne DEF Up
<1>3. b \in Account /\ Covered(t, b)
  <2> HIDE DEF u
  <2> QED BY <1>2, DeadOK
<1>4. Up(u, c) \in Account /\ Covered(t, Up(u, c)) /\ Up(u, c).dying = Nobody
      /\ Up(u, c).held["component"] > 0
  <2>1. Up(u, c) \in Account /\ Covered(t, Up(u, c))
    BY <1>1, <1>2, UpOK
  <2>2. u.held \in [Mutexes -> Nat]
    BY <1>2 DEF Account
  <2> HIDE DEF u
  <2> QED BY <1>1, <1>2, <2>1, <2>2 DEF Up
<1>5. Up(b, c) = Dead(Up(u, c), c, "destroy")
  BY DEF Up, Dead
<1> HIDE DEF u, b
<1>6. Leads(t, Do("destroy", c), Up(b, c), Up(u, c))
  BY <1>4, <1>5, DeadOK, LeadsOne
<1>7. Do("destroy", c) \in Seq({[op |-> "destroy", on |-> c]})
  BY DoSeq
<1>8. /\ Leads(t, Holding(c, Do("destroy", c)), b, u)
      /\ \E T : Holding(c, Do("destroy", c)) \in Seq(T)
  BY <1>1, <1>2, <1>3, <1>6, <1>7, LeadsHolding
<1>9. PICK T : Holding(c, Do("destroy", c)) \in Seq(T)
  BY <1>8
<1>10. Do("unlock", "component") \in Seq({[op |-> "unlock", on |-> "component"]})
  BY DoSeq
<1> DEFINE V == T \cup {[op |-> "unlock", on |-> "component"]}
           q == Holding(c, Do("destroy", c)) \o Do("unlock", "component")
<1>11. Holding(c, Do("destroy", c)) \in Seq(V) /\ Do("unlock", "component") \in Seq(V) /\ q \in Seq(V)
  BY <1>9, <1>10, OnSeq
<1>12. Leads(t, q, b, a)
  BY <1>2, <1>8, <1>11, LeadsOn
<1> QED
  BY <1>3, <1>11, <1>12 DEF b, u

\* ... of a component that has no imports, and its destroy().
LEMMA LeadsQuit ==
  ASSUME NEW t, NEW a \in Account, Covered(t, a), a.dying = Nobody, a.held["component"] > 0,
         NEW c \in Components
  PROVE  LET b == Dead(a, c, "quit")
             q == Holding(c, <<>>) \o Do("quit", c)
         IN  b \in Account /\ Covered(t, b) /\ Leads(t, q, b, a) /\ \E S : q \in Seq(S)
<1> DEFINE b == Dead(a, c, "quit")
<1>1. c \in Mutexes
  BY Constants
<1>2. b \in Account /\ Covered(t, b) /\ Leads(t, Do("quit", c), b, a)
  BY DeadOK, LeadsOne
<1> HIDE DEF b
<1>3. Up(b, c) \in Account
  BY <1>1, <1>2, UpOK
<1>4. Leads(t, <<>>, Up(b, c), Up(b, c))
  BY <1>3, LeadsNowhere
<1>5. <<>> \in Seq({})
  OBVIOUS
<1>6. Leads(t, Holding(c, <<>>), b, b) /\ \E T : Holding(c, <<>>) \in Seq(T)
  BY <1>1, <1>2, <1>4, <1>5, LeadsHolding
<1>7. PICK T : Holding(c, <<>>) \in Seq(T)
  BY <1>6
<1>8. Do("quit", c) \in Seq({[op |-> "quit", on |-> c]})
  BY DoSeq
<1> DEFINE V == T \cup {[op |-> "quit", on |-> c]}
           q == Holding(c, <<>>) \o Do("quit", c)
<1>9. Holding(c, <<>>) \in Seq(V) /\ Do("quit", c) \in Seq(V) /\ q \in Seq(V)
  BY <1>7, <1>8, OnSeq
<1>10. Leads(t, q, b, a)
  BY <1>2, <1>6, <1>9, LeadsOn
<1> QED
  BY <1>2, <1>9, <1>10 DEF b

-----------------------------------------------------------------------------
(* What a step of the library does to the ledger *)

\* A thread that is in a call of the API, and takes a step of it.
InCall(G, t) ==
  /\ ProgramOK /\ Ledger(G) /\ Lives(G) /\ fault = "none"
  /\ t \in Threads /\ todo[t] # <<>>
  /\ \A u \in Threads : AtRest(u)' = AtRest(u)

Kept(G) == Ledger(G) /\ (fault = "none" => Lives(G))

\* The step keeps the ledger, and does to the call queues what QueueNext allows.
Keeps(G, t) ==
  /\ \E b \in Account : Kept(Becoming(G, t, b))'
  /\ QueueNext \/ UNCHANGED queueVars

LEMMA FirstStep ==
  ASSUME NEW G, NEW t, InCall(G, t)
  PROVE  /\ G[t] \in Account /\ Covered(t, G[t])
         /\ Tail(todo[t]) \in Seq(Own(t)) /\ Step(t) \in Own(t)
         /\ \E b \in Account : /\ Effect(t, G[t], Step(t), b)
                               /\ Leads(t, Tail(todo[t]), b, AtRest(t))
<1>1. /\ G[t] \in Account /\ Covered(t, G[t]) /\ Leads(t, todo[t], G[t], AtRest(t))
      /\ TodoOK /\ t \in Threads /\ todo[t] # <<>>
  BY DEF InCall, Ledger, TodoKept, ProgramOK, LibraryOK
<1>2. Tail(todo[t]) \in Seq(Own(t)) /\ Step(t) \in Own(t) /\ todo[t] \in Seq(Own(t))
  BY <1>1, StepOwned DEF TodoOK
<1>3. \E b \in Account : /\ Effect(t, G[t], Head(todo[t]), b)
                         /\ Leads(t, Tail(todo[t]), b, AtRest(t))
  BY <1>1, <1>2, LeadsFirst
<1> QED
  BY <1>1, <1>2, <1>3 DEF Step

LEMMA LedgerNext ==
  ASSUME TodoOK, NEW G, Ledger(G), NEW t \in Threads, NEW q, todo' = [todo EXCEPT ![t] = q],
         NEW b \in Account, Covered(t, b), Leads(t, q, b, AtRest(t)'),
         \A u \in Threads : u # t => AtRest(u)' = AtRest(u),
         LocksKept(Becoming(G, t, b))', ImportsKept(Becoming(G, t, b))',
         RefsKept(Becoming(G, t, b))'
  PROVE  Ledger(Becoming(G, t, b))'
<1> DEFINE H == Becoming(G, t, b)
<1>1. H \in [Threads -> Account] /\ H[t] = b /\ \A u \in Threads : u # t => H[u] = G[u]
  BY BecomingAt DEF Ledger
<1> HIDE DEF H
<1>2. todo'[t] = q /\ \A u \in Threads : u # t => todo'[u] = todo[u]
  BY DEF TodoOK
<1>3. ASSUME NEW u \in Threads
      PROVE  Covered(u, H[u]) /\ Leads(u, todo'[u], H[u], AtRest(u)')
  <2>1. CASE u = t
    BY <1>1, <1>2, <2>1
  <2>2. CASE u # t
    <3>1. Covered(u, G[u]) /\ Leads(u, todo[u], G[u], AtRest(u))
      BY DEF Ledger, TodoKept
    <3>2. H[u] = G[u] /\ todo'[u] = todo[u] /\ AtRest(u)' = AtRest(u)
      BY <1>1, <1>2, <2>2
    <3> QED BY <3>1, <3>2
  <2> QED BY <2>1, <2>2
<1>4. TodoKept(H)'
  BY <1>3 DEF TodoKept
<1> QED
  BY <1>1, <1>4 DEF Ledger, H

LEMMA AdvanceLedger ==
  ASSUME NEW G, NEW t, InCall(G, t), Advance(t), NEW b \in Account, Covered(t, b),
         Leads(t, Tail(todo[t]), b, AtRest(t)), LocksKept(Becoming(G, t, b))',
         ImportsKept(Becoming(G, t, b))', RefsKept(Becoming(G, t, b))'
  PROVE  Ledger(Becoming(G, t, b))'
<1>1. TodoOK /\ Ledger(G) /\ t \in Threads /\ \A u \in Threads : AtRest(u)' = AtRest(u)
  BY DEF InCall, ProgramOK, LibraryOK
<1>2. todo' = [todo EXCEPT ![t] = Tail(todo[t])]
  BY DEF Advance
<1>3. Leads(t, Tail(todo[t]), b, AtRest(t)')
  BY <1>1
<1> QED
  BY <1>1, <1>2, <1>3, LedgerNext

LEMMA InsteadLedger ==
  ASSUME NEW G, NEW t, InCall(G, t), NEW q, NEW S, q \in Seq(S), Instead(t, q), NEW b \in Account,
         Covered(t, b), NEW a, Leads(t, q, b, a), Leads(t, Tail(todo[t]), a, AtRest(t)),
         LocksKept(Becoming(G, t, b))', ImportsKept(Becoming(G, t, b))', RefsKept(Becoming(G, t, b))'
  PROVE  Ledger(Becoming(G, t, b))'
<1>1. TodoOK /\ Ledger(G) /\ t \in Threads /\ \A u \in Threads : AtRest(u)' = AtRest(u)
  BY DEF InCall, ProgramOK, LibraryOK
<1>2. todo' = [todo EXCEPT ![t] = q \o Tail(todo[t])]
  BY DEF Instead
<1>3. Tail(todo[t]) \in Seq(Own(t))
  BY FirstStep
<1>4. q \in Seq(S \cup Own(t)) /\ Tail(todo[t]) \in Seq(S \cup Own(t))
  BY <1>3, OnSeq
<1>5. Leads(t, q \o Tail(todo[t]), b, AtRest(t))
  BY <1>4, LeadsOn
<1>6. Leads(t, q \o Tail(todo[t]), b, AtRest(t)')
  BY <1>1, <1>5
<1> QED
  BY <1>1, <1>2, <1>6, LedgerNext

\* Components are destroyed under the lock of components.
LEMMA OneDies ==
  ASSUME NEW G, Ledger(G), NEW t \in Threads, NEW u \in Threads, u # t, G[u].dying # Nobody
  PROVE  ~Free(t, "component") /\ G[t].dying = Nobody
<1>1. "component" \in Mutexes /\ t # Nobody /\ u # Nobody
  BY SpawnAssumption DEF Mutexes, Threads
<1>2. Covered(t, G[t]) /\ Covered(u, G[u]) /\ LocksKept(G)
  BY DEF Ledger, TodoKept
<1>3. owner["component"] = u
  BY <1>1, <1>2 DEF Covered, LocksKept
<1>4. G[t].dying # Nobody => owner["component"] = t
  BY <1>1, <1>2 DEF Covered, LocksKept
<1> QED
  BY <1>1, <1>3, <1>4 DEF Free

LEMMA DyingTyped ==
  ASSUME NEW G, Ledger(G), NEW u \in Threads
  PROVE  /\ G[u].dying \in Components \cup {Nobody}
         /\ G[u].dying = Nobody <=> G[u].stage = "none"
BY DEF Ledger, TodoKept, Covered, Account

\* A step that does not concern the states of components.
LEMMA LivesKept ==
  ASSUME NEW G, Ledger(G), Lives(G), NEW t \in Threads, NEW b \in Account,
         UNCHANGED <<cstate, quit, thread>>, b.dying = G[t].dying, b.stage = G[t].stage,
         \A s \in Components : b.imp[s] \in {"ready", "open"} => G[t].imp[s] \in {"ready", "open"},
         \/ refs' = refs
         \/ /\ \A u \in Threads : G[u].dying = Nobody
            /\ \A s \in Components : refs'[s] = 0 => refs[s] = 0
  PROVE  Lives(Becoming(G, t, b))'
<1> DEFINE H == Becoming(G, t, b)
<1>1. H[t] = b /\ \A u \in Threads : u # t => H[u] = G[u]
  BY BecomingAt DEF Ledger
<1> HIDE DEF H
<1>2. ASSUME NEW u \in Threads
      PROVE  /\ H[u].dying = G[u].dying /\ H[u].stage = G[u].stage
             /\ \A s \in Components :
                  H[u].imp[s] \in {"ready", "open"} => G[u].imp[s] \in {"ready", "open"}
  BY <1>1
<1>3. ASSUME NEW c \in Components
      PROVE  Stated(H, c)'
  <2>1. Stated(G, c)
    BY DEF Lives
  <2>2. UNCHANGED <<cstate, quit, thread>> /\ (refs'[c] = 0 => refs[c] = 0)
    OBVIOUS
  <2> QED BY <1>2, <2>1, <2>2 DEF Stated, Alive
<1>4. ASSUME NEW u \in Threads, H[u].dying # Nobody
      PROVE  DyingOK(H[u].dying, H[u].stage)'
  <2>1. G[u].dying # Nobody /\ DyingOK(G[u].dying, G[u].stage) /\ refs' = refs
    BY <1>2, <1>4 DEF Lives
  <2>2. DyingOK(G[u].dying, G[u].stage)'
    BY <2>1 DEF DyingOK, Alive
  <2> QED BY <1>2, <2>2
<1>5. cstate' \in [Clients -> {"null", "up", "unloading"}]
  BY DEF Lives
<1> QED
  BY <1>3, <1>4, <1>5 DEF Lives, H

\* The effect of a step, by its kind.
LEMMA EffectOf ==
  ASSUME NEW t, NEW a, NEW x, NEW b, Effect(t, a, x, b)
  PROVE  /\ Covered(t, a) /\ Covered(t, b)
         /\ x.op \in {"lock", "unlock"} => LockEffect(a, x, b)
         /\ x.op \in {"destroy", "quit", "post", "join"} => Ends(a, x, b)
         /\ x.op \in {"pass", "ref", "unref", "new", "add", "open", "close", "free", "init"} =>
              a.dying = Nobody /\ a.stage = "none" /\ SameDying(a, b) /\ SameLocks(a, b)
         /\ x.op = "pass" => SameRefs(a, b)
         /\ x.op \in {"ref", "unref"} => RefEffect(a, x, b)
         /\ x.op \in {"new", "add", "open", "close", "free"} => ImportEffect(t, a, x, b)
         /\ x.op = "init" => InitEffect(a, x, b)
         /\ x.op # "release"
<1>1. Covered(t, a) /\ Covered(t, b)
  BY DEF Effect
<1>2. /\ LockEffect(a, x, b) => x.op \in {"lock", "unlock"}
      /\ RefEffect(a, x, b) => x.op \in {"ref", "unref"}
      /\ ImportEffect(t, a, x, b) => x.op \in {"new", "add", "open", "close", "free"}
      /\ InitEffect(a, x, b) => x.op = "init"
  BY DEF LockEffect, RefEffect, ImportEffect, InitEffect
<1>3. a.dying = Nobody /\ b.dying = Nobody => a.stage = "none" /\ SameDying(a, b)
  BY <1>1 DEF Covered, SameDying
<1> QED
  BY <1>1, <1>2, <1>3 DEF Effect

\* Mutexes
LEMMA KeepsLocks ==
  ASSUME NEW G, NEW t, InCall(G, t), Lock(t) \/ Unlock(t) \/ Pass(t)
  PROVE  Keeps(G, t)
<1>1. PICK b \in Account : /\ Effect(t, G[t], Step(t), b)
                           /\ Leads(t, Tail(todo[t]), b, AtRest(t))
  BY FirstStep
<1> DEFINE H == Becoming(G, t, b)
<1>2. /\ Ledger(G) /\ Lives(G) /\ t \in Threads /\ G \in [Threads -> Account] /\ Step(t) \in Own(t)
      /\ LocksKept(G) /\ ImportsKept(G) /\ RefsKept(G) /\ Covered(t, G[t]) /\ Covered(t, b)
  BY <1>1, FirstStep DEF InCall, Ledger, TodoKept, Effect
<1>3. Advance(t) /\ UNCHANGED <<cstate, refs, imports, fault, queueVars>>
  BY DEF Lock, Unlock, Pass
<1>4. SameRefs(G[t], b) /\ SameDying(G[t], b)
  BY <1>1, EffectOf DEF Lock, Unlock, Pass, LockEffect
<1>5. LocksKept(H)'
  <2>1. CASE Lock(t)
    <3>0. Step(t).op = "lock" /\ LockEffect(G[t], Step(t), b)
      BY <1>1, <2>1, EffectOf DEF Lock
    <3>1. Step(t).on \in Mutexes /\ b.held = [G[t].held EXCEPT ![Step(t).on] = @ + 1]
      BY <1>2, <3>0, StepKinds DEF LockEffect
    <3> QED BY <1>2, <2>1, <3>1, LocksMore DEF Lock
  <2>2. CASE Unlock(t)
    <3>0. Step(t).op = "unlock" /\ LockEffect(G[t], Step(t), b)
      BY <1>1, <2>2, EffectOf DEF Unlock
    <3>1. /\ Step(t).on \in Mutexes /\ b.held = [G[t].held EXCEPT ![Step(t).on] = @ - 1]
          /\ G[t].held[Step(t).on] > 0
      BY <1>2, <3>0, StepKinds DEF LockEffect
    <3> QED BY <1>2, <2>2, <3>1, LocksFewer DEF Unlock
  <2>3. CASE Pass(t)
    <3>1. b.held = G[t].held
      BY <1>1, <2>3, EffectOf DEF Pass, SameLocks
    <3> QED BY <1>2, <2>3, <3>1, LocksSame DEF Pass
  <2> QED BY <2>1, <2>2, <2>3
<1>6. ImportsKept(H)' /\ RefsKept(H)'
  BY <1>2, <1>3, <1>4, ImportsSame, RefsSame DEF SameRefs
<1>7. Ledger(H)'
  BY <1>1, <1>2, <1>3, <1>5, <1>6, AdvanceLedger
<1>8. Lives(H)'
  <2>1. UNCHANGED <<cstate, quit, thread>> /\ refs' = refs
    BY <1>3 DEF queueVars
  <2> QED BY <1>2, <1>4, <2>1, LivesKept DEF SameRefs, SameDying
<1> QED
  BY <1>3, <1>7, <1>8 DEF Keeps, Kept

\* References
LEMMA TouchedClient ==
  ASSUME NEW t \in Threads, NEW x \in Own(t), x.op \in {"ref", "unref"}
  PROVE  x.on \in Clients
BY StepKinds, TouchedMutex

LEMMA NoneDies ==
  ASSUME NEW G, Ledger(G), NEW t \in Threads, G[t].dying = Nobody, Free(t, "component")
  PROVE  \A u \in Threads : G[u].dying = Nobody
BY OneDies

LEMMA MoreRefs ==
  ASSUME NEW G, RefsKept(G), NEW c \in Clients, refs' = [refs EXCEPT ![c] = @ + 1]
  PROVE  \A s \in Components : refs'[s] = 0 => refs[s] = 0
<1>1. \A s \in Components : s \in Clients
  BY Constants
<1> QED
  BY <1>1 DEF RefsKept

LEMMA KeepsRef ==
  ASSUME NEW G, NEW t, InCall(G, t), component_ref(t)
  PROVE  Keeps(G, t)
<1>1. PICK b \in Account : /\ Effect(t, G[t], Step(t), b)
                           /\ Leads(t, Tail(todo[t]), b, AtRest(t))
  BY FirstStep
<1> DEFINE H == Becoming(G, t, b)
           c == Step(t).on
<1>2. /\ Ledger(G) /\ Lives(G) /\ t \in Threads /\ G \in [Threads -> Account] /\ Step(t) \in Own(t)
      /\ LocksKept(G) /\ ImportsKept(G) /\ RefsKept(G)
  BY FirstStep DEF InCall, Ledger
<1>3. /\ Advance(t) /\ UNCHANGED <<owner, depth, cstate, imports, fault, queueVars>>
      /\ Step(t).op = "ref" /\ Free(t, "component") /\ refs' = [refs EXCEPT ![c] = @ + 1]
  BY DEF component_ref
<1>4. /\ Covered(t, b) /\ RefEffect(G[t], Step(t), b) /\ SameDying(G[t], b) /\ SameLocks(G[t], b)
      /\ G[t].dying = Nobody
  BY <1>1, <1>3, EffectOf
<1>5. c \in Clients /\ b.refs = [G[t].refs EXCEPT ![c] = @ + 1] /\ b.imp = G[t].imp
  BY <1>2, <1>3, <1>4, TouchedClient DEF RefEffect
<1> HIDE DEF c
<1>6. RefsKept(H)'
  BY <1>2, <1>3, <1>5, RefsUp
<1>7. LocksKept(H)' /\ ImportsKept(H)'
  BY <1>2, <1>3, <1>4, <1>5, LocksSame, ImportsSame DEF SameLocks
<1>8. Ledger(H)'
  BY <1>1, <1>3, <1>4, <1>6, <1>7, AdvanceLedger
<1>9. Lives(H)'
  <2>1. \A u \in Threads : G[u].dying = Nobody
    BY <1>2, <1>3, <1>4, NoneDies
  <2>2. UNCHANGED <<cstate, quit, thread>>
    BY <1>3 DEF queueVars
  <2>3. \A s \in Components : refs'[s] = 0 => refs[s] = 0
    BY <1>2, <1>3, <1>5, MoreRefs
  <2> QED BY <1>2, <1>4, <1>5, <2>1, <2>2, <2>3, LivesKept DEF SameDying
<1> QED
  BY <1>3, <1>8, <1>9 DEF Keeps, Kept

LEMMA KeepsUnref ==
  ASSUME NEW G, NEW t, InCall(G, t), component_unref(t)
  PROVE  Keeps(G, t)
<1>1. PICK b \in Account : /\ Effect(t, G[t], Step(t), b)
                           /\ Leads(t, Tail(todo[t]), b, AtRest(t))
  BY FirstStep
<1>0. PICK c : c = Step(t).on
  OBVIOUS
<1>2. /\ Ledger(G) /\ Lives(G) /\ t \in Threads /\ G \in [Threads -> Account] /\ Step(t) \in Own(t)
      /\ LocksKept(G) /\ ImportsKept(G) /\ RefsKept(G)
  BY FirstStep DEF InCall, Ledger
<1>3. /\ UNCHANGED <<cstate, imports, fault, queueVars>>
      /\ Step(t).op = "unref" /\ Free(t, "component") /\ refs' = [refs EXCEPT ![c] = @ - 1]
  BY <1>0 DEF component_unref
<1>4. /\ Covered(t, b) /\ RefEffect(G[t], Step(t), b) /\ SameDying(G[t], b) /\ SameLocks(G[t], b)
      /\ G[t].dying = Nobody
  BY <1>1, <1>3, EffectOf
<1>5. /\ c \in Clients /\ b.refs = [G[t].refs EXCEPT ![c] = @ - 1] /\ b.imp = G[t].imp
      /\ G[t].refs[c] > 0
  BY <1>0, <1>2, <1>3, <1>4, TouchedClient DEF RefEffect
<1>6. \A u \in Threads : G[u].dying = Nobody
  BY <1>2, <1>3, <1>4, NoneDies
<1>7. UNCHANGED <<cstate, quit, thread>>
  BY <1>3 DEF queueVars
<1>8. CASE refs[c] # 1
  <2> DEFINE H == Becoming(G, t, b)
  <2>1. Advance(t) /\ UNCHANGED <<owner, depth>>
    BY <1>0, <1>8 DEF component_unref
  <2>2. RefsKept(H)' /\ LocksKept(H)' /\ ImportsKept(H)'
    BY <1>2, <1>3, <1>4, <1>5, <2>1, RefsDown, LocksSame, ImportsSame DEF SameLocks
  <2>3. Ledger(H)'
    BY <1>1, <1>4, <2>1, <2>2, AdvanceLedger
  <2>4. Lives(H)'
    <3>1. \A s \in Components : refs'[s] = 0 => refs[s] = 0
      <4>1. \A s \in Components : s \in Clients
        BY Constants
      <4> QED BY <1>2, <1>3, <1>5, <1>8, <4>1 DEF RefsKept
    <3> QED BY <1>2, <1>4, <1>5, <1>6, <1>7, <3>1, LivesKept DEF SameDying
  <2> QED BY <1>3, <2>3, <2>4 DEF Keeps, Kept
<1>9. CASE refs[c] = 1
  <2>1. c \in Components /\ refs'[c] = 0
    <3>1. c # Anonymous
      BY <1>2, <1>5, <1>9, ProgramHeld
    <3>2. refs \in [Clients -> Nat]
      BY <1>2 DEF RefsKept
    <3> QED BY <1>3, <1>5, <1>9, <3>1, <3>2 DEF Clients
  <2> DEFINE d == Dead(Up(b, "component"), c, "destroy")
             q == Holding(c, Do("destroy", c)) \o Do("unlock", "component")
             H == Becoming(G, t, d)
  <2>2. /\ Instead(t, q) /\ owner' = [owner EXCEPT !["component"] = t]
        /\ depth' = [depth EXCEPT !["component"] = @ + 1]
    BY <1>0, <1>9 DEF component_unref
  <2>3. b.dying = Nobody
    BY <1>4 DEF SameDying
  <2>4. PICK S : d \in Account /\ Covered(t, d) /\ Leads(t, q, d, b) /\ q \in Seq(S)
    BY <1>4, <2>1, <2>3, LeadsDestroy
  <2>5. /\ d.held = [b.held EXCEPT !["component"] = @ + 1] /\ d.refs = b.refs /\ d.imp = b.imp
        /\ d.dying = c /\ d.stage = "destroy"
    BY DEF Dead, Up
  <2> HIDE DEF d, q
  <2>6. RefsKept(H)' /\ ImportsKept(H)'
    BY <1>2, <1>3, <1>5, <2>4, <2>5, RefsDown, ImportsSame
  <2>7. LocksKept(H)'
    <3>1. d.held = [G[t].held EXCEPT !["component"] = @ + 1] /\ "component" \in Mutexes
      BY <1>4, <2>5 DEF SameLocks, Mutexes
    <3> QED BY <1>2, <1>3, <2>2, <2>4, <3>1, LocksMore
  <2>8. Ledger(H)'
    BY <1>1, <2>2, <2>4, <2>6, <2>7, InsteadLedger
  <2>9. H[t] = d /\ \A u \in Threads : u # t => H[u] = G[u]
    BY <1>2, <2>4, BecomingAt
  <2> HIDE DEF H
  <2>10. ASSUME NEW s \in Components
         PROVE  Stated(H, s)'
    <3>1. Stated(G, s) /\ \A u \in Threads : H[u].imp = G[u].imp
      BY <1>2, <1>5, <2>5, <2>9 DEF Lives
    <3>2. cstate[s] # "unloading"
      BY <1>6, <2>1, <3>1, Constants DEF Stated
    <3>3. s # c => refs'[s] = refs[s]
      BY <1>2, <1>3, Constants DEF RefsKept
    <3>4. \A u \in Threads : G[u].dying # s
      BY <1>6, Constants
    <3>5. cstate'[s] # "unloading" /\ (cstate'[s] = "up" /\ refs'[s] = 0 => s = c)
      BY <1>7, <3>1, <3>2, <3>3, <3>4 DEF Stated
    <3>6. s = c => H[t].dying = s
      BY <2>5, <2>9
    <3> QED BY <1>2, <1>7, <3>1, <3>5, <3>6 DEF Stated, Alive
  <2>11. ASSUME NEW u \in Threads, H[u].dying # Nobody
         PROVE  DyingOK(H[u].dying, H[u].stage)'
    <3>1. u = t
      BY <1>6, <2>9, <2>11
    <3>2. cstate[c] # "unloading"
      BY <1>2, <1>6, <2>1, Constants DEF Stated, Lives
    <3>3. DyingOK(c, "destroy")'
      BY <1>7, <2>1, <3>2 DEF DyingOK
    <3> QED BY <2>5, <2>9, <3>1, <3>3
  <2>12. Lives(H)'
    BY <1>2, <1>7, <2>10, <2>11 DEF Lives
  <2> QED BY <1>3, <2>4, <2>8, <2>12 DEF Keeps, Kept, H
<1> QED
  BY <1>8, <1>9

\* The imports
LEMMA AccountFine ==
  ASSUME NEW t, NEW a \in Account, Covered(t, a), a.dying = Nobody
  PROVE  a = Acc(a.held, a.refs, a.imp) /\ Fine(t, a.refs, a.imp) /\ a.held \in [Mutexes -> Nat]
BY DEF Account, Covered, Acc, Fine

LEMMA ImportedClient ==
  ASSUME NEW t \in Threads, NEW x \in Own(t), x.op \in {"new", "add", "open", "close", "free"},
         NEW a, NEW b, ImportEffect(t, a, x, b)
  PROVE  x.on = <<Client(t), x.on[2]>> /\ x.on[2] \in Components
<1>1. x.on \in MayImport(t) \/ x.on \in MayFree(t)
  BY StepKinds
<1>2. PICK y, z : x.on = <<y, z>> /\ z \in MayStart(t)
  BY <1>1 DEF MayImport, MayFree
<1>3. x.on[1] = Client(t)
  BY DEF ImportEffect
<1> QED
  BY <1>2, <1>3, TouchedMutex

LEMMA KeepsNew ==
  ASSUME NEW G, NEW t, InCall(G, t), import_new(t)
  PROVE  Keeps(G, t)
<1>1. PICK b \in Account : /\ Effect(t, G[t], Step(t), b)
                           /\ Leads(t, Tail(todo[t]), b, AtRest(t))
  BY FirstStep
<1>0. PICK s : s = Step(t).on[2]
  OBVIOUS
<1> DEFINE p == <<Client(t), s>>
           a == G[t]
           q == Do("pass", "import") \o Do("add", p)
           d == Acc(a.held, Plus(a.refs, s), a.imp)
           H == Becoming(G, t, d)
<1>2. /\ Ledger(G) /\ Lives(G) /\ t \in Threads /\ G \in [Threads -> Account] /\ Step(t) \in Own(t)
      /\ LocksKept(G) /\ ImportsKept(G) /\ RefsKept(G) /\ a \in Account /\ Covered(t, a)
  BY FirstStep DEF InCall, Ledger
<1>3. /\ UNCHANGED <<owner, depth, cstate, imports, fault, queueVars>>
      /\ Step(t).op = "new" /\ Free(t, "component") /\ refs' = [refs EXCEPT ![s] = @ + 1]
      /\ Instead(t, Do("pass", "import") \o Do("add", Step(t).on))
  BY <1>0 DEF import_new
<1>4. /\ Covered(t, b) /\ ImportEffect(t, a, Step(t), b) /\ SameDying(a, b) /\ SameLocks(a, b)
      /\ a.dying = Nobody
  BY <1>1, <1>3, EffectOf
<1>5. /\ Step(t).on = p /\ s \in Components /\ a.imp[s] = "none" /\ b.refs = a.refs
      /\ b.imp = Set(a.imp, s, "queried")
  <2>1. Step(t).on = p /\ s \in Components
    BY <1>0, <1>2, <1>3, <1>4, ImportedClient
  <2>2. a.imp[s] = "none" /\ b.refs = a.refs /\ b.imp = [a.imp EXCEPT ![s] = "queried"]
    BY <1>0, <1>3, <1>4 DEF ImportEffect
  <2> QED BY <2>1, <2>2 DEF Set
<1>6. /\ a = Acc(a.held, a.refs, a.imp) /\ Fine(t, a.refs, a.imp) /\ a.held \in [Mutexes -> Nat]
      /\ b = Acc(a.held, a.refs, Set(a.imp, s, "queried")) /\ Fine(t, a.refs, Set(a.imp, s, "queried"))
  BY <1>2, <1>4, <1>5, AccountFine DEF SameDying, SameLocks
<1> HIDE DEF p
<1>7. Net(t, q, Plus(a.refs, s), a.imp, a.refs, Set(a.imp, s, "queried"))
  <2>1. s \in Clients /\ a.imp \in [Components -> Statuses]
    BY <1>2, <1>5, Constants DEF Account
  <2>2. Net(t, Do("add", p), Plus(a.refs, s), a.imp, a.refs, Set(a.imp, s, "queried"))
    BY <1>2, <1>5, <1>6, <2>1, NetAdd DEF p
  <2>3. Net(t, Do("pass", "import"), Plus(a.refs, s), a.imp, Plus(a.refs, s), a.imp)
    BY <1>6, <2>1, PlusFine, NetPass
  <2> QED BY <2>2, <2>3, NetOn
<1>8. PICK S : q \in Seq(S) /\ Leads(t, q, d, b)
  BY <1>6, <1>7 DEF Net
<1>9. d \in Account /\ Covered(t, d)
  <2>1. Fine(t, Plus(a.refs, s), a.imp)
    BY <1>5, <1>6, Constants, PlusFine
  <2> QED BY <1>6, <2>1, AccTyped
<1>10. /\ d.held = a.held /\ d.refs = [a.refs EXCEPT ![s] = @ + 1] /\ d.imp = a.imp
       /\ d.dying = a.dying /\ d.stage = a.stage
  BY <1>2, <1>4, DyingTyped DEF Acc, Plus
<1> HIDE DEF d
<1>11. LocksKept(H)' /\ ImportsKept(H)' /\ RefsKept(H)'
  BY <1>2, <1>3, <1>5, <1>9, <1>10, Constants, LocksSame, ImportsSame, RefsUp
<1>12. Ledger(H)'
  BY <1>1, <1>3, <1>5, <1>8, <1>9, <1>11, InsteadLedger
<1>13. Lives(H)'
  <2>1. \A u \in Threads : G[u].dying = Nobody
    BY <1>2, <1>3, <1>4, NoneDies
  <2>2. UNCHANGED <<cstate, quit, thread>>
    BY <1>3 DEF queueVars
  <2>3. \A x \in Components : refs'[x] = 0 => refs[x] = 0
    BY <1>2, <1>3, <1>5, Constants, MoreRefs
  <2> QED BY <1>2, <1>9, <1>10, <2>1, <2>2, <2>3, LivesKept
<1> QED
  BY <1>3, <1>9, <1>12, <1>13 DEF Keeps, Kept

LEMMA KeepsImport ==
  ASSUME NEW G, NEW t, InCall(G, t), Add(t) \/ Open(t) \/ FreeImport(t)
  PROVE  Keeps(G, t)
<1>1. PICK b \in Account : /\ Effect(t, G[t], Step(t), b)
                           /\ Leads(t, Tail(todo[t]), b, AtRest(t))
  BY FirstStep
<1>0. PICK s, v :
        /\ s = Step(t).on[2]
        /\ v = IF Step(t).op = "add" THEN "queried" ELSE IF Step(t).op = "open" THEN "open" ELSE "none"
  OBVIOUS
<1> DEFINE a == G[t]
           H == Becoming(G, t, b)
<1>2. /\ Ledger(G) /\ Lives(G) /\ t \in Threads /\ G \in [Threads -> Account] /\ Step(t) \in Own(t)
      /\ LocksKept(G) /\ ImportsKept(G) /\ RefsKept(G) /\ a \in Account
  BY FirstStep DEF InCall, Ledger
<1>3. /\ Advance(t) /\ UNCHANGED <<owner, depth, cstate, refs, fault, queueVars>>
      /\ Step(t).op \in {"add", "open", "free"} /\ imports' = [imports EXCEPT ![Step(t).on] = v]
  BY <1>0 DEF Add, Open, FreeImport
<1>4. /\ Covered(t, b) /\ ImportEffect(t, a, Step(t), b) /\ SameDying(a, b) /\ SameLocks(a, b)
  BY <1>1, <1>3, EffectOf
<1>5. /\ Step(t).on = <<Client(t), s>> /\ s \in Components
  BY <1>0, <1>2, <1>3, <1>4, ImportedClient
<1>6. /\ b.imp = [a.imp EXCEPT ![s] = v] /\ v \in {"none", "queried", "open"} /\ v \in Statuses
      /\ v \in {"ready", "open"} => a.imp[s] \in {"ready", "open"}
  BY <1>0, <1>3, <1>4 DEF ImportEffect, Statuses
<1>7. \/ b.refs = a.refs /\ \A x \in Components : b.imp[x] = "none" <=> a.imp[x] = "none"
      \/ a.imp[s] = "none" /\ v # "none" /\ a.refs[s] > 0 /\ b.refs = [a.refs EXCEPT ![s] = @ - 1]
      \/ a.imp[s] # "none" /\ v = "none" /\ b.refs = [a.refs EXCEPT ![s] = @ + 1]
  <2>1. CASE Step(t).op = "open"
    <3>1. b.refs = a.refs /\ a.imp[s] = "ready" /\ v = "open"
      BY <1>0, <1>4, <2>1 DEF ImportEffect
    <3>2. a.imp \in [Components -> Statuses]
      BY <1>2 DEF Account
    <3>3. \A x \in Components : b.imp[x] = "none" <=> a.imp[x] = "none"
      <4> HIDE DEF a
      <4> QED BY <1>5, <1>6, <3>1, <3>2
    <3> QED BY <3>1, <3>3
  <2>2. CASE Step(t).op # "open"
    BY <1>0, <1>3, <1>4, <2>2 DEF ImportEffect
  <2> QED BY <2>1, <2>2
<1>8. LocksKept(H)' /\ ImportsKept(H)'
  BY <1>2, <1>3, <1>4, <1>5, <1>6, LocksSame, ImportsSet DEF SameLocks
<1>9. RefsKept(H)'
  <2>1. CASE b.refs = a.refs /\ \A x \in Components : b.imp[x] = "none" <=> a.imp[x] = "none"
    BY <1>2, <1>3, <2>1, RefsSame
  <2>2. CASE b.refs # a.refs \/ ~\A x \in Components : b.imp[x] = "none" <=> a.imp[x] = "none"
    <3>1. refs' = refs
      BY <1>3
    <3> QED BY <1>2, <1>5, <1>6, <1>7, <2>2, <3>1, RefsSwap
  <2> QED BY <2>1, <2>2
<1>10. Ledger(H)'
  BY <1>1, <1>3, <1>4, <1>8, <1>9, AdvanceLedger
<1>11. Lives(H)'
  <2>1. UNCHANGED <<cstate, quit, thread>> /\ refs' = refs
    BY <1>3 DEF queueVars
  <2>2. \A x \in Components : b.imp[x] \in {"ready", "open"} => a.imp[x] \in {"ready", "open"}
    <3>1. a.imp \in [Components -> Statuses]
      BY <1>2 DEF Account
    <3> HIDE DEF a
    <3> QED BY <1>5, <1>6, <3>1
  <2> QED BY <1>2, <1>4, <2>1, <2>2, LivesKept DEF SameDying
<1> QED
  BY <1>3, <1>10, <1>11 DEF Keeps, Kept

LEMMA KeepsClose ==
  ASSUME NEW G, NEW t, InCall(G, t), Close(t)
  PROVE  Keeps(G, t)
<1>1. PICK b \in Account : /\ Effect(t, G[t], Step(t), b)
                           /\ Leads(t, Tail(todo[t]), b, AtRest(t))
  BY FirstStep
<1>0. PICK s : s = Step(t).on[2]
  OBVIOUS
<1> DEFINE a == G[t]
           p == <<Client(t), s>>
           H == Becoming(G, t, a)
<1>2. /\ Ledger(G) /\ Lives(G) /\ t \in Threads /\ G \in [Threads -> Account] /\ Step(t) \in Own(t)
      /\ LocksKept(G) /\ ImportsKept(G) /\ RefsKept(G) /\ a \in Account /\ Covered(t, a)
  BY FirstStep DEF InCall, Ledger
<1>3. UNCHANGED <<owner, depth, cstate, refs, imports, fault, queueVars>> /\ Step(t).op = "close"
  BY <1>1, EffectOf DEF Close
<1>4. /\ Covered(t, b) /\ ImportEffect(t, a, Step(t), b) /\ SameDying(a, b) /\ SameLocks(a, b)
      /\ a.dying = Nobody
  BY <1>1, <1>3, EffectOf
<1>5. Step(t).on = p /\ s \in Components
  BY <1>0, <1>2, <1>3, <1>4, ImportedClient
<1>6. b.refs = a.refs /\ b.imp = Set(a.imp, s, "none")
  BY <1>0, <1>3, <1>4 DEF ImportEffect, Set
<1>7. /\ a = Acc(a.held, a.refs, a.imp) /\ Fine(t, a.refs, a.imp) /\ a.held \in [Mutexes -> Nat]
      /\ b = Acc(a.held, a.refs, Set(a.imp, s, "none"))
  <2>1. /\ b = Acc(b.held, b.refs, b.imp)
    BY <1>4, AccountFine DEF SameDying
  <2> QED BY <1>2, <1>4, <1>6, <2>1, AccountFine DEF SameLocks
<1>8. a.imp \in [Components -> Statuses] /\ imports[p] = Shown(a.imp[s])
  BY <1>2, <1>5 DEF Account, ImportsKept
<1>9. /\ LocksKept(H)' /\ ImportsKept(H)' /\ RefsKept(H)'
  BY <1>2, <1>3, LocksSame, ImportsSame, RefsSame
<1>10. Ledger(H)'
  <2>1. CASE imports[p] = "none"
    <3>1. a.imp[s] = "none"
      BY <1>8, <2>1 DEF Shown
    <3>2. Set(a.imp, s, "none") = a.imp
      BY <1>5, <1>8, <3>1 DEF Set
    <3>3. b = a
      BY <1>7, <3>2
    <3>4. Instead(t, <<>>)
      BY <1>3, <1>5, <2>1 DEF Close
    <3>5. <<>> \in Seq({}) /\ Leads(t, <<>>, a, b)
      BY <1>2, <3>3, LeadsNowhere
    <3> QED BY <1>1, <1>2, <1>9, <3>4, <3>5, InsteadLedger
  <2>2. CASE imports[p] # "none"
    <3>1. a.imp[s] # "none"
      BY <1>8, <2>2 DEF Shown
    <3>2. Instead(t, import_close(p))
      BY <1>3, <1>5, <2>2 DEF Close
    <3>3. Net(t, import_close(p), a.refs, a.imp, a.refs, Set(a.imp, s, "none"))
      BY <1>2, <1>5, <1>7, <3>1, NetImportFree
    <3>4. PICK S : import_close(p) \in Seq(S) /\ Leads(t, import_close(p), a, b)
      BY <1>7, <3>3 DEF Net
    <3> HIDE DEF p
    <3> QED BY <1>1, <1>2, <1>9, <3>2, <3>4, InsteadLedger
  <2> QED BY <2>1, <2>2
<1>11. Lives(H)'
  <2>1. UNCHANGED <<cstate, quit, thread>>
    BY <1>3 DEF queueVars
  <2> QED BY <1>2, <1>3, <2>1, LivesKept
<1> QED
  BY <1>2, <1>3, <1>10, <1>11 DEF Keeps, Kept

\* init() of a component: there is an import of it, so that nothing destroys it.
LEMMA KeepsInit ==
  ASSUME NEW G, NEW t, InCall(G, t), component_init(t)
  PROVE  Keeps(G, t)
<1>1. PICK b \in Account : /\ Effect(t, G[t], Step(t), b)
                           /\ Leads(t, Tail(todo[t]), b, AtRest(t))
  BY FirstStep
<1>0. PICK s : s = Step(t).on
  OBVIOUS
<1> DEFINE a == G[t]
           H == Becoming(G, t, b)
<1>2. /\ Ledger(G) /\ Lives(G) /\ t \in Threads /\ G \in [Threads -> Account] /\ Step(t) \in Own(t)
      /\ LocksKept(G) /\ ImportsKept(G) /\ RefsKept(G) /\ a \in Account /\ QueuesOK
  BY FirstStep DEF InCall, Ledger, ProgramOK, LibraryOK
<1>3. /\ Advance(t) /\ UNCHANGED <<owner, depth, refs, imports, fault>> /\ Step(t).op = "init"
      /\ IF cstate[s] = "up" THEN UNCHANGED <<cstate, queueVars>>
         ELSE cstate' = [cstate EXCEPT ![s] = "up"] /\ StartQueue(s)
  BY <1>0 DEF component_init
<1>4. /\ Covered(t, b) /\ InitEffect(a, Step(t), b) /\ SameDying(a, b) /\ SameLocks(a, b)
  BY <1>1, <1>3, EffectOf
<1>5. s \in Components /\ s \in Clients
  BY <1>0, <1>2, <1>3, StepKinds, TouchedMutex, Constants
<1>6. /\ a.imp[s] = "queried" /\ b.imp = [a.imp EXCEPT ![s] = "ready"] /\ b.refs = a.refs
      /\ a.imp \in [Components -> Statuses]
  BY <1>0, <1>2, <1>4 DEF InitEffect, Account
<1>7. refs[s] # 0
  BY <1>2, <1>5, <1>6, NoHolders
<1>8. \A u \in Threads : G[u].dying # s
  BY <1>2, <1>5, <1>7, Constants DEF Lives, DyingOK
<1>9. cstate[s] \in {"up", "null"} /\ Stated(G, s)
  BY <1>2, <1>5, <1>8 DEF Lives, Stated
<1>10. Ledger(H)'
  <2>1. \A x \in Components : /\ b.imp[x] = "none" <=> a.imp[x] = "none"
                              /\ Shown(b.imp[x]) = Shown(a.imp[x])
    <3> HIDE DEF a
    <3> QED BY <1>5, <1>6 DEF Shown
  <2>2. LocksKept(H)' /\ ImportsKept(H)' /\ RefsKept(H)'
    BY <1>2, <1>3, <1>4, <1>6, <2>1, LocksSame, ImportsSame, RefsSame DEF SameLocks
  <2> QED BY <1>1, <1>3, <1>4, <2>2, AdvanceLedger
<1>11. H[t] = b /\ \A u \in Threads : u # t => H[u] = G[u]
  BY <1>2, BecomingAt
<1>12. \A u \in Threads :
         /\ H[u].dying = G[u].dying /\ H[u].stage = G[u].stage
         /\ \A x \in Components : x # s => H[u].imp[x] = G[u].imp[x]
  BY <1>4, <1>6, <1>11 DEF SameDying
<1> HIDE DEF H
<1>13. cstate'[s] = "up" /\ Alive(s)' /\ quit'[s] = "no"
  <2>1. CASE cstate[s] = "up"
    BY <1>3, <1>9, <2>1 DEF Stated, Alive, queueVars
  <2>2. CASE cstate[s] # "up"
    BY <1>2, <1>3, <1>5, <2>2 DEF Lives, StartQueue, Alive, QueuesOK
  <2> QED BY <2>1, <2>2
<1>14. \A x \in Components : x # s => cstate'[x] = cstate[x] /\ thread'[x] = thread[x] /\ quit'[x] = quit[x]
  <2>1. CASE cstate[s] = "up"
    BY <1>3, <2>1 DEF queueVars
  <2>2. CASE cstate[s] # "up"
    <3> SUFFICES ASSUME NEW x \in Components, x # s
                 PROVE  cstate'[x] = cstate[x] /\ thread'[x] = thread[x] /\ quit'[x] = quit[x]
      OBVIOUS
    <3>1. /\ cstate' = [cstate EXCEPT ![s] = "up"] /\ thread' = [thread EXCEPT ![s] = "wait"]
          /\ quit' = [quit EXCEPT ![s] = "no"]
      BY <1>3, <2>2 DEF StartQueue
    <3>2. /\ cstate \in [Clients -> {"null", "up", "unloading"}] /\ x \in Clients
          /\ thread \in [Components -> Doing] /\ quit \in [Components -> {"no", "set", "posted"}]
      BY <1>2, Constants DEF Lives, QueuesOK
    <3> QED BY <3>1, <3>2
  <2> QED BY <2>1, <2>2
<1>15. Lives(H)'
  <2>1. ASSUME NEW x \in Components
        PROVE  Stated(H, x)'
    <3>1. CASE x = s
      <4>1. refs'[s] # 0
        BY <1>3, <1>7
      <4> QED BY <1>13, <3>1, <4>1 DEF Stated
    <3>2. CASE x # s
      <4>1. Stated(G, x) /\ Alive(x)' = Alive(x) /\ refs' = refs
        BY <1>2, <1>3, <1>14, <3>2 DEF Lives, Alive
      <4> QED BY <1>12, <1>14, <3>2, <4>1 DEF Stated
    <3> QED BY <3>1, <3>2
  <2>2. ASSUME NEW u \in Threads, H[u].dying # Nobody
        PROVE  DyingOK(H[u].dying, H[u].stage)'
    <3>1. PICK x : x = G[u].dying
      OBVIOUS
    <3>2. x \in Components /\ x # s /\ DyingOK(x, G[u].stage)
      BY <1>2, <1>8, <1>12, <2>2, <3>1, DyingTyped DEF Lives
    <3>3. DyingOK(x, G[u].stage)'
      BY <1>3, <1>14, <3>2 DEF DyingOK, Alive
    <3> QED BY <1>12, <3>1, <3>3
  <2>3. cstate' \in [Clients -> {"null", "up", "unloading"}]
    BY <1>2, <1>3 DEF Lives
  <2> QED BY <2>1, <2>2, <2>3 DEF Lives
<1>16. QueueNext \/ UNCHANGED queueVars
  <2>1. CASE cstate[s] = "up"
    BY <1>3, <2>1
  <2>2. CASE cstate[s] # "up"
    <3>1. ~Alive(s)
      BY <1>9, <2>2 DEF Stated
    <3> QED BY <1>3, <1>5, <2>2, <3>1 DEF QueueNext
  <2> QED BY <2>1, <2>2
<1> QED
  BY <1>3, <1>10, <1>15, <1>16 DEF Keeps, Kept, H

\* A component that nothing refers to has no imports.
LEMMA NothingImported ==
  ASSUME NEW G, Ledger(G), NEW c \in Components, refs[c] = 0
  PROVE  ForEach("release", c, ImportsOf(c)) = <<>>
<1>1. G \in [Threads -> Account] /\ RefsKept(G) /\ ImportsKept(G) /\ TodoKept(G)
  BY DEF Ledger
<1>2. c \in Threads /\ c # "main" /\ Client(c) = c
  BY Constants DEF Client
<1>3. G[c].refs[c] = 0
  BY <1>1, <1>2, NoHolders
<1>4. \A s \in Components : G[c].imp[s] = "none"
  BY <1>1, <1>2, <1>3 DEF TodoKept, Covered
<1>5. \A s \in Components : imports[<<c, s>>] = "none"
  <2> SUFFICES ASSUME NEW s \in Components PROVE imports[<<c, s>>] = "none"
    OBVIOUS
  <2>1. imports[<<Client(c), s>>] = Shown(G[c].imp[s])
    BY <1>1, <1>2 DEF ImportsKept
  <2> QED BY <1>2, <1>4, <2>1 DEF Shown
<1>6. {s \in Components : imports[<<c, s>>] # "none"} = {}
  BY <1>5
<1>7. ImportsOf(c) = SetToSeq({})
  BY <1>6 DEF ImportsOf
<1>8. SetToSeq({}) \in Seq({})
  BY ElementsOf, FS_EmptySet
<1>9. ImportsOf(c) = <<>>
  BY <1>7, <1>8
<1>10. DOMAIN ImportsOf(c) = {}
  BY <1>9
<1>11. ForEach("release", c, ImportsOf(c)) = [k \in {} |-> [op |-> "release", on |-> <<c, ImportsOf(c)[k]>>]]
  BY <1>10 DEF ForEach
<1> QED
  BY <1>11

\* What is common to the steps that destroy component c.
Destroys(G, t, c, b) ==
  /\ b \in Account /\ Leads(t, Tail(todo[t]), b, AtRest(t))
  /\ Covered(t, b) /\ c \in Components /\ G[t].dying = c /\ G[t].stage = Step(t).op
  /\ b.dying = Nobody /\ b.stage = "none" /\ b.refs = G[t].refs /\ b.imp = G[t].imp
  /\ b.held = G[t].held /\ b.held["component"] > 0 /\ Step(t).on = c
  /\ refs[c] = 0 /\ Stated(G, c) /\ DyingOK(c, Step(t).op)
  /\ \A u \in Threads : u # t => G[u].dying = Nobody
  /\ \A u \in Threads : G[u].imp[c] = "none"

LEMMA DestroyStep ==
  ASSUME NEW G, NEW t, InCall(G, t), Step(t).op \in {"destroy", "quit", "post", "join"}
  PROVE  \E c, b : Destroys(G, t, c, b)
<1>1. PICK b \in Account : /\ Effect(t, G[t], Step(t), b)
                           /\ Leads(t, Tail(todo[t]), b, AtRest(t))
  BY FirstStep
<1>0. PICK c : c = Step(t).on
  OBVIOUS
<1>2. /\ Ledger(G) /\ Lives(G) /\ t \in Threads /\ G \in [Threads -> Account] /\ RefsKept(G)
  BY DEF InCall, Ledger
<1>3. Covered(t, G[t]) /\ Covered(t, b) /\ Ends(G[t], Step(t), b)
  BY <1>1, EffectOf
<1>4. /\ G[t].dying = c /\ G[t].stage = Step(t).op /\ b.dying = Nobody /\ b.stage = "none"
      /\ b.refs = G[t].refs /\ b.imp = G[t].imp /\ b.held = G[t].held
  BY <1>0, <1>3 DEF Ends, SameRefs, SameLocks
<1>5. G[t].stage # "none" /\ G[t].dying # Nobody
  BY <1>2, <1>4, DyingTyped
<1>6. c \in Components /\ b.held["component"] > 0
  BY <1>2, <1>3, <1>4, <1>5, DyingTyped DEF Covered
<1>7. DyingOK(c, Step(t).op) /\ Stated(G, c)
  BY <1>2, <1>4, <1>5, <1>6 DEF Lives
<1>8. refs[c] = 0
  BY <1>7 DEF DyingOK
<1>9. \A u \in Threads : G[u].imp[c] = "none"
  BY <1>2, <1>6, <1>8, NoHolders
<1>10. \A u \in Threads : u # t => G[u].dying = Nobody
  BY <1>2, <1>5, OneDies
<1> QED
  BY <1>0, <1>1, <1>3, <1>4, <1>6, <1>7, <1>8, <1>9, <1>10 DEF Destroys

\* The ledger, after a step to the account d that goes on with q.
LEMMA DestroyLedger ==
  ASSUME NEW G, NEW t, InCall(G, t), NEW c, NEW b, Destroys(G, t, c, b),
         UNCHANGED <<owner, depth, refs, imports>>, NEW d \in Account, Covered(t, d),
         d.held = b.held, d.refs = b.refs, d.imp = b.imp,
         NEW q, NEW S, q \in Seq(S), Leads(t, q, d, b),
         Instead(t, q) \/ (d = b /\ Advance(t))
  PROVE  Ledger(Becoming(G, t, d))'
<1>1. /\ t \in Threads /\ G \in [Threads -> Account]
      /\ LocksKept(G) /\ ImportsKept(G) /\ RefsKept(G)
  BY DEF InCall, Ledger
<1>2. LocksKept(Becoming(G, t, d))' /\ ImportsKept(Becoming(G, t, d))' /\ RefsKept(Becoming(G, t, d))'
  BY <1>1, LocksSame, ImportsSame, RefsSame DEF Destroys
<1>3. Leads(t, Tail(todo[t]), b, AtRest(t)) /\ b \in Account /\ Covered(t, b)
  BY DEF Destroys
<1>4. CASE Instead(t, q)
  BY <1>2, <1>3, <1>4, InsteadLedger
<1>5. CASE d = b /\ Advance(t)
  BY <1>2, <1>3, <1>5, AdvanceLedger
<1> QED
  BY <1>4, <1>5

\* The states of components, after such a step.
LEMMA DestroyLives ==
  ASSUME NEW G, NEW t, InCall(G, t), NEW c, NEW b, Destroys(G, t, c, b), NEW d \in Account,
         d.imp = b.imp, d.dying = c \/ d.dying = Nobody,
         cstate' \in [Clients -> {"null", "up", "unloading"}], refs' = refs,
         \A x \in Components :
           x # c => cstate'[x] = cstate[x] /\ thread'[x] = thread[x] /\ quit'[x] = quit[x],
         cstate'[c] # "up", cstate'[c] = "null" => ~Alive(c)',
         cstate'[c] = "unloading" => d.dying = c, d.dying = c => DyingOK(c, d.stage)'
  PROVE  Lives(Becoming(G, t, d))'
<1> DEFINE H == Becoming(G, t, d)
<1>1. /\ t \in Threads /\ G \in [Threads -> Account] /\ Lives(G) /\ c \in Components
      /\ b.imp = G[t].imp /\ G[t].dying = c
      /\ \A u \in Threads : G[u].imp[c] = "none"
      /\ \A u \in Threads : u # t => G[u].dying = Nobody
  BY DEF InCall, Ledger, Destroys
<1>2. H[t] = d /\ \A u \in Threads : u # t => H[u] = G[u]
  BY <1>1, BecomingAt
<1> HIDE DEF H
<1>3. \A u \in Threads : H[u].imp = G[u].imp
  BY <1>1, <1>2
<1>4. ASSUME NEW x \in Components
      PROVE  Stated(H, x)'
  <2>1. CASE x = c
    <3>1. \A u \in Threads : H[u].imp[x] = "none"
      BY <1>1, <1>3, <2>1
    <3>2. cstate'[x] = "unloading" => \E u \in Threads : H[u].dying = x
      BY <1>1, <1>2, <2>1
    <3> QED BY <2>1, <3>1, <3>2 DEF Stated
  <2>2. CASE x # c
    <3>1. Stated(G, x) /\ Alive(x)' = Alive(x) /\ cstate'[x] = cstate[x] /\ quit'[x] = quit[x]
      BY <1>1, <2>2 DEF Lives, Alive
    <3>2. \A u \in Threads : G[u].dying # x
      BY <1>1, <2>2, Constants
    <3>3. cstate[x] # "unloading" /\ ~(cstate[x] = "up" /\ refs[x] = 0)
      BY <3>1, <3>2 DEF Stated
    <3> QED BY <1>3, <3>1, <3>3 DEF Stated
  <2> QED BY <2>1, <2>2
<1>5. ASSUME NEW u \in Threads, H[u].dying # Nobody
      PROVE  DyingOK(H[u].dying, H[u].stage)'
  <2>1. u = t /\ H[u].dying = c /\ H[u].stage = d.stage
    BY <1>1, <1>2, <1>5
  <2> QED BY <1>2, <2>1
<1> QED
  BY <1>4, <1>5 DEF Lives, H

LEMMA KeepsDestroy ==
  ASSUME NEW G, NEW t, InCall(G, t), component_destroy(t)
  PROVE  Keeps(G, t)
<1>1. Step(t).op = "destroy"
  BY DEF component_destroy
<1>2. PICK c, b : Destroys(G, t, c, b)
  BY <1>1, DestroyStep
<1>3. /\ Ledger(G) /\ Lives(G) /\ fault = "none" /\ b \in Account /\ Covered(t, b) /\ c \in Components
      /\ b.dying = Nobody /\ b.held["component"] > 0 /\ Stated(G, c) /\ DyingOK(c, "destroy")
      /\ refs[c] = 0 /\ Step(t).on = c /\ c \in Clients
  BY <1>1, <1>2, Constants DEF Destroys, InCall
<1>4. UNCHANGED <<owner, depth, refs, imports, queueVars>>
  BY DEF component_destroy
<1>5. UNCHANGED <<quit, thread, refs>>
  BY <1>4 DEF queueVars
<1>6. CASE cstate[c] = "up"
  <2> DEFINE d == Dead(b, c, "quit")
             q == Holding(c, <<>>) \o Do("quit", c)
  <2>1. /\ cstate' = [cstate EXCEPT ![c] = "unloading"] /\ fault' = fault
        /\ Instead(t, Holding(c, ForEach("release", c, ImportsOf(c))) \o Do("quit", c))
    BY <1>3, <1>6 DEF component_destroy
  <2>2. Instead(t, q)
    BY <1>3, <2>1, NothingImported
  <2>3. PICK S : d \in Account /\ Covered(t, d) /\ Leads(t, q, d, b) /\ q \in Seq(S)
    BY <1>3, LeadsQuit
  <2>4. d.held = b.held /\ d.refs = b.refs /\ d.imp = b.imp /\ d.dying = c /\ d.stage = "quit"
    BY DEF Dead
  <2> HIDE DEF d, q
  <2>5. Ledger(Becoming(G, t, d))'
    BY <1>2, <1>4, <2>2, <2>3, <2>4, DestroyLedger
  <2>6. cstate' \in [Clients -> {"null", "up", "unloading"}] /\ cstate'[c] = "unloading"
        /\ \A x \in Components : x # c => cstate'[x] = cstate[x]
    BY <1>3, <2>1 DEF Lives
  <2>7. DyingOK(c, "quit")'
    BY <1>3, <1>5, <1>6, <2>6 DEF DyingOK, Stated, Alive
  <2>8. Lives(Becoming(G, t, d))'
    BY <1>2, <1>5, <2>3, <2>4, <2>6, <2>7, DestroyLives
  <2> QED BY <1>4, <2>3, <2>5, <2>8 DEF Keeps, Kept
<1>7. CASE cstate[c] # "up"
  <2>1. cstate[c] = "null" /\ ~Alive(c)
    BY <1>3, <1>7 DEF Lives, DyingOK, Stated
  <2>2. cstate' = [cstate EXCEPT ![c] = "null"] /\ Advance(t)
    BY <1>3, <1>7 DEF component_destroy
  <2>3. b \in Account /\ <<>> \in Seq({}) /\ Leads(t, <<>>, b, b)
    BY <1>3, LeadsNowhere
  <2>4. Ledger(Becoming(G, t, b))'
    BY <1>2, <1>3, <1>4, <2>2, <2>3, DestroyLedger
  <2>5. /\ cstate' \in [Clients -> {"null", "up", "unloading"}] /\ cstate'[c] = "null"
        /\ \A x \in Components : x # c => cstate'[x] = cstate[x]
    BY <1>3, <2>2 DEF Lives
  <2>6. ~Alive(c)'
    BY <1>5, <2>1 DEF Alive
  <2>7. Lives(Becoming(G, t, b))'
    BY <1>2, <1>3, <1>5, <2>5, <2>6, Constants, DestroyLives
  <2> QED BY <1>3, <1>4, <2>4, <2>7 DEF Keeps, Kept
<1> QED
  BY <1>6, <1>7

LEMMA KeepsQuit ==
  ASSUME NEW G, NEW t, InCall(G, t), Quit(t) \/ Post(t)
  PROVE  Keeps(G, t)
<1>1. Step(t).op \in {"quit", "post"}
  BY DEF Quit, Post
<1>2. PICK c, b : Destroys(G, t, c, b)
  BY <1>1, DestroyStep
<1>3. /\ Lives(G) /\ QueuesOK /\ b \in Account /\ Covered(t, b) /\ c \in Components
      /\ b.dying = Nobody /\ b.held["component"] > 0 /\ DyingOK(c, Step(t).op) /\ Step(t).on = c
  BY <1>2 DEF Destroys, InCall, ProgramOK, LibraryOK
<1>4. UNCHANGED <<owner, depth, cstate, refs, imports, fault>>
  BY DEF Quit, Post
<1>0. PICK next : next = IF Step(t).op = "quit" THEN "post" ELSE "join"
  OBVIOUS
<1>5. cstate[c] = "unloading" /\ next \in {"post", "join"}
  BY <1>0, <1>1, <1>3 DEF DyingOK
<1>6. /\ Instead(t, Do(next, c))
      /\ IF Step(t).op = "quit" THEN SetQuit(c) ELSE PostQuit(c)
  BY <1>0, <1>1, <1>3, <1>5 DEF Quit, Post
<1> DEFINE d == Dead(b, c, next)
<1>7. d \in Account /\ Covered(t, d) /\ Effect(t, d, [op |-> next, on |-> c], b)
  BY <1>3, <1>5, DeadOK
<1>8. d.held = b.held /\ d.refs = b.refs /\ d.imp = b.imp /\ d.dying = c /\ d.stage = next
  BY DEF Dead
<1> HIDE DEF d
<1>9. Do(next, c) \in Seq({[op |-> next, on |-> c]}) /\ Leads(t, Do(next, c), d, b)
  BY <1>3, <1>7, DoSeq, LeadsOne
<1>10. Ledger(Becoming(G, t, d))'
  BY <1>2, <1>4, <1>6, <1>7, <1>8, <1>9, DestroyLedger
<1>11. thread' = thread /\ \A x \in Components : x # c => quit'[x] = quit[x]
  BY <1>3, <1>6 DEF SetQuit, PostQuit, QueuesOK
<1>12. DyingOK(c, next)'
  <2>1. next = "post" => quit'[c] = "set"
    BY <1>0, <1>1, <1>3, <1>6 DEF SetQuit, QueuesOK
  <2> QED BY <1>3, <1>4, <1>5, <2>1 DEF DyingOK
<1>13. Lives(Becoming(G, t, d))'
  <2>1. /\ cstate' \in [Clients -> {"null", "up", "unloading"}] /\ cstate' = cstate
        /\ refs' = refs
    BY <1>3, <1>4 DEF Lives
  <2> QED BY <1>2, <1>5, <1>7, <1>8, <1>11, <1>12, <2>1, DestroyLives
<1>14. QueueNext
  BY <1>1, <1>3, <1>6 DEF QueueNext, DyingOK
<1> QED
  BY <1>7, <1>10, <1>13, <1>14 DEF Keeps, Kept

\* The component is unloaded, when its thread ended or is the one that joins.
LEMMA KeepsJoin ==
  ASSUME NEW G, NEW t, InCall(G, t), Join(t)
  PROVE  Keeps(G, t)
<1>1. Step(t).op = "join"
  BY DEF Join
<1>2. PICK c, b : Destroys(G, t, c, b)
  BY <1>1, DestroyStep
<1>3. /\ Lives(G) /\ b \in Account /\ Covered(t, b) /\ c \in Components /\ c \in Clients
      /\ b.dying = Nobody /\ Step(t).on = c
  BY <1>2, Constants DEF Destroys, InCall
<1>4. /\ UNCHANGED <<owner, depth, refs, imports, queueVars>> /\ Advance(t)
      /\ cstate' = [cstate EXCEPT ![c] = "null"] /\ (t = c \/ ~Alive(c))
      /\ fault' = IF t = c THEN "unmapped" ELSE fault
  BY <1>3 DEF Join
<1>5. <<>> \in Seq({}) /\ Leads(t, <<>>, b, b)
  BY <1>3, LeadsNowhere
<1>6. Ledger(Becoming(G, t, b))'
  BY <1>2, <1>3, <1>4, <1>5, DestroyLedger
<1>7. ASSUME fault' = "none"
      PROVE  Lives(Becoming(G, t, b))'
  <2>1. ~Alive(c)' /\ UNCHANGED <<quit, thread, refs>>
    BY <1>4, <1>7 DEF Alive, queueVars
  <2>2. /\ cstate' \in [Clients -> {"null", "up", "unloading"}] /\ cstate'[c] = "null"
        /\ \A x \in Components : x # c => cstate'[x] = cstate[x]
    BY <1>3, <1>4 DEF Lives
  <2> QED BY <1>2, <1>3, <2>1, <2>2, Constants, DestroyLives
<1> QED
  BY <1>3, <1>4, <1>6, <1>7 DEF Keeps, Kept

\* The steps of the library keep the ledger, and take turns as QueueNext says.
LEMMA KeepsCall ==
  ASSUME NEW G, NEW t, InCall(G, t), LibraryStep(t)
  PROVE  Keeps(G, t)
BY KeepsLocks, KeepsRef, KeepsUnref, KeepsNew, KeepsImport, KeepsClose, KeepsInit, KeepsDestroy,
   KeepsQuit, KeepsJoin DEF LibraryStep

-----------------------------------------------------------------------------
(* What a thread holds between two calls of the API *)

LEMMA FromNext ==
  ASSUME NEW S, NEW q \in Seq(S), NEW k \in Nat \ {0}
  PROVE  /\ From(q, k) \subseteq ToSet(q) /\ From(q, 1) = ToSet(q) /\ ToSet(q) \subseteq S
         /\ k > Len(q) => From(q, k) = {}
         /\ IsInjective(q) /\ k \in DOMAIN q =>
              /\ q[k] \in From(q, k) /\ From(q, k + 1) = From(q, k) \ {q[k]}
<1>1. DOMAIN q = 1 .. Len(q) /\ Len(q) \in Nat
  OBVIOUS
<1>2. From(q, k) \subseteq ToSet(q) /\ From(q, 1) = ToSet(q) /\ ToSet(q) \subseteq S
  BY <1>1 DEF From, ToSet
<1>3. k > Len(q) => From(q, k) = {}
  BY <1>1 DEF From
<1>4. ASSUME IsInjective(q), k \in DOMAIN q
      PROVE  q[k] \in From(q, k) /\ From(q, k + 1) = From(q, k) \ {q[k]}
  <2>1. q[k] \in From(q, k)
    BY <1>1, <1>4 DEF From
  <2>2. ASSUME NEW x \in From(q, k + 1) PROVE x \in From(q, k) \ {q[k]}
    <3>1. PICK j \in DOMAIN q : j >= k + 1 /\ x = q[j]
      BY DEF From
    <3>2. j >= k /\ j # k
      BY <1>1, <3>1
    <3> QED BY <1>4, <3>1, <3>2 DEF From, IsInjective
  <2>3. ASSUME NEW x \in From(q, k) \ {q[k]} PROVE x \in From(q, k + 1)
    <3>1. PICK j \in DOMAIN q : j >= k /\ x = q[j]
      BY DEF From
    <3>2. j >= k + 1
      BY <1>1, <3>1
    <3> QED BY <3>1, <3>2 DEF From
  <2> QED BY <2>1, <2>2, <2>3
<1> QED
  BY <1>2, <1>3, <1>4

\* The rest of a sequence.
LEMMA RestOf ==
  ASSUME NEW S, NEW q \in Seq(S), NEW k \in Nat \ {0}, k <= Len(q) + 1
  PROVE  SubSeq(q, k, Len(q)) \in Seq(S) /\ ToSet(SubSeq(q, k, Len(q))) = From(q, k)
<1>1. DOMAIN q = 1 .. Len(q) /\ Len(q) \in Nat
  OBVIOUS
<1> DEFINE r == SubSeq(q, k, Len(q))
<1>2. /\ Len(r) = Len(q) - k + 1 /\ DOMAIN r = 1 .. Len(q) - k + 1 /\ r \in Seq(S)
      /\ \A j \in 1 .. Len(q) - k + 1 : r[j] = q[k + j - 1]
  BY <1>1
<1> HIDE DEF r
<1>3. ASSUME NEW x \in ToSet(r) PROVE x \in From(q, k)
  <2>1. PICK j \in DOMAIN r : x = r[j]
    BY DEF ToSet
  <2>2. k + j - 1 \in DOMAIN q /\ k + j - 1 >= k /\ x = q[k + j - 1]
    BY <1>1, <1>2, <2>1
  <2> QED BY <2>2 DEF From
<1>4. ASSUME NEW x \in From(q, k) PROVE x \in ToSet(r)
  <2>1. PICK j \in DOMAIN q : j >= k /\ x = q[j]
    BY DEF From
  <2>2. PICK m \in 1 .. Len(q) - k + 1 : j = k + m - 1
    <3>1. j - k + 1 \in 1 .. Len(q) - k + 1 /\ j = k + (j - k + 1) - 1
      BY <1>1, <2>1
    <3> QED BY <3>1
  <2>3. m \in DOMAIN r /\ r[m] = x
    BY <1>2, <2>1, <2>2
  <2> QED BY <2>3 DEF ToSet
<1> QED
  BY <1>2, <1>3, <1>4 DEF r

LEMMA OwnFine ==
  ASSUME NEW t \in Threads, NEW n \in Nat, NEW O, NEW Q,
         t = "main" \/ n > 0 \/ (O = {} /\ Q = {})
  PROVE  Fine(t, Own1(t, n), Imps(O, Q))
<1>1. Own1(t, n) \in [Clients -> Nat] /\ Imps(O, Q) \in [Components -> Statuses]
  BY DEF Own1, Imps, Statuses
<1>2. t # "main" => Own1(t, n)[t] = n
  BY ClientMutex DEF Own1, Client
<1>3. O = {} /\ Q = {} => \A s \in Components : Imps(O, Q)[s] = "none"
  BY DEF Imps
<1> QED
  BY <1>1, <1>2, <1>3 DEF Fine

LEMMA OwnPlus ==
  ASSUME NEW t \in Threads, NEW n \in Nat
  PROVE  Plus(Own1(t, n), Client(t)) = Own1(t, n + 1)
BY DEF Plus, Own1

LEMMA ImpsSet ==
  ASSUME NEW O, NEW Q
  PROVE  /\ \A U : O \cap U = {} => SetAll(Imps(O, Q), U, "queried") = Imps(O, Q \cup U)
         /\ \A U : SetAll(Imps(O, Q), U, "none") = Imps(O \ U, Q \ U)
         /\ \A s : Set(Imps(O, Q), s, "open") = Imps(O \cup {s}, Q \ {s})
         /\ \A s : Set(Imps(O, Q), s, "none") = Imps(O \ {s}, Q \ {s})
         /\ \A s \in Components : s \in Q /\ s \notin O => Imps(O, Q)[s] = "queried"
         /\ \A s \in Components : s \in O => Imps(O, Q)[s] = "open"
         /\ \A s \in Components : s \notin O \cup Q => Imps(O, Q)[s] = "none"
<1>1. /\ \A U : O \cap U = {} => SetAll(Imps(O, Q), U, "queried") = Imps(O, Q \cup U)
      /\ \A U : SetAll(Imps(O, Q), U, "none") = Imps(O \ U, Q \ U)
  BY DEF SetAll, Imps
<1>2. /\ \A s : Set(Imps(O, Q), s, "open") = Imps(O \cup {s}, Q \ {s})
      /\ \A s : Set(Imps(O, Q), s, "none") = Imps(O \ {s}, Q \ {s})
  BY DEF Set, Imps
<1> QED
  BY <1>1, <1>2 DEF Imps

\* Calls of the API, by a thread with the reference of its query or without,
\* and imports of which those in O are open and those in Q are not yet.
LEMMA Queries ==
  ASSUME NEW t \in Threads, NEW servers \in Seq(Components), IsInjective(servers),
         NEW O, O \cap ToSet(servers) = {}, NEW n \in Nat, t = "main" \/ n > 0 \/ O = {}
  PROVE  Net(t, query_new(Client(t), servers), Own1(t, n), Imps(O, {}),
             Own1(t, n + 1), Imps(O, ToSet(servers)))
<1>1. Fine(t, Own1(t, n), Imps(O, {}))
  BY OwnFine
<1>2. ASSUME NEW k \in DOMAIN servers
      PROVE  Imps(O, {})[servers[k]] = "none"
  <2>1. servers[k] \in Components /\ servers[k] \in ToSet(servers)
    BY DEF ToSet
  <2> QED BY <2>1, ImpsSet
<1>3. SetAll(Imps(O, {}), ToSet(servers), "queried") = Imps(O, ToSet(servers))
  BY ImpsSet
<1> QED
  BY <1>1, <1>2, <1>3, NetQueryNew, OwnPlus

LEMMA Finishes ==
  ASSUME NEW t \in Threads, NEW unused \in Seq(Components), NEW O, NEW Q,
         O \cap ToSet(unused) = {}, Q \subseteq ToSet(unused), t = "main" \/ O = {}
  PROVE  Net(t, xCOM_QueryFinish(Client(t), unused), Own1(t, 1), Imps(O, Q),
             Own1(t, 0), Imps(O, {}))
<1>1. SetAll(Imps(O, Q), ToSet(unused), "none") = Imps(O, {})
  <2>1. O \ ToSet(unused) = O /\ Q \ ToSet(unused) = {}
    OBVIOUS
  <2> QED BY <2>1, ImpsSet
<1>2. Fine(t, Own1(t, 1), Imps(O, Q)) /\ Fine(t, Own1(t, 0), Imps(O, {}))
  BY OwnFine
<1>3. Plus(Own1(t, 0), Client(t)) = Own1(t, 1)
  BY OwnPlus
<1> QED
  BY <1>1, <1>2, <1>3, NetFinish

LEMMA ImportsOne ==
  ASSUME NEW t \in Threads, NEW s \in Components, NEW O, NEW Q, s \in Q, s \notin O
  PROVE  /\ Net(t, xCOM_QueryNext \o xCOM_Import(Client(t), s), Own1(t, 1), Imps(O, Q),
                Own1(t, 1), Imps(O \cup {s}, Q \ {s}))
         /\ Net(t, xCOM_QueryNext \o ImportFails(Client(t), s), Own1(t, 1), Imps(O, Q),
                Own1(t, 1), Imps(O, Q \ {s}))
<1>1. Fine(t, Own1(t, 1), Imps(O, Q))
  BY OwnFine
<1>2. O \ {s} = O
  OBVIOUS
<1>3. /\ Set(Imps(O, Q), s, "open") = Imps(O \cup {s}, Q \ {s})
      /\ Set(Imps(O, Q), s, "none") = Imps(O, Q \ {s}) /\ Imps(O, Q)[s] = "queried"
  BY <1>2, ImpsSet
<1> QED
  BY <1>1, <1>3, NetImport, NetUnImport

LEMMA Drops ==
  ASSUME NEW t \in Threads, NEW s \in Components, NEW O, NEW Q, s \notin Q,
         NEW n \in Nat, t = "main" \/ n > 0
  PROVE  Net(t, xCOM_UnImport(Client(t), s), Own1(t, n), Imps(O, Q), Own1(t, n), Imps(O \ {s}, Q))
<1>1. Fine(t, Own1(t, n), Imps(O, Q))
  BY OwnFine
<1>2. Q \ {s} = Q
  OBVIOUS
<1>3. Set(Imps(O, Q), s, "none") = Imps(O \ {s}, Q)
  BY <1>2, ImpsSet
<1> QED
  BY <1>1, <1>3, NetUnImport

-----------------------------------------------------------------------------
(* Steps of the program outside of the library *)

Rest(t, n, O, Q) == Acc([m \in Mutexes |-> 0], Own1(t, n), Imps(O, Q))

\* A thread that is in no call starts one, or none.
Starts(t) ==
  \/ todo' = todo /\ AtRest(t)' = AtRest(t)
  \/ \E q, n, n2, O, O2, Q, Q2 :
       /\ Net(t, q, Own1(t, n), Imps(O, Q), Own1(t, n2), Imps(O2, Q2))
       /\ todo' = [todo EXCEPT ![t] = q]
       /\ AtRest(t) = Rest(t, n, O, Q) /\ AtRest(t)' = Rest(t, n2, O2, Q2)

LEMMA Rests ==
  ASSUME NEW G, Ledger(G), NEW t \in Threads, todo[t] = <<>>
  PROVE  G[t] = AtRest(t) /\ G[t] \in Account
<1>1. Leads(t, <<>>, G[t], AtRest(t))
  BY DEF Ledger, TodoKept
<1> QED
  BY <1>1, LeadsNowhere

LEMMA CallStarts ==
  ASSUME TodoOK, NEW G, Ledger(G), NEW t \in Threads, todo[t] = <<>>, Starts(t),
         UNCHANGED <<owner, depth, refs, imports>>,
         \A u \in Threads : u # t => AtRest(u)' = AtRest(u)
  PROVE  Ledger(G)'
<1>1. LocksKept(G)' /\ ImportsKept(G)' /\ RefsKept(G)'
  BY DEF Ledger, LocksKept, ImportsKept, RefsKept
<1>2. ASSUME NEW u \in Threads
      PROVE  Covered(u, G[u]) /\ Leads(u, todo'[u], G[u], AtRest(u)')
  <2>1. Covered(u, G[u]) /\ Leads(u, todo[u], G[u], AtRest(u))
    BY DEF Ledger, TodoKept
  <2>2. CASE todo' = todo /\ AtRest(t)' = AtRest(t)
    BY <2>1, <2>2
  <2>3. CASE ~(todo' = todo /\ AtRest(t)' = AtRest(t))
    <3>1. PICK q, n, n2, O, O2, Q, Q2 :
            /\ Net(t, q, Own1(t, n), Imps(O, Q), Own1(t, n2), Imps(O2, Q2))
            /\ todo' = [todo EXCEPT ![t] = q]
            /\ AtRest(t) = Rest(t, n, O, Q) /\ AtRest(t)' = Rest(t, n2, O2, Q2)
      BY <2>3 DEF Starts
    <3>2. u # t => todo'[u] = todo[u] /\ AtRest(u)' = AtRest(u)
      BY <3>1 DEF TodoOK
    <3>3. todo'[t] = q
      BY <3>1 DEF TodoOK
    <3>4. G[t] = Rest(t, n, O, Q)
      BY <3>1, Rests
    <3>5. Leads(t, q, Rest(t, n, O, Q), Rest(t, n2, O2, Q2))
      <4>1. [m \in Mutexes |-> 0] \in [Mutexes -> Nat]
        OBVIOUS
      <4> QED BY <3>1, <4>1 DEF Net, Rest
    <3> QED BY <2>1, <3>1, <3>2, <3>3, <3>4, <3>5
  <2> QED BY <2>2, <2>3
<1>3. TodoKept(G)'
  BY <1>2 DEF TodoKept
<1> QED
  BY <1>1, <1>3 DEF Ledger

\* The thread of a component only ends when it was told to quit.
LEMMA LivesSame ==
  ASSUME NEW G, Ledger(G), Lives(G), UNCHANGED <<cstate, refs, quit>>,
         \A x \in Components : /\ Alive(x)' => Alive(x)
                               /\ Alive(x) /\ quit[x] = "no" => Alive(x)'
  PROVE  Lives(G)'
<1>1. ASSUME NEW x \in Components
      PROVE  Stated(G, x)'
  <2>1. Stated(G, x)
    BY DEF Lives
  <2> QED BY <2>1 DEF Stated
<1>2. ASSUME NEW u \in Threads, G[u].dying # Nobody
      PROVE  DyingOK(G[u].dying, G[u].stage)'
  <2>0. PICK x, stage : x = G[u].dying /\ stage = G[u].stage
    OBVIOUS
  <2>1. x \in Components /\ DyingOK(x, stage)
    BY <1>2, <2>0, DyingTyped DEF Lives
  <2>2. DyingOK(x, stage)'
    BY <2>1 DEF DyingOK
  <2> QED BY <2>0, <2>2
<1> QED
  BY <1>1, <1>2 DEF Lives

\* A component with an open import is loaded, and its thread takes calls.
LEMMA OpenAlive ==
  ASSUME NEW G, Ledger(G), Lives(G), NEW t \in Threads, NEW s \in Components,
         G[t].imp[s] = "open"
  PROVE  Alive(s) /\ quit[s] = "no"
BY DEF Lives, Stated

LEMMA RestOpen ==
  ASSUME NEW G, Ledger(G), Lives(G), NEW t \in Threads, todo[t] = <<>>,
         NEW n, NEW O, NEW Q, AtRest(t) = Rest(t, n, O, Q), NEW s \in Components, s \in O
  PROVE  Alive(s)
<1>1. G[t].imp = Imps(O, Q)
  BY Rests DEF Rest, Acc
<1> QED
  BY <1>1, ImpsSet, OpenAlive

LEMMA ComponentsRest ==
  ASSUME NEW u \in Components, work'[u] = work[u]
  PROVE  AtRest(u)' = AtRest(u)
<1>1. u # "main"
  BY Constants
<1> QED
  BY <1>1 DEF AtRest, Asked, TestsOpened, TestsQueried

LEMMA MainRestSame ==
  ASSUME UNCHANGED <<setting, at, i, handles, started>>
  PROVE  AtRest("main")' = AtRest("main")
BY DEF AtRest, Asked, MainOpened, MainQueried, ServicesOpened, TheServices, TheApplications

-----------------------------------------------------------------------------
(* main(): what it holds *)

MainRests ==
  /\ at \in {"boot", "services", "applications"} =>
       AtRest("main") = Rest("main", 0, handles \ {Nobody}, {})
  /\ at \in {"clean", "done"} => AtRest("main") = Rest("main", 0, {}, {})
  /\ at = "service" => AtRest("main") = Rest("main", 1, handles \ {Nobody}, From(TheServices, i))
  /\ at \in {"start", "wait"} =>
       AtRest("main") = Rest("main", 1, handles \ {Nobody}, From(TheServices, i + 1))
  /\ at = "application" =>
       AtRest("main") = Rest("main", 1, handles \ {Nobody}, From(TheApplications, i))
  /\ at = "launch" =>
       AtRest("main") = Rest("main", 1, (handles \ {Nobody}) \cup ({started} \ {Nobody}),
                             From(TheApplications, i + 1))
  /\ at = "finish" =>
       AtRest("main") = Rest("main", 1, (handles \ {Nobody}) \cup ({started} \ {Nobody}),
                             From(TheApplications, i))
  /\ at \in {"exec", "run", "leave"} =>
       AtRest("main") = Rest("main", 0, (handles \ {Nobody}) \cup ({started} \ {Nobody}), {})
  /\ at \in {"stop", "stopped", "drop"} =>
       AtRest("main") = Rest("main", 0, From(TheServices, i) \cap handles, {})

LEMMA MainAt == MainRests /\ MainRests'
<1>1. MainRests
  BY DEF MainRests, AtRest, Asked, MainOpened, MainQueried, ServicesOpened, Rest
<1>2. MainRests'
  BY DEF MainRests, AtRest, Asked, MainOpened, MainQueried, ServicesOpened, Rest
<1> QED
  BY <1>1, <1>2

\* Where main() is in its lists, and which services and application it holds then.
MainPlace ==
  /\ handles \subseteq ToSet(TheServices) \cup {Nobody}
  /\ at \notin {"stop", "stopped", "drop", "done"} => Nobody \notin handles
  /\ at \in {"boot", "services"} => handles = {}
  /\ at = "service" => handles \cap From(TheServices, i) = {}
  /\ at \in {"start", "wait"} =>
       handles \cap From(TheServices, i + 1) = {} /\ TheServices[i] \in handles
  /\ at \in {"service", "stop"} => i <= Len(TheServices) + 1
  /\ at \in {"boot", "services", "service", "start", "wait", "applications", "application"} =>
       started = Nobody
  /\ at = "application" => i <= Len(TheApplications) + 1
  /\ at = "launch" => i \in DOMAIN TheApplications /\ started = TheApplications[i]
  /\ at = "finish" => i \in 2 .. Len(TheApplications) + 1 /\ started = TheApplications[i - 1]
  /\ at \in {"boot", "services", "applications", "exec", "run", "leave", "clean", "done"} => i = 1

LEMMA PartInjective ==
  ASSUME NEW S, NEW q \in Seq(S), IsInjective(q), NEW n \in 0 .. Len(q)
  PROVE  /\ IsInjective(SubSeq(q, 1, n)) /\ Len(SubSeq(q, 1, n)) = n
         /\ ToSet(SubSeq(q, 1, n)) \subseteq ToSet(q)
<1> DEFINE r == SubSeq(q, 1, n)
<1>1. DOMAIN r \subseteq DOMAIN q /\ \A k \in DOMAIN r : r[k] = q[k]
  BY PartOf
<1>2. Len(r) = n
  OBVIOUS
<1> HIDE DEF r
<1>3. IsInjective(r)
  BY <1>1 DEF IsInjective
<1>4. ToSet(r) \subseteq ToSet(q)
  BY <1>1 DEF ToSet
<1> QED
  BY <1>2, <1>3, <1>4 DEF r

LEMMA Lists ==
  ASSUME setting \in Setting
  PROVE  /\ TheServices \in Seq(Components) /\ TheApplications \in Seq(Components)
         /\ IsInjective(TheServices) /\ IsInjective(TheApplications)
         /\ ToSet(TheServices) \subseteq ToSet(Services)
         /\ ToSet(TheApplications) \subseteq ToSet(Applications)
         /\ ToSet(TheServices) \cap ToSet(TheApplications) = {}
         /\ Len(TheServices) \in 0 .. Len(Services)
         /\ Len(TheApplications) \in 0 .. Len(Applications)
         /\ ToSet(TheServices) \subseteq Components /\ ToSet(TheApplications) \subseteq Components
<1>1. setting.services \in 0 .. Len(Services) /\ setting.applications \in 0 .. Len(Applications)
  BY DEF Setting
<1>2. /\ Services \in Seq(Components) /\ Applications \in Seq(Components)
      /\ IsInjective(Services) /\ IsInjective(Applications)
      /\ ToSet(Services) \cap ToSet(Applications) = {}
  BY SpawnAssumption
<1>3. /\ IsInjective(TheServices) /\ Len(TheServices) = setting.services
      /\ ToSet(TheServices) \subseteq ToSet(Services)
  BY <1>1, <1>2, PartInjective DEF TheServices
<1>4. /\ IsInjective(TheApplications) /\ Len(TheApplications) = setting.applications
      /\ ToSet(TheApplications) \subseteq ToSet(Applications)
  BY <1>1, <1>2, PartInjective DEF TheApplications
<1>5. TheServices \in Seq(Components) /\ TheApplications \in Seq(Components)
  BY TheServicesOK
<1>6. ToSet(TheServices) \subseteq Components /\ ToSet(TheApplications) \subseteq Components
  BY <1>5 DEF ToSet
<1> QED
  BY <1>1, <1>2, <1>3, <1>4, <1>5, <1>6

LEMMA StartsWith ==
  ASSUME NEW t, NEW q, NEW n, NEW n2, NEW O, NEW O2, NEW Q, NEW Q2,
         Net(t, q, Own1(t, n), Imps(O, Q), Own1(t, n2), Imps(O2, Q2)),
         todo' = [todo EXCEPT ![t] = q],
         AtRest(t) = Rest(t, n, O, Q), AtRest(t)' = Rest(t, n2, O2, Q2)
  PROVE  Starts(t)
BY DEF Starts

\* What the steps of main() have in common.
LEMMA MainCommon ==
  ASSUME ProgramOK, MainStep
  PROVE  /\ setting \in Setting /\ UNCHANGED <<setting, work, owner, depth, cstate, refs, imports>>
         /\ TheServices' = TheServices /\ TheApplications' = TheApplications
         /\ todo["main"] = <<>> /\ fault = "none" /\ i \in Nat \ {0}
         /\ Client("main") = Anonymous /\ "main" \in Threads
<1>1. /\ UNCHANGED <<setting, work, owner, depth, cstate, refs, imports>>
      /\ todo["main"] = <<>> /\ fault = "none"
  <2> USE DEF Main, Calm, locksAlone, threadsAlone, lockVars, workVars
  <2>1. CASE Boot \/ QueryServices \/ NoArrays \/ ImportService \/ StartService \/ StartFails
    BY <2>1 DEF Boot, QueryServices, NoArrays, ImportService, StartService, StartFails
  <2>2. CASE WaitService \/ FinishServices \/ QueryApplications \/ ImportApplication
               \/ StartApplication
    BY <2>2 DEF WaitService, MainWaits, FinishServices, QueryApplications, ImportApplication,
                StartApplication
  <2>3. CASE FinishApplications \/ ExecWaits \/ ExecRuns \/ ExecReturns \/ Leave
    BY <2>3 DEF FinishApplications, ExecWaits, ExecRuns, ExecReturns, Leave
  <2>4. CASE StopService \/ SkipService \/ NullHandles \/ WaitStopped \/ DropService \/ CleanUp
    BY <2>4 DEF StopService, SkipService, NullHandles, WaitStopped, MainWaits, DropService, CleanUp
  <2> QED BY <2>1, <2>2, <2>3, <2>4 DEF MainStep
<1> QED
  BY <1>1, Constants DEF ProgramOK, MainOK, TheServices, TheApplications, Client

\* The services: main() queries for them, and imports the one after the other.
LEMMA MainBoot ==
  ASSUME ProgramOK, MainPlace, Boot
  PROVE  MainPlace' /\ Starts("main")
<1>1. TheServices' = TheServices /\ TheApplications' = TheApplications
  BY MainCommon DEF MainStep
<1>2. /\ at = "boot" /\ at' \in {"services", "clean"} /\ i' = 1 /\ todo' = todo
      /\ handles' = handles /\ started' = started
  BY DEF Boot, Main, GoOn, lockVars
<1>3. handles = {} /\ started = Nobody
  BY <1>2 DEF MainPlace
<1>4. MainPlace'
  BY <1>1, <1>2, <1>3 DEF MainPlace
<1>5. AtRest("main")' = AtRest("main")
  BY <1>2, <1>3, MainAt DEF MainRests
<1> QED
  BY <1>2, <1>4, <1>5 DEF Starts

LEMMA MainQueryServices ==
  ASSUME ProgramOK, MainPlace, QueryServices
  PROVE  MainPlace' /\ Starts("main")
<1>1. /\ TheServices' = TheServices /\ TheApplications' = TheApplications
      /\ setting \in Setting /\ Client("main") = Anonymous /\ "main" \in Threads
  BY MainCommon DEF MainStep
<1>2. at = "services" /\ i' = 1 /\ UNCHANGED <<handles, started>> /\ handles = {} /\ started = Nobody
  BY DEF QueryServices, Main, GoOn, MainPlace
<1>3. /\ TheServices \in Seq(Components) /\ IsInjective(TheServices) /\ Len(TheServices) \in Nat
      /\ From(TheServices, 1) = ToSet(TheServices)
  BY <1>1, Lists, FromNext
<1>4. AtRest("main") = Rest("main", 0, {}, {})
  BY <1>2, MainAt DEF MainRests
<1>5. Fine("main", Own1("main", 0), Imps({}, {}))
  BY <1>1, OwnFine
<1>6. CASE at' = "service" /\ todo' = [todo EXCEPT !["main"] = xCOM_QueryInterface(Anonymous, TheServices)]
  <2>1. MainPlace'
    BY <1>1, <1>2, <1>3, <1>6 DEF MainPlace
  <2>2. Net("main", query_new(Anonymous, TheServices), Own1("main", 0), Imps({}, {}),
            Own1("main", 0 + 1), Imps({}, ToSet(TheServices)))
    BY <1>1, <1>3, Queries
  <2>3. Net("main", xCOM_QueryInterface(Anonymous, TheServices), Own1("main", 0), Imps({}, {}),
            Own1("main", 1), Imps({}, ToSet(TheServices)))
    BY <1>5, <2>2, NetByInterface DEF xCOM_QueryInterface
  <2>4. AtRest("main")' = Rest("main", 1, {}, ToSet(TheServices))
    BY <1>1, <1>2, <1>3, <1>6, MainAt DEF MainRests
  <2> QED BY <1>4, <1>6, <2>1, <2>3, <2>4, StartsWith
<1>7. CASE at' = "clean" /\ todo' = [todo EXCEPT !["main"] = ByInterface(Anonymous, query_new_fails(Anonymous))]
  <2>1. MainPlace'
    BY <1>1, <1>2, <1>7 DEF MainPlace
  <2>2. Net("main", query_new_fails(Anonymous), Own1("main", 0), Imps({}, {}),
            Own1("main", 0), Imps({}, {}))
    BY <1>1, <1>5, NetQueryFails
  <2>3. Net("main", ByInterface(Anonymous, query_new_fails(Anonymous)), Own1("main", 0), Imps({}, {}),
            Own1("main", 0), Imps({}, {}))
    BY <1>5, <2>2, NetByInterface
  <2>4. AtRest("main")' = Rest("main", 0, {}, {})
    BY <1>7, MainAt DEF MainRests
  <2> QED BY <1>4, <1>7, <2>1, <2>3, <2>4, StartsWith
<1> QED
  BY <1>6, <1>7 DEF QueryServices, GoOn, MainCalls

LEMMA MainNoArrays ==
  ASSUME ProgramOK, MainPlace, NoArrays
  PROVE  MainPlace' /\ Starts("main")
<1>1. /\ TheServices' = TheServices /\ TheApplications' = TheApplications
      /\ setting \in Setting /\ Client("main") = Anonymous /\ "main" \in Threads
  BY MainCommon DEF MainStep
<1>2. /\ at = "service" /\ i = 1 /\ at' = "stop" /\ i' = 1 /\ handles = {} /\ handles' = {Nobody}
      /\ todo' = [todo EXCEPT !["main"] = xCOM_QueryFinish(Anonymous, TheServices)]
  BY DEF NoArrays, Main, GoOn, MainCalls
<1>3. /\ TheServices \in Seq(Components) /\ Len(TheServices) \in Nat
      /\ From(TheServices, 1) = ToSet(TheServices) /\ Nobody \notin ToSet(TheServices)
  BY <1>1, Lists, FromNext, Constants
<1>4. MainPlace'
  BY <1>1, <1>2, <1>3 DEF MainPlace
<1>5. AtRest("main") = Rest("main", 1, {}, ToSet(TheServices))
  BY <1>2, <1>3, MainAt DEF MainRests
<1>6. AtRest("main")' = Rest("main", 0, {}, {})
  <2>1. ToSet(TheServices) \cap {Nobody} = {}
    BY <1>3
  <2> QED BY <1>1, <1>2, <1>3, <2>1, MainAt DEF MainRests
<1>7. Net("main", xCOM_QueryFinish(Anonymous, TheServices), Own1("main", 1),
          Imps({}, ToSet(TheServices)), Own1("main", 0), Imps({}, {}))
  BY <1>1, <1>3, Finishes
<1> QED
  BY <1>2, <1>4, <1>5, <1>6, <1>7, StartsWith

LEMMA MainImportService ==
  ASSUME ProgramOK, MainPlace, ImportService
  PROVE  MainPlace' /\ Starts("main")
<1>1. /\ TheServices' = TheServices /\ TheApplications' = TheApplications
      /\ setting \in Setting /\ Client("main") = Anonymous /\ "main" \in Threads /\ i \in Nat \ {0}
  BY MainCommon DEF MainStep
<1>2. at = "service" /\ i <= Len(TheServices) /\ started' = started
  BY DEF ImportService, Main
<1>3. /\ TheServices \in Seq(Components) /\ IsInjective(TheServices) /\ Len(TheServices) \in Nat
      /\ i \in DOMAIN TheServices /\ Nobody \notin Components
  BY <1>1, <1>2, Lists, Constants
<1> DEFINE s == TheServices[i]
           Q == From(TheServices, i)
<1>4. /\ s \in Components /\ s \in Q /\ From(TheServices, i + 1) = Q \ {s} /\ s \in ToSet(TheServices)
  BY <1>1, <1>3, FromNext DEF ToSet
<1>5. /\ handles \cap Q = {} /\ Nobody \notin handles /\ started = Nobody
      /\ handles \subseteq ToSet(TheServices) \cup {Nobody}
  BY <1>2 DEF MainPlace
<1>6. AtRest("main") = Rest("main", 1, handles, Q)
  <2>1. handles \ {Nobody} = handles
    BY <1>5
  <2> QED BY <1>2, <2>1, MainAt DEF MainRests
<1>7. s \notin handles /\ s # Nobody
  BY <1>3, <1>4, <1>5
<1>8. CASE /\ todo' = [todo EXCEPT !["main"] = xCOM_QueryNext \o xCOM_Import(Anonymous, s)]
           /\ handles' = handles \cup {s} /\ at' = "start" /\ i' = i
  <2> HIDE DEF s
  <2>1. handles' \cap From(TheServices, i' + 1) = {} /\ s \in handles' /\ Nobody \notin handles'
        /\ handles' \subseteq ToSet(TheServices) \cup {Nobody} /\ handles' \ {Nobody} = handles \cup {s}
    BY <1>4, <1>5, <1>7, <1>8
  <2>2. MainPlace'
    BY <1>1, <1>2, <1>5, <1>8, <2>1 DEF MainPlace, s
  <2>3. AtRest("main")' = Rest("main", 1, handles \cup {s}, Q \ {s})
    BY <1>1, <1>4, <1>8, <2>1, MainAt DEF MainRests
  <2>4. Net("main", xCOM_QueryNext \o xCOM_Import(Anonymous, s), Own1("main", 1), Imps(handles, Q),
            Own1("main", 1), Imps(handles \cup {s}, Q \ {s}))
    BY <1>1, <1>4, <1>7, ImportsOne
  <2> QED BY <1>6, <1>8, <2>2, <2>3, <2>4, StartsWith
<1>9. CASE /\ todo' = [todo EXCEPT !["main"] = xCOM_QueryNext \o ImportFails(Anonymous, s)]
           /\ handles' = handles /\ at' = "service" /\ i' = i + 1
  <2> HIDE DEF s
  <2>1. handles' \cap From(TheServices, i') = {} /\ handles' \ {Nobody} = handles
    BY <1>4, <1>5, <1>9
  <2>2. MainPlace'
    BY <1>1, <1>2, <1>3, <1>5, <1>9, <2>1 DEF MainPlace
  <2>3. AtRest("main")' = Rest("main", 1, handles, Q \ {s})
    BY <1>1, <1>4, <1>9, <2>1, MainAt DEF MainRests
  <2>4. Net("main", xCOM_QueryNext \o ImportFails(Anonymous, s), Own1("main", 1), Imps(handles, Q),
            Own1("main", 1), Imps(handles, Q \ {s}))
    BY <1>1, <1>4, <1>7, ImportsOne
  <2> QED BY <1>6, <1>9, <2>2, <2>3, <2>4, StartsWith
<1> QED
  BY <1>8, <1>9 DEF ImportService, GoOn, MainCalls

\* The statements of main() at which it holds what it held before.
LEMMA MainStays ==
  ASSUME ProgramOK, MainPlace,
         \/ StartService \/ StartFails \/ WaitService \/ StartApplication \/ ExecWaits
         \/ ExecRuns \/ ExecReturns \/ StopService \/ SkipService \/ NullHandles \/ WaitStopped
         \/ CleanUp
  PROVE  MainPlace' /\ Starts("main")
<1>1. /\ TheServices' = TheServices /\ TheApplications' = TheApplications
      /\ setting \in Setting /\ i \in Nat \ {0} /\ MainOK
  BY MainCommon DEF MainStep, ProgramOK
<1>2. /\ TheServices \in Seq(Components) /\ IsInjective(TheServices) /\ Len(TheServices) \in Nat
      /\ TheApplications \in Seq(Components) /\ IsInjective(TheApplications)
      /\ Len(TheApplications) \in Nat
      /\ DOMAIN TheServices = 1 .. Len(TheServices)
      /\ DOMAIN TheApplications = 1 .. Len(TheApplications)
  BY <1>1, Lists
<1>3. todo' = todo /\ handles' = handles /\ started' = started
  BY DEF StartService, StartFails, WaitService, MainWaits, StartApplication, ExecWaits, ExecRuns,
         ExecReturns, StopService, SkipService, NullHandles, WaitStopped, CleanUp, lockVars, mainVars
<1>4. CASE at = "start" /\ ((at' = "wait" /\ i' = i) \/ (at' = "service" /\ i' = i + 1))
  <2>1. i \in DOMAIN TheServices
    BY <1>1, <1>4 DEF MainOK
  <2>2. MainPlace'
    BY <1>1, <1>2, <1>3, <1>4, <2>1 DEF MainPlace
  <2>3. AtRest("main")' = AtRest("main")
    BY <1>1, <1>3, <1>4, MainAt DEF MainRests
  <2> QED BY <1>3, <2>2, <2>3 DEF Starts
<1>5. CASE at = "wait" /\ at' = "service" /\ i' = i + 1
  <2>1. i \in DOMAIN TheServices
    BY <1>1, <1>5 DEF MainOK
  <2>2. MainPlace'
    BY <1>1, <1>2, <1>3, <1>5, <2>1 DEF MainPlace
  <2>3. AtRest("main")' = AtRest("main")
    BY <1>1, <1>3, <1>5, MainAt DEF MainRests
  <2> QED BY <1>3, <2>2, <2>3 DEF Starts
<1>6. CASE at = "launch" /\ at' = "finish" /\ i' = i + 1
  <2>1. i \in DOMAIN TheApplications /\ started = TheApplications[i] /\ i' - 1 = i
    BY <1>1, <1>6 DEF MainPlace
  <2>2. MainPlace'
    BY <1>1, <1>2, <1>3, <1>6, <2>1 DEF MainPlace
  <2>3. AtRest("main")' = AtRest("main")
    BY <1>1, <1>3, <1>6, MainAt DEF MainRests
  <2> QED BY <1>3, <2>2, <2>3 DEF Starts
<1>7. CASE at \in {"exec", "run"} /\ at' \in {"run", "leave"} /\ i' = 1
  <2>1. MainPlace'
    BY <1>1, <1>3, <1>7 DEF MainPlace
  <2>2. AtRest("main")' = AtRest("main")
    BY <1>3, <1>7, MainAt DEF MainRests
  <2> QED BY <1>3, <2>1, <2>2 DEF Starts
<1>8. CASE at \in {"stop", "stopped"} /\ at' \in {"stopped", "drop"} /\ i' = i
  <2>1. MainPlace'
    BY <1>1, <1>3, <1>8 DEF MainPlace
  <2>2. AtRest("main")' = AtRest("main")
    BY <1>1, <1>3, <1>8, MainAt DEF MainRests
  <2> QED BY <1>3, <2>1, <2>2 DEF Starts
<1>9. CASE at = "stop" /\ i <= Len(TheServices) /\ TheServices[i] \notin handles /\ at' = "stop" /\ i' = i + 1
  <2>1. MainPlace'
    BY <1>1, <1>2, <1>3, <1>9 DEF MainPlace
  <2>2. From(TheServices, i + 1) = From(TheServices, i) \ {TheServices[i]}
    BY <1>1, <1>2, <1>9, FromNext
  <2>3. From(TheServices, i + 1) \cap handles = From(TheServices, i) \cap handles
    BY <1>9, <2>2
  <2>4. AtRest("main")' = AtRest("main")
    BY <1>1, <1>3, <1>9, <2>3, MainAt DEF MainRests
  <2> QED BY <1>3, <2>1, <2>4 DEF Starts
<1>10. CASE (at = "clean" \/ (at = "stop" /\ i > Len(TheServices))) /\ at' = "done" /\ i' = 1
  <2>1. MainPlace'
    BY <1>1, <1>3, <1>10 DEF MainPlace
  <2>2. i > Len(TheServices) => From(TheServices, i) = {}
    BY <1>1, <1>2, FromNext
  <2>3. AtRest("main")' = AtRest("main")
    BY <1>10, <2>2, MainAt DEF MainRests
  <2> QED BY <1>3, <2>1, <2>3 DEF Starts
<1>11. CASE NullHandles
  <2>1. UNCHANGED <<setting, at, i, handles, started>>
    BY <1>11 DEF NullHandles, mainVars
  <2>2. MainPlace'
    BY <1>1, <2>1 DEF MainPlace
  <2> QED BY <1>3, <2>1, <2>2, MainRestSame DEF Starts
<1>12. CASE StartService \/ StartFails \/ WaitService \/ StartApplication
  <2>1. CASE StartService \/ StartFails
    BY <1>4, <2>1 DEF StartService, StartFails, Main, GoOn
  <2>2. CASE WaitService
    BY <1>5, <2>2 DEF WaitService, MainWaits, Main, GoOn
  <2>3. CASE StartApplication
    BY <1>6, <2>3 DEF StartApplication, Main, GoOn
  <2> QED BY <1>12, <2>1, <2>2, <2>3
<1>13. CASE ExecWaits \/ ExecRuns \/ ExecReturns
  BY <1>7, <1>13 DEF ExecWaits, ExecRuns, ExecReturns, Main, GoOn
<1>14. CASE StopService \/ WaitStopped
  BY <1>8, <1>14 DEF StopService, WaitStopped, MainWaits, Main, GoOn
<1>15. CASE SkipService
  BY <1>9, <1>15 DEF SkipService, Main, GoOn
<1>16. CASE CleanUp
  <2>1. at = "clean" \/ (at = "stop" /\ i > Len(TheServices))
    BY <1>16 DEF CleanUp, Main
  <2>2. at' = "done" /\ i' = 1
    BY <1>16 DEF CleanUp, GoOn
  <2> QED BY <1>10, <2>1, <2>2
<1> QED
  BY <1>11, <1>12, <1>13, <1>14, <1>15, <1>16

LEMMA MainFinishServices ==
  ASSUME ProgramOK, MainPlace, FinishServices
  PROVE  MainPlace' /\ Starts("main")
<1>1. /\ TheServices' = TheServices /\ TheApplications' = TheApplications
      /\ setting \in Setting /\ Client("main") = Anonymous /\ "main" \in Threads /\ i \in Nat \ {0}
  BY MainCommon DEF MainStep
<1>2. /\ at = "service" /\ i > Len(TheServices) /\ at' \in {"applications", "stop"} /\ i' = 1
      /\ UNCHANGED <<handles, started>>
      /\ todo' = [todo EXCEPT !["main"] = xCOM_QueryFinish(Anonymous, <<>>)]
  BY DEF FinishServices, Main, GoOn, MainCalls
<1>3. /\ handles \subseteq ToSet(TheServices) /\ Nobody \notin handles /\ started = Nobody
  BY <1>2 DEF MainPlace
<1>4. /\ From(TheServices, i) = {} /\ From(TheServices, 1) = ToSet(TheServices)
      /\ Len(TheServices) \in Nat
  BY <1>1, <1>2, Lists, FromNext
<1>5. MainPlace'
  BY <1>1, <1>2, <1>3, <1>4 DEF MainPlace
<1>6. handles \ {Nobody} = handles /\ From(TheServices, 1) \cap handles = handles
  BY <1>3, <1>4
<1>7. AtRest("main") = Rest("main", 1, handles, {})
  BY <1>2, <1>4, <1>6, MainAt DEF MainRests
<1>8. AtRest("main")' = Rest("main", 0, handles, {})
  BY <1>1, <1>2, <1>6, MainAt DEF MainRests
<1>9. <<>> \in Seq(Components) /\ ToSet(<<>>) = {}
  BY DEF ToSet
<1>10. Net("main", xCOM_QueryFinish(Anonymous, <<>>), Own1("main", 1), Imps(handles, {}),
           Own1("main", 0), Imps(handles, {}))
  <2>1. handles \cap ToSet(<<>>) = {} /\ {} \subseteq ToSet(<<>>)
    BY <1>9
  <2> QED BY <1>1, <1>9, <2>1, Finishes
<1> QED
  BY <1>2, <1>5, <1>7, <1>8, <1>10, StartsWith

\* The application
LEMMA MainQueryApplications ==
  ASSUME ProgramOK, MainPlace, QueryApplications
  PROVE  MainPlace' /\ Starts("main")
<1>1. /\ TheServices' = TheServices /\ TheApplications' = TheApplications
      /\ setting \in Setting /\ Client("main") = Anonymous /\ "main" \in Threads
  BY MainCommon DEF MainStep
<1>2. at = "applications" /\ i' = 1 /\ UNCHANGED <<handles, started>>
  BY DEF QueryApplications, Main, GoOn
<1>3. /\ handles \subseteq ToSet(TheServices) /\ Nobody \notin handles /\ started = Nobody
      /\ handles \ {Nobody} = handles
  BY <1>2 DEF MainPlace
<1>4. /\ TheApplications \in Seq(Components) /\ IsInjective(TheApplications)
      /\ Len(TheApplications) \in Nat /\ From(TheApplications, 1) = ToSet(TheApplications)
      /\ handles \cap ToSet(TheApplications) = {}
  BY <1>1, <1>3, Lists, FromNext
<1>5. AtRest("main") = Rest("main", 0, handles, {})
  BY <1>2, <1>3, MainAt DEF MainRests
<1>6. Fine("main", Own1("main", 0), Imps(handles, {}))
  BY <1>1, OwnFine
<1>7. CASE /\ at' = "application"
           /\ todo' = [todo EXCEPT !["main"] = xCOM_QueryInterface(Anonymous, TheApplications)]
  <2>1. MainPlace'
    BY <1>1, <1>2, <1>3, <1>4, <1>7 DEF MainPlace
  <2>2. Net("main", query_new(Anonymous, TheApplications), Own1("main", 0), Imps(handles, {}),
            Own1("main", 0 + 1), Imps(handles, ToSet(TheApplications)))
    BY <1>1, <1>4, Queries
  <2>3. Net("main", xCOM_QueryInterface(Anonymous, TheApplications), Own1("main", 0),
            Imps(handles, {}), Own1("main", 1), Imps(handles, ToSet(TheApplications)))
    BY <1>6, <2>2, NetByInterface DEF xCOM_QueryInterface
  <2>4. AtRest("main")' = Rest("main", 1, handles, ToSet(TheApplications))
    BY <1>1, <1>2, <1>3, <1>4, <1>7, MainAt DEF MainRests
  <2> QED BY <1>5, <1>7, <2>1, <2>3, <2>4, StartsWith
<1>8. CASE /\ at' = "leave"
           /\ todo' = [todo EXCEPT !["main"] = ByInterface(Anonymous, query_new_fails(Anonymous))]
  <2>1. MainPlace'
    BY <1>1, <1>2, <1>3, <1>8 DEF MainPlace
  <2>2. Net("main", query_new_fails(Anonymous), Own1("main", 0), Imps(handles, {}),
            Own1("main", 0), Imps(handles, {}))
    BY <1>1, <1>6, NetQueryFails
  <2>3. Net("main", ByInterface(Anonymous, query_new_fails(Anonymous)), Own1("main", 0),
            Imps(handles, {}), Own1("main", 0), Imps(handles, {}))
    BY <1>6, <2>2, NetByInterface
  <2>4. AtRest("main")' = Rest("main", 0, handles, {})
    <3>1. handles \cup ({started} \ {Nobody}) = handles
      BY <1>3
    <3> QED BY <1>2, <1>3, <1>8, <3>1, MainAt DEF MainRests
  <2> QED BY <1>5, <1>8, <2>1, <2>3, <2>4, StartsWith
<1> QED
  BY <1>7, <1>8 DEF QueryApplications, GoOn, MainCalls

LEMMA MainImportApplication ==
  ASSUME ProgramOK, MainPlace, ImportApplication
  PROVE  MainPlace' /\ Starts("main")
<1>1. /\ TheServices' = TheServices /\ TheApplications' = TheApplications
      /\ setting \in Setting /\ Client("main") = Anonymous /\ "main" \in Threads /\ i \in Nat \ {0}
  BY MainCommon DEF MainStep
<1>2. at = "application" /\ i <= Len(TheApplications) /\ handles' = handles
  BY DEF ImportApplication, Main
<1>3. /\ TheApplications \in Seq(Components) /\ IsInjective(TheApplications)
      /\ Len(TheApplications) \in Nat /\ i \in DOMAIN TheApplications /\ Nobody \notin Components
  BY <1>1, <1>2, Lists, Constants
<1> DEFINE s == TheApplications[i]
           Q == From(TheApplications, i)
<1>4. /\ s \in Components /\ s \in Q /\ From(TheApplications, i + 1) = Q \ {s}
      /\ s \in ToSet(TheApplications)
  BY <1>1, <1>3, FromNext DEF ToSet
<1>5. /\ handles \subseteq ToSet(TheServices) /\ Nobody \notin handles /\ started = Nobody
      /\ handles \ {Nobody} = handles
  BY <1>2 DEF MainPlace
<1>6. s \notin handles /\ s # Nobody
  BY <1>1, <1>3, <1>4, <1>5, Lists
<1>7. AtRest("main") = Rest("main", 1, handles, Q)
  BY <1>2, <1>5, MainAt DEF MainRests
<1>8. CASE /\ todo' = [todo EXCEPT !["main"] = xCOM_QueryNext \o xCOM_Import(Anonymous, s)]
           /\ started' = s /\ at' = "launch" /\ i' = i
  <2>1. MainPlace'
    BY <1>1, <1>2, <1>3, <1>5, <1>8 DEF MainPlace
  <2> HIDE DEF s
  <2>2. AtRest("main")' = Rest("main", 1, handles \cup {s}, Q \ {s})
    <3>1. {s} \ {Nobody} = {s}
      BY <1>6
    <3> QED BY <1>1, <1>2, <1>4, <1>5, <1>8, <3>1, MainAt DEF MainRests
  <2>3. Net("main", xCOM_QueryNext \o xCOM_Import(Anonymous, s), Own1("main", 1), Imps(handles, Q),
            Own1("main", 1), Imps(handles \cup {s}, Q \ {s}))
    BY <1>1, <1>4, <1>6, ImportsOne
  <2> QED BY <1>7, <1>8, <2>1, <2>2, <2>3, StartsWith
<1>9. CASE /\ todo' = [todo EXCEPT !["main"] = xCOM_QueryNext \o ImportFails(Anonymous, s)]
           /\ started' = started /\ at' = "application" /\ i' = i + 1
  <2>1. MainPlace'
    BY <1>1, <1>2, <1>3, <1>5, <1>9 DEF MainPlace
  <2> HIDE DEF s
  <2>2. AtRest("main")' = Rest("main", 1, handles, Q \ {s})
    BY <1>1, <1>2, <1>4, <1>5, <1>9, MainAt DEF MainRests
  <2>3. Net("main", xCOM_QueryNext \o ImportFails(Anonymous, s), Own1("main", 1), Imps(handles, Q),
            Own1("main", 1), Imps(handles, Q \ {s}))
    BY <1>1, <1>4, <1>6, ImportsOne
  <2> QED BY <1>7, <1>9, <2>1, <2>2, <2>3, StartsWith
<1> QED
  BY <1>8, <1>9 DEF ImportApplication, GoOn, MainCalls

\* The applications of the query that were not imported are released.
LEMMA MainFinishApplications ==
  ASSUME ProgramOK, MainPlace, FinishApplications
  PROVE  MainPlace' /\ Starts("main")
<1>1. /\ TheServices' = TheServices /\ TheApplications' = TheApplications
      /\ setting \in Setting /\ Client("main") = Anonymous /\ "main" \in Threads /\ i \in Nat \ {0}
  BY MainCommon DEF MainStep
<1> DEFINE A == TheApplications
           unused == SubSeq(A, i, Len(A))
           O == handles \cup ({started} \ {Nobody})
<1>2. /\ at \in {"application", "finish"} /\ UNCHANGED <<handles, started>>
      /\ at = "application" => i > Len(A)
      /\ at' \in {"exec", "leave"} /\ i' = 1
      /\ todo' = [todo EXCEPT !["main"] = xCOM_QueryFinish(Anonymous, unused)]
  BY DEF FinishApplications, Main, GoOn, MainCalls
<1>3. /\ A \in Seq(Components) /\ IsInjective(A) /\ Len(A) \in Nat
      /\ ToSet(TheServices) \cap ToSet(A) = {} /\ DOMAIN A = 1 .. Len(A)
  BY <1>1, Lists
<1>4. /\ handles \subseteq ToSet(TheServices) /\ Nobody \notin handles
      /\ handles \ {Nobody} = handles
      /\ at = "application" => started = Nobody
      /\ at = "finish" => i \in 2 .. Len(A) + 1 /\ started = A[i - 1]
      /\ i <= Len(A) + 1
  BY <1>2, <1>3 DEF MainPlace
<1>5. unused \in Seq(Components) /\ ToSet(unused) = From(A, i)
  BY <1>1, <1>3, <1>4, RestOf
<1>6. From(A, i) \subseteq ToSet(A)
  BY <1>1, <1>3, FromNext
<1>7. O \cap From(A, i) = {}
  <2>1. CASE at = "application"
    <3>1. O = handles
      BY <1>4, <2>1
    <3> QED BY <1>3, <1>4, <1>6, <3>1
  <2>2. CASE at = "finish"
    <3>1. i - 1 \in Nat \ {0} /\ i - 1 \in DOMAIN A /\ i - 1 + 1 = i
      BY <1>3, <1>4, <2>2
    <3>2. From(A, i) = From(A, i - 1) \ {started}
      BY <1>3, <1>4, <2>2, <3>1, FromNext
    <3> QED BY <1>3, <1>4, <1>6, <3>2
  <2> QED BY <1>2, <2>1, <2>2
<1>8. MainPlace'
  BY <1>1, <1>2, <1>4 DEF MainPlace
<1>9. AtRest("main") = Rest("main", 1, O, From(A, i))
  <2>1. CASE at = "application"
    <3>1. O = handles
      BY <1>4, <2>1
    <3> QED BY <1>4, <2>1, <3>1, MainAt DEF MainRests
  <2>2. CASE at = "finish"
    BY <1>4, <2>2, MainAt DEF MainRests
  <2> QED BY <1>2, <2>1, <2>2
<1>10. AtRest("main")' = Rest("main", 0, O, {})
  BY <1>2, <1>4, MainAt DEF MainRests
<1> HIDE DEF unused, O
<1>11. Net("main", xCOM_QueryFinish(Anonymous, unused), Own1("main", 1), Imps(O, From(A, i)),
           Own1("main", 0), Imps(O, {}))
  BY <1>1, <1>5, <1>7, Finishes
<1> QED
  BY <1>2, <1>8, <1>9, <1>10, <1>11, StartsWith

LEMMA MainLeave ==
  ASSUME ProgramOK, MainPlace, Leave
  PROVE  MainPlace' /\ Starts("main")
<1>1. /\ TheServices' = TheServices /\ TheApplications' = TheApplications
      /\ setting \in Setting /\ Client("main") = Anonymous /\ "main" \in Threads
  BY MainCommon DEF MainStep
<1>2. at = "leave" /\ at' = "stop" /\ i' = 1 /\ UNCHANGED <<handles, started>>
  BY DEF Leave, Main, GoOn
<1>3. /\ handles \subseteq ToSet(TheServices) /\ handles \ {Nobody} = handles
  BY <1>2 DEF MainPlace
<1>4. /\ From(TheServices, 1) = ToSet(TheServices) /\ Len(TheServices) \in Nat
      /\ ToSet(TheServices) \cap ToSet(Applications) = {}
  <2>1. ToSet(Services) \cap ToSet(Applications) = {}
    BY SpawnAssumption
  <2> QED BY <1>1, <2>1, Lists, FromNext
<1>5. MainPlace'
  BY <1>1, <1>2, <1>3, <1>4 DEF MainPlace
<1>6. AtRest("main")' = Rest("main", 0, handles, {})
  <2>1. From(TheServices, 1) \cap handles = handles
    BY <1>3, <1>4
  <2> QED BY <1>1, <1>2, <2>1, MainAt DEF MainRests
<1>7. CASE started = Nobody
  <2>1. handles \cup ({started} \ {Nobody}) = handles
    BY <1>7
  <2>2. AtRest("main") = Rest("main", 0, handles, {})
    BY <1>2, <1>3, <2>1, MainAt DEF MainRests
  <2>3. todo' = todo
    BY <1>7 DEF Leave
  <2> QED BY <1>5, <1>6, <2>2, <2>3 DEF Starts
<1>8. CASE started # Nobody
  <2>1. started \in ToSet(Applications)
    BY <1>8 DEF ProgramOK, MainOK
  <2>2. started \in Components /\ started \notin handles
    BY <1>3, <1>4, <2>1, Constants DEF ToSet
  <2>3. handles \cup ({started} \ {Nobody}) = handles \cup {started}
    BY <1>8
  <2>4. AtRest("main") = Rest("main", 0, handles \cup {started}, {})
    BY <1>2, <1>3, <2>3, MainAt DEF MainRests
  <2>5. (handles \cup {started}) \ {started} = handles
    BY <2>2
  <2>6. Net("main", xCOM_UnImport(Anonymous, started), Own1("main", 0), Imps(handles \cup {started}, {}),
            Own1("main", 0), Imps(handles, {}))
    BY <1>1, <2>2, <2>5, Drops
  <2>7. todo' = [todo EXCEPT !["main"] = xCOM_UnImport(Anonymous, started)]
    BY <1>8 DEF Leave, MainCalls
  <2> QED BY <1>5, <1>6, <2>4, <2>6, <2>7, StartsWith
<1> QED
  BY <1>7, <1>8

LEMMA MainDropService ==
  ASSUME ProgramOK, MainPlace, DropService
  PROVE  MainPlace' /\ Starts("main")
<1>1. /\ TheServices' = TheServices /\ TheApplications' = TheApplications
      /\ setting \in Setting /\ Client("main") = Anonymous /\ "main" \in Threads /\ i \in Nat \ {0}
  BY MainCommon DEF MainStep
<1> DEFINE s == TheServices[i]
           O == From(TheServices, i) \cap handles
<1>2. /\ at = "drop" /\ at' = "stop" /\ i' = i + 1 /\ UNCHANGED <<handles, started>>
      /\ todo' = [todo EXCEPT !["main"] = xCOM_UnImport(Anonymous, s)]
  BY DEF DropService, Main, GoOn, MainCalls
<1>3. i \in DOMAIN TheServices
  BY <1>2 DEF ProgramOK, MainOK
<1>4. /\ s \in Components /\ i <= Len(TheServices) /\ Len(TheServices) \in Nat
      /\ From(TheServices, i + 1) = From(TheServices, i) \ {s}
  BY <1>1, <1>3, Lists, FromNext
<1>5. MainPlace'
  BY <1>1, <1>2, <1>4 DEF MainPlace
<1>6. AtRest("main") = Rest("main", 0, O, {})
  BY <1>2, MainAt DEF MainRests
<1>7. AtRest("main")' = Rest("main", 0, O \ {s}, {})
  <2>1. From(TheServices, i + 1) \cap handles = O \ {s}
    BY <1>4
  <2> QED BY <1>1, <1>2, <2>1, MainAt DEF MainRests
<1> HIDE DEF s, O
<1>8. Net("main", xCOM_UnImport(Anonymous, s), Own1("main", 0), Imps(O, {}), Own1("main", 0),
          Imps(O \ {s}, {}))
  BY <1>1, <1>4, Drops
<1> QED
  BY <1>2, <1>5, <1>6, <1>7, <1>8, StartsWith

LEMMA MainStarts ==
  ASSUME ProgramOK, MainPlace, MainStep
  PROVE  MainPlace' /\ Starts("main")
BY MainBoot, MainQueryServices, MainNoArrays, MainImportService, MainFinishServices, MainStays,
   MainQueryApplications, MainImportApplication, MainFinishApplications, MainLeave,
   MainDropService DEF MainStep

\* The calls that main() makes are those of components that it imported.
LEMMA MainQueues ==
  ASSUME ProgramOK, MainPlace, NEW G, Ledger(G), Lives(G), MainStep
  PROVE  /\ QueueNext \/ UNCHANGED queueVars
         /\ UNCHANGED <<quit, thread>>
<1>1. /\ setting \in Setting /\ "main" \in Threads /\ todo["main"] = <<>> /\ i \in Nat \ {0}
      /\ {"Start", "Stop"} \subseteq Methods /\ MainOK
  BY MainCommon, SpawnAssumption DEF ProgramOK
<1>2. ASSUME NEW n, NEW O, NEW Q, AtRest("main") = Rest("main", n, O, Q), NEW s \in Components,
             s \in O, NEW m \in Methods, Enqueue(s, m)
      PROVE  QueueNext /\ UNCHANGED <<quit, thread>>
  <2>1. Alive(s)
    BY <1>1, <1>2, RestOpen
  <2> QED BY <1>2, <2>1 DEF QueueNext, Enqueue
<1>3. CASE UNCHANGED queueVars
  BY <1>3 DEF queueVars
<1>4. CASE StartService
  <2>1. at = "start" /\ Enqueue(TheServices[i], "Start")
    BY <1>4 DEF StartService, Main
  <2>2. /\ TheServices[i] \in handles \ {Nobody} /\ TheServices[i] \in Components
    BY <1>1, <2>1, TheServicesOK, Constants DEF MainPlace, MainOK
  <2>3. AtRest("main") = Rest("main", 1, handles \ {Nobody}, From(TheServices, i + 1))
    BY <2>1, MainAt DEF MainRests
  <2> QED BY <1>1, <1>2, <2>1, <2>2, <2>3
<1>5. CASE StartApplication /\ Enqueue(started, "Start")
  <2>1. at = "launch"
    BY <1>5 DEF StartApplication, Main
  <2>2. started \in Components /\ started # Nobody
    BY <1>1, <2>1, Constants DEF MainOK, ToSet
  <2>3. AtRest("main") = Rest("main", 1, (handles \ {Nobody}) \cup ({started} \ {Nobody}),
                              From(TheApplications, i + 1))
    BY <2>1, MainAt DEF MainRests
  <2>4. started \in (handles \ {Nobody}) \cup ({started} \ {Nobody})
    BY <2>2
  <2> QED BY <1>1, <1>2, <1>5, <2>2, <2>3, <2>4
<1>6. CASE StopService /\ Enqueue(TheServices[i], "Stop")
  <2>1. at = "stop" /\ i <= Len(TheServices) /\ TheServices[i] \in handles
    BY <1>6 DEF StopService, Main
  <2>2. i \in DOMAIN TheServices /\ TheServices[i] \in Components
    BY <1>1, <2>1, TheServicesOK, Constants
  <2>3. TheServices[i] \in From(TheServices, i) \cap handles
    BY <1>1, <2>1, <2>2, Lists, FromNext
  <2>4. AtRest("main") = Rest("main", 0, From(TheServices, i) \cap handles, {})
    BY <2>1, MainAt DEF MainRests
  <2> QED BY <1>1, <1>2, <1>6, <2>2, <2>3, <2>4
<1>7. CASE Boot \/ QueryServices \/ NoArrays \/ ImportService \/ StartFails \/ WaitService
             \/ FinishServices \/ QueryApplications \/ ImportApplication
  <2>1. UNCHANGED queueVars
    BY <1>7 DEF Boot, QueryServices, NoArrays, ImportService, StartFails, WaitService, MainWaits,
       FinishServices, QueryApplications, ImportApplication, threadsAlone
  <2> QED BY <1>3, <2>1
<1>8. CASE FinishApplications \/ ExecWaits \/ ExecRuns \/ ExecReturns \/ Leave \/ SkipService
             \/ NullHandles \/ WaitStopped \/ DropService \/ CleanUp
  <2>1. UNCHANGED queueVars
    BY <1>8 DEF FinishApplications, ExecWaits, ExecRuns, ExecReturns, Leave, SkipService,
       NullHandles, WaitStopped, MainWaits, DropService, CleanUp, threadsAlone
  <2> QED BY <1>3, <2>1
<1>9. CASE StartApplication \/ StopService
  <2>1. CASE StartApplication
    BY <1>3, <1>5, <2>1 DEF StartApplication
  <2>2. CASE StopService
    BY <1>3, <1>6, <2>2 DEF StopService
  <2> QED BY <1>9, <2>1, <2>2
<1> QED
  BY <1>4, <1>7, <1>8, <1>9 DEF MainStep

-----------------------------------------------------------------------------
(* The threads of the components *)

WorkRests(c) ==
  /\ work[c].at \in {"idle", "ask", "query", "summary"} => AtRest(c) = Rest(c, 0, {}, {})
  /\ work[c].at = "test" => AtRest(c) = Rest(c, 1, {}, From(Tests, work[c].k))
  /\ work[c].at \in {"run", "await", "unimport"} =>
       AtRest(c) = Rest(c, 1, {Tests[work[c].k]}, From(Tests, work[c].k + 1))

LEMMA WorkRest ==
  ASSUME NEW c \in Components
  PROVE  WorkRests(c) /\ WorkRests(c)'
<1>0. c # "main"
  BY Constants
<1>1. WorkRests(c)
  BY <1>0 DEF WorkRests, AtRest, Asked, TestsOpened, TestsQueried, Rest
<1>2. WorkRests(c)'
  BY <1>0 DEF WorkRests, AtRest, Asked, TestsOpened, TestsQueried, Rest
<1> QED
  BY <1>1, <1>2

LEMMA ComponentOthers ==
  ASSUME ProgramOK, NEW c \in Components, ComponentStep(c)
  PROVE  /\ \A u \in Threads : u # c => AtRest(u)' = AtRest(u)
         /\ UNCHANGED <<owner, depth, cstate, refs, imports>> /\ fault = "none"
<1>1. /\ \A u \in Components : u # c => work'[u] = work[u]
      /\ UNCHANGED <<setting, mainVars>> /\ fault = "none"
      /\ UNCHANGED <<owner, depth, cstate, refs, imports>>
  <2> USE DEF compAlone, spawnVars, workVars, lockVars, locksAlone, Busy, Working
  <2>0. work \in [Components -> WorkStates]
    BY DEF ProgramOK, WorksOK
  <2>1. CASE WakesUp(c) \/ TakesCall(c) \/ CallReturns(c)
    BY <2>1 DEF WakesUp, TakesCall, CallReturns
  <2>2. CASE ServiceAnswers(c) \/ TestAnswers(c) \/ ApplicationAnswers(c)
    BY <2>2 DEF ServiceAnswers, TestAnswers, ApplicationAnswers, Signals, Answering
  <2>3. CASE BeginsWork(c) \/ Asks(c) \/ QueriesTests(c) \/ ImportsTest(c)
    BY <2>0, <2>3 DEF BeginsWork, Asks, QueriesTests, ImportsTest, WorkAt
  <2>4. CASE RunsTest(c) \/ AwaitsTest(c)
    BY <2>0, <2>4 DEF RunsTest, AwaitsTest, WorkAt
  <2>5. CASE UnImportsTest(c) \/ FinishesTests(c) \/ EndsTests(c)
    BY <2>0, <2>5 DEF UnImportsTest, FinishesTests, EndsTests, WorkAt
  <2> QED BY <2>1, <2>2, <2>3, <2>4, <2>5 DEF ComponentStep
<1>2. UNCHANGED <<setting, at, i, handles, started>>
  BY <1>1 DEF mainVars
<1> QED
  BY <1>1, <1>2, ComponentsRest, MainRestSame DEF Threads

\* A component that takes its calls, and answers them.
LEMMA TakesStay ==
  ASSUME ProgramOK, NEW c \in Components,
         \/ WakesUp(c) \/ TakesCall(c) \/ CallReturns(c)
         \/ ServiceAnswers(c) \/ TestAnswers(c) \/ ApplicationAnswers(c)
  PROVE  /\ todo' = todo /\ AtRest(c)' = AtRest(c)
         /\ QueueNext \/ UNCHANGED queueVars
         /\ quit' = quit
         /\ \A x \in Components : /\ Alive(x)' => Alive(x)
                                  /\ Alive(x) /\ quit[x] = "no" => Alive(x)'
<1>0. QueuesOK
  BY DEF ProgramOK, LibraryOK
<1>1. todo' = todo
  BY ThreadStepsOK, AnswersOK
<1>2. work' = work
  BY DEF WakesUp, TakesCall, CallReturns, ServiceAnswers, TestAnswers, ApplicationAnswers, Signals,
         spawnVars, workVars, compAlone, Answering
<1>3. CASE WakesUp(c)
  <2>1. Wakes(c)
    BY <1>3 DEF WakesUp
  <2> QED BY <1>0, <1>1, <1>2, <2>1, ComponentsRest DEF QueueNext, Wakes, Alive, QueuesOK
<1>4. CASE TakesCall(c)
  <2>1. Takes(c)
    BY <1>4 DEF TakesCall
  <2>2. quit' = quit /\ thread[c] = "woken"
    BY <2>1 DEF Takes
  <2>3. \A x \in Components : x # c => thread'[x] = thread[x]
    BY <1>0, <2>1 DEF Takes, QueuesOK
  <2>4. quit[c] = "no" => thread'[c] \in {"kept", "call"}
    BY <1>0, <2>1 DEF Takes, QueuesOK
  <2> QED BY <1>1, <1>2, <2>1, <2>2, <2>3, <2>4, ComponentsRest DEF QueueNext, Alive
<1>5. CASE CallReturns(c)
  <2>1. Returns(c)
    BY <1>5 DEF CallReturns
  <2> QED BY <1>0, <1>1, <1>2, <2>1, ComponentsRest DEF QueueNext, Returns, Alive, QueuesOK
<1>6. CASE ServiceAnswers(c) \/ TestAnswers(c) \/ ApplicationAnswers(c)
  <2>1. UNCHANGED queueVars
    BY <1>6 DEF ServiceAnswers, TestAnswers, ApplicationAnswers, Signals
  <2>2. quit' = quit /\ thread' = thread
    BY <2>1 DEF queueVars
  <2> QED BY <1>1, <1>2, <2>1, <2>2, ComponentsRest DEF Alive
<1> QED
  BY <1>3, <1>4, <1>5, <1>6

\* Its work
LEMMA WorkCommon ==
  ASSUME ProgramOK, NEW c \in Components,
         BeginsWork(c) \/ Asks(c) \/ QueriesTests(c) \/ ImportsTest(c) \/ RunsTest(c)
           \/ AwaitsTest(c) \/ UnImportsTest(c) \/ FinishesTests(c) \/ EndsTests(c)
  PROVE  /\ todo[c] = <<>> /\ c \in Threads /\ c # "main" /\ Client(c) = c
         /\ work \in [Components -> WorkStates] /\ work[c].k \in Nat \ {0}
         /\ work[c].at \in {"run", "await", "unimport"} => work[c].k \in DOMAIN Tests
         /\ Tests \in Seq(Components) /\ IsInjective(Tests) /\ Len(Tests) \in Nat
         /\ DOMAIN Tests = 1 .. Len(Tests) /\ From(Tests, 1) = ToSet(Tests)
         /\ ~RunsTest(c) => UNCHANGED queueVars /\ fault' = fault
<1>1. todo[c] = <<>>
  BY DEF BeginsWork, Asks, QueriesTests, ImportsTest, RunsTest, AwaitsTest, UnImportsTest,
         FinishesTests, EndsTests, Working, Busy, Calm
<1>2. c \in Threads /\ c # "main" /\ Client(c) = c
  BY Constants DEF Client
<1>3. /\ work \in [Components -> WorkStates] /\ work[c].k \in Nat \ {0}
      /\ work[c].at \in {"run", "await", "unimport"} => work[c].k \in DOMAIN Tests
  BY DEF ProgramOK, WorksOK, WorkStates
<1>4. Tests \in Seq(Components) /\ IsInjective(Tests)
  BY SpawnAssumption
<1>5. Len(Tests) \in Nat /\ DOMAIN Tests = 1 .. Len(Tests) /\ From(Tests, 1) = ToSet(Tests)
  BY <1>4, FromNext
<1>6. ~RunsTest(c) => UNCHANGED queueVars /\ fault' = fault
  BY DEF BeginsWork, Asks, QueriesTests, ImportsTest, AwaitsTest, UnImportsTest, FinishesTests,
         EndsTests, locksAlone, lockVars
<1> QED
  BY <1>1, <1>2, <1>3, <1>4, <1>5, <1>6

\* The statements at which it holds what it held before.
LEMMA WorkStays ==
  ASSUME ProgramOK, NEW c \in Components, BeginsWork(c) \/ AwaitsTest(c) \/ EndsTests(c)
  PROVE  Starts(c)
<1>1. work \in [Components -> WorkStates]
  BY WorkCommon
<1>2. todo' = todo
  BY DEF BeginsWork, AwaitsTest, EndsTests, lockVars
<1>3. CASE BeginsWork(c) \/ EndsTests(c)
  <2>1. /\ work[c].at \in {"idle", "summary"} /\ work'[c].at \in {"idle", "query", "ask"}
    BY <1>1, <1>3 DEF BeginsWork, EndsTests, Working, WorkAt
  <2> QED BY <1>2, <2>1, WorkRest DEF WorkRests, Starts
<1>4. CASE AwaitsTest(c)
  <2>1. work[c].at = "await" /\ work'[c].at = "unimport" /\ work'[c].k = work[c].k
    BY <1>1, <1>4 DEF AwaitsTest, Working, WorkAt
  <2> QED BY <1>2, <2>1, WorkRest DEF WorkRests, Starts
<1> QED
  BY <1>3, <1>4

LEMMA WorkAsks ==
  ASSUME ProgramOK, NEW c \in Components, Asks(c) \/ QueriesTests(c)
  PROVE  Starts(c)
<1>1. /\ c \in Threads /\ c # "main" /\ Client(c) = c /\ work \in [Components -> WorkStates]
      /\ Tests \in Seq(Components) /\ IsInjective(Tests) /\ From(Tests, 1) = ToSet(Tests)
  BY WorkCommon
<1> DEFINE none == Imps({}, {})
           all == Imps({}, ToSet(Tests))
<1>2. Fine(c, Own1(c, 0), none) /\ Fine(c, Own1(c, 1), none) /\ Fine(c, Own1(c, 1), all)
  BY <1>1, OwnFine
<1>3. /\ Plus(Own1(c, 0), c) = Own1(c, 1) /\ Plus(Own1(c, 1), c) = Own1(c, 2)
  <2>1. 0 + 1 = 1 /\ 1 + 1 = 2
    OBVIOUS
  <2> QED BY <1>1, <2>1, OwnPlus
<1>4. /\ Net(c, query_new(c, Tests), Own1(c, 0), none, Own1(c, 1), all)
      /\ Net(c, query_new(c, Tests), Own1(c, 1), none, Own1(c, 2), all)
  <2>1. /\ Net(c, query_new(c, Tests), Own1(c, 0), none, Own1(c, 0 + 1), all)
        /\ Net(c, query_new(c, Tests), Own1(c, 1), none, Own1(c, 1 + 1), all)
    BY <1>1, Queries
  <2> QED BY <2>1
<1>5. AtRest(c) = Rest(c, 0, {}, {})
  <2>1. work[c].at \in {"ask", "query"}
    BY DEF Asks, QueriesTests, Working
  <2> QED BY <2>1, WorkRest DEF WorkRests
<1>6. CASE Asks(c)
  <2>1. /\ todo' = [todo EXCEPT ![c] = xCOM_QueryInterface(c, Tests) \o xCOM_QueryFinish(c, Tests)]
        /\ work'[c].at = "idle"
    BY <1>1, <1>6 DEF Asks, CompCalls, WorkAt
  <2>2. Net(c, xCOM_QueryInterface(c, Tests), Own1(c, 0), none, Own1(c, 1), all)
    BY <1>2, <1>4, NetByInterface DEF xCOM_QueryInterface
  <2>3. Net(c, xCOM_QueryFinish(c, Tests), Own1(c, 1), all, Own1(c, 0), none)
    BY <1>1, Finishes
  <2>4. Net(c, xCOM_QueryInterface(c, Tests) \o xCOM_QueryFinish(c, Tests),
            Own1(c, 0), none, Own1(c, 0), none)
    BY <2>2, <2>3, NetOn
  <2>5. AtRest(c)' = Rest(c, 0, {}, {})
    BY <2>1, WorkRest DEF WorkRests
  <2> QED BY <1>5, <2>1, <2>4, <2>5, StartsWith
<1>7. CASE todo' = [todo EXCEPT ![c] = xCOM_QueryPort(c, Tests)] /\ WorkAt(c, "test", 1)
  <2>1. work'[c].at = "test" /\ work'[c].k = 1
    BY <1>1, <1>7 DEF WorkAt
  <2>2. Net(c, xCOM_QueryPort(c, Tests), Own1(c, 0), none, Own1(c, 1), all)
    BY <1>1, <1>2, <1>3, <1>4, NetByPort DEF xCOM_QueryPort
  <2>3. AtRest(c)' = Rest(c, 1, {}, ToSet(Tests))
    BY <1>1, <2>1, WorkRest DEF WorkRests
  <2> QED BY <1>5, <1>7, <2>2, <2>3, StartsWith
<1>8. CASE todo' = [todo EXCEPT ![c] = ByPort(c, query_new_fails(c))] /\ WorkAt(c, "summary", 1)
  <2>1. work'[c].at = "summary"
    BY <1>1, <1>8 DEF WorkAt
  <2>2. Net(c, query_new_fails(c), Own1(c, 1), none, Own1(c, 1), none)
    BY <1>1, <1>2, NetQueryFails
  <2>3. Net(c, ByPort(c, query_new_fails(c)), Own1(c, 0), none, Own1(c, 0), none)
    BY <1>1, <1>2, <1>3, <2>2, NetByPort
  <2>4. AtRest(c)' = Rest(c, 0, {}, {})
    BY <2>1, WorkRest DEF WorkRests
  <2> QED BY <1>5, <1>8, <2>3, <2>4, StartsWith
<1> QED
  BY <1>6, <1>7, <1>8 DEF QueriesTests, CompCalls

LEMMA WorkImports ==
  ASSUME ProgramOK, NEW c \in Components, ImportsTest(c)
  PROVE  Starts(c)
<1>1. /\ c \in Threads /\ c # "main" /\ Client(c) = c /\ work \in [Components -> WorkStates]
      /\ Tests \in Seq(Components) /\ IsInjective(Tests) /\ DOMAIN Tests = 1 .. Len(Tests)
      /\ work[c].k \in Nat \ {0}
  BY WorkCommon
<1>0. PICK k \in Nat \ {0} : k = work[c].k
  BY <1>1
<1> DEFINE s == Tests[k]
           Q == From(Tests, k)
<1>2. work[c].at = "test" /\ k \in DOMAIN Tests
  BY <1>0, <1>1 DEF ImportsTest, Working
<1>3. s \in Components /\ s \in Q /\ From(Tests, k + 1) = Q \ {s}
  BY <1>1, <1>2, FromNext
<1>4. AtRest(c) = Rest(c, 1, {}, Q)
  BY <1>0, <1>2, WorkRest DEF WorkRests
<1>5. /\ Net(c, xCOM_QueryNext \o xCOM_Import(c, s), Own1(c, 1), Imps({}, Q),
             Own1(c, 1), Imps({} \cup {s}, Q \ {s}))
      /\ Net(c, xCOM_QueryNext \o ImportFails(c, s), Own1(c, 1), Imps({}, Q),
             Own1(c, 1), Imps({}, Q \ {s}))
  <2>1. s \notin {}
    OBVIOUS
  <2> HIDE DEF s, Q
  <2> QED BY <1>1, <1>3, <2>1, ImportsOne
<1>6. CASE todo' = [todo EXCEPT ![c] = xCOM_QueryNext \o xCOM_Import(c, s)] /\ WorkAt(c, "run", k)
  <2>1. work'[c].at = "run" /\ work'[c].k = k
    BY <1>1, <1>6 DEF WorkAt
  <2>2. AtRest(c)' = Rest(c, 1, {} \cup {s}, Q \ {s})
    <3>1. {} \cup {s} = {s}
      OBVIOUS
    <3> QED BY <1>3, <2>1, <3>1, WorkRest DEF WorkRests
  <2> HIDE DEF s, Q
  <2> QED BY <1>4, <1>5, <1>6, <2>2, StartsWith
<1>7. CASE todo' = [todo EXCEPT ![c] = xCOM_QueryNext \o ImportFails(c, s)] /\ WorkAt(c, "test", k + 1)
  <2>1. work'[c].at = "test" /\ work'[c].k = k + 1
    BY <1>1, <1>7 DEF WorkAt
  <2>2. AtRest(c)' = Rest(c, 1, {}, Q \ {s})
    BY <1>3, <2>1, WorkRest DEF WorkRests
  <2> HIDE DEF s, Q
  <2> QED BY <1>4, <1>5, <1>7, <2>2, StartsWith
<1> QED
  BY <1>0, <1>6, <1>7 DEF ImportsTest, CompCalls

\* The test that is called is one of which the import is open: the branch of the
\* import that was freed is never taken.
LEMMA WorkRuns ==
  ASSUME ProgramOK, NEW c \in Components, RunsTest(c), NEW G, Ledger(G), Lives(G)
  PROVE  /\ Starts(c) /\ fault' = fault
         /\ QueueNext \/ UNCHANGED queueVars
         /\ quit' = quit /\ thread' = thread
<1>1. /\ c \in Threads /\ c # "main" /\ Client(c) = c /\ work \in [Components -> WorkStates]
      /\ todo[c] = <<>> /\ Tests \in Seq(Components)
      /\ work[c].at \in {"run", "await", "unimport"} => work[c].k \in DOMAIN Tests
  BY WorkCommon
<1>0. PICK k : k = work[c].k
  OBVIOUS
<1> DEFINE s == Tests[k]
<1>2. work[c].at = "run" /\ k \in DOMAIN Tests
  BY <1>0, <1>1 DEF RunsTest, Working
<1>3. s \in Components
  BY <1>1, <1>2
<1>4. AtRest(c) = Rest(c, 1, {s}, From(Tests, k + 1))
  BY <1>0, <1>2, WorkRest DEF WorkRests
<1> HIDE DEF s
<1>5. Alive(s)
  BY <1>1, <1>3, <1>4, RestOpen
<1>6. imports[<<c, s>>] = "open"
  <2>1. G[c].imp = Imps({s}, From(Tests, k + 1))
    BY <1>1, <1>4, Rests DEF Rest, Acc
  <2>2. G[c].imp[s] = "open"
    BY <1>3, <2>1, ImpsSet
  <2>3. imports[<<Client(c), s>>] = Shown(G[c].imp[s])
    BY <1>1, <1>3 DEF Ledger, ImportsKept
  <2> QED BY <1>1, <2>2, <2>3 DEF Shown
<1>7. /\ todo' = todo /\ fault' = fault
      /\ \/ Enqueue(s, "Run") /\ WorkAt(c, "await", k)
         \/ WorkAt(c, "unimport", k) /\ UNCHANGED queueVars
  BY <1>0, <1>6 DEF RunsTest, s
<1>8. work'[c].at \in {"await", "unimport"} /\ work'[c].k = k
  BY <1>1, <1>7 DEF WorkAt
<1>9. Starts(c)
  <2>1. AtRest(c)' = AtRest(c)
    BY <1>4, <1>8, WorkRest DEF WorkRests, s
  <2> QED BY <1>7, <2>1 DEF Starts
<1>10. "Run" \in Methods
  BY SpawnAssumption
<1>11. /\ QueueNext \/ UNCHANGED queueVars
       /\ quit' = quit /\ thread' = thread
  <2>1. CASE Enqueue(s, "Run")
    BY <1>3, <1>5, <1>10, <2>1 DEF QueueNext, Enqueue
  <2>2. CASE UNCHANGED queueVars
    BY <2>2 DEF queueVars
  <2> QED BY <1>7, <2>1, <2>2
<1> QED
  BY <1>7, <1>9, <1>11

LEMMA WorkEnds ==
  ASSUME ProgramOK, NEW c \in Components, UnImportsTest(c) \/ FinishesTests(c)
  PROVE  Starts(c)
<1>1. /\ c \in Threads /\ c # "main" /\ Client(c) = c /\ work \in [Components -> WorkStates]
      /\ Tests \in Seq(Components) /\ IsInjective(Tests) /\ DOMAIN Tests = 1 .. Len(Tests)
      /\ work[c].k \in Nat \ {0}
      /\ work[c].at \in {"run", "await", "unimport"} => work[c].k \in DOMAIN Tests
  BY WorkCommon
<1>0. PICK k \in Nat \ {0} : k = work[c].k
  BY <1>1
<1>2. CASE UnImportsTest(c)
  <2> DEFINE s == Tests[k]
             Q == From(Tests, k + 1)
  <2>1. /\ work[c].at = "unimport" /\ work'[c].at = "test" /\ work'[c].k = k + 1
        /\ todo' = [todo EXCEPT ![c] = xCOM_UnImport(c, s)]
    BY <1>0, <1>1, <1>2 DEF UnImportsTest, Working, WorkAt, CompCalls
  <2>2. k \in DOMAIN Tests /\ s \in Components
    BY <1>0, <1>1, <2>1
  <2>3. s \notin Q
    BY <1>1, <2>2, FromNext
  <2>4. AtRest(c) = Rest(c, 1, {s}, Q) /\ AtRest(c)' = Rest(c, 1, {}, Q)
    BY <1>0, <2>1, WorkRest DEF WorkRests
  <2> HIDE DEF s, Q
  <2>5. Net(c, xCOM_UnImport(c, s), Own1(c, 1), Imps({s}, Q), Own1(c, 1), Imps({s} \ {s}, Q))
    BY <1>1, <2>2, <2>3, Drops
  <2>6. {s} \ {s} = {}
    OBVIOUS
  <2>7. Net(c, xCOM_UnImport(c, s), Own1(c, 1), Imps({s}, Q), Own1(c, 1), Imps({}, Q))
    BY <2>5, <2>6
  <2> QED BY <2>1, <2>4, <2>7, StartsWith
<1>3. CASE FinishesTests(c)
  <2>1. /\ work[c].at = "test" /\ k > Len(Tests) /\ work'[c].at = "summary"
        /\ todo' = [todo EXCEPT ![c] = xCOM_QueryFinish(c, <<>>)]
    BY <1>0, <1>1, <1>3 DEF FinishesTests, Working, WorkAt, CompCalls
  <2>2. From(Tests, k) = {}
    BY <1>1, <2>1, FromNext
  <2>3. AtRest(c) = Rest(c, 1, {}, {}) /\ AtRest(c)' = Rest(c, 0, {}, {})
    BY <1>0, <2>1, <2>2, WorkRest DEF WorkRests
  <2>4. <<>> \in Seq(Components) /\ {} \cap ToSet(<<>>) = {} /\ {} \subseteq ToSet(<<>>)
    OBVIOUS
  <2>5. Net(c, xCOM_QueryFinish(c, <<>>), Own1(c, 1), Imps({}, {}), Own1(c, 0), Imps({}, {}))
    BY <1>1, <2>4, Finishes
  <2> QED BY <2>1, <2>3, <2>5, StartsWith
<1> QED
  BY <1>2, <1>3

\* A component's step, outside of the library.
LEMMA ComponentKept ==
  ASSUME ProgramOK, NEW G, Ledger(G), Lives(G), NEW c \in Components, ComponentStep(c)
  PROVE  Kept(G)' /\ (QueueNext \/ UNCHANGED queueVars)
<1>1. /\ \A u \in Threads : u # c => AtRest(u)' = AtRest(u)
      /\ UNCHANGED <<owner, depth, cstate, refs, imports>> /\ c \in Threads /\ TodoOK
  BY ComponentOthers, Constants DEF ProgramOK, LibraryOK
<1>2. CASE \/ WakesUp(c) \/ TakesCall(c) \/ CallReturns(c)
           \/ ServiceAnswers(c) \/ TestAnswers(c) \/ ApplicationAnswers(c)
  <2>1. /\ todo' = todo /\ AtRest(c)' = AtRest(c) /\ quit' = quit
        /\ QueueNext \/ UNCHANGED queueVars
        /\ \A x \in Components : /\ Alive(x)' => Alive(x)
                                 /\ Alive(x) /\ quit[x] = "no" => Alive(x)'
    BY <1>2, TakesStay
  <2>2. Ledger(G)'
    <3>1. \A u \in Threads : AtRest(u)' = AtRest(u)
      BY <1>1, <2>1
    <3> QED BY <1>1, <2>1, <3>1 DEF Ledger, TodoKept, LocksKept, ImportsKept, RefsKept
  <2>3. Lives(G)'
    BY <1>1, <2>1, LivesSame
  <2> QED BY <2>1, <2>2, <2>3 DEF Kept
<1>3. CASE BeginsWork(c) \/ Asks(c) \/ QueriesTests(c) \/ ImportsTest(c) \/ RunsTest(c)
             \/ AwaitsTest(c) \/ UnImportsTest(c) \/ FinishesTests(c) \/ EndsTests(c)
  <2>1. todo[c] = <<>> /\ (~RunsTest(c) => UNCHANGED queueVars)
    BY <1>3, WorkCommon
  <2>2. Starts(c)
    BY <1>3, WorkStays, WorkAsks, WorkImports, WorkRuns, WorkEnds
  <2>3. (QueueNext \/ UNCHANGED queueVars) /\ UNCHANGED <<quit, thread>>
    BY <2>1, WorkRuns DEF queueVars
  <2>4. Ledger(G)'
    BY <1>1, <2>1, <2>2, CallStarts
  <2>5. Lives(G)'
    BY <1>1, <2>3, LivesSame DEF Alive
  <2> QED BY <2>3, <2>4, <2>5 DEF Kept
<1> QED
  BY <1>2, <1>3 DEF ComponentStep

LEMMA MainKept ==
  ASSUME ProgramOK, MainPlace, NEW G, Ledger(G), Lives(G), MainStep
  PROVE  Kept(G)' /\ (QueueNext \/ UNCHANGED queueVars)
<1>1. /\ UNCHANGED <<owner, depth, cstate, refs, imports, work>> /\ todo["main"] = <<>>
      /\ "main" \in Threads /\ TodoOK
  BY MainCommon DEF ProgramOK, LibraryOK
<1>2. \A u \in Threads : u # "main" => AtRest(u)' = AtRest(u)
  BY <1>1, ComponentsRest DEF Threads
<1>3. Ledger(G)'
  BY <1>1, <1>2, MainStarts, CallStarts
<1>4. (QueueNext \/ UNCHANGED queueVars) /\ UNCHANGED <<quit, thread>>
  BY MainQueues
<1>5. Lives(G)'
  BY <1>1, <1>4, LivesSame DEF Alive
<1> QED
  BY <1>3, <1>4, <1>5 DEF Kept

-----------------------------------------------------------------------------
(* The invariant of the program *)

Faults == {"none", "unmapped", "not_loaded", "freed_sibling", "late_answer", "null_handles"}

OthersOK ==
  /\ result \in BOOLEAN /\ running \in BOOLEAN /\ lost \in BOOLEAN /\ runSem \in Nat
  /\ cstate \in [Clients -> {"null", "up", "unloading"}] /\ fault \in Faults

SpawnInv == ProgramOK /\ MainPlace /\ QueueTypeOK /\ OthersOK /\ \E G : Kept(G)

\* Before main() starts, nothing is held.
Nothing == [t \in Threads |-> Rest(t, 0, {}, {})]

LEMMA InitLedger == SpawnInit => Ledger(Nothing) /\ Lives(Nothing)
<1> SUFFICES ASSUME SpawnInit PROVE Ledger(Nothing) /\ Lives(Nothing)
  OBVIOUS
<1> USE DEF SpawnInit, LocksInit, CallQueueInit
<1>1. ASSUME NEW t \in Threads
      PROVE  /\ Rest(t, 0, {}, {}) \in Account /\ Covered(t, Rest(t, 0, {}, {}))
             /\ AtRest(t) = Rest(t, 0, {}, {})
  <2>1. Fine(t, Own1(t, 0), Imps({}, {})) /\ [m \in Mutexes |-> 0] \in [Mutexes -> Nat]
    BY OwnFine
  <2>2. Rest(t, 0, {}, {}) \in Account /\ Covered(t, Rest(t, 0, {}, {}))
    BY <2>1, AccTyped DEF Rest
  <2>3. CASE t = "main"
    <3>1. handles \ {Nobody} = {}
      OBVIOUS
    <3> QED BY <2>2, <2>3, <3>1, MainAt DEF MainRests
  <2>4. CASE t # "main"
    <3>1. t \in Components /\ work[t].at = "idle"
      BY <2>4 DEF Threads
    <3> QED BY <2>2, <3>1, WorkRest DEF WorkRests
  <2> QED BY <2>3, <2>4
<1>2. Nothing \in [Threads -> Account]
  BY <1>1 DEF Nothing
<1>3. \A t \in Threads :
        /\ Nothing[t].held = [m \in Mutexes |-> 0] /\ Nothing[t].dying = Nobody
        /\ Nothing[t].refs = [c \in Clients |-> 0]
        /\ Nothing[t].imp = [s \in Components |-> "none"]
  <2>1. \A t : Own1(t, 0) = [c \in Clients |-> 0]
    BY DEF Own1
  <2>2. Imps({}, {}) = [s \in Components |-> "none"]
    BY DEF Imps
  <2> QED BY <2>1, <2>2 DEF Nothing, Rest, Acc
<1>4. TodoKept(Nothing)
  <2>1. ASSUME NEW t \in Threads
        PROVE  Covered(t, Nothing[t]) /\ Leads(t, todo[t], Nothing[t], AtRest(t))
    <3>1. Nothing[t] = Rest(t, 0, {}, {}) /\ todo[t] = <<>>
      BY DEF Nothing
    <3>2. Leads(t, <<>>, Rest(t, 0, {}, {}), Rest(t, 0, {}, {}))
      BY <1>1, LeadsNowhere
    <3> QED BY <1>1, <3>1, <3>2
  <2> QED BY <2>1 DEF TodoKept
<1>5. LocksKept(Nothing)
  BY <1>3, Constants, SpawnAssumption DEF LocksKept, Threads
<1>6. ImportsKept(Nothing)
  <2>1. \A t \in Threads : Client(t) \in Clients
    BY ClientMutex
  <2> QED BY <1>3, <2>1 DEF ImportsKept, Shown
<1>7. RefsKept(Nothing)
  <2>1. refs \in [Clients -> Nat]
    OBVIOUS
  <2>2. ASSUME NEW c \in Clients
        PROVE  IsFiniteSet(Holders(Nothing, c)) /\ Cardinality(Holders(Nothing, c)) = refs[c]
    <3>1. \A u \in Threads, k \in Nat :
            <<u, k>> \in Holders(Nothing, c) <=> k = 0 /\ u = "main" /\ c = Anonymous
      <4> SUFFICES ASSUME NEW u \in Threads, NEW k \in Nat
                   PROVE  <<u, k>> \in Holders(Nothing, c) <=> k = 0 /\ u = "main" /\ c = Anonymous
        OBVIOUS
      <4>1. Nothing[u].refs[c] = 0 /\ (c \in Components => Nothing[u].imp[c] = "none")
        BY <1>3
      <4>2. k \notin 1 .. Nothing[u].refs[c]
        BY <4>1
      <4>3. <<u, k>> \in Holders(Nothing, c) <=>
              \/ k \in 1 .. Nothing[u].refs[c]
              \/ k = 0 /\ c \in Components /\ Nothing[u].imp[c] # "none"
              \/ k = 0 /\ u = "main" /\ c = Anonymous
        BY HolderIn
      <4> QED BY <4>1, <4>2, <4>3
    <3>2. CASE c = Anonymous
      <4>1. <<"main", 0>> \in Holders(Nothing, c)
        BY <3>1, <3>2, Constants
      <4>2. ASSUME NEW h \in Holders(Nothing, c) PROVE h = <<"main", 0>>
        <5>1. h \in Threads \X Nat
          BY DEF Holders
        <5>2. PICK u \in Threads, k \in Nat : h = <<u, k>>
          BY <5>1
        <5> QED BY <3>1, <5>2
      <4>3. Holders(Nothing, c) = {<<"main", 0>>}
        BY <4>1, <4>2
      <4> QED BY <3>2, <4>3, FS_Singleton
    <3>3. CASE c # Anonymous
      <4>1. ASSUME NEW h \in Holders(Nothing, c) PROVE FALSE
        <5>1. h \in Threads \X Nat
          BY DEF Holders
        <5>2. PICK u \in Threads, k \in Nat : h = <<u, k>>
          BY <5>1
        <5> QED BY <3>1, <3>3, <5>2
      <4>2. Holders(Nothing, c) = {}
        BY <4>1
      <4> QED BY <3>3, <4>2, FS_EmptySet
    <3> QED BY <3>2, <3>3
  <2> QED BY <2>1, <2>2 DEF RefsKept
<1>8. Lives(Nothing)
  <2>1. \A c \in Components : Stated(Nothing, c)
    BY <1>3, Constants DEF Stated, Alive
  <2> QED BY <1>3, <2>1 DEF Lives
<1> QED
  BY <1>2, <1>4, <1>5, <1>6, <1>7, <1>8 DEF Ledger

LEMMA SpawnStarts == SpawnInit => SpawnInv /\ CallQueueInit
<1> SUFFICES ASSUME SpawnInit PROVE SpawnInv /\ CallQueueInit
  OBVIOUS
<1>1. ProgramOK
  BY AwaitInit DEF AwaitInv
<1>2. MainPlace
  BY DEF SpawnInit, MainPlace
<1>3. QueueTypeOK /\ CallQueueInit
  BY DEF SpawnInit, CallQueueInit, QueueTypeOK, Doing
<1>4. OthersOK
  BY DEF SpawnInit, LocksInit, OthersOK, Faults
<1>5. \E G : Kept(G)
  BY InitLedger DEF Kept
<1> QED
  BY <1>1, <1>2, <1>3, <1>4, <1>5 DEF SpawnInv

\* The rest of the variables.
LEMMA LibraryOthers ==
  ASSUME OthersOK, NEW t \in Threads, InLibrary(t)
  PROVE  OthersOK'
<1>1. UNCHANGED <<result, running, lost, runSem>> /\ LibraryStep(t)
  BY DEF InLibrary, spawnVars, mainVars, answerVars
<1>2. CASE UNCHANGED <<cstate, fault>>
  BY <1>1, <1>2 DEF OthersOK
<1>3. CASE Lock(t) \/ Unlock(t) \/ Pass(t) \/ component_ref(t) \/ component_unref(t)
             \/ import_new(t) \/ Add(t) \/ Open(t) \/ Close(t) \/ FreeImport(t) \/ Quit(t) \/ Post(t)
  BY <1>2, <1>3 DEF Lock, Unlock, Pass, component_ref, component_unref, import_new, Add, Open,
     Close, FreeImport, Quit, Post
<1>4. CASE component_init(t)
  BY <1>1, <1>4 DEF component_init, OthersOK
<1>5. CASE component_destroy(t)
  BY <1>1, <1>5 DEF component_destroy, OthersOK, Faults
<1>6. CASE Join(t)
  BY <1>1, <1>6 DEF Join, OthersOK, Faults
<1> QED
  BY <1>1, <1>3, <1>4, <1>5, <1>6 DEF LibraryStep

LEMMA MainOthers ==
  ASSUME OthersOK, MainStep
  PROVE  OthersOK'
<1> USE DEF OthersOK, Faults, locksAlone, lockVars, threadsAlone, answerVars
<1>1. CASE Boot \/ QueryServices \/ NoArrays \/ ImportService \/ StartService \/ StartFails
  BY <1>1 DEF Boot, QueryServices, NoArrays, ImportService, StartService, StartFails
<1>2. CASE WaitService \/ FinishServices \/ QueryApplications \/ ImportApplication
             \/ StartApplication
  BY <1>2 DEF WaitService, MainWaits, FinishServices, QueryApplications, ImportApplication,
              StartApplication
<1>3. CASE FinishApplications \/ ExecRuns \/ ExecReturns \/ Leave
  BY <1>3 DEF FinishApplications, ExecRuns, ExecReturns, Leave
<1>4. CASE ExecWaits
  BY <1>4 DEF ExecWaits
<1>5. CASE StopService \/ SkipService \/ NullHandles \/ WaitStopped \/ DropService \/ CleanUp
  BY <1>5 DEF StopService, SkipService, NullHandles, WaitStopped, MainWaits, DropService, CleanUp,
              mainVars
<1> QED
  BY <1>1, <1>2, <1>3, <1>4, <1>5 DEF MainStep

LEMMA ComponentOthersOK ==
  ASSUME OthersOK, ProgramOK, NEW c \in Components, ComponentStep(c), NEW G, Ledger(G), Lives(G)
  PROVE  OthersOK'
<1> USE DEF OthersOK, Faults, locksAlone, lockVars, compAlone, mainVars, answerVars, spawnVars
<1>1. CASE WakesUp(c) \/ TakesCall(c) \/ CallReturns(c)
  BY <1>1 DEF WakesUp, TakesCall, CallReturns
<1>2. CASE ServiceAnswers(c) \/ TestAnswers(c)
  BY <1>2 DEF ServiceAnswers, TestAnswers, Signals
<1>3. CASE ApplicationAnswers(c)
  <2>1. setting.glib \in BOOLEAN
    BY DEF ProgramOK, MainOK, Setting
  <2>2. running' \in BOOLEAN /\ lost' \in BOOLEAN /\ runSem' \in Nat
    <3>1. /\ running' = FALSE /\ lost' = (lost \/ (setting.glib /\ ~running))
          /\ runSem' \in {runSem, runSem + 1}
      BY <1>3 DEF ApplicationAnswers, xCOM_Quit
    <3>2. (lost \/ (setting.glib /\ ~running)) \in BOOLEAN
      BY Zenon
    <3>3. lost' \in BOOLEAN
      BY <3>1, <3>2, Zenon
    <3>4. running' \in BOOLEAN
      BY <3>1, Zenon
    <3>5. runSem' \in Nat
      <4>1. runSem \in Nat
        OBVIOUS
      <4>2. runSem' \in {runSem, runSem + 1}
        BY <3>1
      <4> QED BY <4>1, <4>2
    <3> QED BY <3>3, <3>4, <3>5
  <2>3. result' = result /\ cstate' = cstate /\ fault' = fault
    BY <1>3 DEF ApplicationAnswers
  <2> QED BY <2>2, <2>3
<1>4. CASE BeginsWork(c) \/ Asks(c) \/ QueriesTests(c) \/ ImportsTest(c)
  BY <1>4 DEF BeginsWork, Asks, QueriesTests, ImportsTest
<1>5. CASE RunsTest(c)
  <2>1. fault' = fault
    BY <1>5, WorkRuns
  <2> QED BY <1>5, <2>1 DEF RunsTest
<1>6. CASE AwaitsTest(c) \/ UnImportsTest(c) \/ FinishesTests(c) \/ EndsTests(c)
  BY <1>6 DEF AwaitsTest, UnImportsTest, FinishesTests, EndsTests
<1> QED
  BY <1>1, <1>2, <1>3, <1>4, <1>5, <1>6 DEF ComponentStep

LEMMA MainPlaceSame ==
  ASSUME MainPlace, UNCHANGED <<setting, mainVars>>
  PROVE  MainPlace'
BY DEF MainPlace, mainVars, TheServices, TheApplications

LEMMA SpawnStutter ==
  ASSUME SpawnInv, Still
  PROVE  SpawnInv' /\ UNCHANGED queueVars
<1>1. PICK G : Kept(G)
  BY DEF SpawnInv
<1>2. ProgramOK /\ MainPlace /\ QueueTypeOK /\ OthersOK
  BY DEF SpawnInv
<1> USE DEF Still, spawnVars, mainVars, answerVars, workVars
<1>3. UNCHANGED queueVars
  OBVIOUS
<1>4. QueueTypeOK'
  BY <1>2, <1>3 DEF queueVars, QueueTypeOK
<1>5. MainPlace' /\ OthersOK'
  BY <1>2, MainPlaceSame DEF OthersOK, Faults
<1>6. ProgramOK'
  <2>1. LibraryOK'
    BY <1>2, <1>3 DEF ProgramOK, LibraryOK, TodoOK, ImportsOK, QueuesOK, queueVars
  <2>2. MainOK'
    BY <1>2, MainUntouched DEF ProgramOK
  <2>3. WorksOK' /\ CountsOK'
    BY <1>2 DEF ProgramOK, WorksOK, CountsOK
  <2> QED BY <2>1, <2>2, <2>3 DEF ProgramOK
<1>7. Kept(G)'
  <2>1. \A u \in Threads : AtRest(u)' = AtRest(u)
    BY ComponentsRest, MainRestSame DEF Threads
  <2>2. /\ UNCHANGED <<owner, depth, todo, refs, imports, cstate>>
        /\ fault' = "none" => fault = "none"
    OBVIOUS
  <2>3. Ledger(G)'
    BY <1>1, <2>1, <2>2 DEF Kept, Ledger, TodoKept, LocksKept, ImportsKept, RefsKept
  <2>4. fault = "none" => Lives(G)'
    BY <1>1, <1>3, <2>2, LivesSame DEF Kept, queueVars, Alive
  <2> QED BY <2>2, <2>3, <2>4 DEF Kept
<1> QED
  BY <1>3, <1>4, <1>5, <1>6, <1>7 DEF SpawnInv

LEMMA SpawnStep ==
  ASSUME SpawnInv, SpawnNext
  PROVE  SpawnInv' /\ (QueueNext \/ UNCHANGED queueVars)
<1>0. SUFFICES ASSUME ~Still PROVE SpawnInv' /\ (QueueNext \/ UNCHANGED queueVars)
  BY SpawnStutter
<1>1. PICK G : Kept(G)
  BY DEF SpawnInv
<1>2. ProgramOK /\ MainPlace /\ QueueTypeOK /\ OthersOK
  BY DEF SpawnInv
<1>3. QueueNext \/ UNCHANGED queueVars => QueueTypeOK'
  BY <1>2, TypeStep DEF queueVars, QueueTypeOK
<1>4. CASE MainStep
  <2>1. fault = "none"
    BY <1>2, <1>4, MainCommon
  <2>2. Ledger(G) /\ Lives(G)
    BY <1>1, <2>1 DEF Kept
  <2>3. Kept(G)' /\ (QueueNext \/ UNCHANGED queueVars)
    BY <1>2, <1>4, <2>2, MainKept
  <2> QED BY <1>2, <1>3, <1>4, <2>3, MainStarts, MainStepTyped, MainOthers DEF SpawnInv
<1>5. ASSUME NEW c \in Components, ComponentStep(c)
      PROVE  SpawnInv' /\ (QueueNext \/ UNCHANGED queueVars)
  <2>1. fault = "none"
    BY <1>2, <1>5, ComponentOthers
  <2>2. Ledger(G) /\ Lives(G)
    BY <1>1, <2>1 DEF Kept
  <2>3. Kept(G)' /\ (QueueNext \/ UNCHANGED queueVars)
    BY <1>2, <1>5, <2>2, ComponentKept
  <2>4. UNCHANGED <<setting, mainVars>>
    BY <1>5 DEF ComponentStep, WakesUp, TakesCall, CallReturns, ServiceAnswers, TestAnswers,
       ApplicationAnswers, Signals, BeginsWork, Asks, QueriesTests, ImportsTest, RunsTest,
       AwaitsTest, UnImportsTest, FinishesTests, EndsTests, compAlone, spawnVars
  <2> QED
    BY <1>2, <1>3, <1>5, <2>2, <2>3, <2>4, MainPlaceSame, ComponentStepTyped, ComponentOthersOK
    DEF SpawnInv
<1>6. ASSUME NEW t \in Threads, InLibrary(t)
      PROVE  SpawnInv' /\ (QueueNext \/ UNCHANGED queueVars)
  <2>1. /\ fault = "none" /\ LibraryStep(t) /\ UNCHANGED <<setting, mainVars, work>> /\ todo[t] # <<>>
    BY <1>6 DEF InLibrary, LibraryStep, spawnVars, workVars
  <2>2. Ledger(G) /\ Lives(G)
    BY <1>1, <2>1 DEF Kept
  <2>3. \A u \in Threads : AtRest(u)' = AtRest(u)
    BY <2>1, ComponentsRest, MainRestSame DEF Threads, mainVars
  <2>4. InCall(G, t)
    BY <1>2, <2>1, <2>2, <2>3 DEF InCall
  <2>5. Keeps(G, t)
    BY <2>1, <2>4, KeepsCall
  <2>6. (\E H : Kept(H))' /\ (QueueNext \/ UNCHANGED queueVars)
    BY <2>5 DEF Keeps
  <2> QED BY <1>2, <1>3, <1>6, <2>1, <2>6, MainPlaceSame, InLibraryOK, LibraryOthers DEF SpawnInv
<1> QED
  BY <1>0, <1>2, <1>4, <1>5, <1>6, StepCases DEF ProgramOK, MainOK

-----------------------------------------------------------------------------
(* The types of the variables, and the call queues                         *)

LEMMA SpawnTyped == SpawnInv => SpawnTypeOK
<1> SUFFICES ASSUME SpawnInv PROVE SpawnTypeOK
  OBVIOUS
<1>1. /\ MainOK /\ WorksOK /\ CountsOK /\ MainPlace /\ QueueTypeOK /\ OthersOK
      /\ setting \in Setting
  BY DEF SpawnInv, ProgramOK, MainOK
<1>2. LocksTypeOK
  <2>1. PICK G : Ledger(G)
    BY DEF SpawnInv, Kept
  <2> QED BY <1>1, <2>1 DEF Ledger, LocksKept, ImportsKept, RefsKept, OthersOK, Faults, LocksTypeOK
<1>3. /\ Len(TheServices) \in 0 .. Len(Services) /\ Len(TheApplications) \in 0 .. Len(Applications)
      /\ DOMAIN TheServices = 1 .. Len(TheServices)
      /\ DOMAIN TheApplications = 1 .. Len(TheApplications)
      /\ ToSet(TheServices) \subseteq ToSet(Services)
      /\ Len(Services) \in Nat /\ Len(Applications) \in Nat
  BY <1>1, Lists, SpawnAssumption
<1>4. i \in 1 .. Len(Services) + Len(Applications) + 1
  <2>1. CASE at \in {"boot", "services", "applications", "exec", "run", "leave", "clean", "done"}
    BY <1>1, <1>3, <2>1 DEF MainPlace
  <2>2. CASE at \in {"start", "wait", "stopped", "drop"}
    BY <1>1, <1>3, <2>2 DEF MainOK
  <2>3. CASE at \in {"service", "stop", "application"}
    BY <1>1, <1>3, <2>3 DEF MainOK, MainPlace
  <2>4. CASE at \in {"launch", "finish"}
    BY <1>1, <1>3, <2>4 DEF MainPlace
  <2> QED BY <1>1, <2>1, <2>2, <2>3, <2>4 DEF MainOK, MainStatements
<1>5. handles \subseteq ToSet(Services) \cup {Nobody}
  BY <1>1, <1>3 DEF MainPlace
<1>6. /\ at \in MainStatements /\ started \in ToSet(Applications) \cup {Nobody}
      /\ sems \in [{"main", "tests"} -> Nat \cup {NoSem}] /\ runSem \in Nat
      /\ agenda \in [Components -> Seq(Items)]
      /\ result \in BOOLEAN /\ running \in BOOLEAN /\ lost \in BOOLEAN
  BY <1>1 DEF MainOK, WorksOK, CountsOK, OthersOK
<1> QED
  BY <1>1, <1>2, <1>4, <1>5, <1>6 DEF SpawnTypeOK, MainStatements

LEMMA SpawnAlways == SpawnSpec => []SpawnInv
<1>1. SpawnInit => SpawnInv
  BY SpawnStarts
<1>2. SpawnInv /\ [SpawnNext]_vars => SpawnInv'
  BY SpawnStep, SpawnStutter, StutterStill
<1> QED
  BY <1>1, <1>2, PTL DEF SpawnSpec

\* Each variable of the program keeps to its type: the loop counters of main()
\* to its lists, the handles to the services, and no count of references or of
\* locks falls below zero, for any number of components, whatever their methods
\* do.
THEOREM SpawnTypeCorrect == SpawnSpec => []SpawnTypeOK
BY SpawnAlways, SpawnTyped, PTL

\* The library keeps to what the call queue of a component relies on: init() and
\* destroy() take turns, each call finds the thread of its component alive, and
\* that thread is told to quit before it is woken for it, once.
THEOREM SpawnKeepsQueueSpec == SpawnSpec => KeepsQueueSpec
<1>1. SpawnInit => SpawnInv /\ CallQueueInit
  BY SpawnStarts
<1>2. SpawnInv /\ [SpawnNext]_vars => SpawnInv' /\ [QueueNext]_queueVars
  BY SpawnStep, SpawnStutter, StutterStill
<1> QED
  BY <1>1, <1>2, PTL DEF SpawnSpec, KeepsQueueSpec, QueueSpec

\* So the semaphore of each queue counts its calls in the program, too, with all
\* that the threads do to the references of components.
THEOREM SpawnQueues == SpawnSpec => [](QueueTypeOK /\ QueueExact)
BY SpawnKeepsQueueSpec, QueueCorrect, PTL DEF KeepsQueueSpec

-----------------------------------------------------------------------------
(* What the ledger says of the program                                     *)

\* Between two calls of the API, a thread holds no mutex, and its client has the
\* imports that the program has handles or a query of, and no other ones.
CallsBalanced ==
  \A t \in Threads : Calm(t) =>
    /\ \A m \in Mutexes : owner[m] # t
    /\ \A s \in Components : imports[<<Client(t), s>>] = AtRest(t).imp[s]

\* When no call is under way, what refers to a component are its imports, the
\* query of its own thread, and, for the program, the program.
Importers(c) == {t \in Threads : imports[<<Client(t), c>>] # "none"}

RefsCounted ==
  (\A t \in Threads : Calm(t)) =>
    /\ \A c \in Components : refs[c] = Cardinality(Importers(c)) + (IF Asked(c) THEN 1 ELSE 0)
    /\ refs[Anonymous] = IF Asked("main") THEN 2 ELSE 1

\* A component is there while it is imported.
OpenServed ==
  fault = "none" =>
    \A x \in Clients, s \in Components :
      imports[<<x, s>>] = "open" =>
        cstate[s] = "up" /\ Alive(s) /\ quit[s] = "no" /\ refs[s] > 0

\* And it is unloaded when nothing refers to it, before the lock of components is
\* released.
UnloadedUnused ==
  fault = "none" /\ owner["component"] = Nobody =>
    \A c \in Components :
      /\ cstate[c] \in {"up", "null"} /\ (cstate[c] = "up" <=> Alive(c))
      /\ Alive(c) => refs[c] > 0 /\ quit[c] = "no"

\* What the steps of the library take for granted.
StepsSound ==
  fault = "none" =>
    \A t \in Threads : ~Calm(t) =>
      LET op == Step(t).op
          x == Step(t).on
      IN  /\ op = "unlock" => owner[x] = t
          /\ op = "unref" => refs[x] > 0
          /\ op \in {"destroy", "quit", "post", "join"} =>
               owner["component"] = t /\ refs[x] = 0
          /\ op = "init" => refs[x] > 0 /\ cstate[x] # "unloading"
          /\ op = "open" => imports[x] = "queried" /\ Alive(x[2])
          /\ op = "free" => imports[x] # "none" /\ refs[x[2]] > 0

\* At the end, when the components do nothing any more, all of them are unloaded.
NothingLeft ==
  at = "done" /\ (\A t \in Threads : Calm(t)) /\ (\A c \in Components : work[c].at = "idle") =>
    /\ owner = [m \in Mutexes |-> Nobody]
    /\ imports = [p \in Clients \X Components |-> "none"]
    /\ refs = [c \in Clients |-> IF c = Anonymous THEN 1 ELSE 0]
    /\ fault = "none" => \A c \in Components : cstate[c] = "null" /\ ~Alive(c)

\* The ledger of an account of each thread.
Booked(G) ==
  /\ G \in [Threads -> Account] /\ TodoOK
  /\ LocksKept(G) /\ ImportsKept(G) /\ RefsKept(G) /\ TodoKept(G) /\ Ledger(G)
  /\ fault = "none" => Lives(G)

LEMMA SomeBooked == SpawnInv => \E G : Booked(G)
BY DEF SpawnInv, Kept, Ledger, Booked, ProgramOK, LibraryOK

LEMMA BookedRests ==
  ASSUME NEW G, Booked(G), NEW t \in Threads, Calm(t)
  PROVE  /\ G[t] = AtRest(t) /\ G[t].dying = Nobody
         /\ G[t].held = [m \in Mutexes |-> 0] /\ G[t].refs = Own1(t, IF Asked(t) THEN 1 ELSE 0)
<1>1. G[t] = AtRest(t)
  BY Rests DEF Booked, Calm
<1> QED
  BY <1>1 DEF AtRest, Acc

LEMMA ShownRest ==
  ASSUME NEW t, NEW s \in Components
  PROVE  Shown(AtRest(t).imp[s]) = AtRest(t).imp[s]
<1>1. \A O, Q : Imps(O, Q)[s] \in {"open", "queried", "none"}
  BY DEF Imps
<1>2. AtRest(t).imp = IF t = "main" THEN Imps(MainOpened, MainQueried)
                      ELSE Imps(TestsOpened(t), TestsQueried(t))
  BY DEF AtRest, Acc
<1> QED
  BY <1>1, <1>2 DEF Shown

LEMMA InvBalanced == SpawnInv => CallsBalanced
<1> SUFFICES ASSUME SpawnInv, NEW t \in Threads, Calm(t)
             PROVE  /\ \A m \in Mutexes : owner[m] # t
                    /\ \A s \in Components : imports[<<Client(t), s>>] = AtRest(t).imp[s]
  BY DEF CallsBalanced
<1>1. PICK G : Booked(G)
  BY SomeBooked
<1>2. G[t] = AtRest(t) /\ G[t].held = [m \in Mutexes |-> 0]
  BY <1>1, BookedRests
<1>3. ASSUME NEW m \in Mutexes PROVE owner[m] # t
  <2>1. t # Nobody
    BY SpawnAssumption DEF Threads
  <2>2. G[t].held[m] = 0
    BY <1>2
  <2>3. G[t].held[m] = IF owner[m] = t THEN depth[m] ELSE 0
    BY <1>1 DEF Booked, LocksKept
  <2>4. (owner[m] = Nobody) = (depth[m] = 0)
    BY <1>1 DEF Booked, LocksKept
  <2> QED BY <2>1, <2>2, <2>3, <2>4
<1>4. ASSUME NEW s \in Components PROVE imports[<<Client(t), s>>] = AtRest(t).imp[s]
  <2>1. imports[<<Client(t), s>>] = Shown(G[t].imp[s])
    BY <1>1 DEF Booked, ImportsKept
  <2> QED BY <1>2, <2>1, ShownRest
<1> QED
  BY <1>3, <1>4

\* As many pairs as there are elements.
LEMMA Numbered ==
  ASSUME NEW S, IsFiniteSet(S), NEW k
  PROVE  IsFiniteSet(S \X {k}) /\ Cardinality(S \X {k}) = Cardinality(S)
<1> DEFINE f == [x \in S |-> <<x, k>>]
<1>1. f \in [S -> S \X {k}]
  OBVIOUS
<1>2. \A x, y \in S : f[x] = f[y] => x = y
  OBVIOUS
<1>3. ASSUME NEW p \in S \X {k} PROVE \E x \in S : f[x] = p
  OBVIOUS
<1> HIDE DEF f
<1>4. f \in Injection(S, S \X {k}) /\ f \in Surjection(S, S \X {k})
  BY <1>1, <1>2, <1>3, Fun_IsInj, Fun_IsSurj
<1>5. f \in Bijection(S, S \X {k})
  BY <1>4 DEF Bijection
<1> QED
  BY <1>5, FS_Bijection DEF ExistsBijection

LEMMA ThreadsFinite == IsFiniteSet(Threads)
BY SpawnAssumption, FS_AddElement DEF Threads

LEMMA ComponentHolders ==
  ASSUME NEW G, Booked(G), \A t \in Threads : Calm(t), NEW c \in Components
  PROVE  refs[c] = Cardinality(Importers(c)) + (IF Asked(c) THEN 1 ELSE 0)
<1>1. /\ c \in Threads /\ c # "main" /\ c # Anonymous /\ c \in Clients /\ RefsKept(G)
      /\ Client(c) = c
  BY Constants DEF Booked, Client
<1>2. \A u \in Threads : u # c => Client(u) # c
  BY <1>1 DEF Client
<1>3. IsFiniteSet(Importers(c)) /\ Importers(c) \subseteq Threads
  BY ThreadsFinite, FS_Subset DEF Importers
<1>4. ASSUME NEW u \in Threads, NEW k \in Nat
      PROVE  <<u, k>> \in Holders(G, c) <=> (u \in Importers(c) /\ k = 0) \/ (u = c /\ k = 1 /\ Asked(c))
  <2>1. G[u].refs[c] = IF Client(u) = c /\ Asked(u) THEN 1 ELSE 0
    <3>1. G[u].refs = Own1(u, IF Asked(u) THEN 1 ELSE 0)
      BY BookedRests
    <3> QED BY <1>1, <3>1 DEF Own1
  <2>2. k \in 1 .. G[u].refs[c] <=> u = c /\ k = 1 /\ Asked(c)
    BY <1>1, <1>2, <2>1
  <2>3. u \in Importers(c) <=> G[u].imp[c] # "none"
    <3>1. imports[<<Client(u), c>>] = Shown(G[u].imp[c])
      BY DEF Booked, ImportsKept
    <3> QED BY <3>1 DEF Importers, Shown
  <2> QED BY <1>1, <2>2, <2>3, HolderIn
<1> DEFINE I == Importers(c) \X {0}
<1>5. IsFiniteSet(I) /\ Cardinality(I) = Cardinality(Importers(c)) /\ Cardinality(I) \in Nat
  BY <1>3, Numbered, FS_CardinalityType
<1>6. \A h : h \in Holders(G, c) => \E u \in Threads, k \in Nat : h = <<u, k>>
  BY DEF Holders
<1>7. \A h : h \in I => \E u \in Importers(c) : h = <<u, 0>>
  OBVIOUS
<1>8. \A u \in Importers(c) : <<u, 0>> \in I
  OBVIOUS
<1>9. <<c, 1>> \notin I
  OBVIOUS
<1> HIDE DEF I
<1>10. CASE Asked(c)
  <2>1. ASSUME NEW h \in Holders(G, c) PROVE h \in I \cup {<<c, 1>>}
    <3>1. PICK u \in Threads, k \in Nat : h = <<u, k>>
      BY <1>6
    <3> QED BY <1>4, <1>8, <3>1
  <2>2. ASSUME NEW h \in I \cup {<<c, 1>>} PROVE h \in Holders(G, c)
    <3>1. CASE h \in I
      <4>1. PICK u \in Importers(c) : h = <<u, 0>>
        BY <1>7, <3>1
      <4>2. u \in Threads /\ 0 \in Nat
        BY <1>3
      <4> QED BY <1>4, <4>1, <4>2
    <3>2. CASE h = <<c, 1>>
      BY <1>1, <1>4, <1>10, <3>2
    <3> QED BY <2>2, <3>1, <3>2
  <2>3. Holders(G, c) = I \cup {<<c, 1>>}
    BY <2>1, <2>2
  <2>4. Cardinality(Holders(G, c)) = Cardinality(I) + 1
    BY <1>5, <1>9, <2>3, FS_AddElement
  <2> QED BY <1>1, <1>5, <1>10, <2>4 DEF RefsKept
<1>11. CASE ~Asked(c)
  <2>1. ASSUME NEW h \in Holders(G, c) PROVE h \in I
    <3>1. PICK u \in Threads, k \in Nat : h = <<u, k>>
      BY <1>6
    <3> QED BY <1>4, <1>8, <1>11, <3>1
  <2>2. ASSUME NEW h \in I PROVE h \in Holders(G, c)
    <3>1. PICK u \in Importers(c) : h = <<u, 0>>
      BY <1>7
    <3>2. u \in Threads /\ 0 \in Nat
      BY <1>3
    <3> QED BY <1>4, <3>1, <3>2
  <2>3. Holders(G, c) = I
    BY <2>1, <2>2
  <2>4. Cardinality(Holders(G, c)) = Cardinality(Importers(c))
    BY <1>5, <2>3
  <2>5. Cardinality(Importers(c)) \in Nat
    BY <1>5
  <2>6. refs[c] = Cardinality(Holders(G, c))
    BY <1>1 DEF RefsKept
  <2> QED BY <1>11, <2>4, <2>5, <2>6
<1> QED
  BY <1>10, <1>11

LEMMA ProgramHolders ==
  ASSUME NEW G, Booked(G), \A t \in Threads : Calm(t)
  PROVE  refs[Anonymous] = IF Asked("main") THEN 2 ELSE 1
<1> DEFINE c == Anonymous
<1>1. /\ "main" \in Threads /\ c \in Clients /\ c \notin Components /\ RefsKept(G)
      /\ Client("main") = c
  BY Constants DEF Booked, Client
<1>2. \A u \in Threads : u # "main" => Client(u) # c
  BY <1>1 DEF Client, Threads
<1>3. ASSUME NEW u \in Threads, NEW k \in Nat
      PROVE  <<u, k>> \in Holders(G, c) <=> u = "main" /\ (k = 0 \/ (k = 1 /\ Asked("main")))
  <2>1. G[u].refs[c] = IF Client(u) = c /\ Asked(u) THEN 1 ELSE 0
    <3>1. G[u].refs = Own1(u, IF Asked(u) THEN 1 ELSE 0)
      BY BookedRests
    <3> QED BY <1>1, <3>1 DEF Own1
  <2>2. k \in 1 .. G[u].refs[c] <=> u = "main" /\ k = 1 /\ Asked("main")
    BY <1>1, <1>2, <2>1
  <2> QED BY <1>1, <2>2, HolderIn
<1>4. \A h : h \in Holders(G, c) => \E u \in Threads, k \in Nat : h = <<u, k>>
  BY DEF Holders
<1>5. /\ <<"main", 0>> \in Holders(G, c)
      /\ <<"main", 1>> \in Holders(G, c) <=> Asked("main")
      /\ \A h \in Holders(G, c) : h = <<"main", 0>> \/ h = <<"main", 1>>
  BY <1>1, <1>3, <1>4
<1>6. IsFiniteSet({<<"main", 0>>}) /\ Cardinality({<<"main", 0>>}) = 1
  BY FS_Singleton
<1>7. refs[c] = Cardinality(Holders(G, c))
  BY <1>1 DEF RefsKept
<1> HIDE DEF c
<1>8. CASE Asked("main")
  <2>1. Holders(G, c) = {<<"main", 0>>} \cup {<<"main", 1>>}
    BY <1>5, <1>8
  <2>2. <<"main", 1>> \notin {<<"main", 0>>}
    OBVIOUS
  <2>3. Cardinality(Holders(G, c)) = 2
    <3>1. PICK S, x : S = {<<"main", 0>>} /\ x = <<"main", 1>>
      OBVIOUS
    <3>2. Cardinality(S \cup {x}) = Cardinality(S) + 1
      BY <1>6, <2>2, <3>1, FS_AddElement
    <3> QED BY <1>6, <2>1, <3>1, <3>2
  <2> QED BY <1>7, <1>8, <2>3 DEF c
<1>9. CASE ~Asked("main")
  <2>1. Holders(G, c) = {<<"main", 0>>}
    BY <1>5, <1>9
  <2> QED BY <1>6, <1>7, <1>9, <2>1 DEF c
<1> QED
  BY <1>8, <1>9

LEMMA InvCounted == SpawnInv => RefsCounted
<1> SUFFICES ASSUME SpawnInv, \A t \in Threads : Calm(t)
             PROVE  /\ \A c \in Components :
                         refs[c] = Cardinality(Importers(c)) + (IF Asked(c) THEN 1 ELSE 0)
                    /\ refs[Anonymous] = IF Asked("main") THEN 2 ELSE 1
  BY DEF RefsCounted
<1>1. PICK G : Booked(G)
  BY SomeBooked
<1> QED
  BY <1>1, ComponentHolders, ProgramHolders

\* A reference that a thread or an import has is counted.
LEMMA RefsHeld ==
  ASSUME NEW G, Booked(G), NEW c \in Clients, NEW t \in Threads, G[t].refs[c] > 0
  PROVE  refs[c] > 0
<1>1. <<t, 1>> \in Holders(G, c)
  <2>1. G[t].refs[c] \in Nat
    BY DEF Booked, Account
  <2> QED BY <2>1, HolderIn
<1>2. /\ IsFiniteSet(Holders(G, c)) /\ Cardinality(Holders(G, c)) = refs[c] /\ refs[c] \in Nat
  BY DEF Booked, RefsKept
<1>3. Holders(G, c) # {}
  BY <1>1
<1> QED
  BY <1>2, <1>3, FS_EmptySet

LEMMA ImportsHeld ==
  ASSUME NEW G, Booked(G), NEW s \in Components, NEW t \in Threads, G[t].imp[s] # "none"
  PROVE  refs[s] > 0
<1>1. refs[s] \in Nat /\ G \in [Threads -> Account] /\ RefsKept(G)
  BY Constants DEF Booked, RefsKept
<1>2. refs[s] # 0
  BY <1>1, NoHolders
<1> QED
  BY <1>1, <1>2

LEMMA ClientsThread == \A x \in Clients : \E t \in Threads : Client(t) = x
BY Constants DEF Clients, Client, Threads

LEMMA InvServed == SpawnInv => OpenServed
<1> SUFFICES ASSUME SpawnInv, fault = "none", NEW x \in Clients, NEW s \in Components,
                    imports[<<x, s>>] = "open"
             PROVE  cstate[s] = "up" /\ Alive(s) /\ quit[s] = "no" /\ refs[s] > 0
  BY DEF OpenServed
<1>1. PICK G : Booked(G)
  BY SomeBooked
<1>2. PICK t \in Threads : Client(t) = x
  BY ClientsThread
<1>3. G[t].imp[s] = "open"
  <2>1. imports[<<Client(t), s>>] = Shown(G[t].imp[s])
    BY <1>1 DEF Booked, ImportsKept
  <2> QED BY <1>2, <2>1 DEF Shown
<1>4. Stated(G, s)
  BY <1>1 DEF Booked, Lives
<1>5. refs[s] > 0
  BY <1>1, <1>3, ImportsHeld
<1> QED
  BY <1>3, <1>4, <1>5 DEF Stated

LEMMA InvUnloaded == SpawnInv => UnloadedUnused
<1> SUFFICES ASSUME SpawnInv, fault = "none", owner["component"] = Nobody, NEW c \in Components
             PROVE  /\ cstate[c] \in {"up", "null"} /\ (cstate[c] = "up" <=> Alive(c))
                    /\ Alive(c) => refs[c] > 0 /\ quit[c] = "no"
  BY DEF UnloadedUnused
<1>1. PICK G : Booked(G)
  BY SomeBooked
<1>2. "component" \in Mutexes /\ c # Nobody /\ c \in Clients /\ Nobody \notin Threads
  BY Constants, SpawnAssumption DEF Mutexes, Threads
<1>3. ASSUME NEW t \in Threads PROVE G[t].dying # c
  <2>1. G[t].held["component"] = 0
    BY <1>1, <1>2 DEF Booked, LocksKept
  <2>2. G[t].dying # Nobody => G[t].held["component"] > 0
    BY <1>1 DEF Booked, TodoKept, Covered
  <2>3. ~(0 > 0)
    OBVIOUS
  <2> QED BY <1>2, <2>1, <2>2, <2>3
<1>4. Stated(G, c) /\ cstate[c] \in {"null", "up", "unloading"} /\ refs[c] \in Nat
  BY <1>1, <1>2 DEF Booked, Lives, RefsKept
<1>5. cstate[c] # "unloading" /\ (cstate[c] = "up" => refs[c] # 0)
  BY <1>3, <1>4 DEF Stated
<1>6. cstate[c] = "up" => Alive(c) /\ quit[c] = "no"
  BY <1>4 DEF Stated
<1>7. cstate[c] = "null" => ~Alive(c)
  BY <1>4 DEF Stated
<1>8. refs[c] # 0 => refs[c] > 0
  BY <1>4
<1> QED
  BY <1>4, <1>5, <1>6, <1>7, <1>8

LEMMA InvSound == SpawnInv => StepsSound
<1> SUFFICES ASSUME SpawnInv, fault = "none", NEW t \in Threads, ~Calm(t),
                    NEW op, NEW x, op = Step(t).op, x = Step(t).on
             PROVE  /\ op = "unlock" => owner[x] = t
                    /\ op = "unref" => refs[x] > 0
                    /\ op \in {"destroy", "quit", "post", "join"} =>
                         owner["component"] = t /\ refs[x] = 0
                    /\ op = "init" => refs[x] > 0 /\ cstate[x] # "unloading"
                    /\ op = "open" => imports[x] = "queried" /\ Alive(x[2])
                    /\ op = "free" => imports[x] # "none" /\ refs[x[2]] > 0
  BY DEF StepsSound
<1>1. PICK G : Booked(G)
  BY SomeBooked
<1>2. todo[t] # <<>> /\ todo[t] \in Seq(Own(t)) /\ Step(t) \in Own(t)
  BY <1>1, StepOwned DEF Booked, TodoOK, Calm
<1>3. Leads(t, todo[t], G[t], AtRest(t)) /\ G[t] \in Account /\ Lives(G)
  BY <1>1 DEF Booked, TodoKept
<1>4. PICK b \in Account : Effect(t, G[t], Step(t), b)
  <2>1. \E b \in Account : Effect(t, G[t], Head(todo[t]), b) /\ Leads(t, Tail(todo[t]), b, AtRest(t))
    BY <1>2, <1>3, LeadsFirst
  <2> QED BY <2>1 DEF Step
<1>5. /\ t # Nobody /\ "component" \in Mutexes
      /\ \A m \in Mutexes : G[t].held[m] = IF owner[m] = t THEN depth[m] ELSE 0
      /\ \A s \in Components : imports[<<Client(t), s>>] = Shown(G[t].imp[s])
  BY <1>1, SpawnAssumption DEF Booked, LocksKept, ImportsKept, Threads, Mutexes
<1>6. CASE op = "unlock"
  <2>1. x \in Mutexes
    BY <1>2, <1>6, StepKinds
  <2>2. G[t].held[x] > 0
    BY <1>4, <1>6, EffectOf DEF LockEffect
  <2> QED BY <1>5, <1>6, <2>1, <2>2
<1>7. CASE op = "unref"
  <2>1. x \in Clients
    BY <1>2, <1>7, TouchedClient
  <2>2. G[t].refs[x] > 0
    BY <1>4, <1>7, EffectOf DEF RefEffect
  <2> QED BY <1>1, <1>7, <2>1, <2>2, RefsHeld
<1>8. CASE op \in {"destroy", "quit", "post", "join"}
  <2>1. /\ Covered(t, G[t]) /\ G[t].dying = x /\ G[t].stage = op
    BY <1>4, <1>8, EffectOf DEF Ends
  <2>2. x # Nobody
    BY <1>8, <2>1 DEF Covered
  <2>3. G[t].held["component"] > 0 /\ DyingOK(x, op)
    BY <1>3, <2>1, <2>2 DEF Covered, Lives
  <2>4. owner["component"] = t /\ refs[x] = 0
    BY <1>5, <2>3 DEF DyingOK
  <2> QED BY <1>8, <2>4
<1>9. CASE op = "init"
  <2>1. x \in Components
    BY <1>2, <1>9, StepKinds, TouchedMutex
  <2>2. G[t].imp[x] = "queried"
    <3>1. InitEffect(G[t], Step(t), b)
      BY <1>4, <1>9, EffectOf
    <3> QED BY <3>1 DEF InitEffect
  <2>3. refs[x] > 0
    BY <1>1, <2>1, <2>2, ImportsHeld
  <2>4. Stated(G, x) /\ \A u \in Threads : G[u].dying # Nobody => DyingOK(G[u].dying, G[u].stage)
    BY <1>3, <2>1 DEF Lives
  <2>5. x # Nobody /\ refs[x] # 0
    BY <2>1, <2>3, Constants
  <2>6. \A u \in Threads : G[u].dying # x
    BY <2>4, <2>5 DEF DyingOK
  <2>7. cstate[x] # "unloading"
    BY <2>4, <2>6 DEF Stated
  <2> QED BY <1>9, <2>3, <2>7
<1>10. CASE op \in {"open", "free"}
  <2>1. PICK p, s : x = <<p, s>> /\ s \in Components
    BY <1>2, <1>10, StepKinds, TouchedMutex DEF MayImport, MayFree
  <2>2. /\ p = Client(t)
        /\ op = "open" => G[t].imp[s] = "ready"
        /\ op = "free" => G[t].imp[s] # "none"
    <3>1. ImportEffect(t, G[t], Step(t), b)
      BY <1>4, <1>10, EffectOf
    <3>2. Step(t).on[1] = p /\ Step(t).on[2] = s
      BY <2>1
    <3> QED BY <1>10, <3>1, <3>2 DEF ImportEffect
  <2>3. imports[x] = Shown(G[t].imp[s])
    BY <1>5, <2>1, <2>2
  <2>4. refs[s] > 0
    BY <1>1, <1>10, <2>1, <2>2, ImportsHeld
  <2>5. op = "open" => Alive(s)
    BY <1>3, <2>1, <2>2 DEF Lives, Stated
  <2> QED BY <1>10, <2>1, <2>2, <2>3, <2>4, <2>5 DEF Shown
<1> QED
  BY <1>6, <1>7, <1>8, <1>9, <1>10

LEMMA InvNothing == SpawnInv => NothingLeft
<1> SUFFICES ASSUME SpawnInv, at = "done", \A t \in Threads : Calm(t),
                    \A c \in Components : work[c].at = "idle"
             PROVE  /\ owner = [m \in Mutexes |-> Nobody]
                    /\ imports = [p \in Clients \X Components |-> "none"]
                    /\ refs = [c \in Clients |-> IF c = Anonymous THEN 1 ELSE 0]
                    /\ fault = "none" => \A c \in Components : cstate[c] = "null" /\ ~Alive(c)
  BY DEF NothingLeft
<1>1. PICK G : Booked(G)
  BY SomeBooked
<1>2. CallsBalanced /\ RefsCounted
  BY InvBalanced, InvCounted
<1>3. /\ owner \in [Mutexes -> Threads \cup {Nobody}] /\ refs \in [Clients -> Nat]
      /\ imports \in [Clients \X Components -> {"none", "queried", "open"}]
  BY <1>1 DEF Booked, LocksKept, ImportsKept, RefsKept
<1>4. \A m \in Mutexes : owner[m] = Nobody
  BY <1>2, <1>3 DEF CallsBalanced
<1>5. ASSUME NEW t \in Threads PROVE AtRest(t) = Rest(t, 0, {}, {}) /\ ~Asked(t)
  <2>1. CASE t = "main"
    BY <2>1, MainAt DEF MainRests, Asked
  <2>2. CASE t # "main"
    <3>1. t \in Components
      BY <2>2 DEF Threads
    <3> QED BY <2>2, <3>1, WorkRest DEF WorkRests, Asked
  <2> QED BY <2>1, <2>2
<1>6. ASSUME NEW t \in Threads, NEW s \in Components PROVE imports[<<Client(t), s>>] = "none"
  <2>1. imports[<<Client(t), s>>] = AtRest(t).imp[s]
    BY <1>2 DEF CallsBalanced
  <2>2. AtRest(t).imp[s] = "none"
    BY <1>5 DEF Rest, Acc, Imps
  <2> QED BY <2>1, <2>2
<1>7. ASSUME NEW x \in Clients, NEW s \in Components PROVE imports[<<x, s>>] = "none"
  BY <1>6, ClientsThread
<1>8. ASSUME NEW c \in Components PROVE refs[c] = 0
  <2>1. Importers(c) = {}
    BY <1>6 DEF Importers
  <2>2. ~Asked(c)
    BY <1>5, Constants
  <2> QED BY <1>2, <2>1, <2>2, FS_EmptySet DEF RefsCounted
<1>9. refs[Anonymous] = 1
  BY <1>2, <1>5, Constants DEF RefsCounted
<1>10. \A c \in Clients : c = Anonymous \/ c \in Components
  BY DEF Clients
<1>11. owner = [m \in Mutexes |-> Nobody]
  BY <1>3, <1>4
<1>12. imports = [p \in Clients \X Components |-> "none"]
  <2>1. \A p \in Clients \X Components : imports[p] = "none"
    BY <1>7
  <2> QED BY <1>3, <2>1
<1>13. refs = [c \in Clients |-> IF c = Anonymous THEN 1 ELSE 0]
  <2>1. \A c \in Clients : refs[c] = IF c = Anonymous THEN 1 ELSE 0
    BY <1>8, <1>9, <1>10, Constants
  <2> QED BY <1>3, <2>1
<1>14. ASSUME fault = "none", NEW c \in Components PROVE cstate[c] = "null" /\ ~Alive(c)
  <2>1. UnloadedUnused /\ owner["component"] = Nobody
    BY <1>4, InvUnloaded DEF Mutexes
  <2>2. /\ cstate[c] \in {"up", "null"} /\ (cstate[c] = "up" <=> Alive(c))
        /\ Alive(c) => refs[c] > 0
    BY <1>14, <2>1 DEF UnloadedUnused
  <2>3. ~(refs[c] > 0)
    BY <1>8
  <2> QED BY <2>2, <2>3
<1> QED
  BY <1>11, <1>12, <1>13, <1>14

\* Each call of the API gives back what it takes, on every path through it: no
\* thread returns from one with a mutex held, or with an import more or less than
\* its program knows of, and no reference is dropped twice or forgotten.
THEOREM SpawnBalanced == SpawnSpec => [](CallsBalanced /\ RefsCounted)
BY SpawnAlways, InvBalanced, InvCounted, PTL

\* While an import is open, in whatever thread, its server is loaded, referenced
\* and takes calls; and a component that nothing refers to is unloaded before
\* another thread gets to look at it.
THEOREM SpawnServed == SpawnSpec => [](OpenServed /\ UnloadedUnused)
BY SpawnAlways, InvServed, InvUnloaded, PTL

\* No step of the library finds what it works on gone: a thread only unlocks what
\* it locked, drops what it references, destroys what nothing refers to, under
\* the lock of components, and initialises what is not being destroyed.
THEOREM SpawnSound == SpawnSpec => []StepsSound
BY SpawnAlways, InvSound, PTL

\* When the program ends, nothing is left: no mutex is held, no import is there,
\* and each component is unloaded and its thread ended.
THEOREM SpawnClean == SpawnSpec => []NothingLeft
BY SpawnAlways, InvNothing, PTL

\* A test is only called through an import that is open: run_all_single() reads
\* no import that is gone.
THEOREM SpawnNoFreedImport == SpawnSpec => [](fault # "freed_import")
<1>1. SpawnInv => fault # "freed_import"
  BY DEF SpawnInv, OthersOK, Faults
<1> QED
  BY <1>1, SpawnAlways, PTL

-----------------------------------------------------------------------------
(* Answers in time                                                         *)

\* The answer of a service finds the semaphore of main() there.
ServicesInTime == [][\A s \in Components : ServiceAnswers(s) => fault' = fault]_vars

\* When main() has no semaphore, it is in no call, and starts or ends.
SemsGone == sems["main"] = NoSem => at \in {"boot", "clean", "done"} /\ Calm("main")

LEMMA LeastNumber ==
  ASSUME NEW S \in SUBSET Nat, S # {}
  PROVE  \E m \in S : \A n \in S : m <= n
<1>1. PICK m \in S : \A n \in S : ~(<<n, m>> \in OpToRel(<, Nat))
  BY NatLessThanWellFounded, WFMin
<1>2. \A n \in S : ~(n < m)
  BY <1>1 DEF OpToRel
<1> QED
  BY <1>2

\* What no step of a thread touches: another component's references, and its end.
LEMMA StepLeaves ==
  ASSUME NEW t \in Threads, NEW x \in Own(t), NEW s \in Components, s \notin MayTouch(t),
         NEW a \in Account, NEW b \in Account, Effect(t, a, x, b)
  PROVE  b.refs[s] = a.refs[s] /\ (b.dying = s <=> a.dying = s)
<1>1. s \notin MayStart(t)
  BY TouchedMutex
<1>2. a.refs \in [Clients -> Nat] /\ b.refs \in [Clients -> Nat] /\ s # Nobody
  BY Constants DEF Account
<1>3. CASE x.op \in {"lock", "unlock"}
  <2>1. LockEffect(a, x, b)
    BY <1>3, EffectOf
  <2> QED BY <2>1 DEF LockEffect, SameRefs, SameDying
<1>4. CASE x.op \in {"destroy", "quit", "post", "join"}
  <2>1. x.on \in MayTouch(t)
    BY <1>4, StepKinds
  <2>2. Ends(a, x, b)
    BY <1>4, EffectOf
  <2> QED BY <1>2, <2>1, <2>2 DEF Ends, SameRefs
<1>5. CASE x.op \in {"pass", "init"}
  <2>1. SameDying(a, b)
    BY <1>5, EffectOf
  <2>2. SameRefs(a, b) \/ InitEffect(a, x, b)
    BY <1>5, EffectOf
  <2> QED BY <2>1, <2>2 DEF SameRefs, SameDying, InitEffect
<1>6. CASE x.op \in {"ref", "unref"}
  <2>1. x.on \in MayTouch(t)
    BY <1>6, StepKinds
  <2>2. RefEffect(a, x, b) /\ SameDying(a, b)
    BY <1>6, EffectOf
  <2>3. x.on # s
    BY <2>1
  <2>4. \/ b.refs = [a.refs EXCEPT ![x.on] = @ - 1] \/ b.refs = [a.refs EXCEPT ![x.on] = @ + 1]
    BY <2>2 DEF RefEffect
  <2>5. b.refs[s] = a.refs[s]
    BY <1>2, <2>3, <2>4, Constants
  <2> QED BY <2>2, <2>5 DEF SameDying
<1>7. CASE x.op \in {"new", "add", "open", "close", "free"}
  <2>1. x.on[2] \in MayStart(t)
    BY <1>7, StepKinds DEF MayImport, MayFree
  <2>2. ImportEffect(t, a, x, b) /\ SameDying(a, b)
    BY <1>7, EffectOf
  <2>3. \/ b.refs = a.refs \/ b.refs = [a.refs EXCEPT ![x.on[2]] = @ - 1]
        \/ b.refs = [a.refs EXCEPT ![x.on[2]] = @ + 1]
    BY <1>7, <2>2 DEF ImportEffect
  <2>4. x.on[2] # s
    BY <1>1, <2>1
  <2>5. b.refs[s] = a.refs[s]
    BY <1>2, <2>3, <2>4, Constants
  <2> QED BY <2>2, <2>5 DEF SameDying
<1>8. x.op # "release"
  BY EffectOf
<1>9. x.op \in {"lock", "unlock", "pass", "ref", "unref", "destroy", "quit", "post", "join", "init",
                "new", "add", "open", "close", "release", "free"}
  BY DEF Own, LockSteps
<1> QED
  BY <1>3, <1>4, <1>5, <1>6, <1>7, <1>8, <1>9

LEMMA CallLeaves ==
  ASSUME NEW t \in Threads, NEW q \in Seq(Own(t)), NEW s \in Components, s \notin MayTouch(t),
         NEW a, NEW b, Leads(t, q, a, b)
  PROVE  b.refs[s] = a.refs[s] /\ (b.dying = s <=> a.dying = s)
<1> DEFINE n == Len(q)
<1>1. n \in Nat /\ \A k \in 1 .. n : q[k] \in Own(t)
  OBVIOUS
<1>2. PICK L \in [1 .. n + 1 -> Account] :
        /\ L[1] = a /\ L[n + 1] = b
        /\ \A k \in 1 .. n : Effect(t, L[k], q[k], L[k + 1])
  BY DEF Leads
<1> HIDE DEF n
<1> DEFINE Same(k) == L[k].refs[s] = a.refs[s] /\ (L[k].dying = s <=> a.dying = s)
           Off == {k \in 1 .. n + 1 : ~Same(k)}
<1>3. ASSUME NEW k \in 1 .. n, Same(k) PROVE Same(k + 1)
  <2>1. L[k] \in Account /\ L[k + 1] \in Account
    BY <1>1, <1>2
  <2>2. L[k + 1].refs[s] = L[k].refs[s] /\ (L[k + 1].dying = s <=> L[k].dying = s)
    BY <1>1, <1>2, <2>1, StepLeaves
  <2> QED BY <1>3, <2>2
<1>4. Same(1)
  BY <1>2
<1> HIDE DEF Same
<1>5. ASSUME Off # {} PROVE FALSE
  <2>1. Off \in SUBSET Nat
    BY <1>1
  <2>2. PICK m \in Off : \A k \in Off : m <= k
    BY <1>5, <2>1, LeastNumber
  <2>3. m \in 1 .. n + 1 /\ ~Same(m)
    BY <2>2
  <2>4. m # 1
    BY <1>4, <2>3
  <2>5. m - 1 \in 1 .. n /\ m - 1 + 1 = m /\ ~(m <= m - 1)
    BY <1>1, <2>3, <2>4
  <2>6. Same(m - 1)
    BY <1>1, <2>2, <2>5
  <2> QED BY <1>3, <2>3, <2>5, <2>6
<1>6. Same(n + 1)
  BY <1>1, <1>5
<1> QED
  BY <1>2, <1>6 DEF Same

\* While main() has no semaphore, a service in no call of the API has no thread.
LEMMA ServiceGone ==
  ASSUME SpawnInv, SemsGone, fault = "none", sems["main"] = NoSem,
         NEW s \in ServiceSet, Calm(s), work[s].at = "idle"
  PROVE  ~Alive(s)
<1>1. PICK G : Booked(G)
  BY SomeBooked
<1>2. /\ s \in Components /\ s \in Threads /\ "main" \in Threads /\ s # "main" /\ s # Anonymous
      /\ s \in Clients
  BY Constants
<1>3. AtRest("main") = Rest("main", 0, {}, {}) /\ Calm("main")
  <2>1. Calm("main") /\ at \in {"boot", "clean", "done"} /\ MainPlace
    BY DEF SemsGone, SpawnInv
  <2>2. at = "boot" => handles \ {Nobody} = {}
    BY <2>1 DEF MainPlace
  <2> QED BY <2>1, <2>2, MainAt DEF MainRests
<1>4. AtRest(s) = Rest(s, 0, {}, {})
  BY <1>2, WorkRest DEF WorkRests
<1>5. ASSUME NEW u \in Threads
      PROVE  G[u].refs[s] = 0 /\ G[u].imp[s] = "none" /\ G[u].dying # s
  <2>1. CASE u \in {"main", s}
    <3>1. G[u] = Rest(u, 0, {}, {})
      BY <1>1, <1>3, <1>4, <2>1, BookedRests
    <3>2. Own1(u, 0)[s] = 0 /\ Imps({}, {})[s] = "none"
      BY <1>2 DEF Own1, Imps
    <3> QED BY <1>2, <3>1, <3>2, Constants DEF Rest, Acc
  <2>2. CASE u \notin {"main", s}
    <3>1. u \in Components /\ Client(u) = u /\ s \notin MayTouch(u)
      BY <2>2 DEF Threads, MayTouch, Others, Client
    <3>2. Leads(u, todo[u], G[u], AtRest(u)) /\ todo[u] \in Seq(Own(u))
      BY <1>1 DEF Booked, TodoKept, TodoOK
    <3>3. AtRest(u).refs[s] = 0 /\ AtRest(u).dying # s
      <4>1. u # s
        BY <2>2
      <4>2. \A n : Own1(u, n)[s] = 0
        BY <1>2, <3>1, <4>1 DEF Own1
      <4> QED BY <1>2, <4>2, Constants DEF AtRest, Acc
    <3>4. G[u].refs[s] = 0 /\ G[u].dying # s
      BY <1>2, <3>1, <3>2, <3>3, CallLeaves
    <3>5. imports[<<u, s>>] = "none"
      BY <3>1 DEF SpawnInv, ProgramOK, LibraryOK, ImportsOK
    <3>6. G[u].imp[s] = "none"
      <4>1. imports[<<Client(u), s>>] = Shown(G[u].imp[s])
        BY <1>1, <1>2 DEF Booked, ImportsKept
      <4> QED BY <3>1, <3>5, <4>1 DEF Shown
    <3> QED BY <3>4, <3>6
  <2> QED BY <2>1, <2>2
<1>6. refs[s] = 0
  <2>1. ASSUME NEW h \in Holders(G, s) PROVE FALSE
    <3>1. PICK u \in Threads, k \in Nat : h = <<u, k>>
      BY DEF Holders
    <3>2. k \notin 1 .. G[u].refs[s] /\ G[u].imp[s] = "none"
      BY <1>5
    <3> QED BY <1>2, <3>1, <3>2, HolderIn
  <2>2. Holders(G, s) = {}
    BY <2>1
  <2> QED BY <1>1, <1>2, <2>2, FS_EmptySet DEF Booked, RefsKept
<1>7. Stated(G, s) /\ cstate[s] \in {"null", "up", "unloading"}
  BY <1>1, <1>2 DEF Booked, Lives
<1> QED
  BY <1>5, <1>6, <1>7 DEF Stated

LEMMA SemsStart == SpawnInit => SemsGone
BY Constants DEF SpawnInit, LocksInit, SemsGone, Calm

LEMMA MainSems ==
  ASSUME ProgramOK, SemsGone, MainStep
  PROVE  SemsGone'
<1>1. sems \in [{"main", "tests"} -> Nat \cup {NoSem}] /\ todo["main"] = <<>>
  BY MainCommon DEF ProgramOK, CountsOK
<1> USE DEF SemsGone, Calm
<1>2. CASE Boot
  BY <1>1, <1>2 DEF Boot, GoOn, NoSem, lockVars
<1>3. CASE CleanUp
  BY <1>1, <1>3 DEF CleanUp, GoOn, lockVars
<1>4. CASE WaitService \/ WaitStopped
  <2>1. /\ sems["main"] \in Nat \ {0}
        /\ sems' = [sems EXCEPT !["main"] = @ - 1]
    BY <1>1, <1>4 DEF WaitService, WaitStopped, MainWaits
  <2>2. sems'["main"] # NoSem
    BY <1>1, <2>1 DEF NoSem
  <2> QED BY <2>2
<1>5. ASSUME ~(Boot \/ CleanUp \/ WaitService \/ WaitStopped)
      PROVE  sems' = sems /\ at \notin {"boot", "clean", "done"}
  <2> USE DEF threadsAlone, answerVars, Main
  <2>1. CASE QueryServices \/ NoArrays \/ ImportService \/ StartService \/ StartFails
    BY <2>1 DEF QueryServices, NoArrays, ImportService, StartService, StartFails
  <2>2. CASE FinishServices \/ QueryApplications \/ ImportApplication \/ StartApplication
    BY <2>2 DEF FinishServices, QueryApplications, ImportApplication, StartApplication
  <2>3. CASE FinishApplications \/ ExecWaits \/ ExecRuns \/ ExecReturns \/ Leave
    BY <2>3 DEF FinishApplications, ExecWaits, ExecRuns, ExecReturns, Leave
  <2>4. CASE StopService \/ SkipService \/ NullHandles \/ DropService
    BY <2>4 DEF StopService, SkipService, NullHandles, DropService
  <2> QED BY <1>5, <2>1, <2>2, <2>3, <2>4 DEF MainStep
<1>6. CASE ~(Boot \/ CleanUp \/ WaitService \/ WaitStopped)
  BY <1>5, <1>6
<1> QED
  BY <1>2, <1>3, <1>4, <1>6

LEMMA ComponentSems ==
  ASSUME ProgramOK, SemsGone, NEW c \in Components, ComponentStep(c)
  PROVE  SemsGone'
<1>1. sems \in [{"main", "tests"} -> Nat \cup {NoSem}] /\ c # "main" /\ TodoOK
  BY Constants DEF ProgramOK, CountsOK, LibraryOK
<1>2. at' = at /\ todo'["main"] = todo["main"]
  <2> USE DEF compAlone, spawnVars, mainVars, lockVars, locksAlone, CompCalls, TodoOK
  <2>1. CASE WakesUp(c) \/ TakesCall(c) \/ CallReturns(c)
    BY <2>1 DEF WakesUp, TakesCall, CallReturns
  <2>2. CASE ServiceAnswers(c) \/ TestAnswers(c) \/ ApplicationAnswers(c)
    BY <2>2 DEF ServiceAnswers, TestAnswers, ApplicationAnswers, Signals
  <2>3. CASE BeginsWork(c) \/ Asks(c) \/ QueriesTests(c) \/ ImportsTest(c)
    BY <1>1, <2>3, Constants DEF BeginsWork, Asks, QueriesTests, ImportsTest
  <2>4. CASE RunsTest(c) \/ AwaitsTest(c) \/ UnImportsTest(c) \/ FinishesTests(c) \/ EndsTests(c)
    BY <1>1, <2>4, Constants DEF RunsTest, AwaitsTest, UnImportsTest, FinishesTests, EndsTests
  <2> QED BY <2>1, <2>2, <2>3, <2>4 DEF ComponentStep
<1>3. sems'["main"] = NoSem => sems["main"] = NoSem
  <2>1. CASE ServiceAnswers(c)
    <3>1. sems' = sems \/ (sems["main"] # NoSem /\ sems' = [sems EXCEPT !["main"] = @ + 1])
      BY <2>1 DEF ServiceAnswers, Signals
    <3> QED BY <1>1, <3>1 DEF NoSem
  <2>2. CASE ~ServiceAnswers(c)
    BY <2>2, SemUntouched
  <2> QED BY <2>1, <2>2
<1> QED
  BY <1>2, <1>3 DEF SemsGone, Calm

LEMMA LibrarySems ==
  ASSUME ProgramOK, SemsGone, NEW t \in Threads, InLibrary(t)
  PROVE  SemsGone'
<1>1. UNCHANGED <<sems, at>> /\ todo[t] # <<>> /\ TodoOK
  BY DEF InLibrary, LibraryStep, spawnVars, mainVars, answerVars, ProgramOK, LibraryOK
<1>2. CASE t = "main"
  BY <1>1, <1>2 DEF SemsGone, Calm
<1>3. CASE t # "main"
  <2>1. todo'["main"] = todo["main"]
    <3>1. \E q : todo' = [todo EXCEPT ![t] = q]
      BY <1>1, LibraryStepOK DEF InLibrary, ProgramOK, Moves, Advance, Instead
    <3> QED BY <1>1, <1>3, <3>1, Constants DEF TodoOK
  <2> QED BY <1>1, <2>1 DEF SemsGone, Calm
<1> QED
  BY <1>2, <1>3

LEMMA ServiceKeeps ==
  ASSUME SpawnInv, SemsGone, NEW s \in Components, ServiceAnswers(s)
  PROVE  fault' = fault
<1>1. /\ s \in ServiceSet /\ Calm(s) /\ work[s].at = "idle" /\ thread[s] = "call"
      /\ fault = "none" /\ (sems["main"] # NoSem => fault' = fault)
  BY DEF ServiceAnswers, Signals, Answering, Working, Busy, ServiceSet
<1>2. Alive(s)
  BY <1>1 DEF Alive
<1> QED
  BY <1>1, <1>2, ServiceGone

LEMMA SemsStill ==
  ASSUME SemsGone, Still
  PROVE  SemsGone'
BY DEF Still, spawnVars, mainVars, answerVars, SemsGone, Calm

\* A service answers main() while its semaphore is there, however often it
\* answers: so main() may destroy the semaphore, which is on its stack, at the end.
THEOREM SpawnInTime == SpawnSpec => ServicesInTime
<1>1. SpawnInit => SpawnInv /\ SemsGone
  BY SpawnStarts, SemsStart
<1>2. (SpawnInv /\ SemsGone) /\ [SpawnNext]_vars => (SpawnInv /\ SemsGone)'
  <2> SUFFICES ASSUME SpawnInv, SemsGone, [SpawnNext]_vars PROVE (SpawnInv /\ SemsGone)'
    OBVIOUS
  <2>1. ProgramOK
    BY DEF SpawnInv
  <2>2. CASE Still
    BY <2>2, SpawnStutter, SemsStill
  <2>3. CASE SpawnNext /\ ~Still
    <3>1. SemsGone'
      BY <2>1, <2>3, StepCases, MainSems, ComponentSems, LibrarySems DEF ProgramOK, MainOK
    <3> QED BY <2>3, <3>1, SpawnStep
  <2> QED BY <2>2, <2>3, StutterStill
<1>3. (SpawnInv /\ SemsGone) /\ [SpawnNext]_vars =>
        [\A s \in Components : ServiceAnswers(s) => fault' = fault]_vars
  BY ServiceKeeps
<1> QED
  BY <1>1, <1>2, <1>3, PTL DEF SpawnSpec, ServicesInTime
=============================================================================
