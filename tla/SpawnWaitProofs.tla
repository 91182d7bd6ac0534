--------------------------- MODULE SpawnWaitProofs ---------------------------
(***************************************************************************)
(* What the spawn program does when its components answer once, as the     *)
(* last thing they do: nobody uses what is gone, and with one application  *)
(* no threads wait for each other forever.  Both rest on who is called     *)
(* when: the application that main() started, and the one test this        *)
(* application drives.                                                     *)
(***************************************************************************)
EXTENDS SpawnProofs

-----------------------------------------------------------------------------
(* Components that answer once, as the last thing they do                  *)

AppSet == ToSet(Applications)
TestSet == ToSet(Tests)

\* A component that does nothing and has nothing to do,
Idle(c) == queue[c] = <<>> /\ Resting(c)

\* and one that was called and did not answer yet.
Called(c) ==
  \/ Len(queue[c]) = 1 /\ Resting(c)
  \/ queue[c] = <<>> /\ thread[c] = "call" /\ AnswersLast(agenda[c])

TestsIdle == \A s \in TestSet : Idle(s)

BeforeCall ==
  {"boot", "services", "service", "start", "wait", "applications", "application", "launch"}

\* main() calls one application, and goes on to drop it once it answered.
AppCalls ==
  /\ at \in {"launch", "finish"} => result
  /\ at \in BeforeCall => runSem = 0
  /\ at = "stopped" => TheServices[i] \in handles
  /\ \A a \in AppSet :
       \/ Idle(a)
       \/ /\ Called(a) /\ a = started /\ at \in {"finish", "exec", "run"}
          /\ runSem = 0 /\ (at = "run" => running)

\* The driver, which is the application that was called, calls a test and waits for
\* its answer: its semaphore is there as long as a test is to answer.
TestCalls ==
  /\ \A s \in TestSet :
       \/ Idle(s)
       \/ /\ Called(s) /\ sems["tests"] = 0
          /\ \E c \in AppSet : work[c].at = "await" /\ Tests[work[c].k] = s
  /\ \A c \in AppSet :
       /\ work[c].at \in {"test", "run", "unimport"} => sems["tests"] = 0 /\ TestsIdle
       /\ work[c].at = "await" =>
            todo[c] = <<>> /\ (sems["tests"] = 0 \/ (sems["tests"] = 1 /\ TestsIdle))

\* Nobody else drives tests, or is called at all.
RolesKept ==
  /\ \A c \in Components : work[c].at \notin {"idle", "ask"} => c \in AppSet
  /\ \A c \in Components : c \notin ServiceSet \cup AppSet \cup TestSet => Idle(c)

\* While the application runs, what main() still does of its query opens no import.
Shutting == {x \in Own("main") : x.op # "open"}
QueryEnds == at \in {"finish", "exec", "run"} => todo["main"] \in Seq(Shutting)

PoliteInv == AllPolite /\ fault = "none" => AppCalls /\ TestCalls /\ RolesKept /\ QueryEnds

LEMMA AllRoles ==
  /\ AppSet \subseteq Components /\ TestSet \subseteq Components /\ ServiceSet \subseteq Components
  /\ ServiceSet \cap AppSet = {} /\ ServiceSet \cap TestSet = {} /\ AppSet \cap TestSet = {}
  /\ \A k \in DOMAIN Tests : Tests[k] \in TestSet
<1>1. /\ Applications \in Seq(Components) /\ Tests \in Seq(Components)
      /\ ToSet(Services) \cap (ToSet(Applications) \cup ToSet(Tests)) = {}
      /\ ToSet(Applications) \cap ToSet(Tests) = {}
  BY SpawnAssumption
<1>2. AppSet \subseteq Components /\ TestSet \subseteq Components
  BY <1>1, ElementOfSeq DEF AppSet, TestSet, ToSet
<1>3. \A k \in DOMAIN Tests : Tests[k] \in TestSet
  BY DEF TestSet, ToSet
<1> QED
  BY <1>1, <1>2, <1>3, Constants DEF AppSet, TestSet, ServiceSet

-----------------------------------------------------------------------------
(* Steps that open nothing *)

LEMMA ShutDo ==
  ASSUME NEW op, op # "open", NEW x, Do(op, x) \in Seq(Own("main"))
  PROVE  Do(op, x) \in Seq(Shutting)
<1> DEFINE y == [op |-> op, on |-> x]
<1>1. <<y>> \in Seq(Own("main"))
  BY DEF Do
<1>2. <<y>>[1] \in Own("main")
  BY <1>1, ElementOfSeq
<1>3. y \in Shutting
  BY <1>2 DEF Shutting
<1> QED
  BY <1>3 DEF Do

LEMMA ShutHolding ==
  ASSUME NEW m \in Mutexes, NEW q \in Seq(Shutting)
  PROVE  Holding(m, q) \in Seq(Shutting)
<1>1. Do("lock", m) \in Seq(Shutting) /\ Do("unlock", m) \in Seq(Shutting)
  BY DoSteps, ShutDo, Constants
<1>2. Do("lock", m) \o q \in Seq(Shutting)
  BY <1>1, Concat
<1> QED
  BY <1>1, <1>2, Concat DEF Holding

LEMMA ShutEach ==
  ASSUME NEW client, NEW S, NEW servers \in Seq(S), NEW op, op # "open",
         \A s \in S : [op |-> op, on |-> <<client, s>>] \in Own("main")
  PROVE  ForEach(op, client, servers) \in Seq(Shutting)
<1>1. DOMAIN servers = 1 .. Len(servers) /\ Len(servers) \in Nat
  OBVIOUS
<1>2. \A k \in 1 .. Len(servers) : servers[k] \in S
  BY ElementOfSeq
<1>3. \A s \in S : [op |-> op, on |-> <<client, s>>] \in Shutting
  BY DEF Shutting
<1>4. ForEach(op, client, servers) \in [1 .. Len(servers) -> Shutting]
  BY <1>1, <1>2, <1>3 DEF ForEach
<1> QED
  BY <1>1, <1>4, SeqDef

LEMMA ShutFree ==
  ASSUME NEW p \in MayFree("main")
  PROVE  import_free(p) \in Seq(Shutting) /\ import_close(p) \in Seq(Shutting)
<1>1. /\ p[1] \in MayTouch("main") /\ p[1] \in Mutexes /\ p[2] \in MayTouch("main")
      /\ p[2] \in Mutexes /\ "main" \in Threads /\ "import" \in Mutexes
  BY TouchedMutex, Constants DEF MayFree
<1>2. /\ Do("ref", p[1]) \in Seq(Shutting) /\ Do("unref", p[1]) \in Seq(Shutting)
      /\ Do("pass", p[1]) \in Seq(Shutting) /\ Do("pass", p[2]) \in Seq(Shutting)
      /\ Do("free", p) \in Seq(Shutting) /\ Do("unref", p[2]) \in Seq(Shutting)
  BY <1>1, DoSteps, ShutDo
<1>3. Holding(p[1], Do("pass", p[1])) \in Seq(Shutting)
  BY <1>1, <1>2, ShutHolding
<1>4. Do("ref", p[1]) \o Holding(p[1], Do("pass", p[1])) \in Seq(Shutting)
  BY <1>2, <1>3, Concat
<1>5. Do("ref", p[1]) \o Holding(p[1], Do("pass", p[1])) \o Do("unref", p[1]) \in Seq(Shutting)
  BY <1>2, <1>4, Concat
<1>6. <<>> \in Seq(Shutting)
  OBVIOUS
<1>7. AtPort(p) \in Seq(Shutting)
  BY <1>5, <1>6 DEF AtPort
<1>8. AtPort(p) \o Do("pass", p[2]) \in Seq(Shutting)
  BY <1>2, <1>7, Concat
<1> DEFINE first == IF imports[p] = "open" THEN AtPort(p) \o Do("pass", p[2]) ELSE <<>>
<1>9. first \in Seq(Shutting)
  BY <1>6, <1>8
<1> HIDE DEF first
<1>10. first \o Do("free", p) \in Seq(Shutting)
  BY <1>2, <1>9, Concat
<1>11. first \o Do("free", p) \o Do("unref", p[2]) \in Seq(Shutting)
  BY <1>2, <1>10, Concat
<1>12. import_free(p) \in Seq(Shutting)
  BY <1>1, <1>11, ShutHolding DEF import_free, first
<1>13. Do("ref", p[1]) \o Do("pass", p[1]) \in Seq(Shutting)
  BY <1>2, Concat
<1>14. Do("ref", p[1]) \o Do("pass", p[1]) \o Do("unref", p[1]) \in Seq(Shutting)
  BY <1>2, <1>13, Concat
<1>15. import_close(p) \in Seq(Shutting)
  BY <1>12, <1>14, Concat DEF import_close
<1> QED
  BY <1>12, <1>15

LEMMA ShutFinish ==
  ASSUME NEW unused \in Seq(Components)
  PROVE  xCOM_QueryFinish(Anonymous, unused) \in Seq(Shutting)
<1>1. \A s \in Components : [op |-> "close", on |-> <<Anonymous, s>>] \in Own("main")
  BY ClientsOK DEF Own, MayFree
<1>2. ForEach("close", Anonymous, unused) \in Seq(Shutting)
  BY <1>1, ShutEach
<1>3. /\ "query" \in Mutexes /\ "import" \in Mutexes /\ <<>> \in Seq(Shutting)
      /\ Do("unref", Anonymous) \in Seq(Shutting)
  BY DoSteps, ShutDo, ClientsOK, Constants, TouchedMutex
<1> DEFINE first == IF unused = <<>> THEN <<>>
                    ELSE Holding("import", ForEach("close", Anonymous, unused))
<1>4. first \in Seq(Shutting)
  BY <1>2, <1>3, ShutHolding
<1> HIDE DEF first
<1>5. first \o Do("unref", Anonymous) \in Seq(Shutting)
  BY <1>3, <1>4, Concat
<1> QED
  BY <1>3, <1>5, ShutHolding DEF xCOM_QueryFinish, first

LEMMA ShutStep ==
  ASSUME LibraryOK, LibraryStep("main"), todo["main"] \in Seq(Shutting)
  PROVE  todo'["main"] \in Seq(Shutting)
<1> DEFINE x == Step("main")
           rest == Tail(todo["main"])
<1>1. /\ todo["main"] # <<>> /\ "main" \in Threads /\ todo \in [Threads -> Seq(Steps)]
      /\ rest \in Seq(Shutting) /\ x \in Own("main")
  BY StepOwned, Constants DEF LibraryStep, LibraryOK, TodoOK
<1> HIDE DEF x, rest
<1>2. Advance("main") => todo'["main"] \in Seq(Shutting)
  BY <1>1 DEF Advance, rest
<1>3. ASSUME NEW q \in Seq(Shutting), Instead("main", q)
      PROVE  todo'["main"] \in Seq(Shutting)
  <2>1. todo'["main"] = q \o rest
    BY <1>1, <1>3 DEF Instead, rest
  <2> QED BY <1>1, <2>1, Concat
<1>4. /\ x.op \in {"ref", "unref", "destroy", "quit", "post", "join"} => x.on \in MayTouch("main")
      /\ x.op \in {"new", "add", "open"} => x.on \in MayImport("main")
      /\ x.op \in {"close", "release", "free"} => x.on \in MayFree("main")
  BY <1>1, StepKinds
<1>5. MayTouch("main") = Clients /\ MayTouch("main") \subseteq Mutexes /\ "import" \in Mutexes
      /\ "component" \in Mutexes
  BY <1>1, TouchedMutex DEF MayTouch
<1>6. CASE component_unref("main")
  <2>1. x.on \in MayTouch("main")
    BY <1>4, <1>6 DEF component_unref, x
  <2>2. /\ Do("destroy", x.on) \in Seq(Shutting) /\ x.on \in Mutexes
        /\ Do("unlock", "component") \in Seq(Shutting)
    BY <1>1, <1>5, <2>1, DoSteps, ShutDo
  <2>3. Holding(x.on, Do("destroy", x.on)) \o Do("unlock", "component") \in Seq(Shutting)
    BY <2>2, ShutHolding, Concat
  <2> QED BY <1>2, <1>3, <1>6, <2>3 DEF component_unref, x
<1>7. CASE import_new("main")
  <2>1. /\ Do("pass", "import") \in Seq(Shutting) /\ Do("add", x.on) \in Seq(Shutting)
    BY <1>1, <1>4, <1>5, <1>7, DoSteps, ShutDo DEF import_new, x
  <2>2. Do("pass", "import") \o Do("add", x.on) \in Seq(Shutting)
    BY <2>1, Concat
  <2> QED BY <1>3, <1>7, <2>2 DEF import_new, x
<1>8. CASE Close("main")
  <2>1. /\ import_free(x.on) \in Seq(Shutting) /\ import_close(x.on) \in Seq(Shutting)
        /\ <<>> \in Seq(Shutting)
    BY <1>4, <1>8, ShutFree DEF Close, x
  <2> QED BY <1>3, <1>8, <2>1 DEF Close, x
<1>9. CASE component_destroy("main")
  <2>1. x.on \in MayTouch("main")
    BY <1>4, <1>9 DEF component_destroy, x
  <2>2. ImportsOf(x.on) \in Seq(MayStart("main"))
    BY <1>1, <2>1, ImportsOwned DEF LibraryOK
  <2>3. \A s \in MayStart("main") : [op |-> "release", on |-> <<x.on, s>>] \in Own("main")
    BY <2>1 DEF Own, MayFree
  <2>4. ForEach("release", x.on, ImportsOf(x.on)) \in Seq(Shutting)
    BY <2>2, <2>3, ShutEach
  <2>5. Do("quit", x.on) \in Seq(Shutting) /\ x.on \in Mutexes
    BY <1>1, <1>5, <2>1, DoSteps, ShutDo
  <2>6. Holding(x.on, ForEach("release", x.on, ImportsOf(x.on))) \o Do("quit", x.on) \in Seq(Shutting)
    BY <2>4, <2>5, ShutHolding, Concat
  <2> QED BY <1>2, <1>3, <1>9, <2>6 DEF component_destroy, x
<1>10. CASE Quit("main")
  <2>1. Do("post", x.on) \in Seq(Shutting)
    BY <1>1, <1>4, <1>10, DoSteps, ShutDo DEF Quit, x
  <2> QED BY <1>2, <1>3, <1>10, <2>1 DEF Quit, x
<1>11. CASE Post("main")
  <2>1. Do("join", x.on) \in Seq(Shutting)
    BY <1>1, <1>4, <1>11, DoSteps, ShutDo DEF Post, x
  <2> QED BY <1>3, <1>11, <2>1 DEF Post, x
<1>12. CASE \/ Lock("main") \/ Unlock("main") \/ Pass("main") \/ component_ref("main")
            \/ component_init("main") \/ Add("main") \/ Open("main") \/ FreeImport("main")
            \/ Join("main")
  BY <1>2, <1>12
     DEF Lock, Unlock, Pass, component_ref, component_init, Add, Open, FreeImport, Join
<1> QED
  BY <1>6, <1>7, <1>8, <1>9, <1>10, <1>11, <1>12 DEF LibraryStep

\* A call that opens nothing opened before what it leaves open.
LEMMA OpenBefore ==
  ASSUME NEW q \in Seq(Shutting), NEW s \in Components, NEW a, NEW b,
         Leads("main", q, a, b), b.imp[s] = "open"
  PROVE  a.imp[s] = "open"
<1> DEFINE n == Len(q)
<1>1. n \in Nat /\ \A k \in 1 .. n : q[k] \in Shutting
  OBVIOUS
<1>2. PICK L \in [1 .. n + 1 -> Account] :
        /\ L[1] = a /\ L[n + 1] = b
        /\ \A k \in 1 .. n : Effect("main", L[k], q[k], L[k + 1])
  BY DEF Leads
<1> HIDE DEF n
<1> DEFINE IsOpen(k) == L[k].imp[s] = "open"
           On == {k \in 1 .. n + 1 : IsOpen(k)}
<1>3. ASSUME NEW k \in 1 .. n, IsOpen(k + 1) PROVE IsOpen(k)
  <2>1. L[k] \in Account /\ L[k + 1] \in Account
    BY <1>1, <1>2
  <2>2. /\ L[k].imp \in [Components -> Statuses] /\ Effect("main", L[k], q[k], L[k + 1])
        /\ q[k].op # "open" /\ q[k] \in Own("main")
    BY <1>1, <1>2, <2>1 DEF Account, Shutting
  <2>3. ASSUME L[k + 1].imp # L[k].imp PROVE IsOpen(k)
    <3>1. ImportEffect("main", L[k], q[k], L[k + 1]) \/ InitEffect(L[k], q[k], L[k + 1])
      BY <2>2, <2>3 DEF Effect, LockEffect, Ends, RefEffect, SameRefs
    <3>2. \/ L[k + 1].imp = [L[k].imp EXCEPT ![q[k].on[2]] = "queried"]
          \/ L[k + 1].imp = [L[k].imp EXCEPT ![q[k].on[2]] = "none"]
          \/ L[k + 1].imp = [L[k].imp EXCEPT ![q[k].on] = "ready"]
      BY <2>2, <3>1 DEF ImportEffect, InitEffect
    <3> QED BY <1>3, <2>2, <3>2
  <2> QED BY <1>3, <2>3
<1>4. IsOpen(n + 1)
  BY <1>2
<1> HIDE DEF IsOpen
<1>5. ASSUME ~IsOpen(1) PROVE FALSE
  <2>1. On \in SUBSET Nat /\ On # {}
    BY <1>1, <1>4
  <2>2. PICK m \in On : \A k \in On : m <= k
    BY <2>1, LeastNumber
  <2>3. m \in 1 .. n + 1 /\ IsOpen(m) /\ m # 1
    BY <1>5, <2>2
  <2>4. m - 1 \in 1 .. n /\ m - 1 + 1 = m /\ ~(m <= m - 1)
    BY <1>1, <2>3
  <2>5. IsOpen(m - 1)
    BY <1>3, <2>3, <2>4
  <2> QED BY <1>1, <2>2, <2>4, <2>5
<1> QED
  BY <1>2, <1>5 DEF IsOpen

-----------------------------------------------------------------------------
(* Who is busy is imported                                                 *)

Orderly ==
  /\ SpawnInv /\ AwaitInv /\ AllPolite /\ fault = "none"
  /\ AppCalls /\ TestCalls /\ RolesKept /\ QueryEnds

LEMMA OrderlyOK ==
  ASSUME Orderly
  PROVE  /\ ProgramOK /\ LibraryOK /\ TodoOK /\ QueuesOK /\ WorksOK /\ CountsOK /\ MainOK /\ MainPlace
         /\ setting \in Setting /\ OneCall /\ fault = "none" /\ \A c \in Components : Polite(c)
<1>1. PoliteServices
  BY SpawnAssumption, ElementOfSeq DEF Orderly, AllPolite, PoliteServices
<1> QED
  BY <1>1 DEF Orderly, AllPolite, AwaitInv, SpawnInv, ProgramOK, LibraryOK, MainOK

LEMMA CalledBusy ==
  ASSUME NEW c \in Components, Called(c), QueuesOK
  PROVE  ~Idle(c)
<1>1. Len(queue[c]) = 1 => queue[c] # <<>>
  BY OneElement DEF QueuesOK
<1> QED
  BY <1>1 DEF Called, Idle, Resting, AnswersLast

\* The service that main() waits for is imported by main(), the application that
\* it called, too, and a test by its driver.
LEMMA BusyOpened ==
  ASSUME Orderly, NEW c \in Components, ~Idle(c), NEW G, Booked(G)
  PROVE  \E t \in Threads : G[t].imp[c] = "open"
<1>1. /\ OneCall /\ MainOK /\ setting \in Setting /\ "main" \in Threads /\ MainPlace /\ c # Nobody
      /\ TodoOK
  BY OrderlyOK, Constants
<1>2. CASE c \in ServiceSet
  <2>1. ~Quiet(c)
    BY DEF Quiet, Idle
  <2>2. Awaiting /\ c = TheServices[i] /\ Calm("main")
    BY <1>1, <1>2, <2>1 DEF OneCall, Calm
  <2>3. i \in DOMAIN TheServices
    BY <1>1, <2>2 DEF Awaiting, MainOK
  <2>4. TheServices[i] \in handles
    BY <1>1, <2>2 DEF Awaiting, MainPlace, Orderly, AppCalls
  <2>5. c \in From(TheServices, i)
    <3>1. i >= i
      BY <1>1 DEF MainOK
    <3> QED BY <2>2, <2>3, <3>1 DEF From
  <2>6. PICK n, O, Q : AtRest("main") = Rest("main", n, O, Q) /\ c \in O
    <3>1. CASE at = "wait"
      <4>1. c \in handles \ {Nobody}
        BY <1>1, <2>2, <2>4
      <4> QED BY <3>1, <4>1, MainAt DEF MainRests
    <3>2. CASE at = "stopped"
      BY <2>2, <2>4, <2>5, <3>2, MainAt DEF MainRests
    <3> QED BY <2>2, <3>1, <3>2 DEF Awaiting
  <2>7. G["main"] = AtRest("main")
    BY <1>1, <2>2, BookedRests
  <2>8. G["main"].imp = Imps(O, Q)
    BY <2>6, <2>7 DEF Rest, Acc
  <2> QED BY <1>1, <2>6, <2>8 DEF Imps
<1>3. CASE c \in AppSet
  <2>1. c = started /\ at \in {"finish", "exec", "run"} /\ todo["main"] \in Seq(Shutting)
    BY <1>3 DEF Orderly, AppCalls, QueryEnds
  <2>2. PICK n, O, Q : AtRest("main") = Rest("main", n, O, Q) /\ c \in O
    <3>1. c \in {started} \ {Nobody}
      BY <1>1, <2>1
    <3>2. \/ AtRest("main") = Rest("main", 1, (handles \ {Nobody}) \cup ({started} \ {Nobody}),
                                   From(TheApplications, i))
          \/ AtRest("main") = Rest("main", 0, (handles \ {Nobody}) \cup ({started} \ {Nobody}), {})
      BY <2>1, MainAt DEF MainRests
    <3> QED BY <3>1, <3>2
  <2>3. AtRest("main").imp[c] = "open"
    BY <2>2 DEF Rest, Acc, Imps
  <2>4. Leads("main", todo["main"], G["main"], AtRest("main"))
    BY <1>1 DEF Booked, TodoKept
  <2>5. G["main"].imp[c] = "open"
    BY <2>1, <2>3, <2>4, OpenBefore
  <2> QED BY <1>1, <2>5
<1>4. CASE c \in TestSet
  <2>1. PICK d \in AppSet : work[d].at = "await" /\ Tests[work[d].k] = c
    BY <1>4 DEF Orderly, TestCalls
  <2>2. d \in Threads /\ d \in Components /\ Calm(d)
    BY <2>1, AllRoles, Constants DEF Orderly, TestCalls, Calm
  <2>3. G[d] = AtRest(d)
    BY <2>2, BookedRests
  <2>4. AtRest(d) = Rest(d, 1, {c}, From(Tests, work[d].k + 1))
    BY <2>1, <2>2, WorkRest DEF WorkRests
  <2>5. G[d].imp[c] = "open"
    BY <2>3, <2>4 DEF Rest, Acc, Imps
  <2> QED BY <2>2, <2>5
<1>5. CASE c \notin ServiceSet \cup AppSet \cup TestSet
  BY <1>5 DEF Orderly, RolesKept
<1> QED
  BY <1>2, <1>3, <1>4, <1>5

LEMMA BusyUp ==
  ASSUME Orderly, NEW c \in Components, ~Idle(c)
  PROVE  cstate[c] = "up" /\ Alive(c) /\ quit[c] = "no" /\ refs[c] > 0
<1>1. PICK G : Booked(G)
  BY SomeBooked DEF Orderly
<1>2. PICK t \in Threads : G[t].imp[c] = "open"
  BY <1>1, BusyOpened
<1>3. Stated(G, c)
  BY <1>1, OrderlyOK DEF Booked, Lives
<1>4. refs[c] > 0
  BY <1>1, <1>2, ImportsHeld
<1> QED
  BY <1>2, <1>3, <1>4 DEF Stated

-----------------------------------------------------------------------------
(* The steps of the library                                                *)

LEMMA LibraryQueues ==
  ASSUME LibraryOK, NEW t \in Threads, LibraryStep(t), NEW s \in Components
  PROVE  /\ queue'[s] \in {queue[s], <<>>}
         /\ cstate[s] = "up" => queue'[s] = queue[s] /\ thread'[s] = thread[s]
         /\ \A u \in Threads : u # t => todo'[u] = todo[u]
<1>1. todo[t] # <<>> /\ TodoOK /\ QueuesOK
  BY DEF LibraryStep, LibraryOK
<1>2. \E q : todo' = [todo EXCEPT ![t] = q]
  BY DEF LibraryStep, Lock, Unlock, Pass, component_ref, component_unref, component_init,
         component_destroy, import_new, Add, Open, Close, FreeImport, Quit, Post, Join,
         Advance, Instead
<1>3. \A u \in Threads : u # t => todo'[u] = todo[u]
  BY <1>1, <1>2 DEF TodoOK
<1>4. CASE component_init(t)
  <2>1. \/ queue' = queue /\ thread' = thread
        \/ cstate[Step(t).on] # "up" /\ StartQueue(Step(t).on)
    BY <1>4 DEF component_init, queueVars
  <2> QED BY <1>1, <1>3, <2>1 DEF StartQueue, QueuesOK
<1>5. CASE ~component_init(t)
  <2>1. queue' = queue /\ thread' = thread
    BY <1>5 DEF LibraryStep, Lock, Unlock, Pass, component_ref, component_unref,
                component_destroy, import_new, Add, Open, Close, FreeImport, Quit, Post, Join,
                queueVars, SetQuit, PostQuit
  <2> QED BY <1>3, <2>1
<1> QED
  BY <1>4, <1>5

\* No component that has something to do is unloaded.
LEMMA LibraryFault ==
  ASSUME Orderly, NEW t \in Threads, InLibrary(t)
  PROVE  fault' = "none"
<1>1. fault = "none" /\ LibraryStep(t) /\ todo[t] # <<>> /\ ~Calm(t) /\ LibraryOK
  BY OrderlyOK DEF InLibrary, LibraryStep, Calm
<1>2. PICK G : Booked(G)
  BY SomeBooked DEF Orderly
<1>3. ASSUME NEW c, NEW op \in {"destroy", "join"}, Step(t).on = c, Step(t).op = op
      PROVE  c \in Components /\ G[t].dying = c /\ G[t].stage = op
  <2>1. PICK b \in Account : Effect(t, G[t], Step(t), b)
    <3>1. todo[t] \in Seq(Own(t)) /\ G[t] \in Account /\ Leads(t, todo[t], G[t], AtRest(t))
      BY <1>1, <1>2 DEF Booked, TodoOK, TodoKept
    <3>2. \E b \in Account : Effect(t, G[t], Head(todo[t]), b) /\ Leads(t, Tail(todo[t]), b, AtRest(t))
      BY <1>1, <3>1, LeadsFirst
    <3> QED BY <3>2 DEF Step
  <2>2. Covered(t, G[t]) /\ G[t].dying = c /\ G[t].stage = op
    BY <1>3, <2>1, EffectOf DEF Ends
  <2>3. G[t].dying \in Components \cup {Nobody}
    BY <1>2 DEF Booked, Account
  <2> QED BY <2>2, <2>3 DEF Covered
<1>4. CASE Join(t) /\ Step(t).on = t
  <2>1. refs[t] = 0 /\ Step(t).op = "join"
    BY <1>1, <1>4, InvSound DEF Join, Orderly, StepsSound
  <2>2. t \in Components
    BY <1>3, <1>4, <2>1
  <2>3. ~Idle(t)
    BY <1>1 DEF Idle, Resting
  <2>4. refs[t] > 0
    BY <2>2, <2>3, BusyUp
  <2> QED BY <2>1, <2>4
<1>5. CASE component_destroy(t) /\ cstate[Step(t).on] # "up" /\ Step(t).on # Anonymous
  <2> DEFINE c == Step(t).on
  <2>1. Step(t).op = "destroy"
    BY <1>5 DEF component_destroy
  <2>2. c \in Components /\ G[t].dying = c /\ G[t].stage = "destroy"
    BY <1>3, <2>1
  <2> HIDE DEF c
  <2>3. Lives(G) /\ c # Nobody
    BY <1>1, <1>2, <2>2, Constants DEF Booked
  <2>4. DyingOK(c, "destroy") /\ Stated(G, c) /\ cstate[c] \in {"null", "up", "unloading"}
    BY <2>2, <2>3, Constants DEF Lives
  <2>5. cstate[c] = "null" /\ ~Alive(c)
    BY <1>5, <2>4 DEF DyingOK, Stated, c
  <2> QED BY <1>1, <1>5, <2>5 DEF component_destroy, c
<1>6. CASE ~(Join(t) /\ Step(t).on = t)
           /\ ~(component_destroy(t) /\ cstate[Step(t).on] # "up" /\ Step(t).on # Anonymous)
  <2>1. CASE Lock(t) \/ Unlock(t) \/ Pass(t) \/ component_ref(t) \/ component_unref(t)
               \/ import_new(t) \/ Add(t) \/ Open(t) \/ Close(t) \/ FreeImport(t) \/ Quit(t)
               \/ Post(t) \/ component_init(t)
    BY <1>1, <2>1 DEF Lock, Unlock, Pass, component_ref, component_unref, import_new, Add, Open,
       Close, FreeImport, Quit, Post, component_init
  <2>2. CASE component_destroy(t)
    BY <1>1, <1>6, <2>2 DEF component_destroy
  <2>3. CASE Join(t)
    BY <1>1, <1>6, <2>3 DEF Join
  <2> QED BY <1>1, <2>1, <2>2, <2>3 DEF LibraryStep
<1> QED
  BY <1>4, <1>5, <1>6

LEMMA LibraryOrder ==
  ASSUME Orderly, NEW t \in Threads, InLibrary(t)
  PROVE  AppCalls' /\ TestCalls' /\ RolesKept' /\ QueryEnds'
<1>1. /\ LibraryStep(t) /\ todo[t] # <<>> /\ LibraryOK /\ QueuesOK
      /\ UNCHANGED <<setting, at, i, result, handles, started, sems, runSem, running, agenda, work>>
  BY OrderlyOK DEF InLibrary, LibraryStep, spawnVars, mainVars, answerVars, workVars
<1>2. ASSUME NEW c \in Components
      PROVE  /\ Idle(c) => Idle(c)'
             /\ Called(c) => Called(c)'
             /\ todo[c] = <<>> => todo'[c] = <<>>
  <2>1. todo[c] = <<>> => todo'[c] = <<>>
    BY <1>1, LibraryQueues, Constants DEF Threads
  <2>2. queue'[c] \in {queue[c], <<>>}
    BY <1>1, LibraryQueues
  <2>3. Idle(c) => Idle(c)'
    BY <1>1, <2>1, <2>2 DEF Idle, Resting
  <2>4. ASSUME Called(c) PROVE Called(c)'
    <3>1. cstate[c] = "up"
      BY <1>1, <2>4, CalledBusy, BusyUp
    <3>2. queue'[c] = queue[c] /\ thread'[c] = thread[c]
      BY <1>1, <3>1, LibraryQueues
    <3> QED BY <1>1, <2>1, <2>4, <3>2 DEF Called, Resting, AnswersLast
  <2> QED BY <2>1, <2>3, <2>4
<1>3. AppSet \subseteq Components /\ TestSet \subseteq Components
  BY AllRoles
<1>4. TheServices' = TheServices
  BY <1>1 DEF TheServices
<1>5. AppCalls'
  BY <1>1, <1>2, <1>3, <1>4 DEF Orderly, AppCalls
<1>6. TestsIdle => TestsIdle'
  BY <1>2, <1>3 DEF TestsIdle
<1>7. TestCalls'
  BY <1>1, <1>2, <1>3, <1>6 DEF Orderly, TestCalls
<1>8. RolesKept'
  BY <1>1, <1>2 DEF Orderly, RolesKept
<1>9. QueryEnds'
  <2>1. CASE t = "main"
    BY <1>1, <2>1, ShutStep DEF Orderly, QueryEnds
  <2>2. CASE t # "main"
    <3>1. todo'["main"] = todo["main"]
      <4>1. \E q : todo' = [todo EXCEPT ![t] = q]
        BY <1>1 DEF LibraryStep, Lock, Unlock, Pass, component_ref, component_unref, component_init,
           component_destroy, import_new, Add, Open, Close, FreeImport, Quit, Post, Join,
           Advance, Instead
      <4> QED BY <1>1, <2>2, <4>1, Constants DEF LibraryOK, TodoOK
    <3> QED BY <1>1, <3>1 DEF Orderly, QueryEnds
  <2> QED BY <2>1, <2>2
<1> QED
  BY <1>5, <1>7, <1>8, <1>9

-----------------------------------------------------------------------------
(* The steps of the components                                             *)

\* What is left of a method that answers last, after its first item.
LEMMA LastAnswer ==
  ASSUME NEW q \in Seq(Items), AnswersLast(q)
  PROVE  /\ Head(q) = "answer" => Tail(q) = <<>>
         /\ Head(q) = "work" => AnswersLast(Tail(q))
<1>1. /\ q # <<>> /\ Len(q) \in Nat \ {0} /\ Head(q) = q[1] /\ DOMAIN q = 1 .. Len(q)
      /\ 1 \in DOMAIN q
  BY DEF AnswersLast
<1>2. ASSUME Head(q) = "answer" PROVE Tail(q) = <<>>
  <2>1. Len(q) = 1
    BY <1>1, <1>2 DEF AnswersLast
  <2> QED BY <2>1, OneElement
<1>3. ASSUME Head(q) = "work" PROVE AnswersLast(Tail(q))
  <2>1. Len(q) # 1
    BY <1>1, <1>3 DEF AnswersLast
  <2>2. /\ Len(Tail(q)) = Len(q) - 1 /\ Tail(q) \in Seq(Items) /\ Len(q) \in Nat \ {0, 1}
    BY <1>1, <2>1
  <2>3. \A k \in 1 .. Len(q) - 1 : Tail(q)[k] = q[k + 1] /\ k + 1 \in DOMAIN q
    BY <1>1, <2>2
  <2>4. DOMAIN Tail(q) = 1 .. Len(q) - 1
    BY <2>2
  <2>5. Tail(q) # <<>>
    <3>1. Len(<<>>) = 0
      OBVIOUS
    <3>2. Len(Tail(q)) # 0
      BY <2>2
    <3> QED BY <3>1, <3>2
  <2> QED BY <2>2, <2>3, <2>4, <2>5 DEF AnswersLast
<1> QED
  BY <1>2, <1>3

\* A component touches no other one, but for the test that it calls.
LEMMA OthersSame ==
  ASSUME ProgramOK, NEW c \in Components, ComponentStep(c), NEW d \in Components, d # c
  PROVE  /\ thread'[d] = thread[d] /\ agenda'[d] = agenda[d] /\ todo'[d] = todo[d]
         /\ work'[d] = work[d]
         /\ queue'[d] = queue[d] \/ (RunsTest(c) /\ d = Tests[work[c].k])
<1>1. d \in Threads /\ TodoOK /\ QueuesOK /\ WorksOK /\ CountsOK
  BY Constants DEF ProgramOK, LibraryOK
<1>2. CASE WakesUp(c) \/ CallReturns(c)
  BY <1>1, <1>2
  DEF WakesUp, Wakes, CallReturns, Returns, spawnVars, lockVars, workVars, answerVars, QueuesOK
<1>3. CASE TakesCall(c)
  BY <1>1, <1>3 DEF TakesCall, Takes, compAlone, lockVars, answerVars, QueuesOK, WorksOK
<1>4. CASE ServiceAnswers(c) \/ TestAnswers(c) \/ ApplicationAnswers(c)
  <2>1. Answering(c) /\ UNCHANGED <<work, todo, queueVars>>
    BY <1>4 DEF ServiceAnswers, TestAnswers, ApplicationAnswers, Signals, compAlone, lockVars
  <2> QED BY <1>1, <2>1 DEF Answering, queueVars, WorksOK
<1>5. CASE BeginsWork(c)
  BY <1>1, <1>5 DEF BeginsWork, WorkAt, queueVars, lockVars, WorksOK
<1>6. CASE Asks(c) \/ QueriesTests(c) \/ ImportsTest(c) \/ AwaitsTest(c) \/ UnImportsTest(c)
             \/ FinishesTests(c) \/ EndsTests(c)
  <2>1. UNCHANGED <<queueVars, agenda>>
    BY <1>6 DEF Asks, QueriesTests, ImportsTest, AwaitsTest, UnImportsTest, FinishesTests,
                EndsTests
  <2>2. todo'[d] = todo[d]
    BY <1>1, <1>6 DEF Asks, QueriesTests, ImportsTest, AwaitsTest, UnImportsTest,
                FinishesTests, EndsTests, CompCalls, lockVars, TodoOK
  <2>3. work'[d] = work[d]
    BY <1>1, <1>6 DEF Asks, QueriesTests, ImportsTest, AwaitsTest, UnImportsTest,
                FinishesTests, EndsTests, WorkAt, WorksOK
  <2> QED BY <2>1, <2>2, <2>3 DEF queueVars
<1>7. CASE RunsTest(c)
  <2>1. UNCHANGED <<agenda, todo>> /\ thread' = thread
    BY <1>7 DEF RunsTest, Enqueue, queueVars
  <2>2. work'[d] = work[d]
    BY <1>1, <1>7 DEF RunsTest, WorkAt, WorksOK
  <2>3. Enqueue(Tests[work[c].k], "Run") \/ UNCHANGED queueVars
    BY <1>7 DEF RunsTest
  <2>4. queue'[d] = queue[d] \/ d = Tests[work[c].k]
    BY <1>1, <2>3 DEF Enqueue, queueVars, QueuesOK
  <2> QED BY <1>7, <2>1, <2>2, <2>4
<1> QED
  BY <1>2, <1>3, <1>4, <1>5, <1>6, <1>7 DEF ComponentStep

\* A component at rest only takes calls: when it has none, it stays idle.
LEMMA RestingSteps ==
  ASSUME NEW c \in Components, Resting(c), ComponentStep(c)
  PROVE  /\ WakesUp(c) \/ TakesCall(c) \/ CallReturns(c)
         /\ UNCHANGED <<sems, runSem, running, fault, work, todo>>
<1>1. WakesUp(c) \/ TakesCall(c) \/ CallReturns(c)
  BY DEF Resting, ComponentStep, ServiceAnswers, TestAnswers, ApplicationAnswers, Signals,
       Answering, BeginsWork, Asks, QueriesTests, ImportsTest, RunsTest, AwaitsTest,
       UnImportsTest, FinishesTests, EndsTests, Working
<1> QED
  BY <1>1 DEF WakesUp, TakesCall, CallReturns, spawnVars, lockVars, answerVars, workVars

LEMMA IdleThread ==
  ASSUME ProgramOK, NEW c \in Components, Idle(c), ComponentStep(c)
  PROVE  Idle(c)'
<1>1. QueuesOK /\ WorksOK /\ Resting(c) /\ queue[c] = <<>>
  BY DEF ProgramOK, LibraryOK, Idle
<1>2. (WakesUp(c) \/ TakesCall(c) \/ CallReturns(c)) /\ UNCHANGED <<work, todo>>
  BY <1>1, RestingSteps
<1>3. CASE WakesUp(c) \/ CallReturns(c)
  BY <1>1, <1>2, <1>3
  DEF WakesUp, Wakes, CallReturns, Returns, spawnVars, workVars, Idle, Resting
<1>4. CASE TakesCall(c)
  <2>1. queue'[c] = <<>> /\ thread'[c] # "call"
    BY <1>1, <1>4 DEF TakesCall, Takes, QueuesOK
  <2>2. agenda'[c] = <<>>
    BY <1>1, <1>4, <2>1 DEF TakesCall, WorksOK
  <2> QED BY <1>1, <1>2, <2>1, <2>2 DEF Idle, Resting
<1> QED
  BY <1>2, <1>3, <1>4

\* A component that was called remains so until it answers, and is idle then.
LEMMA CalledThread ==
  ASSUME ProgramOK, RolesKept, NEW c \in Components, Called(c), Polite(c), quit[c] = "no",
         ComponentStep(c)
  PROVE  \/ Called(c)' /\ ~(ServiceAnswers(c) \/ TestAnswers(c) \/ ApplicationAnswers(c))
         \/ /\ Idle(c)' /\ (ServiceAnswers(c) \/ TestAnswers(c) \/ ApplicationAnswers(c))
            /\ ~Resting(c)
<1>1. /\ QueuesOK /\ WorksOK /\ queue[c] \in Seq(Methods) /\ agenda[c] \in Seq(Items)
  BY DEF ProgramOK, LibraryOK, QueuesOK, WorksOK
<1>2. CASE Len(queue[c]) = 1 /\ Resting(c)
  <2>1. (WakesUp(c) \/ TakesCall(c) \/ CallReturns(c)) /\ UNCHANGED <<work, todo>>
    BY <1>2, RestingSteps
  <2>2. ~(ServiceAnswers(c) \/ TestAnswers(c) \/ ApplicationAnswers(c))
    BY <1>2 DEF ServiceAnswers, TestAnswers, ApplicationAnswers, Signals, Answering, Resting
  <2>3. CASE WakesUp(c) \/ CallReturns(c)
    <3>1. UNCHANGED <<queue, agenda>>
      BY <2>3 DEF WakesUp, Wakes, CallReturns, Returns, spawnVars, workVars
    <3> QED BY <1>2, <2>1, <2>2, <3>1 DEF Called, Resting
  <2>4. CASE TakesCall(c)
    <3>1. queue[c] # <<>> /\ Tail(queue[c]) = <<>>
      BY <1>1, <1>2, OneElement
    <3>2. queue'[c] = <<>> /\ thread'[c] = "call"
      BY <1>1, <2>4, <3>1 DEF TakesCall, Takes, QueuesOK
    <3>3. agenda'[c] = setting.habit[c]
      BY <1>1, <2>4, <3>2 DEF TakesCall, WorksOK
    <3>4. AnswersLast(agenda'[c])
      BY <3>3 DEF Polite
    <3> QED BY <2>2, <3>2, <3>4 DEF Called, AnswersLast
  <2> QED BY <2>1, <2>3, <2>4
<1>3. CASE queue[c] = <<>> /\ thread[c] = "call" /\ AnswersLast(agenda[c])
  <2>0. agenda[c] # <<>> /\ ~Resting(c)
    BY <1>3 DEF AnswersLast, Resting
  <2>1. ~WakesUp(c) /\ ~TakesCall(c) /\ ~CallReturns(c)
    BY <1>3, <2>0 DEF WakesUp, Wakes, TakesCall, Takes, CallReturns
  <2>2. CASE ServiceAnswers(c) \/ TestAnswers(c) \/ ApplicationAnswers(c)
    <3>1. Answering(c) /\ UNCHANGED <<work, todo, queueVars>>
      BY <2>2 DEF ServiceAnswers, TestAnswers, ApplicationAnswers, Signals, compAlone, lockVars
    <3>2. agenda'[c] = <<>>
      BY <1>1, <1>3, <3>1, LastAnswer DEF Answering, WorksOK
    <3>3. Idle(c)'
      BY <1>3, <3>1, <3>2 DEF Answering, Working, Busy, Calm, queueVars, Idle, Resting
    <3> QED BY <2>0, <2>2, <3>3
  <2>3. CASE ~(ServiceAnswers(c) \/ TestAnswers(c) \/ ApplicationAnswers(c))
    <3>1. AnswersLast(agenda'[c])
      <4>1. CASE BeginsWork(c)
        <5>1. AnswersLast(Tail(agenda[c]))
          BY <1>1, <1>3, <4>1, LastAnswer DEF BeginsWork
        <5>2. agenda'[c] = Tail(agenda[c])
          BY <1>1, <4>1 DEF BeginsWork, WorksOK
        <5> QED BY <5>1, <5>2
      <4>2. CASE ~BeginsWork(c)
        <5>1. agenda' = agenda
          BY <2>1, <2>3, <4>2 DEF ComponentStep, Asks, QueriesTests, ImportsTest, RunsTest,
             AwaitsTest, UnImportsTest, FinishesTests, EndsTests
        <5> QED BY <1>3, <5>1
      <4> QED BY <4>1, <4>2
    <3>2. thread'[c] = "call" /\ queue'[c] = <<>>
      <4>1. CASE RunsTest(c)
        <5>1. Enqueue(Tests[work[c].k], "Run") \/ UNCHANGED queueVars
          BY <4>1 DEF RunsTest
        <5>2. Tests[work[c].k] # c
          <6>1. work[c].at = "run" /\ work[c].k \in DOMAIN Tests
            BY <1>1, <4>1 DEF RunsTest, Working, WorksOK
          <6>2. c \in AppSet
            BY <6>1 DEF RolesKept
          <6> QED BY <6>1, <6>2, AllRoles
        <5> QED BY <1>1, <1>3, <5>1, <5>2 DEF Enqueue, queueVars, QueuesOK
      <4>2. CASE ~RunsTest(c)
        <5>1. UNCHANGED queueVars
          BY <2>1, <2>3, <4>2 DEF ComponentStep, BeginsWork, Asks, QueriesTests, ImportsTest,
             AwaitsTest, UnImportsTest, FinishesTests, EndsTests
        <5> QED BY <1>3, <5>1 DEF queueVars
      <4> QED BY <4>1, <4>2
    <3> QED BY <2>3, <3>1, <3>2 DEF Called, AnswersLast
  <2> QED BY <2>2, <2>3
<1> QED
  BY <1>2, <1>3 DEF Called

\* What main() has is not touched by a component.
LEMMA ComponentMain ==
  ASSUME ProgramOK, NEW c \in Components, ComponentStep(c)
  PROVE  UNCHANGED <<setting, at, i, result, handles, started>> /\ todo'["main"] = todo["main"]
<1>1. c # "main" /\ TodoOK /\ "main" \in Threads
  BY Constants DEF ProgramOK, LibraryOK
<1>2. UNCHANGED <<setting, mainVars>>
  BY DEF ComponentStep, WakesUp, TakesCall, CallReturns, ServiceAnswers, TestAnswers,
     ApplicationAnswers, Signals, BeginsWork, Asks, QueriesTests, ImportsTest, RunsTest,
     AwaitsTest, UnImportsTest, FinishesTests, EndsTests, compAlone, spawnVars
<1>3. todo' = todo \/ \E q : CompCalls(c, q)
  BY DEF ComponentStep, WakesUp, TakesCall, CallReturns, ServiceAnswers, TestAnswers, Signals,
         ApplicationAnswers, BeginsWork, Asks, QueriesTests, ImportsTest, RunsTest, AwaitsTest,
         UnImportsTest, FinishesTests, EndsTests, lockVars
<1>4. todo'["main"] = todo["main"]
  BY <1>1, <1>3 DEF CompCalls, TodoOK
<1> QED
  BY <1>2, <1>4 DEF mainVars

\* A step after which nobody is called who was not, and nobody answered.
LEMMA OrderSame ==
  ASSUME Orderly, UNCHANGED <<setting, at, i, result, handles, started, runSem, running>>,
         todo'["main"] = todo["main"], sems'["tests"] = sems["tests"],
         \A d \in Components \ ServiceSet : (Idle(d) => Idle(d)') /\ (Called(d) => Called(d)'),
         \A d \in Components : \/ work'[d] = work[d]
                               \/ {work[d].at, work'[d].at} \subseteq {"idle", "ask"},
         \A d \in AppSet : todo[d] = <<>> => todo'[d] = <<>>
  PROVE  AppCalls' /\ TestCalls' /\ RolesKept' /\ QueryEnds'
<1>1. /\ AppSet \subseteq Components \ ServiceSet /\ TestSet \subseteq Components \ ServiceSet
  BY AllRoles
<1>2. TheServices' = TheServices
  BY DEF TheServices
<1>3. AppCalls'
  BY <1>1, <1>2 DEF Orderly, AppCalls
<1>4. TestsIdle => TestsIdle'
  BY <1>1 DEF TestsIdle
<1>5. \A d \in AppSet : /\ work'[d].at \notin {"idle", "ask"} => work'[d] = work[d]
                        /\ work[d].at \notin {"idle", "ask"} => work'[d] = work[d]
  BY <1>1
<1>6. TestCalls'
  <2>1. ASSUME NEW s \in TestSet
        PROVE  \/ Idle(s)'
               \/ /\ Called(s)' /\ sems'["tests"] = 0
                  /\ \E c \in AppSet : work'[c].at = "await" /\ Tests[work'[c].k] = s
    BY <1>1, <1>5 DEF Orderly, TestCalls
  <2>2. ASSUME NEW c \in AppSet
        PROVE  /\ work'[c].at \in {"test", "run", "unimport"} => sems'["tests"] = 0 /\ TestsIdle'
               /\ work'[c].at = "await" =>
                    todo'[c] = <<>> /\ (sems'["tests"] = 0 \/ (sems'["tests"] = 1 /\ TestsIdle'))
    BY <1>4, <1>5 DEF Orderly, TestCalls
  <2> QED BY <2>1, <2>2 DEF TestCalls
<1>7. RolesKept'
  BY DEF Orderly, RolesKept
<1>8. QueryEnds'
  BY DEF Orderly, QueryEnds
<1> QED
  BY <1>3, <1>6, <1>7, <1>8

\* One application drives tests, one at a time.
LEMMA OneDriver ==
  ASSUME Orderly, NEW c \in AppSet, ~Idle(c)
  PROVE  /\ c = started /\ Called(c) /\ at \in {"finish", "exec", "run"}
         /\ \A d \in AppSet \ {c} : Idle(d)
         /\ \A s \in TestSet : ~Idle(s) =>
              /\ Called(s) /\ sems["tests"] = 0
              /\ work[c].at = "await" /\ Tests[work[c].k] = s
         /\ work[c].at # "await" => TestsIdle
<1>1. c = started /\ Called(c) /\ at \in {"finish", "exec", "run"}
  BY DEF Orderly, AppCalls
<1>2. \A d \in AppSet \ {c} : Idle(d)
  BY <1>1 DEF Orderly, AppCalls
<1>3. ASSUME NEW s \in TestSet, ~Idle(s)
      PROVE  /\ Called(s) /\ sems["tests"] = 0
             /\ work[c].at = "await" /\ Tests[work[c].k] = s
  <2>1. PICK d \in AppSet : work[d].at = "await" /\ Tests[work[d].k] = s
    BY <1>3 DEF Orderly, TestCalls
  <2>2. d = c
    BY <1>2, <2>1 DEF Idle, Resting
  <2> QED BY <1>3, <2>1, <2>2 DEF Orderly, TestCalls
<1> QED
  BY <1>1, <1>2, <1>3 DEF TestsIdle

\* A component that is idle, and one of no role,
LEMMA IdleOrder ==
  ASSUME Orderly, NEW c \in Components, Idle(c), ComponentStep(c)
  PROVE  fault' = "none" /\ AppCalls' /\ TestCalls' /\ RolesKept' /\ QueryEnds'
<1>1. ProgramOK /\ fault = "none" /\ Resting(c) /\ QueuesOK
  BY OrderlyOK DEF Idle
<1>2. UNCHANGED <<sems, runSem, running, fault, work, todo>> /\ ~RunsTest(c)
  BY <1>1, RestingSteps DEF RunsTest, Working, Resting
<1>3. UNCHANGED <<setting, at, i, result, handles, started>>
  BY <1>1, ComponentMain
<1>4. Idle(c)' /\ ~Called(c)
  BY <1>1, IdleThread, CalledBusy
<1>5. ASSUME NEW d \in Components, d # c
      PROVE  (Idle(d) => Idle(d)') /\ (Called(d) => Called(d)')
  <2>1. /\ thread'[d] = thread[d] /\ agenda'[d] = agenda[d] /\ todo'[d] = todo[d]
        /\ work'[d] = work[d] /\ queue'[d] = queue[d]
    BY <1>1, <1>2, <1>5, OthersSame
  <2> QED BY <2>1 DEF Idle, Called, Resting, AnswersLast
<1>6. \A d \in Components : (Idle(d) => Idle(d)') /\ (Called(d) => Called(d)')
  BY <1>4, <1>5
<1> QED
  BY <1>1, <1>2, <1>3, <1>6, OrderSame

\* a service,
LEMMA ServiceOrder ==
  ASSUME Orderly, NEW c \in ServiceSet, ~Idle(c), ComponentStep(c)
  PROVE  fault' = "none" /\ AppCalls' /\ TestCalls' /\ RolesKept' /\ QueryEnds'
<1>1. /\ c \in Components /\ c \notin AppSet /\ c \notin TestSet /\ AppSet \subseteq Components
      /\ TestSet \subseteq Components
  BY AllRoles
<1>2. /\ ProgramOK /\ fault = "none" /\ QueuesOK /\ CountsOK /\ OneCall
      /\ work \in [Components -> WorkStates]
  BY OrderlyOK DEF WorksOK
<1>3. work[c].at \in {"idle", "ask"}
  BY <1>1 DEF Orderly, RolesKept
<1>4. WakesUp(c) \/ TakesCall(c) \/ CallReturns(c) \/ ServiceAnswers(c) \/ BeginsWork(c) \/ Asks(c)
  BY <1>1, <1>3 DEF ComponentStep, TestAnswers, ApplicationAnswers, QueriesTests, ImportsTest,
     RunsTest, AwaitsTest, UnImportsTest, FinishesTests, EndsTests, Working, AppSet, TestSet
<1>5. work'[c].at \in {"idle", "ask"}
  BY <1>1, <1>2, <1>3, <1>4 DEF WakesUp, TakesCall, CallReturns, ServiceAnswers, Signals,
     BeginsWork, Asks, WorkAt, spawnVars, workVars, AppSet
<1>6. UNCHANGED <<runSem, running>> /\ sems'["tests"] = sems["tests"]
  BY <1>2, <1>4 DEF WakesUp, TakesCall, CallReturns, ServiceAnswers, Signals, BeginsWork, Asks,
     spawnVars, answerVars, CountsOK
<1>7. fault' = "none"
  <2>1. CASE ServiceAnswers(c)
    <3>1. ~Resting(c)
      BY <2>1 DEF ServiceAnswers, Signals, Answering, Resting
    <3>2. sems["main"] = 0
      BY <1>2, <3>1 DEF OneCall, Quiet, Pending
    <3> QED BY <1>2, <2>1, <3>2 DEF ServiceAnswers, Signals, NoSem
  <2>2. CASE ~ServiceAnswers(c)
    BY <1>2, <1>4, <2>2 DEF WakesUp, TakesCall, CallReturns, BeginsWork, Asks, lockVars, locksAlone
  <2> QED BY <2>1, <2>2
<1>8. ~RunsTest(c)
  BY <1>3 DEF RunsTest, Working
<1>9. ASSUME NEW d \in Components, d # c
      PROVE  /\ thread'[d] = thread[d] /\ agenda'[d] = agenda[d] /\ todo'[d] = todo[d]
             /\ work'[d] = work[d] /\ queue'[d] = queue[d]
  BY <1>1, <1>2, <1>8, <1>9, OthersSame
<1>10. ASSUME NEW d \in Components, d # c
       PROVE  (Idle(d) => Idle(d)') /\ (Called(d) => Called(d)')
  BY <1>9, <1>10 DEF Idle, Called, Resting, AnswersLast
<1>11. UNCHANGED <<setting, at, i, result, handles, started>> /\ todo'["main"] = todo["main"]
  BY <1>1, <1>2, ComponentMain
<1>12. \A d \in Components : \/ work'[d] = work[d]
                             \/ {work[d].at, work'[d].at} \subseteq {"idle", "ask"}
  BY <1>3, <1>5, <1>9
<1> QED
  BY <1>1, <1>6, <1>7, <1>9, <1>10, <1>11, <1>12, OrderSame

\* a test,
LEMMA TestOrder ==
  ASSUME Orderly, NEW c \in TestSet, ~Idle(c), ComponentStep(c)
  PROVE  fault' = "none" /\ AppCalls' /\ TestCalls' /\ RolesKept' /\ QueryEnds'
<1>1. /\ c \in Components /\ c \notin AppSet /\ c \notin ServiceSet /\ AppSet \subseteq Components
      /\ TestSet \subseteq Components
  BY AllRoles
<1>2. /\ ProgramOK /\ fault = "none" /\ QueuesOK /\ CountsOK /\ TodoOK
      /\ work \in [Components -> WorkStates] /\ Polite(c)
  BY <1>1, OrderlyOK DEF WorksOK
<1>3. work[c].at \in {"idle", "ask"}
  BY <1>1 DEF Orderly, RolesKept
<1>4. WakesUp(c) \/ TakesCall(c) \/ CallReturns(c) \/ TestAnswers(c) \/ BeginsWork(c) \/ Asks(c)
  BY <1>1, <1>3 DEF ComponentStep, ServiceAnswers, ApplicationAnswers, QueriesTests, ImportsTest,
     RunsTest, AwaitsTest, UnImportsTest, FinishesTests, EndsTests, Working, AppSet, ServiceSet
<1>5. work'[c].at \in {"idle", "ask"}
  BY <1>1, <1>2, <1>3, <1>4 DEF WakesUp, TakesCall, CallReturns, TestAnswers, Signals,
     BeginsWork, Asks, WorkAt, spawnVars, workVars, AppSet
<1>6. UNCHANGED <<runSem, running>>
  BY <1>4 DEF WakesUp, TakesCall, CallReturns, TestAnswers, Signals, BeginsWork, Asks,
     spawnVars, answerVars
<1>7. ~RunsTest(c)
  BY <1>3 DEF RunsTest, Working
<1>8. ASSUME NEW d \in Components, d # c
      PROVE  /\ thread'[d] = thread[d] /\ agenda'[d] = agenda[d] /\ todo'[d] = todo[d]
             /\ work'[d] = work[d] /\ queue'[d] = queue[d]
  BY <1>1, <1>2, <1>7, <1>8, OthersSame
<1>9. ASSUME NEW d \in Components, d # c
      PROVE  (Idle(d) => Idle(d)') /\ (Called(d) => Called(d)')
  BY <1>8, <1>9 DEF Idle, Called, Resting, AnswersLast
<1>10. UNCHANGED <<setting, at, i, result, handles, started>> /\ todo'["main"] = todo["main"]
  BY <1>1, <1>2, ComponentMain
<1>11. \A d \in Components : \/ work'[d] = work[d]
                             \/ {work[d].at, work'[d].at} \subseteq {"idle", "ask"}
  BY <1>3, <1>5, <1>8
<1>12. Called(c) /\ sems["tests"] = 0
  BY DEF Orderly, TestCalls
<1>13. quit[c] = "no"
  BY <1>1, BusyUp
<1>14. CASE ~TestAnswers(c)
  <2>1. Called(c)'
    BY <1>1, <1>2, <1>4, <1>12, <1>13, <1>14, CalledThread
       DEF Orderly, ServiceAnswers, ApplicationAnswers, ServiceSet, AppSet
  <2>2. sems' = sems /\ fault' = "none"
    BY <1>2, <1>4, <1>14 DEF WakesUp, TakesCall, CallReturns, BeginsWork, Asks, spawnVars,
       answerVars, lockVars, locksAlone
  <2>3. \A d \in Components \ ServiceSet : (Idle(d) => Idle(d)') /\ (Called(d) => Called(d)')
    BY <1>9, <2>1
  <2> QED BY <1>1, <1>6, <1>8, <1>10, <1>11, <2>2, <2>3, OrderSame
<1>15. CASE TestAnswers(c)
  <2>1. Idle(c)'
    BY <1>1, <1>2, <1>4, <1>12, <1>13, <1>15, CalledThread DEF Orderly
  <2>2. fault' = "none" /\ sems'["tests"] = 1 /\ UNCHANGED work
    BY <1>2, <1>12, <1>15 DEF TestAnswers, Signals, NoSem, CountsOK
  <2>3. PICK a \in AppSet : work[a].at = "await" /\ Tests[work[a].k] = c
    BY DEF Orderly, TestCalls
  <2>4. a \in Components /\ ~Idle(a)
    BY <1>1, <2>3 DEF Idle, Resting
  <2>5. ASSUME NEW s \in TestSet PROVE Idle(s)'
    <3>1. CASE s = c
      BY <2>1, <3>1
    <3>2. CASE s # c
      <4>1. Idle(s)
        BY <2>3, <2>4, <3>2, OneDriver
      <4> QED BY <1>1, <1>9, <3>2, <4>1
    <3> QED BY <3>1, <3>2
  <2>6. TestsIdle'
    BY <2>5 DEF TestsIdle
  <2>7. ASSUME NEW d \in AppSet
        PROVE  /\ work'[d].at \notin {"test", "run", "unimport"}
               /\ work'[d].at = "await" => todo'[d] = <<>>
    <3>1. work[d].at \notin {"test", "run", "unimport"}
      <4>1. d # a => Idle(d)
        BY <2>4, <2>7, OneDriver
      <4> QED BY <2>3, <4>1 DEF Idle, Resting
    <3>2. d \in Components /\ d # c
      BY <1>1
    <3>3. work[d].at = "await" => todo[d] = <<>>
      BY DEF Orderly, TestCalls
    <3> QED BY <1>8, <2>2, <3>1, <3>2, <3>3
  <2>8. TestCalls'
    BY <2>2, <2>5, <2>6, <2>7 DEF TestCalls
  <2>9. TheServices' = TheServices
    BY <1>10 DEF TheServices
  <2>10. AppCalls'
    <3>1. \A d \in AppSet : (Idle(d) => Idle(d)') /\ (Called(d) => Called(d)')
      BY <1>1, <1>9
    <3> QED BY <1>6, <1>10, <2>9, <3>1 DEF Orderly, AppCalls
  <2>11. RolesKept'
    BY <1>9, <2>2 DEF Orderly, RolesKept
  <2>12. QueryEnds'
    BY <1>10 DEF Orderly, QueryEnds
  <2> QED BY <2>2, <2>8, <2>10, <2>11, <2>12
<1> QED
  BY <1>14, <1>15

\* and the application that was called: its thread,
LEMMA DriverSame ==
  ASSUME Orderly, NEW c \in AppSet, ~Idle(c), WakesUp(c) \/ TakesCall(c) \/ CallReturns(c)
  PROVE  fault' = "none" /\ AppCalls' /\ TestCalls' /\ RolesKept' /\ QueryEnds'
<1>1. c \in Components /\ ComponentStep(c) /\ AppSet \subseteq Components
  BY AllRoles DEF ComponentStep
<1>2. ProgramOK /\ fault = "none" /\ Polite(c) /\ Called(c) /\ quit[c] = "no"
  BY <1>1, OrderlyOK, OneDriver, BusyUp
<1>3. /\ UNCHANGED <<runSem, running, sems, work, todo, fault>>
      /\ UNCHANGED <<setting, at, i, result, handles, started>>
  <2>1. UNCHANGED <<runSem, running, sems, work, todo, fault>>
    BY DEF WakesUp, TakesCall, CallReturns, spawnVars, answerVars, lockVars, workVars
  <2> QED BY <1>1, <1>2, <2>1, ComponentMain
<1>4. ~(ServiceAnswers(c) \/ TestAnswers(c) \/ ApplicationAnswers(c)) /\ ~RunsTest(c)
  <2>1. thread'[c] # thread[c]
    BY <1>1, <1>2 DEF ProgramOK, LibraryOK, QueuesOK, WakesUp, Wakes, TakesCall, Takes, CallReturns,
       Returns
  <2>2. ServiceAnswers(c) \/ TestAnswers(c) \/ ApplicationAnswers(c) \/ RunsTest(c) => thread' = thread
    BY DEF ServiceAnswers, TestAnswers, ApplicationAnswers, Signals, RunsTest, Enqueue, queueVars
  <2> QED BY <2>1, <2>2
<1>5. Called(c)'
  BY <1>1, <1>2, <1>4, CalledThread DEF Orderly
<1>6. ASSUME NEW d \in Components, d # c
      PROVE  (Idle(d) => Idle(d)') /\ (Called(d) => Called(d)')
  <2>1. /\ thread'[d] = thread[d] /\ agenda'[d] = agenda[d] /\ todo'[d] = todo[d]
        /\ work'[d] = work[d] /\ queue'[d] = queue[d]
    BY <1>1, <1>2, <1>4, <1>6, OthersSame
  <2> QED BY <2>1 DEF Idle, Called, Resting, AnswersLast
<1>7. \A d \in Components \ ServiceSet : (Idle(d) => Idle(d)') /\ (Called(d) => Called(d)')
  BY <1>2, <1>5, <1>6, CalledBusy
<1> QED
  BY <1>1, <1>2, <1>3, <1>7, OrderSame

\* its answer, after which main() goes on,
LEMMA DriverAnswers ==
  ASSUME Orderly, NEW c \in AppSet, ~Idle(c), ApplicationAnswers(c)
  PROVE  fault' = "none" /\ AppCalls' /\ TestCalls' /\ RolesKept' /\ QueryEnds'
<1>1. c \in Components /\ ComponentStep(c) /\ AppSet \subseteq Components /\ TestSet \subseteq Components
  BY AllRoles DEF ComponentStep
<1>2. /\ ProgramOK /\ fault = "none" /\ Polite(c) /\ Called(c) /\ quit[c] = "no"
      /\ at \in {"finish", "exec", "run"} /\ \A d \in AppSet \ {c} : Idle(d)
  BY <1>1, OrderlyOK, OneDriver, BusyUp
<1>3. /\ UNCHANGED <<work, sems, todo, fault>> /\ work[c].at = "idle" /\ ~RunsTest(c)
  BY DEF ApplicationAnswers, Answering, Working, RunsTest, lockVars
<1>4. Idle(c)'
  BY <1>1, <1>2, CalledThread DEF Orderly
<1>5. ASSUME NEW d \in Components, d # c
      PROVE  (Idle(d) => Idle(d)') /\ (Called(d) => Called(d)')
  <2>1. /\ thread'[d] = thread[d] /\ agenda'[d] = agenda[d] /\ todo'[d] = todo[d]
        /\ work'[d] = work[d] /\ queue'[d] = queue[d]
    BY <1>1, <1>2, <1>3, <1>5, OthersSame
  <2> QED BY <2>1 DEF Idle, Called, Resting, AnswersLast
<1>6. UNCHANGED <<setting, at, i, result, handles, started>> /\ todo'["main"] = todo["main"]
  BY <1>1, <1>2, ComponentMain
<1>7. \A d \in AppSet : Idle(d)'
  BY <1>1, <1>2, <1>4, <1>5
<1>8. AppCalls'
  <2>1. at' \notin BeforeCall /\ at' # "stopped" /\ (at' \in {"launch", "finish"} => result')
    BY <1>2, <1>6 DEF BeforeCall, Orderly, AppCalls
  <2> QED BY <1>7, <2>1 DEF AppCalls
<1>9. TestCalls'
  <2>1. TestsIdle => TestsIdle'
    BY <1>1, <1>5, AllRoles DEF TestsIdle
  <2>2. \A s \in TestSet : s \in Components /\ s # c
    BY AllRoles
  <2> QED BY <1>3, <1>5, <2>1, <2>2 DEF Orderly, TestCalls
<1>10. RolesKept'
  BY <1>3, <1>5 DEF Orderly, RolesKept
<1>11. QueryEnds'
  BY <1>6 DEF Orderly, QueryEnds
<1> QED
  BY <1>2, <1>3, <1>8, <1>9, <1>10, <1>11

\* What the work of the driver leaves to show.
LEMMA DriverCommon ==
  ASSUME Orderly, NEW c \in AppSet, ~Idle(c),
         BeginsWork(c) \/ Asks(c) \/ QueriesTests(c) \/ ImportsTest(c) \/ RunsTest(c)
           \/ AwaitsTest(c) \/ UnImportsTest(c) \/ FinishesTests(c) \/ EndsTests(c)
  PROVE  /\ fault' = "none" /\ AppCalls' /\ RolesKept' /\ QueryEnds'
         /\ Called(c) /\ Called(c)' /\ c \in Components /\ WorksOK
         /\ \A d \in AppSet \ {c} : Idle(d) /\ work'[d] = work[d]
         /\ work[c].at # "await" => TestsIdle
         /\ ~RunsTest(c) => \A s \in TestSet : (Idle(s) => Idle(s)') /\ (Called(s) => Called(s)')
         /\ \A s \in TestSet : Tests[work[c].k] # s => (Idle(s) => Idle(s)')
<1>1. /\ c \in Components /\ ComponentStep(c) /\ AppSet \subseteq Components
      /\ TestSet \subseteq Components /\ c \notin ServiceSet /\ c \notin TestSet
  BY AllRoles DEF ComponentStep
<1>2. /\ ProgramOK /\ fault = "none" /\ Polite(c) /\ Called(c) /\ quit[c] = "no" /\ WorksOK
      /\ \A d \in AppSet \ {c} : Idle(d)
      /\ work[c].at # "await" => TestsIdle
  BY <1>1, OrderlyOK, OneDriver, BusyUp
<1>3. UNCHANGED <<setting, at, i, result, handles, started>> /\ todo'["main"] = todo["main"]
  BY <1>1, <1>2, ComponentMain
<1>4. fault' = "none"
  <2>1. PICK G : Kept(G)
    BY DEF Orderly, SpawnInv
  <2>2. Ledger(G) /\ Lives(G)
    BY <1>2, <2>1 DEF Kept
  <2> QED BY <1>1, <1>2, <2>2, WorkCommon, WorkRuns
<1>5. UNCHANGED <<runSem, running>>
  BY DEF BeginsWork, Asks, QueriesTests, ImportsTest, RunsTest, AwaitsTest, UnImportsTest,
     FinishesTests, EndsTests, answerVars
<1>6. Called(c)'
  <2>1. ~(ServiceAnswers(c) \/ TestAnswers(c) \/ ApplicationAnswers(c))
    <3>1. ~ServiceAnswers(c) /\ ~TestAnswers(c)
      BY <1>1 DEF ServiceAnswers, TestAnswers, ServiceSet, TestSet
    <3>2. answered' = answered
      BY <1>1, <1>2, WorkStepsOK
    <3>3. ~ApplicationAnswers(c)
      <4>1. ASSUME answered' = [answered EXCEPT ![c] = @ + 1] PROVE FALSE
        <5>1. answered[c] \in Nat /\ answered'[c] = answered[c] + 1
          BY <1>1, <1>2, <4>1 DEF ProgramOK, CountsOK
        <5> QED BY <3>2, <5>1
      <4> QED BY <4>1 DEF ApplicationAnswers, Answering
    <3> QED BY <3>1, <3>3
  <2> QED BY <1>1, <1>2, <2>1, CalledThread DEF Orderly
<1>7. ASSUME NEW d \in Components, d # c
      PROVE  /\ work'[d] = work[d]
             /\ ~(RunsTest(c) /\ d = Tests[work[c].k]) =>
                  (Idle(d) => Idle(d)') /\ (Called(d) => Called(d)')
  <2>1. /\ thread'[d] = thread[d] /\ agenda'[d] = agenda[d] /\ todo'[d] = todo[d]
        /\ work'[d] = work[d]
        /\ queue'[d] = queue[d] \/ (RunsTest(c) /\ d = Tests[work[c].k])
    BY <1>1, <1>2, <1>7, OthersSame
  <2> QED BY <2>1 DEF Idle, Called, Resting, AnswersLast
<1>8. RunsTest(c) => Tests[work[c].k] \in TestSet
  BY <1>2, AllRoles DEF RunsTest, Working, WorksOK
<1>9. \A d \in AppSet \ {c} : Idle(d)' /\ work'[d] = work[d]
  BY <1>1, <1>2, <1>7, <1>8, AllRoles
<1>10. AppCalls'
  <2>1. TheServices' = TheServices
    BY <1>3 DEF TheServices
  <2> QED BY <1>2, <1>3, <1>5, <1>6, <1>9, <2>1 DEF Orderly, AppCalls
<1>11. RolesKept'
  <2>1. \A d \in Components : work'[d].at \notin {"idle", "ask"} => d \in AppSet
    BY <1>7 DEF Orderly, RolesKept
  <2>2. ASSUME NEW d \in Components, d \notin ServiceSet \cup AppSet \cup TestSet PROVE Idle(d)'
    BY <1>7, <1>8, <2>2 DEF Orderly, RolesKept
  <2> QED BY <2>1, <2>2 DEF RolesKept
<1>12. QueryEnds'
  BY <1>3 DEF Orderly, QueryEnds
<1> QED
  BY <1>1, <1>2, <1>4, <1>6, <1>7, <1>9, <1>10, <1>11, <1>12

\* and the tests that it runs.
LEMMA DriverWorks ==
  ASSUME Orderly, NEW c \in AppSet, ~Idle(c),
         BeginsWork(c) \/ Asks(c) \/ QueriesTests(c) \/ ImportsTest(c) \/ RunsTest(c)
           \/ AwaitsTest(c) \/ UnImportsTest(c) \/ FinishesTests(c) \/ EndsTests(c)
  PROVE  fault' = "none" /\ AppCalls' /\ TestCalls' /\ RolesKept' /\ QueryEnds'
<1>1. /\ fault' = "none" /\ AppCalls' /\ RolesKept' /\ QueryEnds'
      /\ Called(c) /\ Called(c)' /\ c \in Components /\ WorksOK
      /\ \A d \in AppSet \ {c} : Idle(d) /\ work'[d] = work[d]
      /\ work[c].at # "await" => TestsIdle
      /\ ~RunsTest(c) => \A s \in TestSet : (Idle(s) => Idle(s)') /\ (Called(s) => Called(s)')
      /\ \A s \in TestSet : Tests[work[c].k] # s => (Idle(s) => Idle(s)')
  BY DriverCommon
<1>2. /\ CountsOK /\ QueuesOK /\ TodoOK /\ work \in [Components -> WorkStates]
      /\ TestSet \subseteq Components
      /\ sems \in [{"main", "tests"} -> Nat \cup {NoSem}]
  BY OrderlyOK, AllRoles DEF WorksOK, CountsOK
<1>3. \A d \in AppSet \ {c} : work'[d].at = "idle"
  BY <1>1 DEF Idle, Resting
<1>4. ASSUME work'[c].at \notin {"test", "run", "await", "unimport"}, TestsIdle'
      PROVE  TestCalls'
  BY <1>3, <1>4 DEF TestCalls, TestsIdle
<1>5. ASSUME work'[c].at # "await", TestsIdle', sems'["tests"] = 0
      PROVE  TestCalls'
  BY <1>3, <1>5 DEF TestCalls, TestsIdle
<1>6. work[c].at # "await" /\ ~RunsTest(c) => TestsIdle'
  BY <1>1 DEF TestsIdle
<1>7. CASE BeginsWork(c) \/ Asks(c) \/ FinishesTests(c) \/ EndsTests(c)
  <2>1. work[c].at # "await" /\ ~RunsTest(c)
        /\ work'[c].at \notin {"test", "run", "await", "unimport"}
    BY <1>1, <1>2, <1>7 DEF BeginsWork, Asks, FinishesTests, EndsTests, RunsTest, Working, WorkAt
  <2> QED BY <1>1, <1>4, <1>6, <2>1
<1>8. CASE QueriesTests(c)
  <2>1. work[c].at # "await" /\ ~RunsTest(c) /\ work'[c].at # "await" /\ sems'["tests"] = 0
    BY <1>1, <1>2, <1>8 DEF QueriesTests, RunsTest, Working, WorkAt
  <2> QED BY <1>1, <1>5, <1>6, <2>1
<1>9. CASE ImportsTest(c) \/ UnImportsTest(c)
  <2>1. /\ work[c].at \in {"test", "unimport"} /\ ~RunsTest(c) /\ work'[c].at # "await" /\ sems' = sems
    BY <1>1, <1>2, <1>9 DEF ImportsTest, UnImportsTest, RunsTest, Working, WorkAt, answerVars
  <2>2. sems["tests"] = 0
    BY <2>1 DEF Orderly, TestCalls
  <2> QED BY <1>1, <1>5, <1>6, <2>1, <2>2
<1>10. CASE AwaitsTest(c)
  <2>1. /\ work[c].at = "await" /\ work'[c].at = "unimport" /\ ~RunsTest(c)
        /\ sems["tests"] \notin {0, NoSem} /\ sems'["tests"] = sems["tests"] - 1
    BY <1>1, <1>2, <1>10 DEF AwaitsTest, RunsTest, Working, WorkAt
  <2>2. sems["tests"] = 1 /\ TestsIdle
    BY <2>1 DEF Orderly, TestCalls
  <2>3. TestsIdle' /\ sems'["tests"] = 0
    BY <1>1, <2>1, <2>2 DEF TestsIdle
  <2> QED BY <1>1, <1>5, <2>1, <2>3
<1>11. CASE RunsTest(c)
  <2>0. PICK s : s = Tests[work[c].k]
    OBVIOUS
  <2>1. /\ work[c].at = "run" /\ work[c].k \in DOMAIN Tests /\ todo[c] = <<>> /\ todo' = todo
        /\ sems' = sems /\ fault' = "none" /\ UNCHANGED agenda
    BY <1>1, <1>11 DEF RunsTest, Working, Busy, Calm, WorksOK, answerVars
  <2>2. sems["tests"] = 0 /\ TestsIdle
    BY <2>1 DEF Orderly, TestCalls
  <2>3. s \in TestSet /\ s \in Components /\ s # c
    BY <1>2, <2>0, <2>1, AllRoles
  <2>4. \A r \in TestSet \ {s} : Idle(r)'
    BY <1>1, <2>0, <2>2 DEF TestsIdle
  <2>5. \/ Enqueue(s, "Run") /\ WorkAt(c, "await", work[c].k)
        \/ WorkAt(c, "unimport", work[c].k) /\ UNCHANGED queueVars
    <3>1. imports[<<c, s>>] = "open"
      <4>1. fault = "none"
        BY DEF Orderly
      <4>2. imports[<<c, s>>] # "open" => fault' = "freed_import"
        BY <1>11, <2>0 DEF RunsTest
      <4> QED BY <2>1, <4>2
    <3> QED BY <1>11, <2>0, <3>1 DEF RunsTest
  <2>6. work'[s] = work[s]
    BY <1>1, <1>2, <2>3, <2>5 DEF WorkAt
  <2>7. CASE Enqueue(s, "Run") /\ WorkAt(c, "await", work[c].k)
    <3>1. work'[c].at = "await" /\ work'[c].k = work[c].k
      BY <1>1, <1>2, <2>7 DEF WorkAt
    <3>2. queue[s] = <<>> /\ Resting(s)
      BY <2>2, <2>3 DEF TestsIdle, Idle
    <3>3. queue'[s] = Append(<<>>, "Run")
      BY <1>2, <2>3, <2>7, <3>2 DEF Enqueue, QueuesOK
    <3>4. Len(queue'[s]) = 1
      BY <3>3
    <3>5. Called(s)'
      BY <2>1, <2>6, <3>2, <3>4 DEF Called, Resting
    <3>6. \A r \in TestSet :
            \/ Idle(r)'
            \/ /\ Called(r)' /\ sems'["tests"] = 0
               /\ \E d \in AppSet : work'[d].at = "await" /\ Tests[work'[d].k] = r
      BY <2>0, <2>1, <2>2, <2>4, <3>1, <3>5
    <3>7. TestCalls'
      BY <1>3, <2>1, <2>2, <3>1, <3>6 DEF TestCalls
    <3> QED BY <1>1, <3>7
  <2>8. CASE WorkAt(c, "unimport", work[c].k) /\ UNCHANGED queueVars
    <3>1. work'[c].at = "unimport"
      BY <1>1, <1>2, <2>8 DEF WorkAt
    <3>2. Idle(s)'
      BY <2>1, <2>2, <2>3, <2>6, <2>8 DEF TestsIdle, Idle, Resting, queueVars
    <3>3. TestsIdle'
      BY <2>4, <3>2 DEF TestsIdle
    <3> QED BY <1>1, <1>5, <2>1, <2>2, <3>1, <3>3
  <2> QED BY <2>5, <2>7, <2>8
<1> QED
  BY <1>7, <1>8, <1>9, <1>10, <1>11

LEMMA ComponentOrder ==
  ASSUME Orderly, NEW c \in Components, ComponentStep(c)
  PROVE  fault' = "none" /\ AppCalls' /\ TestCalls' /\ RolesKept' /\ QueryEnds'
<1>1. CASE Idle(c)
  BY <1>1, IdleOrder
<1>2. CASE c \in ServiceSet /\ ~Idle(c)
  BY <1>2, ServiceOrder
<1>3. CASE c \in TestSet /\ ~Idle(c)
  BY <1>3, TestOrder
<1>4. CASE c \in AppSet /\ ~Idle(c)
  <2>1. ~ServiceAnswers(c) /\ ~TestAnswers(c)
    BY <1>4, AllRoles DEF ServiceAnswers, TestAnswers, ServiceSet, TestSet
  <2> QED BY <1>4, <2>1, DriverSame, DriverAnswers, DriverWorks DEF ComponentStep
<1> QED
  BY <1>1, <1>2, <1>3, <1>4 DEF Orderly, RolesKept

-----------------------------------------------------------------------------
(* The steps of main()                                                     *)

LEMMA MainLeaves ==
  ASSUME SpawnInv, MainStep
  PROVE  /\ UNCHANGED <<agenda, work, thread>> /\ sems'["tests"] = sems["tests"]
         /\ \A c \in Components : todo'[c] = todo[c]
         /\ \A c \in Components \ ServiceSet :
              queue'[c] = queue[c] \/ (StartApplication /\ c = started)
<1>1. /\ ProgramOK /\ QueuesOK /\ TodoOK /\ CountsOK /\ MainOK /\ MainPlace /\ fault = "none"
      /\ setting \in Setting
  BY MainCommon DEF SpawnInv, ProgramOK, LibraryOK
<1>2. UNCHANGED <<agenda, work>>
  <2> USE DEF threadsAlone, workVars
  <2>1. CASE Boot \/ QueryServices \/ NoArrays \/ ImportService \/ StartService \/ StartFails
    BY <2>1 DEF Boot, QueryServices, NoArrays, ImportService, StartService, StartFails
  <2>2. CASE WaitService \/ FinishServices \/ QueryApplications \/ ImportApplication
               \/ StartApplication
    BY <2>2 DEF WaitService, MainWaits, FinishServices, QueryApplications, ImportApplication,
                StartApplication
  <2>3. CASE FinishApplications \/ ExecWaits \/ ExecRuns \/ ExecReturns \/ Leave
    BY <2>3 DEF FinishApplications, ExecWaits, ExecRuns, ExecReturns, Leave
  <2>4. CASE StopService \/ SkipService \/ NullHandles \/ WaitStopped \/ DropService \/ CleanUp
    BY <2>4 DEF StopService, SkipService, NullHandles, WaitStopped, MainWaits, DropService, CleanUp
  <2> QED BY <2>1, <2>2, <2>3, <2>4 DEF MainStep
<1>3. thread' = thread
  <2>1. PICK G : Kept(G)
    BY DEF SpawnInv
  <2>2. Ledger(G) /\ Lives(G)
    BY <1>1, <2>1 DEF Kept
  <2> QED BY <1>1, <2>2, MainQueues
<1>4. sems'["tests"] = sems["tests"]
  <2>1. sems' = sems \/ \E v : sems' = [sems EXCEPT !["main"] = v]
    <3> USE DEF threadsAlone, answerVars
    <3>1. CASE Boot \/ WaitService \/ WaitStopped \/ CleanUp
      BY <3>1 DEF Boot, WaitService, WaitStopped, MainWaits, CleanUp
    <3>2. CASE QueryServices \/ NoArrays \/ ImportService \/ StartService \/ StartFails
      BY <3>2 DEF QueryServices, NoArrays, ImportService, StartService, StartFails
    <3>3. CASE FinishServices \/ QueryApplications \/ ImportApplication \/ StartApplication
      BY <3>3 DEF FinishServices, QueryApplications, ImportApplication, StartApplication
    <3>4. CASE FinishApplications \/ ExecWaits \/ ExecRuns \/ ExecReturns \/ Leave
      BY <3>4 DEF FinishApplications, ExecWaits, ExecRuns, ExecReturns, Leave
    <3>5. CASE StopService \/ SkipService \/ NullHandles \/ DropService
      BY <3>5 DEF StopService, SkipService, NullHandles, DropService
    <3> QED BY <3>1, <3>2, <3>3, <3>4, <3>5 DEF MainStep
  <2> QED BY <1>1, <2>1 DEF CountsOK
<1>5. ASSUME NEW c \in Components PROVE todo'[c] = todo[c]
  <2>1. todo' = todo \/ \E q : MainCalls(q)
    <3> USE DEF lockVars
    <3>1. CASE Boot \/ QueryServices \/ NoArrays \/ ImportService \/ StartService \/ StartFails
      BY <3>1 DEF Boot, QueryServices, NoArrays, ImportService, StartService, StartFails
    <3>2. CASE WaitService \/ FinishServices \/ QueryApplications \/ ImportApplication
                 \/ StartApplication
      BY <3>2 DEF WaitService, MainWaits, FinishServices, QueryApplications, ImportApplication,
                  StartApplication
    <3>3. CASE FinishApplications \/ ExecWaits \/ ExecRuns \/ ExecReturns \/ Leave
      BY <3>3 DEF FinishApplications, ExecWaits, ExecRuns, ExecReturns, Leave
    <3>4. CASE StopService \/ SkipService \/ NullHandles \/ WaitStopped \/ DropService \/ CleanUp
      BY <3>4 DEF StopService, SkipService, NullHandles, WaitStopped, MainWaits, DropService, CleanUp
    <3> QED BY <3>1, <3>2, <3>3, <3>4 DEF MainStep
  <2>2. c # "main" /\ c \in Threads
    BY Constants
  <2> QED BY <1>1, <2>1, <2>2 DEF MainCalls, TodoOK
<1>6. ASSUME NEW c \in Components \ ServiceSet
      PROVE  queue'[c] = queue[c] \/ (StartApplication /\ c = started)
  <2>1. CASE StartService \/ StopService
    <3>1. i \in DOMAIN TheServices
      BY <1>1, <2>1, TheServicesOK DEF StartService, StopService, Main, MainOK
    <3>2. TheServices[i] \in ServiceSet
      BY <1>1, <3>1, TheServicesOK
    <3>3. \/ Enqueue(TheServices[i], "Start") \/ Enqueue(TheServices[i], "Stop")
          \/ UNCHANGED queueVars
      BY <2>1 DEF StartService, StopService
    <3> QED BY <1>1, <3>2, <3>3 DEF Enqueue, queueVars, QueuesOK
  <2>2. CASE StartApplication
    <3>1. Enqueue(started, "Start") \/ UNCHANGED queueVars
      BY <2>2 DEF StartApplication
    <3> QED BY <1>1, <2>2, <3>1 DEF Enqueue, queueVars, QueuesOK
  <2>3. CASE ~(StartService \/ StopService \/ StartApplication)
    <3>1. UNCHANGED queueVars
      <4> USE DEF threadsAlone
      <4>1. CASE Boot \/ QueryServices \/ NoArrays \/ ImportService \/ StartFails
        BY <4>1 DEF Boot, QueryServices, NoArrays, ImportService, StartFails
      <4>2. CASE WaitService \/ FinishServices \/ QueryApplications \/ ImportApplication
        BY <4>2 DEF WaitService, MainWaits, FinishServices, QueryApplications, ImportApplication
      <4>3. CASE FinishApplications \/ ExecWaits \/ ExecRuns \/ ExecReturns \/ Leave
        BY <4>3 DEF FinishApplications, ExecWaits, ExecRuns, ExecReturns, Leave
      <4>4. CASE SkipService \/ NullHandles \/ WaitStopped \/ DropService \/ CleanUp
        BY <4>4 DEF SkipService, NullHandles, WaitStopped, MainWaits, DropService, CleanUp
      <4> QED BY <2>3, <4>1, <4>2, <4>3, <4>4 DEF MainStep
    <3> QED BY <3>1 DEF queueVars
  <2> QED BY <2>1, <2>2, <2>3
<1> QED
  BY <1>2, <1>3, <1>4, <1>5, <1>6

\* Where main() goes from where, and with which result and semaphore of the run loop.
LEMMA MainGoes ==
  ASSUME Orderly, MainStep
  PROVE  /\ ~NullHandles => fault' = "none"
         /\ NullHandles => fault' = "null_handles"
         /\ at' \in {"launch", "finish"} => result'
         /\ at' \in BeforeCall => at \in BeforeCall /\ runSem' = runSem
         /\ at' = "stopped" => TheServices'[i'] \in handles'
         /\ at' \in {"finish", "exec", "run"} /\ ~NullHandles => todo'["main"] \in Seq(Shutting)
         /\ at \in {"finish", "exec", "run"} =>
              \/ at' = "exec" /\ UNCHANGED <<started, runSem>>
              \/ at' = "run" /\ running' /\ UNCHANGED <<started, runSem>>
              \/ at' = "leave" /\ (runSem > 0 \/ (at = "run" /\ ~running))
<1>1. /\ ProgramOK /\ MainOK /\ fault = "none" /\ MainPlace /\ AppCalls /\ setting \in Setting
      /\ TodoOK /\ i \in Nat \ {0}
  BY OrderlyOK DEF Orderly, MainOK
<1>2. TheServices' = TheServices /\ todo["main"] = <<>> /\ <<>> \in Seq(Shutting)
  BY <1>1, MainCommon
<1> USE DEF Main, GoOn, locksAlone, lockVars, threadsAlone, answerVars
<1>3. CASE Boot \/ QueryServices \/ NoArrays \/ ImportService \/ StartService \/ StartFails
  <2>1. /\ at \in {"boot", "services", "service", "start"} /\ fault' = fault /\ runSem' = runSem
        /\ at' \in {"services", "service", "clean", "start", "wait", "stop"}
    BY <1>3 DEF Boot, QueryServices, NoArrays, ImportService, StartService, StartFails
  <2>2. ~NullHandles
    BY <2>1 DEF NullHandles
  <2> QED BY <1>1, <2>1, <2>2 DEF BeforeCall
<1>4. CASE WaitService \/ FinishServices
  <2>1. /\ at \in {"wait", "service"} /\ fault' = fault /\ runSem' = runSem
        /\ at' \in {"service", "applications", "stop"}
    BY <1>4 DEF WaitService, MainWaits, FinishServices
  <2>2. ~NullHandles
    BY <2>1 DEF NullHandles
  <2> QED BY <1>1, <2>1, <2>2 DEF BeforeCall
<1>5. CASE QueryApplications \/ ImportApplication
  <2>1. /\ at \in {"applications", "application"} /\ fault' = fault /\ runSem' = runSem
        /\ at' \in {"application", "leave", "launch"} /\ (at' = "launch" => result' = TRUE)
    BY <1>5 DEF QueryApplications, ImportApplication
  <2>2. ~NullHandles
    BY <2>1 DEF NullHandles
  <2> QED BY <1>1, <2>1, <2>2 DEF BeforeCall
<1>6. CASE StartApplication
  <2>1. /\ at = "launch" /\ at' = "finish" /\ fault' = fault /\ todo' = todo /\ result' = result
    BY <1>6 DEF StartApplication
  <2>2. ~NullHandles /\ result
    BY <1>1, <2>1 DEF NullHandles, AppCalls
  <2> QED BY <1>1, <1>2, <2>1, <2>2 DEF BeforeCall
<1>7. CASE FinishApplications
  <2>1. /\ at \in {"finish", "application"} /\ fault' = fault /\ runSem' = runSem /\ started' = started
        /\ at' \in {"exec", "leave"} /\ (at = "finish" => at' = "exec")
    BY <1>1, <1>7 DEF FinishApplications, AppCalls
  <2>2. todo'["main"] \in Seq(Shutting)
    <3> DEFINE unused == SubSeq(TheApplications, i, Len(TheApplications))
    <3>1. /\ TheApplications \in Seq(Components) /\ Len(TheApplications) \in Nat
          /\ "main" \in Threads
      BY <1>1, Lists, Constants
    <3>2. unused \in Seq(Components)
      BY <1>1, <3>1
    <3>3. todo'["main"] = xCOM_QueryFinish(Anonymous, unused)
      BY <1>1, <1>7, <3>1 DEF FinishApplications, MainCalls, TodoOK
    <3> HIDE DEF unused
    <3> QED BY <3>2, <3>3, ShutFinish
  <2>3. ~NullHandles
    BY <2>1 DEF NullHandles
  <2> QED BY <1>1, <2>1, <2>2, <2>3 DEF BeforeCall
<1>8. CASE ExecWaits \/ ExecRuns \/ ExecReturns
  <2>1. /\ at \in {"exec", "run"} /\ fault' = fault /\ todo' = todo /\ started' = started
        /\ \/ at' = "run" /\ running' /\ runSem' = runSem
           \/ at' = "leave" /\ (runSem > 0 \/ (at = "run" /\ ~running))
    BY <1>8 DEF ExecWaits, ExecRuns, ExecReturns
  <2>2. ~NullHandles
    BY <2>1 DEF NullHandles
  <2> QED BY <1>1, <1>2, <2>1, <2>2 DEF BeforeCall
<1>9. CASE Leave \/ DropService \/ CleanUp
  <2>1. /\ at \in {"leave", "drop", "clean"} \/ (at = "stop" /\ i > Len(TheServices))
        /\ at' \in {"stop", "done"} /\ fault' = fault
    BY <1>9 DEF Leave, DropService, CleanUp
  <2>2. ~NullHandles
    <3>1. ~(i <= Len(TheServices) /\ i > Len(TheServices))
      BY <1>1, Lists
    <3> QED BY <2>1, <3>1 DEF NullHandles
  <2> QED BY <1>1, <2>1, <2>2 DEF BeforeCall
<1>10. CASE StopService \/ SkipService \/ WaitStopped
  <2>1. /\ at \in {"stop", "stopped"} /\ fault' = fault
        /\ \/ at' \in {"stop", "drop"}
           \/ at' = "stopped" /\ TheServices[i] \in handles /\ i' = i /\ handles' = handles
    BY <1>10 DEF StopService, SkipService, WaitStopped, MainWaits
  <2>2. NullHandles => fault' = "null_handles"
    BY DEF NullHandles
  <2> QED BY <1>1, <1>2, <2>1, <2>2 DEF BeforeCall
<1>11. CASE NullHandles
  <2>1. at = "stop" /\ UNCHANGED <<at, i, handles>> /\ fault' = "null_handles"
    BY <1>11 DEF NullHandles, mainVars
  <2> QED BY <1>11, <2>1 DEF BeforeCall
<1> QED
  BY <1>3, <1>4, <1>5, <1>6, <1>7, <1>8, <1>9, <1>10, <1>11 DEF MainStep

\* Without the fault, a step of main() leaves the calls and the answers in order.
LEMMA MainOrder ==
  ASSUME Orderly, MainStep, ~NullHandles
  PROVE  AppCalls' /\ TestCalls' /\ RolesKept' /\ QueryEnds'
<1>1. /\ ProgramOK /\ QueuesOK /\ MainOK /\ AppCalls /\ TestCalls /\ RolesKept
      /\ AppSet \subseteq Components \ ServiceSet /\ TestSet \subseteq Components \ ServiceSet
      /\ AppSet \cap TestSet = {}
  BY OrderlyOK, AllRoles DEF Orderly
<1>2. /\ UNCHANGED <<agenda, work, thread>> /\ sems'["tests"] = sems["tests"]
      /\ \A c \in Components : todo'[c] = todo[c]
      /\ \A c \in Components \ ServiceSet :
           queue'[c] = queue[c] \/ (StartApplication /\ c = started)
  BY MainLeaves DEF Orderly
<1>3. StartApplication => at = "launch" /\ at' = "finish" /\ UNCHANGED <<started, runSem>>
  BY DEF StartApplication, Main, GoOn
<1>4. StartApplication => started \in AppSet
  BY <1>1, <1>3 DEF MainOK, AppSet
<1>5. ASSUME NEW c \in Components, queue'[c] = queue[c]
      PROVE  /\ Idle(c) => Idle(c)'
             /\ Called(c) => Called(c)'
  BY <1>2, <1>5 DEF Idle, Called, Resting
<1>6. ASSUME NEW a \in AppSet
      PROVE  \/ Idle(a)'
             \/ /\ Called(a)' /\ a = started' /\ at' \in {"finish", "exec", "run"}
                /\ runSem' = 0 /\ (at' = "run" => running')
  <2>1. a \in Components /\ a \in Components \ ServiceSet
    BY <1>1
  <2>2. CASE StartApplication /\ a = started
    <3>1. at = "launch" /\ at' = "finish" /\ started' = started /\ runSem' = runSem
      BY <1>3, <2>2
    <3>2. Idle(a) /\ runSem = 0
      BY <1>1, <3>1 DEF AppCalls, BeforeCall
    <3>3. queue'[a] = <<>> \/ queue'[a] = Append(<<>>, "Start")
      BY <1>1, <2>1, <2>2, <3>2 DEF StartApplication, Enqueue, queueVars, QueuesOK, Idle
    <3>4. Resting(a)'
      BY <1>2, <2>1, <3>2 DEF Idle, Resting
    <3>5. queue'[a] = <<>> \/ Len(queue'[a]) = 1
      <4>1. \A q \in Seq(Methods) : Len(Append(q, "Start")) = Len(q) + 1
        BY SpawnAssumption
      <4>2. Len(Append(<<>>, "Start")) = 1
        BY <4>1
      <4> QED BY <3>3, <4>2
    <3> QED BY <2>2, <3>1, <3>2, <3>4, <3>5 DEF Idle, Called
  <2>3. CASE ~(StartApplication /\ a = started)
    <3>1. queue'[a] = queue[a]
      BY <1>2, <2>1, <2>3
    <3>2. CASE Idle(a)
      BY <1>5, <2>1, <3>1, <3>2
    <3>3. CASE ~Idle(a)
      <4>1. /\ Called(a) /\ a = started /\ at \in {"finish", "exec", "run"}
            /\ runSem = 0 /\ (at = "run" => running)
        BY <1>1, <3>3 DEF AppCalls
      <4>2. Called(a)'
        BY <1>5, <2>1, <3>1, <4>1
      <4>3. \/ at' = "exec" /\ UNCHANGED <<started, runSem>>
            \/ at' = "run" /\ running' /\ UNCHANGED <<started, runSem>>
            \/ at' = "leave" /\ (runSem > 0 \/ (at = "run" /\ ~running))
        BY <4>1, MainGoes
      <4> QED BY <4>1, <4>2, <4>3
    <3> QED BY <3>2, <3>3
  <2> QED BY <2>2, <2>3
<1>7. AppCalls'
  <2>1. at' \in {"launch", "finish"} => result'
    BY MainGoes
  <2>2. at' \in BeforeCall => runSem' = 0
    BY <1>1, MainGoes DEF AppCalls
  <2>3. at' = "stopped" => TheServices'[i'] \in handles'
    BY MainGoes
  <2> QED BY <1>6, <2>1, <2>2, <2>3 DEF AppCalls, BeforeCall
<1>8. \A s \in TestSet : s \in Components /\ queue'[s] = queue[s]
  BY <1>1, <1>2, <1>4
<1>9. TestCalls'
  <2>1. TestsIdle => TestsIdle'
    BY <1>5, <1>8 DEF TestsIdle
  <2>2. \A s \in TestSet : (Idle(s) => Idle(s)') /\ (Called(s) => Called(s)')
    BY <1>5, <1>8
  <2>3. \A c \in AppSet : work'[c] = work[c] /\ todo'[c] = todo[c]
    BY <1>1, <1>2
  <2> QED BY <1>1, <1>2, <2>1, <2>2, <2>3 DEF TestCalls
<1>10. RolesKept'
  <2>1. \A c \in Components : work'[c].at \notin {"idle", "ask"} => c \in AppSet
    BY <1>1, <1>2 DEF RolesKept
  <2>2. \A c \in Components : c \notin ServiceSet \cup AppSet \cup TestSet => Idle(c)'
    BY <1>1, <1>2, <1>4, <1>5 DEF RolesKept
  <2> QED BY <2>1, <2>2 DEF RolesKept
<1>11. QueryEnds'
  BY MainGoes DEF QueryEnds
<1> QED
  BY <1>7, <1>9, <1>10, <1>11

-----------------------------------------------------------------------------
(* Every component answers once                                            *)

\* The faults of the program, while its components answer once.
OnlyThese ==
  AllPolite =>
    /\ fault \in {"none", "not_loaded", "freed_sibling", "null_handles"}
    /\ fault = "freed_sibling" => Len(TheApplications) > 2
    /\ fault = "null_handles" => Nobody \in handles

UsedInv == SpawnInv /\ AwaitInv /\ PoliteInv /\ OnlyThese

LEMMA UsedInit == SpawnInit => UsedInv
<1> SUFFICES ASSUME SpawnInit PROVE UsedInv
  OBVIOUS
<1>1. SpawnInv /\ AwaitInv
  BY SpawnStarts, AwaitInit
<1> USE DEF SpawnInit, LocksInit, CallQueueInit
<1>2. \A c \in Components : Idle(c)
  BY Constants DEF Idle, Resting, Threads
<1>3. AppSet \subseteq Components /\ TestSet \subseteq Components
  BY AllRoles
<1>4. AppCalls
  BY <1>2, <1>3 DEF AppCalls, BeforeCall
<1>5. TestCalls
  BY <1>2, <1>3 DEF TestCalls, TestsIdle
<1>6. RolesKept
  BY <1>2 DEF RolesKept
<1>7. QueryEnds /\ fault = "none"
  BY DEF QueryEnds
<1> QED
  BY <1>1, <1>4, <1>5, <1>6, <1>7 DEF UsedInv, PoliteInv, OnlyThese

LEMMA SettingSame ==
  ASSUME SpawnNext
  PROVE  setting' = setting
BY DEF SpawnNext, MainThread, ComponentThread, InLibrary, Undefined, spawnVars, MainStep, Boot,
   QueryServices, NoArrays, ImportService, StartService, StartFails, WaitService, WaitStopped,
   MainWaits, FinishServices, QueryApplications, ImportApplication, StartApplication,
   FinishApplications, ExecWaits, ExecRuns, ExecReturns, Leave, StopService, SkipService,
   NullHandles, DropService, CleanUp, threadsAlone, ComponentStep, WakesUp, TakesCall,
   CallReturns, ServiceAnswers, TestAnswers, Signals, ApplicationAnswers, BeginsWork, Asks,
   QueriesTests, ImportsTest, RunsTest, AwaitsTest, UnImportsTest, FinishesTests, EndsTests,
   compAlone

LEMMA UsedStutter ==
  ASSUME UsedInv, Still
  PROVE  UsedInv'
<1>1. SpawnInv' /\ AwaitInv'
  BY SpawnStutter, AwaitStutter DEF UsedInv
<1>2. /\ UNCHANGED <<queue, thread, todo, setting, at, i, result, handles, started>>
      /\ UNCHANGED <<sems, runSem, running, agenda, work>>
      /\ TheServices' = TheServices /\ TheApplications' = TheApplications
      /\ \/ fault' = fault
         \/ fault' = "not_loaded"
         \/ fault' = "freed_sibling" /\ Len(TheApplications) > 2
  BY DEF Still, queueVars, spawnVars, mainVars, answerVars, workVars, TheServices, TheApplications
<1>3. AllPolite' => AllPolite
  BY <1>2 DEF AllPolite, Polite, AnswersLast
<1>4. ASSUME NEW c PROVE (Idle(c) => Idle(c)') /\ (Called(c) => Called(c)')
  BY <1>2 DEF Idle, Called, Resting
<1>5. AppCalls => AppCalls'
  <2>1. TheServices' = TheServices
    BY <1>2 DEF TheServices
  <2> QED BY <1>2, <1>4, <2>1 DEF AppCalls, BeforeCall
<1>6. TestCalls => TestCalls'
  BY <1>2, <1>4 DEF TestCalls, TestsIdle
<1>7. RolesKept => RolesKept'
  BY <1>2, <1>4 DEF RolesKept
<1>8. QueryEnds => QueryEnds'
  BY <1>2 DEF QueryEnds
<1>9. PoliteInv' /\ OnlyThese'
  BY <1>2, <1>3, <1>5, <1>6, <1>7, <1>8 DEF UsedInv, PoliteInv, OnlyThese
<1> QED
  BY <1>1, <1>9 DEF UsedInv

LEMMA UsedStep ==
  ASSUME UsedInv, SpawnNext
  PROVE  UsedInv'
<1>0. SUFFICES ASSUME ~Still PROVE UsedInv'
  BY UsedStutter
<1>cases. \/ MainStep \/ \E c \in Components : ComponentStep(c)
          \/ \E t \in Threads : InLibrary(t)
  BY <1>0, StepCases DEF UsedInv, SpawnInv, ProgramOK, MainOK
<1>1. SpawnInv' /\ AwaitInv'
  BY SpawnStep, AwaitStep DEF UsedInv
<1>2. AllPolite' => AllPolite
  BY SettingSame DEF AllPolite, Polite, AnswersLast
<1>3. fault = "none"
  <2>1. ProgramOK
    BY DEF UsedInv, SpawnInv
  <2>2. MainStep => fault = "none"
    BY <2>1, MainCommon
  <2>3. \A c \in Components : ComponentStep(c) => fault = "none"
    BY <2>1, ComponentOthers
  <2> QED BY <1>cases, <2>2, <2>3 DEF InLibrary
<1>4. CASE AllPolite
  <2>1. Orderly
    BY <1>3, <1>4 DEF Orderly, UsedInv, PoliteInv
  <2>2. CASE MainStep
    <3>1. CASE NullHandles
      <4>1. fault' = "null_handles" /\ Nobody \in handles'
        BY <2>1, <2>2, <3>1, MainGoes DEF NullHandles, mainVars
      <4> QED BY <1>1, <4>1 DEF UsedInv, PoliteInv, OnlyThese
    <3>2. CASE ~NullHandles
      <4>1. fault' = "none"
        BY <2>1, <2>2, <3>2, MainGoes
      <4>2. AppCalls' /\ TestCalls' /\ RolesKept' /\ QueryEnds'
        BY <2>1, <2>2, <3>2, MainOrder
      <4> QED BY <1>1, <4>1, <4>2 DEF UsedInv, PoliteInv, OnlyThese
    <3> QED BY <3>1, <3>2
  <2>3. ASSUME NEW c \in Components, ComponentStep(c) PROVE UsedInv'
    <3>1. fault' = "none" /\ AppCalls' /\ TestCalls' /\ RolesKept' /\ QueryEnds'
      BY <2>1, <2>3, ComponentOrder
    <3> QED BY <1>1, <3>1 DEF UsedInv, PoliteInv, OnlyThese
  <2>4. ASSUME NEW t \in Threads, InLibrary(t) PROVE UsedInv'
    <3>1. fault' = "none" /\ AppCalls' /\ TestCalls' /\ RolesKept' /\ QueryEnds'
      BY <2>1, <2>4, LibraryFault, LibraryOrder
    <3> QED BY <1>1, <3>1 DEF UsedInv, PoliteInv, OnlyThese
  <2> QED BY <1>cases, <2>2, <2>3, <2>4
<1>5. CASE ~AllPolite
  BY <1>1, <1>2, <1>5 DEF UsedInv, PoliteInv, OnlyThese
<1> QED
  BY <1>4, <1>5

\* Of the undefined behaviour that the program can come to here, and while each
\* component answers once, as the last thing it does, only this is left, for any
\* number of services, applications and tests, in both builds and any schedule: a
\* library that cannot be loaded; the walk back to an import that is freed, with more
\* than two applications; and an array of handles that main() had no memory for.
THEOREM SpawnFaults == SpawnSpec => []OnlyThese
<1>1. SpawnInit => UsedInv
  BY UsedInit
<1>2. UsedInv /\ [SpawnNext]_vars => UsedInv'
  BY UsedStep, UsedStutter, StutterStill
<1>3. UsedInv => OnlyThese
  BY DEF UsedInv
<1> QED
  BY <1>1, <1>2, <1>3, PTL DEF SpawnSpec

-----------------------------------------------------------------------------
(* However often services and applications answer                          *)

TestsPolite == \A s \in TestSet : Polite(s)

\* Only the application that main() started is called, and so is the only driver.
OneApp == \A a \in AppSet : Idle(a) \/ (a = started /\ at \notin BeforeCall)

Drives == OneApp /\ TestCalls /\ RolesKept
Driven == SpawnInv /\ TestsPolite /\ fault = "none" /\ Drives

LEMMA DrivenOK ==
  ASSUME Driven
  PROVE  /\ ProgramOK /\ LibraryOK /\ TodoOK /\ QueuesOK /\ WorksOK /\ CountsOK
         /\ work \in [Components -> WorkStates] /\ fault = "none"
         /\ OneApp /\ TestCalls /\ RolesKept
BY DEF Driven, Drives, SpawnInv, ProgramOK, LibraryOK, WorksOK

\* A test that was called is there as long as its driver waits for it.
LEMMA TestUp ==
  ASSUME Driven, NEW c \in TestSet, ~Idle(c)
  PROVE  /\ Called(c) /\ sems["tests"] = 0 /\ cstate[c] = "up" /\ quit[c] = "no"
         /\ \E d \in AppSet : work[d].at = "await" /\ Tests[work[d].k] = c
<1>1. TestCalls /\ c \in Components
  BY DrivenOK, AllRoles
<1>2. PICK d \in AppSet : work[d].at = "await" /\ Tests[work[d].k] = c
  BY <1>1 DEF TestCalls
<1>3. d \in Threads /\ d \in Components /\ Calm(d)
  BY <1>1, <1>2, AllRoles, Constants DEF TestCalls, Calm
<1>4. PICK G : Booked(G)
  BY SomeBooked DEF Driven
<1>5. G[d] = AtRest(d)
  BY <1>3, <1>4, BookedRests
<1>6. AtRest(d) = Rest(d, 1, {c}, From(Tests, work[d].k + 1))
  BY <1>2, <1>3, WorkRest DEF WorkRests
<1>7. G[d].imp[c] = "open"
  BY <1>1, <1>5, <1>6 DEF Rest, Acc, Imps
<1>8. Stated(G, c)
  BY <1>1, <1>4, DrivenOK DEF Booked, Lives
<1>9. cstate[c] = "up" /\ quit[c] = "no"
  BY <1>3, <1>7, <1>8 DEF Stated
<1> QED
  BY <1>1, <1>2, <1>9 DEF TestCalls

\* A step that calls nobody, and after which no test has answered.
LEMMA DriveSame ==
  ASSUME Driven, UNCHANGED <<at, started>>, sems'["tests"] = sems["tests"],
         \A d \in Components \ ServiceSet : Idle(d) => Idle(d)',
         \A s \in TestSet : Called(s) => Called(s)',
         \A d \in Components : \/ work'[d] = work[d]
                               \/ {work[d].at, work'[d].at} \subseteq {"idle", "ask"},
         \A d \in AppSet : todo[d] = <<>> => todo'[d] = <<>>
  PROVE  Drives'
<1>1. AppSet \subseteq Components \ ServiceSet /\ TestSet \subseteq Components \ ServiceSet
  BY AllRoles
<1>2. OneApp'
  BY <1>1, DrivenOK DEF OneApp
<1>3. TestsIdle => TestsIdle'
  BY <1>1 DEF TestsIdle
<1>4. \A d \in AppSet : /\ work'[d].at \notin {"idle", "ask"} => work'[d] = work[d]
                        /\ work[d].at \notin {"idle", "ask"} => work'[d] = work[d]
  BY <1>1
<1>5. TestCalls'
  <2>1. ASSUME NEW s \in TestSet
        PROVE  \/ Idle(s)'
               \/ /\ Called(s)' /\ sems'["tests"] = 0
                  /\ \E c \in AppSet : work'[c].at = "await" /\ Tests[work'[c].k] = s
    BY <1>1, <1>4, DrivenOK DEF TestCalls
  <2>2. ASSUME NEW c \in AppSet
        PROVE  /\ work'[c].at \in {"test", "run", "unimport"} => sems'["tests"] = 0 /\ TestsIdle'
               /\ work'[c].at = "await" =>
                    todo'[c] = <<>> /\ (sems'["tests"] = 0 \/ (sems'["tests"] = 1 /\ TestsIdle'))
    BY <1>3, <1>4, DrivenOK DEF TestCalls
  <2> QED BY <2>1, <2>2 DEF TestCalls
<1>6. RolesKept'
  BY DrivenOK DEF RolesKept
<1> QED
  BY <1>2, <1>5, <1>6 DEF Drives

LEMMA LibraryDrives ==
  ASSUME Driven, NEW t \in Threads, InLibrary(t)
  PROVE  Drives'
<1>1. /\ LibraryStep(t) /\ LibraryOK /\ QueuesOK
      /\ UNCHANGED <<setting, at, started, sems, agenda, work>>
  BY DrivenOK DEF InLibrary, spawnVars, mainVars, answerVars, workVars
<1>2. ASSUME NEW c \in Components
      PROVE  /\ Idle(c) => Idle(c)'
             /\ c \in TestSet /\ Called(c) => Called(c)'
             /\ todo[c] = <<>> => todo'[c] = <<>>
  <2>1. todo[c] = <<>> => todo'[c] = <<>>
    BY <1>1, LibraryQueues, Constants DEF Threads, LibraryStep
  <2>2. queue'[c] \in {queue[c], <<>>}
    BY <1>1, LibraryQueues
  <2>3. Idle(c) => Idle(c)'
    BY <1>1, <2>1, <2>2 DEF Idle, Resting
  <2>4. ASSUME c \in TestSet, Called(c) PROVE Called(c)'
    <3>1. cstate[c] = "up"
      BY <1>1, <2>4, CalledBusy, TestUp
    <3>2. queue'[c] = queue[c] /\ thread'[c] = thread[c]
      BY <1>1, <3>1, LibraryQueues
    <3> QED BY <1>1, <2>1, <2>4, <3>2 DEF Called, Resting, AnswersLast
  <2> QED BY <2>1, <2>3, <2>4
<1>3. AppSet \subseteq Components /\ TestSet \subseteq Components
  BY AllRoles
<1> QED
  BY <1>1, <1>2, <1>3, DriveSame

-----------------------------------------------------------------------------
(* The steps of the components, when only the tests answer once            *)

LEMMA IdleDrives ==
  ASSUME Driven, NEW c \in Components, Idle(c), ComponentStep(c)
  PROVE  Drives'
<1>1. ProgramOK /\ Resting(c) /\ QueuesOK
  BY DrivenOK DEF Idle
<1>2. UNCHANGED <<sems, work, todo>> /\ ~RunsTest(c)
  BY <1>1, RestingSteps DEF RunsTest, Working, Resting
<1>3. UNCHANGED <<at, started>>
  BY <1>1, ComponentMain
<1>4. Idle(c)' /\ ~Called(c)
  BY <1>1, IdleThread, CalledBusy
<1>5. ASSUME NEW d \in Components, d # c
      PROVE  (Idle(d) => Idle(d)') /\ (Called(d) => Called(d)')
  <2>1. /\ thread'[d] = thread[d] /\ agenda'[d] = agenda[d] /\ todo'[d] = todo[d]
        /\ work'[d] = work[d] /\ queue'[d] = queue[d]
    BY <1>1, <1>2, <1>5, OthersSame
  <2> QED BY <2>1 DEF Idle, Called, Resting, AnswersLast
<1>6. \A d \in Components : (Idle(d) => Idle(d)') /\ (Called(d) => Called(d)')
  BY <1>4, <1>5
<1>7. TestSet \subseteq Components
  BY AllRoles
<1> QED
  BY <1>2, <1>3, <1>6, <1>7, DriveSame

LEMMA ServiceDrives ==
  ASSUME Driven, NEW c \in ServiceSet, ComponentStep(c)
  PROVE  Drives'
<1>1. /\ c \in Components /\ c \notin AppSet /\ c \notin TestSet
      /\ AppSet \subseteq Components /\ TestSet \subseteq Components
  BY AllRoles
<1>2. ProgramOK /\ CountsOK /\ RolesKept /\ work \in [Components -> WorkStates]
  BY DrivenOK
<1>3. work[c].at \in {"idle", "ask"}
  BY <1>1, <1>2 DEF RolesKept
<1>4. WakesUp(c) \/ TakesCall(c) \/ CallReturns(c) \/ ServiceAnswers(c) \/ BeginsWork(c) \/ Asks(c)
  BY <1>1, <1>3 DEF ComponentStep, TestAnswers, ApplicationAnswers, QueriesTests, ImportsTest,
     RunsTest, AwaitsTest, UnImportsTest, FinishesTests, EndsTests, Working, AppSet, TestSet
<1>5. work'[c].at \in {"idle", "ask"}
  BY <1>1, <1>2, <1>3, <1>4 DEF WakesUp, TakesCall, CallReturns, ServiceAnswers, Signals,
     BeginsWork, Asks, WorkAt, spawnVars, workVars, AppSet
<1>6. sems'["tests"] = sems["tests"]
  BY <1>2, <1>4 DEF WakesUp, TakesCall, CallReturns, ServiceAnswers, Signals, BeginsWork, Asks,
     spawnVars, answerVars, CountsOK
<1>7. ~RunsTest(c)
  BY <1>3 DEF RunsTest, Working
<1>8. ASSUME NEW d \in Components, d # c
      PROVE  /\ thread'[d] = thread[d] /\ agenda'[d] = agenda[d] /\ todo'[d] = todo[d]
             /\ work'[d] = work[d] /\ queue'[d] = queue[d]
  BY <1>1, <1>2, <1>7, <1>8, OthersSame
<1>9. ASSUME NEW d \in Components, d # c
      PROVE  (Idle(d) => Idle(d)') /\ (Called(d) => Called(d)')
  BY <1>8, <1>9 DEF Idle, Called, Resting, AnswersLast
<1>10. UNCHANGED <<at, started>>
  BY <1>1, <1>2, ComponentMain
<1>11. \A d \in Components : \/ work'[d] = work[d]
                             \/ {work[d].at, work'[d].at} \subseteq {"idle", "ask"}
  BY <1>3, <1>5, <1>8
<1> QED
  BY <1>1, <1>6, <1>8, <1>9, <1>10, <1>11, DriveSame

LEMMA TestDrives ==
  ASSUME Driven, NEW c \in TestSet, ~Idle(c), ComponentStep(c)
  PROVE  Drives'
<1>1. /\ c \in Components /\ c \notin AppSet /\ c \notin ServiceSet
      /\ AppSet \subseteq Components /\ TestSet \subseteq Components
  BY AllRoles
<1>2. /\ ProgramOK /\ fault = "none" /\ CountsOK /\ Polite(c)
      /\ work \in [Components -> WorkStates] /\ OneApp /\ TestCalls /\ RolesKept
  BY DrivenOK DEF Driven, TestsPolite
<1>3. work[c].at \in {"idle", "ask"}
  BY <1>1, <1>2 DEF RolesKept
<1>4. WakesUp(c) \/ TakesCall(c) \/ CallReturns(c) \/ TestAnswers(c) \/ BeginsWork(c) \/ Asks(c)
  BY <1>1, <1>3 DEF ComponentStep, ServiceAnswers, ApplicationAnswers, QueriesTests, ImportsTest,
     RunsTest, AwaitsTest, UnImportsTest, FinishesTests, EndsTests, Working, AppSet, ServiceSet
<1>5. work'[c].at \in {"idle", "ask"}
  BY <1>1, <1>2, <1>3, <1>4 DEF WakesUp, TakesCall, CallReturns, TestAnswers, Signals,
     BeginsWork, Asks, WorkAt, spawnVars, workVars, AppSet
<1>6. ~RunsTest(c)
  BY <1>3 DEF RunsTest, Working
<1>7. ASSUME NEW d \in Components, d # c
      PROVE  /\ thread'[d] = thread[d] /\ agenda'[d] = agenda[d] /\ todo'[d] = todo[d]
             /\ work'[d] = work[d] /\ queue'[d] = queue[d]
  BY <1>1, <1>2, <1>6, <1>7, OthersSame
<1>8. ASSUME NEW d \in Components, d # c
      PROVE  (Idle(d) => Idle(d)') /\ (Called(d) => Called(d)')
  BY <1>7, <1>8 DEF Idle, Called, Resting, AnswersLast
<1>9. UNCHANGED <<at, started>>
  BY <1>1, <1>2, ComponentMain
<1>10. \A d \in Components : \/ work'[d] = work[d]
                             \/ {work[d].at, work'[d].at} \subseteq {"idle", "ask"}
  BY <1>3, <1>5, <1>7
<1>11. /\ Called(c) /\ sems["tests"] = 0 /\ quit[c] = "no"
       /\ \E d \in AppSet : work[d].at = "await" /\ Tests[work[d].k] = c
  BY TestUp
<1>12. CASE ~TestAnswers(c)
  <2>1. Called(c)'
    BY <1>1, <1>2, <1>4, <1>11, <1>12, CalledThread
       DEF ServiceAnswers, ApplicationAnswers, ServiceSet, AppSet
  <2>2. sems' = sems
    BY <1>4, <1>12 DEF WakesUp, TakesCall, CallReturns, BeginsWork, Asks, spawnVars, answerVars
  <2>3. \A d \in Components \ ServiceSet : Idle(d) => Idle(d)'
    BY <1>8
  <2>4. \A s \in TestSet : Called(s) => Called(s)'
    BY <1>1, <1>8, <2>1
  <2> QED BY <1>1, <1>7, <1>9, <1>10, <2>2, <2>3, <2>4, DriveSame
<1>13. CASE TestAnswers(c)
  <2>1. Idle(c)'
    BY <1>1, <1>2, <1>4, <1>11, <1>13, CalledThread
  <2>2. sems'["tests"] = 1 /\ UNCHANGED work
    BY <1>2, <1>11, <1>13 DEF TestAnswers, Signals, NoSem, CountsOK
  <2>3. PICK a \in AppSet : work[a].at = "await" /\ Tests[work[a].k] = c
    BY <1>11
  <2>4. a = started
    BY <1>2, <2>3 DEF OneApp, Idle, Resting
  <2>5. \A d \in AppSet \ {a} : Idle(d)
    BY <1>2, <2>4 DEF OneApp
  <2>6. ASSUME NEW s \in TestSet PROVE Idle(s)'
    <3>1. CASE s = c
      BY <2>1, <3>1
    <3>2. CASE s # c
      <4>1. ASSUME ~Idle(s) PROVE FALSE
        <5>1. PICK d \in AppSet : work[d].at = "await" /\ Tests[work[d].k] = s
          BY <4>1, TestUp
        <5>2. d = a
          BY <2>5, <5>1 DEF Idle, Resting
        <5> QED BY <2>3, <3>2, <5>1, <5>2
      <4> QED BY <1>1, <1>8, <3>2, <4>1
    <3> QED BY <3>1, <3>2
  <2>7. TestsIdle'
    BY <2>6 DEF TestsIdle
  <2>8. ASSUME NEW d \in AppSet
        PROVE  /\ work'[d].at \notin {"test", "run", "unimport"}
               /\ work'[d].at = "await" => todo'[d] = <<>>
    <3>1. work[d].at \notin {"test", "run", "unimport"}
      BY <2>3, <2>5 DEF Idle, Resting
    <3>2. d \in Components /\ d # c
      BY <1>1
    <3>3. work[d].at = "await" => todo[d] = <<>>
      BY <1>2 DEF TestCalls
    <3> QED BY <1>7, <2>2, <3>1, <3>2, <3>3
  <2>9. TestCalls'
    BY <2>2, <2>6, <2>7, <2>8 DEF TestCalls
  <2>10. OneApp'
    BY <1>1, <1>2, <1>8, <1>9 DEF OneApp
  <2>11. RolesKept'
    BY <1>2, <1>8, <2>2 DEF RolesKept
  <2> QED BY <2>9, <2>10, <2>11 DEF Drives
<1> QED
  BY <1>12, <1>13

LEMMA AppDrives ==
  ASSUME Driven, NEW c \in AppSet, ~Idle(c),
         WakesUp(c) \/ TakesCall(c) \/ CallReturns(c) \/ ApplicationAnswers(c)
  PROVE  Drives'
<1>1. /\ c \in Components /\ ComponentStep(c) /\ ProgramOK /\ AppSet \subseteq Components
      /\ TestSet \subseteq Components /\ c \notin TestSet
  BY DrivenOK, AllRoles DEF ComponentStep
<1>2. UNCHANGED <<sems, work, todo>>
  BY DEF WakesUp, TakesCall, CallReturns, ApplicationAnswers, spawnVars, answerVars, lockVars,
     workVars
<1>3. UNCHANGED <<at, started>>
  BY <1>1, ComponentMain
<1>4. ~RunsTest(c)
  <2>1. agenda' # agenda \/ thread' # thread
    BY <1>1 DEF ProgramOK, LibraryOK, QueuesOK, WorksOK, WakesUp, Wakes, TakesCall, Takes,
       CallReturns, Returns, ApplicationAnswers, Answering
  <2>2. RunsTest(c) => UNCHANGED <<agenda, thread>>
    BY DEF RunsTest, Enqueue, queueVars
  <2> QED BY <2>1, <2>2
<1>5. ASSUME NEW d \in Components, d # c
      PROVE  (Idle(d) => Idle(d)') /\ (Called(d) => Called(d)')
  <2>1. /\ thread'[d] = thread[d] /\ agenda'[d] = agenda[d] /\ todo'[d] = todo[d]
        /\ work'[d] = work[d] /\ queue'[d] = queue[d]
    BY <1>1, <1>4, <1>5, OthersSame
  <2> QED BY <2>1 DEF Idle, Called, Resting, AnswersLast
<1>6. \A d \in Components \ ServiceSet : Idle(d) => Idle(d)'
  BY <1>5
<1>7. \A s \in TestSet : Called(s) => Called(s)'
  BY <1>1, <1>5
<1> QED
  BY <1>1, <1>2, <1>3, <1>6, <1>7, DriveSame

LEMMA WorkDrives ==
  ASSUME Driven, NEW c \in AppSet, ~Idle(c),
         BeginsWork(c) \/ Asks(c) \/ QueriesTests(c) \/ ImportsTest(c) \/ RunsTest(c)
           \/ AwaitsTest(c) \/ UnImportsTest(c) \/ FinishesTests(c) \/ EndsTests(c)
  PROVE  Drives'
<1>1. /\ c \in Components /\ ComponentStep(c) /\ AppSet \subseteq Components
      /\ TestSet \subseteq Components /\ c \notin ServiceSet /\ c \notin TestSet
  BY AllRoles DEF ComponentStep
<1>2. /\ ProgramOK /\ fault = "none" /\ WorksOK /\ CountsOK /\ QueuesOK
      /\ work \in [Components -> WorkStates] /\ OneApp /\ TestCalls /\ RolesKept
      /\ sems \in [{"main", "tests"} -> Nat \cup {NoSem}]
  BY DrivenOK DEF CountsOK
<1>3. UNCHANGED <<at, started>>
  BY <1>1, <1>2, ComponentMain
<1>4. c = started /\ at \notin BeforeCall /\ \A d \in AppSet \ {c} : Idle(d)
  BY <1>2 DEF OneApp
<1>5. work[c].at # "await" => TestsIdle
  <2>1. ASSUME NEW s \in TestSet, ~Idle(s) PROVE work[c].at = "await"
    <3>1. PICK d \in AppSet : work[d].at = "await"
      BY <2>1, TestUp
    <3> QED BY <1>4, <3>1 DEF Idle, Resting
  <2> QED BY <2>1 DEF TestsIdle
<1>6. ASSUME NEW d \in Components, d # c
      PROVE  /\ work'[d] = work[d]
             /\ ~(RunsTest(c) /\ d = Tests[work[c].k]) =>
                  (Idle(d) => Idle(d)') /\ (Called(d) => Called(d)')
  <2>1. /\ thread'[d] = thread[d] /\ agenda'[d] = agenda[d] /\ todo'[d] = todo[d]
        /\ work'[d] = work[d]
        /\ queue'[d] = queue[d] \/ (RunsTest(c) /\ d = Tests[work[c].k])
    BY <1>1, <1>2, <1>6, OthersSame
  <2> QED BY <2>1 DEF Idle, Called, Resting, AnswersLast
<1>7. RunsTest(c) => work[c].k \in DOMAIN Tests /\ Tests[work[c].k] \in TestSet
  BY <1>2, AllRoles DEF RunsTest, Working, WorksOK
<1>8. \A d \in AppSet \ {c} : Idle(d)' /\ work'[d] = work[d] /\ work'[d].at = "idle"
  BY <1>1, <1>4, <1>6, <1>7, AllRoles DEF Idle, Resting
<1>9. OneApp'
  BY <1>3, <1>4, <1>8 DEF OneApp
<1>10. RolesKept'
  <2>1. \A d \in Components : work'[d].at \notin {"idle", "ask"} => d \in AppSet
    BY <1>2, <1>6 DEF RolesKept
  <2>2. ASSUME NEW d \in Components, d \notin ServiceSet \cup AppSet \cup TestSet PROVE Idle(d)'
    BY <1>2, <1>6, <1>7, <2>2 DEF RolesKept
  <2> QED BY <2>1, <2>2 DEF RolesKept
<1>11. ~RunsTest(c) => \A s \in TestSet : (Idle(s) => Idle(s)') /\ (Called(s) => Called(s)')
  BY <1>1, <1>6
<1>12. ASSUME work'[c].at \notin {"test", "run", "await", "unimport"}, TestsIdle'
       PROVE  TestCalls'
  BY <1>8, <1>12 DEF TestCalls, TestsIdle
<1>13. ASSUME work'[c].at # "await", TestsIdle', sems'["tests"] = 0
       PROVE  TestCalls'
  BY <1>8, <1>13 DEF TestCalls, TestsIdle
<1>14. work[c].at # "await" /\ ~RunsTest(c) => TestsIdle'
  BY <1>5, <1>11 DEF TestsIdle
<1>15. TestCalls'
  <2>1. CASE BeginsWork(c) \/ Asks(c) \/ FinishesTests(c) \/ EndsTests(c)
    <3>1. work[c].at # "await" /\ ~RunsTest(c)
          /\ work'[c].at \notin {"test", "run", "await", "unimport"}
      BY <1>1, <1>2, <2>1 DEF BeginsWork, Asks, FinishesTests, EndsTests, RunsTest, Working, WorkAt
    <3> QED BY <1>12, <1>14, <3>1
  <2>2. CASE QueriesTests(c)
    <3>1. work[c].at # "await" /\ ~RunsTest(c) /\ work'[c].at # "await" /\ sems'["tests"] = 0
      BY <1>1, <1>2, <2>2 DEF QueriesTests, RunsTest, Working, WorkAt
    <3> QED BY <1>13, <1>14, <3>1
  <2>3. CASE ImportsTest(c) \/ UnImportsTest(c)
    <3>1. /\ work[c].at \in {"test", "unimport"} /\ ~RunsTest(c) /\ work'[c].at # "await"
          /\ sems' = sems
      BY <1>1, <1>2, <2>3 DEF ImportsTest, UnImportsTest, RunsTest, Working, WorkAt, answerVars
    <3>2. sems["tests"] = 0
      BY <1>2, <3>1 DEF TestCalls
    <3> QED BY <1>13, <1>14, <3>1, <3>2
  <2>4. CASE AwaitsTest(c)
    <3>1. /\ work[c].at = "await" /\ work'[c].at = "unimport" /\ ~RunsTest(c)
          /\ sems["tests"] \notin {0, NoSem} /\ sems'["tests"] = sems["tests"] - 1
      BY <1>1, <1>2, <2>4 DEF AwaitsTest, RunsTest, Working, WorkAt
    <3>2. sems["tests"] = 1 /\ TestsIdle
      BY <1>2, <3>1 DEF TestCalls
    <3>3. TestsIdle' /\ sems'["tests"] = 0
      BY <1>11, <3>1, <3>2 DEF TestsIdle
    <3> QED BY <1>13, <3>1, <3>3
  <2>5. CASE RunsTest(c)
    <3>0. PICK s : s = Tests[work[c].k]
      OBVIOUS
    <3>1. /\ work[c].at = "run" /\ s \in TestSet /\ s \in Components /\ s # c
          /\ todo[c] = <<>> /\ todo' = todo /\ sems' = sems /\ UNCHANGED agenda
      BY <1>1, <1>7, <2>5, <3>0 DEF RunsTest, Working, Busy, Calm, answerVars
    <3>2. sems["tests"] = 0 /\ TestsIdle
      BY <1>2, <3>1 DEF TestCalls
    <3>3. \A r \in TestSet \ {s} : Idle(r)'
      BY <1>1, <1>6, <3>0, <3>2 DEF TestsIdle
    <3>4. \/ Enqueue(s, "Run") /\ WorkAt(c, "await", work[c].k)
          \/ WorkAt(c, "unimport", work[c].k) /\ UNCHANGED queueVars
      <4>1. PICK G : Kept(G)
        BY DEF Driven, SpawnInv
      <4>2. fault' = "none"
        BY <1>1, <1>2, <2>5, <4>1, WorkRuns DEF Kept
      <4>3. imports[<<c, s>>] = "open"
        BY <2>5, <3>0, <4>2 DEF RunsTest
      <4> QED BY <2>5, <3>0, <4>3 DEF RunsTest
    <3>5. work'[s] = work[s]
      BY <1>6, <3>1
    <3>6. CASE Enqueue(s, "Run") /\ WorkAt(c, "await", work[c].k)
      <4>1. work'[c].at = "await" /\ work'[c].k = work[c].k
        BY <1>1, <1>2, <3>6 DEF WorkAt
      <4>2. queue[s] = <<>> /\ Resting(s)
        BY <3>1, <3>2 DEF TestsIdle, Idle
      <4>3. queue'[s] = Append(<<>>, "Run")
        BY <1>2, <3>1, <3>6, <4>2 DEF Enqueue, QueuesOK
      <4>4. Len(queue'[s]) = 1
        BY <4>3
      <4>5. Called(s)'
        BY <3>1, <3>5, <4>2, <4>4 DEF Called, Resting
      <4>6. \A r \in TestSet :
              \/ Idle(r)'
              \/ /\ Called(r)' /\ sems'["tests"] = 0
                 /\ \E d \in AppSet : work'[d].at = "await" /\ Tests[work'[d].k] = r
        BY <3>0, <3>1, <3>2, <3>3, <4>1, <4>5
      <4> QED BY <1>8, <3>1, <3>2, <4>1, <4>6 DEF TestCalls
    <3>7. CASE WorkAt(c, "unimport", work[c].k) /\ UNCHANGED queueVars
      <4>1. work'[c].at = "unimport"
        BY <1>1, <1>2, <3>7 DEF WorkAt
      <4>2. Idle(s)'
        BY <3>1, <3>2, <3>5, <3>7 DEF TestsIdle, Idle, Resting, queueVars
      <4>3. TestsIdle'
        BY <3>3, <4>2 DEF TestsIdle
      <4> QED BY <1>13, <3>1, <3>2, <4>1, <4>3
    <3> QED BY <3>4, <3>6, <3>7
  <2> QED BY <2>1, <2>2, <2>3, <2>4, <2>5
<1> QED
  BY <1>9, <1>10, <1>15 DEF Drives

LEMMA ComponentDrives ==
  ASSUME Driven, NEW c \in Components, ComponentStep(c)
  PROVE  Drives'
<1>1. CASE Idle(c)
  BY <1>1, IdleDrives
<1>2. CASE c \in ServiceSet
  BY <1>2, ServiceDrives
<1>3. CASE c \in TestSet /\ ~Idle(c)
  BY <1>3, TestDrives
<1>4. CASE c \in AppSet /\ ~Idle(c)
  <2>1. ~ServiceAnswers(c) /\ ~TestAnswers(c)
    BY <1>4, AllRoles DEF ServiceAnswers, TestAnswers, ServiceSet, TestSet
  <2> QED BY <1>4, <2>1, AppDrives, WorkDrives DEF ComponentStep
<1> QED
  BY <1>1, <1>2, <1>3, <1>4, DrivenOK DEF RolesKept

\* A test answers while the semaphore of its driver is there.
LEMMA ComponentInTime ==
  ASSUME Driven, SemsGone, NEW c \in Components, ComponentStep(c)
  PROVE  fault' # "late_answer"
<1>1. fault = "none"
  BY DrivenOK
<1>2. CASE ServiceAnswers(c)
  <2>1. fault' = fault
    BY <1>2, ServiceKeeps DEF Driven
  <2> QED BY <1>1, <2>1
<1>3. CASE TestAnswers(c)
  <2>1. c \in TestSet /\ ~Resting(c)
    BY <1>3 DEF TestAnswers, TestSet, Signals, Answering, Resting
  <2>2. sems["tests"] = 0
    BY <2>1, TestUp DEF Idle
  <2> QED BY <1>1, <1>3, <2>2 DEF TestAnswers, Signals, NoSem
<1>4. CASE ~ServiceAnswers(c) /\ ~TestAnswers(c)
  <2>1. CASE RunsTest(c)
    BY <1>1, <2>1 DEF RunsTest
  <2>2. CASE ~RunsTest(c)
    <3>1. fault' = fault
      BY <1>4, <2>2 DEF ComponentStep, WakesUp, TakesCall, CallReturns, ApplicationAnswers,
         BeginsWork, Asks, QueriesTests, ImportsTest, AwaitsTest, UnImportsTest, FinishesTests,
         EndsTests, lockVars, locksAlone
    <3> QED BY <1>1, <3>1
  <2> QED BY <2>1, <2>2
<1> QED
  BY <1>2, <1>3, <1>4

-----------------------------------------------------------------------------
(* The steps of main(), when only the tests answer once                    *)

\* main() imports one application at most, before it calls it.
LEMMA OneStarted ==
  ASSUME MainStep
  PROVE  /\ at \notin BeforeCall => at' \notin BeforeCall /\ started' = started
         /\ StartApplication => at' \notin BeforeCall /\ started' = started
<1> USE DEF Main, GoOn, BeforeCall
<1>1. CASE Boot \/ QueryServices \/ NoArrays \/ ImportService \/ StartService \/ StartFails
             \/ WaitService \/ FinishServices \/ QueryApplications \/ ImportApplication
  <2>1. at \in BeforeCall
    BY <1>1 DEF Boot, QueryServices, NoArrays, ImportService, StartService, StartFails, WaitService,
       MainWaits, FinishServices, QueryApplications, ImportApplication
  <2>2. StartApplication => at' \notin BeforeCall /\ started' = started
    BY DEF StartApplication
  <2> QED BY <2>1, <2>2
<1>2. CASE StartApplication \/ FinishApplications \/ ExecWaits \/ ExecRuns \/ ExecReturns \/ Leave
  BY <1>2 DEF StartApplication, FinishApplications, ExecWaits, ExecRuns, ExecReturns, Leave
<1>3. CASE StopService \/ SkipService \/ NullHandles \/ WaitStopped \/ DropService \/ CleanUp
  BY <1>3 DEF StopService, SkipService, NullHandles, WaitStopped, MainWaits, DropService, CleanUp,
     mainVars, StartApplication
<1> QED
  BY <1>1, <1>2, <1>3 DEF MainStep

LEMMA MainDrives ==
  ASSUME Driven, MainStep
  PROVE  Drives'
<1>1. /\ MainOK /\ OneApp /\ TestCalls /\ RolesKept
      /\ AppSet \subseteq Components \ ServiceSet /\ TestSet \subseteq Components \ ServiceSet
      /\ AppSet \cap TestSet = {}
  BY DrivenOK, AllRoles DEF ProgramOK
<1>2. /\ UNCHANGED <<agenda, work, thread>> /\ sems'["tests"] = sems["tests"]
      /\ \A c \in Components : todo'[c] = todo[c]
      /\ \A c \in Components \ ServiceSet :
           queue'[c] = queue[c] \/ (StartApplication /\ c = started)
  BY MainLeaves DEF Driven
<1>3. StartApplication => started \in AppSet
  BY <1>1 DEF StartApplication, Main, MainOK, AppSet
<1>4. ASSUME NEW c \in Components, queue'[c] = queue[c]
      PROVE  /\ Idle(c) => Idle(c)'
             /\ Called(c) => Called(c)'
  BY <1>2, <1>4 DEF Idle, Called, Resting
<1>5. OneApp'
  <2> SUFFICES ASSUME NEW a \in AppSet
               PROVE  Idle(a)' \/ (a = started' /\ at' \notin BeforeCall)
    BY DEF OneApp, BeforeCall
  <2>1. CASE StartApplication /\ a = started
    BY <2>1, OneStarted
  <2>2. CASE ~(StartApplication /\ a = started) /\ Idle(a)
    BY <1>1, <1>2, <1>4, <2>2
  <2>3. CASE ~Idle(a)
    BY <1>1, <2>3, OneStarted DEF OneApp
  <2> QED BY <2>1, <2>2, <2>3
<1>6. \A s \in TestSet : s \in Components /\ queue'[s] = queue[s]
  BY <1>1, <1>2, <1>3
<1>7. TestCalls'
  <2>1. TestsIdle => TestsIdle'
    BY <1>4, <1>6 DEF TestsIdle
  <2>2. \A s \in TestSet : (Idle(s) => Idle(s)') /\ (Called(s) => Called(s)')
    BY <1>4, <1>6
  <2>3. \A c \in AppSet : work'[c] = work[c] /\ todo'[c] = todo[c]
    BY <1>1, <1>2
  <2> QED BY <1>1, <1>2, <2>1, <2>2, <2>3 DEF TestCalls
<1>8. RolesKept'
  <2>1. \A c \in Components : work'[c].at \notin {"idle", "ask"} => c \in AppSet
    BY <1>1, <1>2 DEF RolesKept
  <2>2. \A c \in Components : c \notin ServiceSet \cup AppSet \cup TestSet => Idle(c)'
    BY <1>1, <1>2, <1>3, <1>4 DEF RolesKept
  <2> QED BY <2>1, <2>2 DEF RolesKept
<1> QED
  BY <1>5, <1>7, <1>8 DEF Drives

\* Only an answer comes late.
LEMMA OthersInTime ==
  ASSUME fault = "none", MainStep \/ \E t \in Threads : InLibrary(t)
  PROVE  fault' # "late_answer"
<1> USE DEF locksAlone, lockVars
<1>1. ASSUME MainStep PROVE fault' # "late_answer"
  <2>1. CASE Boot \/ QueryServices \/ NoArrays \/ ImportService \/ StartService \/ StartFails
    BY <2>1 DEF Boot, QueryServices, NoArrays, ImportService, StartService, StartFails
  <2>2. CASE WaitService \/ FinishServices \/ QueryApplications \/ ImportApplication
               \/ StartApplication
    BY <2>2 DEF WaitService, MainWaits, FinishServices, QueryApplications, ImportApplication,
                StartApplication
  <2>3. CASE FinishApplications \/ ExecWaits \/ ExecRuns \/ ExecReturns \/ Leave
    BY <2>3 DEF FinishApplications, ExecWaits, ExecRuns, ExecReturns, Leave
  <2>4. CASE StopService \/ SkipService \/ NullHandles \/ WaitStopped \/ DropService \/ CleanUp
    BY <2>4 DEF StopService, SkipService, NullHandles, WaitStopped, MainWaits, DropService, CleanUp
  <2> QED BY <1>1, <2>1, <2>2, <2>3, <2>4 DEF MainStep
<1>2. ASSUME NEW t \in Threads, InLibrary(t) PROVE fault' # "late_answer"
  <2>1. LibraryStep(t)
    BY <1>2 DEF InLibrary
  <2> QED BY <2>1 DEF LibraryStep, Lock, Unlock, Pass, component_ref, component_unref,
             component_init, component_destroy, import_new, Add, Open, Close, FreeImport, Quit,
             Post, Join
<1> QED
  BY <1>1, <1>2

-----------------------------------------------------------------------------
(* Nothing is used after its end                                           *)

DrivenInv == TestsPolite /\ fault = "none" => Drives
NoneLate == fault = "late_answer" => ~TestsPolite

AnswerInv == SpawnInv /\ SemsGone /\ DrivenInv /\ NoneLate

LEMMA AnswerInit == SpawnInit => AnswerInv
<1> SUFFICES ASSUME SpawnInit PROVE AnswerInv
  OBVIOUS
<1>1. SpawnInv /\ SemsGone
  BY SpawnStarts, SemsStart
<1> USE DEF SpawnInit, LocksInit, CallQueueInit
<1>2. \A c \in Components : Idle(c)
  BY Constants DEF Idle, Resting, Threads
<1>3. AppSet \subseteq Components /\ TestSet \subseteq Components
  BY AllRoles
<1>4. OneApp /\ fault = "none"
  BY <1>2, <1>3 DEF OneApp
<1>5. TestCalls
  BY <1>2, <1>3 DEF TestCalls, TestsIdle
<1>6. RolesKept
  BY <1>2 DEF RolesKept
<1> QED
  BY <1>1, <1>4, <1>5, <1>6 DEF AnswerInv, DrivenInv, Drives, NoneLate

LEMMA AnswerStutter ==
  ASSUME AnswerInv, Still
  PROVE  AnswerInv'
<1>1. /\ UNCHANGED <<queue, thread, todo, setting, at, started, sems, agenda, work>>
      /\ fault' = fault \/ fault' \in {"not_loaded", "freed_sibling"}
  BY DEF Still, queueVars, spawnVars, mainVars, answerVars, workVars
<1>2. SpawnInv' /\ SemsGone'
  BY SpawnStutter, SemsStill DEF AnswerInv
<1>3. TestsPolite' <=> TestsPolite
  BY <1>1 DEF TestsPolite, Polite, AnswersLast
<1>4. ASSUME NEW c PROVE (Idle(c) => Idle(c)') /\ (Called(c) => Called(c)')
  BY <1>1 DEF Idle, Called, Resting
<1>5. OneApp => OneApp'
  BY <1>1, <1>4 DEF OneApp, BeforeCall
<1>6. TestCalls => TestCalls'
  BY <1>1, <1>4 DEF TestCalls, TestsIdle
<1>7. RolesKept => RolesKept'
  BY <1>1, <1>4 DEF RolesKept
<1> QED
  BY <1>1, <1>2, <1>3, <1>5, <1>6, <1>7 DEF AnswerInv, DrivenInv, Drives, NoneLate

LEMMA AnswerStep ==
  ASSUME AnswerInv, SpawnNext
  PROVE  AnswerInv'
<1>0. SUFFICES ASSUME ~Still PROVE AnswerInv'
  BY AnswerStutter
<1>cases. \/ MainStep \/ \E c \in Components : ComponentStep(c)
          \/ \E t \in Threads : InLibrary(t)
  BY <1>0, StepCases DEF AnswerInv, SpawnInv, ProgramOK, MainOK
<1>1. ProgramOK
  BY DEF AnswerInv, SpawnInv
<1>2. SpawnInv' /\ SemsGone'
  <2>1. SemsGone'
    BY <1>1, <1>cases, MainSems, ComponentSems, LibrarySems DEF AnswerInv
  <2> QED BY <2>1, SpawnStep DEF AnswerInv
<1>3. TestsPolite' => TestsPolite
  BY SettingSame DEF TestsPolite, Polite, AnswersLast
<1>4. fault = "none"
  <2>1. MainStep => fault = "none"
    BY <1>1, MainCommon
  <2>2. \A c \in Components : ComponentStep(c) => fault = "none"
    BY <1>1, ComponentOthers
  <2> QED BY <1>cases, <2>1, <2>2 DEF InLibrary
<1>5. ASSUME TestsPolite PROVE Drives' /\ fault' # "late_answer"
  <2>1. Driven /\ SemsGone
    BY <1>4, <1>5 DEF AnswerInv, DrivenInv, Driven
  <2>2. CASE MainStep
    BY <1>4, <2>1, <2>2, MainDrives, OthersInTime
  <2>3. ASSUME NEW c \in Components, ComponentStep(c) PROVE Drives' /\ fault' # "late_answer"
    BY <2>1, <2>3, ComponentDrives, ComponentInTime
  <2>4. ASSUME NEW t \in Threads, InLibrary(t) PROVE Drives' /\ fault' # "late_answer"
    BY <1>4, <2>1, <2>4, LibraryDrives, OthersInTime
  <2> QED BY <1>cases, <2>2, <2>3, <2>4
<1> QED
  BY <1>2, <1>3, <1>5 DEF AnswerInv, DrivenInv, NoneLate

\* For any number of services, applications and tests, in both builds, and in any
\* schedule: no call goes through an import that is freed; nothing signals a
\* semaphore after its stack frame is gone, however often the services and the
\* applications answer, if the tests answer once; and no thread goes on in code
\* that is unmapped while each component answers once, as the last thing it does.
THEOREM SpawnUsed == SpawnSpec => []UsedWhileThere
<1>1. SpawnInit => AnswerInv
  BY AnswerInit
<1>2. AnswerInv /\ [SpawnNext]_vars => AnswerInv'
  BY AnswerStep, AnswerStutter, StutterStill
<1>3. AnswerInv /\ OnlyThese => UsedWhileThere
  BY DEF OnlyThese, AnswerInv, SpawnInv, OthersOK, Faults, NoneLate, TestsPolite, TestSet, UsedWhileThere
<1>4. SpawnSpec => []OnlyThese
  BY SpawnFaults
<1> QED
  BY <1>1, <1>2, <1>3, <1>4, PTL DEF SpawnSpec

-----------------------------------------------------------------------------
(* The order of locks: who has the lock of components gives it back before *)
(* it takes that of queries                                                *)

Gives == {[op |-> "unlock", on |-> "component"]}
QueryRequests == [op : {"lock", "pass"}, on : {"query"}]

Plain(t) == Own(t) \ Gives
Quick(t) == Own(t) \ QueryRequests

\* A set of steps that has all those of a thread but some for the two locks.
Usual(t, S) ==
  /\ S \subseteq Own(t)
  /\ \A x \in Own(t) :
       x.op \notin {"lock", "unlock", "pass"} \/ x.on \in Clients \cup {"import"} => x \in S

LEMMA BothUsual ==
  ASSUME NEW t \in Threads
  PROVE  Usual(t, Plain(t)) /\ Usual(t, Quick(t))
<1>1. "component" \notin Clients \cup {"import"} /\ "query" \notin Clients \cup {"import"}
  BY LocksAssumption
<1>2. \A x \in Gives : x.op = "unlock" /\ x.on = "component"
  BY DEF Gives
<1>3. \A x \in QueryRequests : x.op \in {"lock", "pass"} /\ x.on = "query"
  BY DEF QueryRequests
<1> QED
  BY <1>1, <1>2, <1>3 DEF Usual, Plain, Quick

LEMMA UsualDo ==
  ASSUME NEW t \in Threads, NEW S, Usual(t, S)
  PROVE  /\ \A op \in {"lock", "unlock", "pass"}, m \in Clients \cup {"import"} :
              Do(op, m) \in Seq(S)
         /\ \A op \in {"ref", "unref", "destroy", "quit", "post", "join"}, c \in MayTouch(t) :
              Do(op, c) \in Seq(S)
         /\ \A c \in MayStart(t) : Do("init", c) \in Seq(S)
         /\ \A op \in {"new", "add", "open"}, p \in MayImport(t) : Do(op, p) \in Seq(S)
         /\ \A op \in {"close", "release", "free"}, p \in MayFree(t) : Do(op, p) \in Seq(S)
<1>0. \A x \in S : <<x>> \in Seq(S)
  OBVIOUS
<1>1. \A op \in {"lock", "unlock", "pass"}, m \in Clients \cup {"import"} :
        [op |-> op, on |-> m] \in S
  BY Constants DEF Usual, Own, LockSteps, Mutexes
<1>2. \A op \in {"ref", "unref", "destroy", "quit", "post", "join"}, c \in MayTouch(t) :
        [op |-> op, on |-> c] \in S
  BY DEF Usual, Own
<1>3. \A c \in MayStart(t) : [op |-> "init", on |-> c] \in S
  BY DEF Usual, Own
<1>4. \A op \in {"new", "add", "open"}, p \in MayImport(t) : [op |-> op, on |-> p] \in S
  BY DEF Usual, Own
<1>5. \A op \in {"close", "release", "free"}, p \in MayFree(t) : [op |-> op, on |-> p] \in S
  BY DEF Usual, Own
<1> QED
  BY <1>0, <1>1, <1>2, <1>3, <1>4, <1>5 DEF Do

LEMMA SomeHolding ==
  ASSUME NEW S, NEW m, Do("lock", m) \in Seq(S), Do("unlock", m) \in Seq(S), NEW q \in Seq(S)
  PROVE  Holding(m, q) \in Seq(S)
<1>1. Do("lock", m) \o q \in Seq(S)
  BY Concat
<1> QED
  BY <1>1, Concat DEF Holding

LEMMA SomeEach ==
  ASSUME NEW S, NEW T, NEW client, NEW servers \in Seq(T), NEW op,
         \A s \in T : [op |-> op, on |-> <<client, s>>] \in S
  PROVE  ForEach(op, client, servers) \in Seq(S)
<1>1. DOMAIN servers = 1 .. Len(servers) /\ Len(servers) \in Nat
  OBVIOUS
<1>2. \A k \in 1 .. Len(servers) : servers[k] \in T
  BY ElementOfSeq
<1>3. ForEach(op, client, servers) \in [1 .. Len(servers) -> S]
  BY <1>1, <1>2 DEF ForEach
<1> QED
  BY <1>1, <1>3, SeqDef

LEMMA UsualAtPort ==
  ASSUME NEW t \in Threads, NEW S, Usual(t, S), NEW p, p[1] \in MayTouch(t)
  PROVE  AtPort(p) \in Seq(S)
<1>1. p[1] \in Clients
  BY TouchedMutex
<1>2. /\ Do("ref", p[1]) \in Seq(S) /\ Do("unref", p[1]) \in Seq(S) /\ Do("pass", p[1]) \in Seq(S)
      /\ Do("lock", p[1]) \in Seq(S) /\ Do("unlock", p[1]) \in Seq(S)
  BY <1>1, UsualDo
<1>3. Holding(p[1], Do("pass", p[1])) \in Seq(S)
  BY <1>2, SomeHolding
<1>4. Do("ref", p[1]) \o Holding(p[1], Do("pass", p[1])) \in Seq(S)
  BY <1>2, <1>3, Concat
<1>5. Do("ref", p[1]) \o Holding(p[1], Do("pass", p[1])) \o Do("unref", p[1]) \in Seq(S)
  BY <1>2, <1>4, Concat
<1>6. <<>> \in Seq(S)
  OBVIOUS
<1> QED
  BY <1>5, <1>6 DEF AtPort

LEMMA UsualFree ==
  ASSUME NEW t \in Threads, NEW S, Usual(t, S), NEW p \in MayFree(t)
  PROVE  import_free(p) \in Seq(S) /\ import_close(p) \in Seq(S)
<1>1. p[1] \in MayTouch(t) /\ p[2] \in MayTouch(t) /\ p[1] \in Clients /\ p[2] \in Clients
  BY TouchedMutex DEF MayFree
<1>2. /\ Do("ref", p[1]) \in Seq(S) /\ Do("unref", p[1]) \in Seq(S) /\ Do("pass", p[1]) \in Seq(S)
      /\ Do("pass", p[2]) \in Seq(S) /\ Do("free", p) \in Seq(S) /\ Do("unref", p[2]) \in Seq(S)
      /\ Do("lock", "import") \in Seq(S) /\ Do("unlock", "import") \in Seq(S)
  BY <1>1, UsualDo
<1>3. AtPort(p) \o Do("pass", p[2]) \in Seq(S) /\ <<>> \in Seq(S)
  BY <1>1, <1>2, UsualAtPort, Concat
<1> DEFINE first == IF imports[p] = "open" THEN AtPort(p) \o Do("pass", p[2]) ELSE <<>>
<1>4. first \in Seq(S)
  BY <1>3
<1> HIDE DEF first
<1>5. first \o Do("free", p) \in Seq(S)
  BY <1>2, <1>4, Concat
<1>6. first \o Do("free", p) \o Do("unref", p[2]) \in Seq(S)
  BY <1>2, <1>5, Concat
<1>7. import_free(p) \in Seq(S)
  BY <1>2, <1>6, SomeHolding DEF import_free, first
<1>8. Do("ref", p[1]) \o Do("pass", p[1]) \in Seq(S)
  BY <1>2, Concat
<1>9. Do("ref", p[1]) \o Do("pass", p[1]) \o Do("unref", p[1]) \in Seq(S)
  BY <1>2, <1>8, Concat
<1>10. import_close(p) \in Seq(S)
  BY <1>7, <1>9, Concat DEF import_close
<1> QED
  BY <1>7, <1>10

\* What a thread still does, up to its last release of the lock of components and
\* after that.
Ordered(t, q) == \E a \in Seq(Quick(t)), b \in Seq(Plain(t)) : q = a \o b
InOrder == \A t \in Threads : Ordered(t, todo[t])

LEMMA OrderedTail ==
  ASSUME NEW t \in Threads, NEW q, Ordered(t, q), q # <<>>
  PROVE  /\ Ordered(t, Tail(q))
         /\ \A z \in Seq(Quick(t)) : Ordered(t, z \o Tail(q))
<1>1. PICK a \in Seq(Quick(t)), b \in Seq(Plain(t)) : q = a \o b
  BY DEF Ordered
<1>2. PICK a2 \in Seq(Quick(t)), b2 \in Seq(Plain(t)) : Tail(q) = a2 \o b2
  <2>1. CASE a = <<>>
    <3>1. q = b /\ Tail(q) = <<>> \o Tail(b) /\ <<>> \in Seq(Quick(t)) /\ Tail(b) \in Seq(Plain(t))
      BY <1>1, <2>1
    <3> QED BY <3>1
  <2>2. CASE a # <<>>
    <3>1. Tail(q) = Tail(a) \o b /\ Tail(a) \in Seq(Quick(t))
      BY <1>1, <2>2
    <3> QED BY <1>1, <3>1
  <2> QED BY <2>1, <2>2
<1>3. ASSUME NEW z \in Seq(Quick(t)) PROVE Ordered(t, z \o Tail(q))
  <2>1. z \o a2 \in Seq(Quick(t))
    BY <1>2, Concat
  <2>2. z \in Seq(Own(t)) /\ a2 \in Seq(Own(t)) /\ b2 \in Seq(Own(t))
    BY <1>2, SeqLarger DEF Quick, Plain
  <2>3. z \o (a2 \o b2) = (z \o a2) \o b2
    BY <2>2, ConcatAssociative
  <2> QED BY <1>2, <2>1, <2>3 DEF Ordered
<1> QED
  BY <1>2, <1>3 DEF Ordered

\* No step of the library puts a request for the lock of queries in front.
LEMMA LibraryInOrder ==
  ASSUME LibraryOK, InOrder, NEW t \in Threads, LibraryStep(t)
  PROVE  InOrder'
<1> DEFINE x == Step(t)
           S == Quick(t)
<1>1. todo[t] # <<>> /\ todo \in [Threads -> Seq(Steps)] /\ x \in Own(t) /\ Usual(t, S)
  BY StepOwned, BothUsual DEF LibraryStep, LibraryOK, TodoOK
<1>2. Ordered(t, Tail(todo[t])) /\ \A z \in Seq(S) : Ordered(t, z \o Tail(todo[t]))
  BY <1>1, OrderedTail DEF InOrder
<1> HIDE DEF x, S
<1>3. ASSUME NEW q, Ordered(t, q), todo' = [todo EXCEPT ![t] = q] PROVE InOrder'
  BY <1>1, <1>3 DEF InOrder
<1>4. Advance(t) => InOrder'
  BY <1>2, <1>3 DEF Advance
<1>5. ASSUME NEW z \in Seq(S), Instead(t, z) PROVE InOrder'
  BY <1>2, <1>3, <1>5 DEF Instead
<1>6. /\ x.op \in {"ref", "unref", "destroy", "quit", "post", "join"} => x.on \in MayTouch(t)
      /\ x.op \in {"new", "add", "open"} => x.on \in MayImport(t)
      /\ x.op \in {"close", "release", "free"} => x.on \in MayFree(t)
  BY <1>1, StepKinds
<1>7. MayTouch(t) \subseteq Clients
  BY TouchedMutex
<1>8. CASE component_unref(t)
  <2>1. x.on \in MayTouch(t) /\ x.on \in Clients
    BY <1>6, <1>7, <1>8 DEF component_unref, x
  <2>2. /\ Do("destroy", x.on) \in Seq(S) /\ Do("lock", x.on) \in Seq(S)
        /\ Do("unlock", x.on) \in Seq(S)
    BY <1>1, <2>1, UsualDo
  <2>3. Holding(x.on, Do("destroy", x.on)) \in Seq(S)
    BY <2>2, SomeHolding
  <2>4. Do("unlock", "component") \in Seq(S)
    <3>1. [op |-> "unlock", on |-> "component"] \in S
      <4>1. [op |-> "unlock", on |-> "component"] \in Own(t)
        BY DEF Own, LockSteps, Mutexes
      <4> QED BY <4>1 DEF S, Quick, QueryRequests
    <3> QED BY <3>1 DEF Do
  <2>5. Holding(x.on, Do("destroy", x.on)) \o Do("unlock", "component") \in Seq(S)
    BY <2>3, <2>4, Concat
  <2> QED BY <1>4, <1>5, <1>8, <2>5 DEF component_unref, x
<1>9. CASE import_new(t)
  <2>1. x.on \in MayImport(t)
    BY <1>6, <1>9 DEF import_new, x
  <2>2. Do("pass", "import") \in Seq(S) /\ Do("add", x.on) \in Seq(S)
    BY <1>1, <2>1, UsualDo
  <2>3. Do("pass", "import") \o Do("add", x.on) \in Seq(S)
    BY <2>2, Concat
  <2> QED BY <1>5, <1>9, <2>3 DEF import_new, x
<1>10. CASE Close(t)
  <2>1. x.on \in MayFree(t)
    BY <1>6, <1>10 DEF Close, x
  <2>2. import_free(x.on) \in Seq(S) /\ import_close(x.on) \in Seq(S) /\ <<>> \in Seq(S)
    BY <1>1, <2>1, UsualFree
  <2> QED BY <1>5, <1>10, <2>2 DEF Close, x
<1>11. CASE component_destroy(t)
  <2>1. x.on \in MayTouch(t) /\ x.on \in Clients
    BY <1>6, <1>7, <1>11 DEF component_destroy, x
  <2>2. ImportsOf(x.on) \in Seq(MayStart(t))
    BY <2>1, ImportsOwned DEF LibraryOK
  <2>3. \A s \in MayStart(t) : [op |-> "release", on |-> <<x.on, s>>] \in S
    BY <1>1, <2>1 DEF Usual, Own, MayFree
  <2>4. ForEach("release", x.on, ImportsOf(x.on)) \in Seq(S)
    BY <2>2, <2>3, SomeEach
  <2>5. /\ Do("quit", x.on) \in Seq(S) /\ Do("lock", x.on) \in Seq(S)
        /\ Do("unlock", x.on) \in Seq(S)
    BY <1>1, <2>1, UsualDo
  <2>6. Holding(x.on, ForEach("release", x.on, ImportsOf(x.on))) \in Seq(S)
    BY <2>4, <2>5, SomeHolding
  <2>7. Holding(x.on, ForEach("release", x.on, ImportsOf(x.on))) \o Do("quit", x.on) \in Seq(S)
    BY <2>5, <2>6, Concat
  <2> QED BY <1>4, <1>5, <1>11, <2>7 DEF component_destroy, x
<1>12. CASE Quit(t)
  <2>1. x.on \in MayTouch(t)
    BY <1>6, <1>12 DEF Quit, x
  <2>2. Do("post", x.on) \in Seq(S)
    BY <1>1, <2>1, UsualDo
  <2> QED BY <1>4, <1>5, <1>12, <2>2 DEF Quit, x
<1>13. CASE Post(t)
  <2>1. x.on \in MayTouch(t)
    BY <1>6, <1>13 DEF Post, x
  <2>2. Do("join", x.on) \in Seq(S)
    BY <1>1, <2>1, UsualDo
  <2> QED BY <1>5, <1>13, <2>2 DEF Post, x
<1>14. CASE \/ Lock(t) \/ Unlock(t) \/ Pass(t) \/ component_ref(t) \/ component_init(t)
            \/ Add(t) \/ Open(t) \/ FreeImport(t) \/ Join(t)
  BY <1>4, <1>14
     DEF Lock, Unlock, Pass, component_ref, component_init, Add, Open, FreeImport, Join
<1> QED
  BY <1>8, <1>9, <1>10, <1>11, <1>12, <1>13, <1>14 DEF LibraryStep

\* The calls of the API give the lock of components back only where they took it
\* to destroy a component.
LEMMA PlainDo ==
  ASSUME NEW t \in Threads
  PROVE  /\ \A op \in {"lock", "unlock", "pass"} : Do(op, "query") \in Seq(Plain(t))
         /\ Do("pass", "component") \in Seq(Plain(t)) /\ <<>> \in Seq(Plain(t))
<1>1. /\ \A op \in {"lock", "unlock", "pass"} : [op |-> op, on |-> "query"] \in Own(t)
      /\ [op |-> "pass", on |-> "component"] \in Own(t)
  BY DEF Own, LockSteps, Mutexes
<1>2. /\ \A op \in {"lock", "unlock", "pass"} : [op |-> op, on |-> "query"] \notin Gives
      /\ [op |-> "pass", on |-> "component"] \notin Gives
  BY DEF Gives
<1>3. \A x \in Plain(t) : <<x>> \in Seq(Plain(t))
  OBVIOUS
<1> QED
  BY <1>1, <1>2, <1>3 DEF Do, Plain

LEMMA PlainQueries ==
  ASSUME NEW t \in Threads, NEW client, client \in MayTouch(t),
         {client} \X MayStart(t) \subseteq MayImport(t),
         NEW servers \in Seq(MayStart(t))
  PROVE  /\ xCOM_QueryInterface(client, servers) \in Seq(Plain(t))
         /\ ByInterface(client, query_new_fails(client)) \in Seq(Plain(t))
         /\ xCOM_QueryPort(client, servers) \in Seq(Plain(t))
         /\ ByPort(client, query_new_fails(client)) \in Seq(Plain(t))
         /\ xCOM_QueryFinish(client, servers) \in Seq(Plain(t))
<1> DEFINE S == Plain(t)
<1>1. /\ Usual(t, S) /\ client \in Clients
      /\ Do("lock", "query") \in Seq(S) /\ Do("unlock", "query") \in Seq(S)
      /\ Do("pass", "component") \in Seq(S) /\ <<>> \in Seq(S)
  BY BothUsual, PlainDo, TouchedMutex
<1> HIDE DEF S
<1>2. /\ Do("ref", client) \in Seq(S) /\ Do("unref", client) \in Seq(S)
      /\ Do("lock", client) \in Seq(S) /\ Do("unlock", client) \in Seq(S)
      /\ Do("lock", "import") \in Seq(S) /\ Do("unlock", "import") \in Seq(S)
  BY <1>1, UsualDo
<1>3. \A s \in MayStart(t) : /\ [op |-> "new", on |-> <<client, s>>] \in S
                             /\ [op |-> "close", on |-> <<client, s>>] \in S
  BY <1>1 DEF Usual, Own, MayFree
<1>4. ForEach("new", client, servers) \in Seq(S) /\ ForEach("close", client, servers) \in Seq(S)
  BY <1>3, SomeEach
<1>5. query_new(client, servers) \in Seq(S)
  <2>1. Do("ref", client) \o ForEach("new", client, servers) \in Seq(S)
    BY <1>2, <1>4, Concat
  <2> QED BY <1>1, <2>1, SomeHolding DEF query_new
<1>6. query_new_fails(client) \in Seq(S)
  <2>1. Do("ref", client) \o Do("unref", client) \in Seq(S)
    BY <1>2, Concat
  <2> QED BY <1>1, <2>1, SomeHolding DEF query_new_fails
<1>7. ASSUME NEW q \in Seq(S)
      PROVE  ByInterface(client, q) \in Seq(S) /\ ByPort(client, q) \in Seq(S)
  <2>1. Do("pass", "component") \o q \in Seq(S) /\ <<>> \o q \in Seq(S)
    BY <1>1, Concat
  <2>2. component_ref_port(client, q) \in Seq(S)
    BY <1>2, SomeHolding DEF component_ref_port
  <2>3. Do("ref", client) \o component_ref_port(client, q) \in Seq(S)
    BY <1>2, <2>2, Concat
  <2>4. Do("ref", client) \o component_ref_port(client, q) \o Do("unref", client) \in Seq(S)
    BY <1>2, <2>3, Concat
  <2> QED BY <2>1, <2>4 DEF ByInterface, ByPort
<1> DEFINE first == IF servers = <<>> THEN <<>>
                    ELSE Holding("import", ForEach("close", client, servers))
<1>8. first \in Seq(S)
  BY <1>1, <1>2, <1>4, SomeHolding
<1> HIDE DEF first
<1>9. first \o Do("unref", client) \in Seq(S)
  BY <1>2, <1>8, Concat
<1>10. xCOM_QueryFinish(client, servers) \in Seq(S)
  BY <1>1, <1>9, SomeHolding DEF xCOM_QueryFinish, first
<1> QED
  BY <1>5, <1>6, <1>7, <1>10 DEF xCOM_QueryInterface, xCOM_QueryPort, S

LEMMA PlainImports ==
  ASSUME NEW t \in Threads, NEW client, client \in MayTouch(t),
         {client} \X MayStart(t) \subseteq MayImport(t), NEW s \in MayStart(t)
  PROVE  /\ xCOM_QueryNext \o xCOM_Import(client, s) \in Seq(Plain(t))
         /\ xCOM_QueryNext \o ImportFails(client, s) \in Seq(Plain(t))
         /\ xCOM_UnImport(client, s) \in Seq(Plain(t))
<1> DEFINE S == Plain(t)
           p == <<client, s>>
<1>1. /\ Usual(t, S) /\ client \in Clients /\ s \in Clients
      /\ p \in MayImport(t) /\ p \in MayFree(t) /\ p[1] \in MayTouch(t)
      /\ Do("pass", "query") \in Seq(S)
  BY BothUsual, PlainDo, TouchedMutex DEF MayFree
<1> HIDE DEF S
<1>2. /\ Do("lock", s) \in Seq(S) /\ Do("unlock", s) \in Seq(S) /\ Do("pass", s) \in Seq(S)
      /\ Do("lock", "import") \in Seq(S) /\ Do("unlock", "import") \in Seq(S)
      /\ Do("init", s) \in Seq(S) /\ Do("open", p) \in Seq(S) /\ Do("close", p) \in Seq(S)
      /\ AtPort(p) \in Seq(S)
  BY <1>1, UsualDo, UsualAtPort
<1> HIDE DEF p
<1>3. Holding(s, Do("init", s)) \in Seq(S) /\ Holding(s, Do("pass", s)) \in Seq(S)
  BY <1>2, SomeHolding
<1>4. /\ Do("pass", "query") \o Holding(s, Do("init", s)) \in Seq(S)
      /\ Do("pass", "query") \o Holding(s, Do("pass", s)) \in Seq(S)
  BY <1>1, <1>3, Concat
<1>5. /\ Do("pass", "query") \o Holding(s, Do("init", s)) \o Do("pass", s) \in Seq(S)
      /\ Do("pass", "query") \o Holding(s, Do("pass", s)) \o Do("close", p) \in Seq(S)
  BY <1>2, <1>4, Concat
<1>6. Do("pass", "query") \o Holding(s, Do("init", s)) \o Do("pass", s) \o AtPort(p) \in Seq(S)
  BY <1>2, <1>5, Concat
<1>7. Do("pass", "query") \o Holding(s, Do("init", s)) \o Do("pass", s) \o AtPort(p)
        \o Do("open", p) \in Seq(S)
  BY <1>2, <1>6, Concat
<1>8. /\ xCOM_Import(client, s) \in Seq(S) /\ ImportFails(client, s) \in Seq(S)
      /\ xCOM_UnImport(client, s) \in Seq(S)
  BY <1>2, <1>5, <1>7, SomeHolding DEF xCOM_Import, ImportFails, xCOM_UnImport, p
<1> QED
  BY <1>1, <1>8, Concat DEF xCOM_QueryNext, S

LEMMA PlainInOrder ==
  ASSUME TodoOK, InOrder, NEW t \in Threads, NEW q \in Seq(Plain(t)), todo' = [todo EXCEPT ![t] = q]
  PROVE  InOrder'
<1>1. q = <<>> \o q /\ <<>> \in Seq(Quick(t))
  OBVIOUS
<1>2. Ordered(t, q)
  BY <1>1 DEF Ordered
<1> QED
  BY <1>2 DEF InOrder, TodoOK

LEMMA MainInOrder ==
  ASSUME ProgramOK, InOrder, MainStep
  PROVE  InOrder'
<1>1. /\ TodoOK /\ setting \in Setting /\ i \in Nat \ {0}
      /\ started \in ToSet(Applications) \cup {Nobody}
  BY DEF ProgramOK, LibraryOK, MainOK
<1>2. /\ "main" \in Threads /\ Anonymous \in MayTouch("main") /\ MayStart("main") = Components
      /\ {Anonymous} \X MayStart("main") \subseteq MayImport("main")
  BY Constants, ClientsOK
<1>3. /\ TheServices \in Seq(Components) /\ TheApplications \in Seq(Components)
      /\ \A k \in DOMAIN TheServices : TheServices[k] \in Components
      /\ \A k \in DOMAIN TheApplications : TheApplications[k] \in Components
      /\ <<>> \in Seq(Components)
  BY <1>1, TheServicesOK, ElementOfSeq
<1>4. \A q \in Seq(Components) :
        /\ xCOM_QueryInterface(Anonymous, q) \in Seq(Plain("main"))
        /\ xCOM_QueryFinish(Anonymous, q) \in Seq(Plain("main"))
  BY <1>2, PlainQueries
<1>5. ByInterface(Anonymous, query_new_fails(Anonymous)) \in Seq(Plain("main"))
  BY <1>2, <1>3, PlainQueries
<1>6. \A s \in Components :
        /\ xCOM_QueryNext \o xCOM_Import(Anonymous, s) \in Seq(Plain("main"))
        /\ xCOM_QueryNext \o ImportFails(Anonymous, s) \in Seq(Plain("main"))
        /\ xCOM_UnImport(Anonymous, s) \in Seq(Plain("main"))
  BY <1>2, PlainImports
<1>7. ASSUME NEW q \in Seq(Plain("main")), MainCalls(q) PROVE InOrder'
  BY <1>1, <1>2, <1>7, PlainInOrder DEF MainCalls
<1>8. todo' = todo => InOrder'
  BY DEF InOrder
<1>9. CASE QueryServices \/ NoArrays \/ ImportService \/ FinishServices \/ QueryApplications
             \/ ImportApplication \/ FinishApplications \/ Leave \/ DropService
  <2>1. CASE QueryServices
    BY <1>3, <1>4, <1>5, <1>7, <2>1 DEF QueryServices
  <2>2. CASE NoArrays
    BY <1>3, <1>4, <1>7, <2>2 DEF NoArrays
  <2>3. CASE ImportService
    <3>1. i \in DOMAIN TheServices
      BY <1>1, <2>3, TheServicesOK DEF ImportService
    <3> QED BY <1>3, <1>6, <1>7, <2>3, <3>1 DEF ImportService
  <2>4. CASE FinishServices
    BY <1>3, <1>4, <1>7, <2>4 DEF FinishServices
  <2>5. CASE QueryApplications
    BY <1>3, <1>4, <1>5, <1>7, <2>5 DEF QueryApplications
  <2>6. CASE ImportApplication
    <3>1. i \in DOMAIN TheApplications
      BY <1>1, <2>6, TheServicesOK DEF ImportApplication
    <3> QED BY <1>3, <1>6, <1>7, <2>6, <3>1 DEF ImportApplication
  <2>7. CASE FinishApplications
    <3>1. Len(TheApplications) \in 0 .. Len(TheApplications)
      BY <1>1, TheServicesOK
    <3>2. SubSeq(TheApplications, i, Len(TheApplications)) \in Seq(Components)
      BY <1>1, <1>3, <3>1, PartOf
    <3> QED BY <1>4, <1>7, <2>7, <3>2 DEF FinishApplications
  <2>8. CASE Leave
    <3>1. CASE started = Nobody
      BY <1>8, <2>8, <3>1 DEF Leave
    <3>2. CASE started # Nobody
      <4>1. started \in Components
        BY <1>1, <3>2, Constants DEF ToSet, Others
      <4> QED BY <1>6, <1>7, <2>8, <3>2, <4>1 DEF Leave
    <3> QED BY <3>1, <3>2
  <2>9. CASE DropService
    <3>1. i \in DOMAIN TheServices
      BY <2>9 DEF DropService, Main, ProgramOK, MainOK
    <3> QED BY <1>3, <1>6, <1>7, <2>9, <3>1 DEF DropService
  <2> QED BY <1>9, <2>1, <2>2, <2>3, <2>4, <2>5, <2>6, <2>7, <2>8, <2>9
<1>10. CASE Boot \/ StartService \/ StartFails \/ WaitService \/ StartApplication \/ ExecWaits
              \/ ExecRuns \/ ExecReturns \/ StopService \/ SkipService \/ NullHandles
              \/ WaitStopped \/ CleanUp
  BY <1>8, <1>10, MainOwnSteps
<1> QED
  BY <1>9, <1>10 DEF MainStep

LEMMA ComponentInOrder ==
  ASSUME ProgramOK, InOrder, NEW c \in Components, ComponentStep(c)
  PROVE  InOrder'
<1>1. /\ TodoOK /\ work \in [Components -> WorkStates] /\ work[c].k \in Nat \ {0}
      /\ work[c].at \in {"run", "await", "unimport"} => work[c].k \in DOMAIN Tests
  BY DEF ProgramOK, LibraryOK, WorksOK, WorkStates
<1>2. /\ DOMAIN Tests = 1 .. Len(Tests) /\ Len(Tests) \in Nat /\ Tests \in Seq(Others)
      /\ \A k \in DOMAIN Tests : Tests[k] \in Others /\ Tests[k] \in Components
      /\ <<>> \in Seq(Others)
  <2>1. Tests \in [1 .. Len(Tests) -> Others] /\ Len(Tests) \in Nat
    BY Constants
  <2>2. Tests \in Seq(Others)
    BY <2>1, SeqDef
  <2> QED BY <2>1, <2>2, Constants
<1>3. /\ c \in Threads /\ c \in MayTouch(c) /\ MayStart(c) = Others
      /\ {c} \X MayStart(c) \subseteq MayImport(c)
  BY Constants, ClientsOK
<1>4. /\ xCOM_QueryInterface(c, Tests) \in Seq(Plain(c)) /\ xCOM_QueryPort(c, Tests) \in Seq(Plain(c))
      /\ ByPort(c, query_new_fails(c)) \in Seq(Plain(c))
      /\ xCOM_QueryFinish(c, Tests) \in Seq(Plain(c)) /\ xCOM_QueryFinish(c, <<>>) \in Seq(Plain(c))
  BY <1>2, <1>3, PlainQueries
<1>5. xCOM_QueryInterface(c, Tests) \o xCOM_QueryFinish(c, Tests) \in Seq(Plain(c))
  BY <1>4, Concat
<1>6. \A s \in Others :
        /\ xCOM_QueryNext \o xCOM_Import(c, s) \in Seq(Plain(c))
        /\ xCOM_QueryNext \o ImportFails(c, s) \in Seq(Plain(c))
        /\ xCOM_UnImport(c, s) \in Seq(Plain(c))
  BY <1>3, PlainImports
<1>7. ASSUME NEW q \in Seq(Plain(c)), CompCalls(c, q) PROVE InOrder'
  BY <1>1, <1>3, <1>7, PlainInOrder DEF CompCalls
<1>8. todo' = todo => InOrder'
  BY DEF InOrder
<1>9. CASE WakesUp(c) \/ TakesCall(c) \/ CallReturns(c)
  BY <1>8, <1>9, ThreadStepsOK
<1>10. CASE ServiceAnswers(c) \/ TestAnswers(c) \/ ApplicationAnswers(c)
  BY <1>8, <1>10, AnswersOK
<1>11. CASE BeginsWork(c) \/ RunsTest(c) \/ AwaitsTest(c) \/ EndsTests(c)
  BY <1>8, <1>11 DEF BeginsWork, RunsTest, AwaitsTest, EndsTests, lockVars
<1>12. CASE Asks(c)
  BY <1>5, <1>7, <1>12 DEF Asks
<1>13. CASE QueriesTests(c)
  BY <1>4, <1>7, <1>13 DEF QueriesTests
<1>14. CASE ImportsTest(c)
  <2>1. work[c].k \in DOMAIN Tests
    BY <1>1, <1>2, <1>14 DEF ImportsTest
  <2> QED BY <1>2, <1>6, <1>7, <1>14, <2>1 DEF ImportsTest
<1>15. CASE UnImportsTest(c)
  <2>1. work[c].k \in DOMAIN Tests
    BY <1>1, <1>15 DEF UnImportsTest, Working
  <2> QED BY <1>2, <1>6, <1>7, <1>15, <2>1 DEF UnImportsTest
<1>16. CASE FinishesTests(c)
  BY <1>4, <1>7, <1>16 DEF FinishesTests
<1> QED
  BY <1>9, <1>10, <1>11, <1>12, <1>13, <1>14, <1>15, <1>16 DEF ComponentStep

\* Who has the lock of components, and does not give it back, has it in the end.
LEMMA NotGivenBack ==
  ASSUME NEW t \in Threads, NEW q \in Seq(Plain(t)), NEW a, NEW b,
         Leads(t, q, a, b), a.held["component"] > 0
  PROVE  b.held["component"] > 0
<1> DEFINE n == Len(q)
<1>1. n \in Nat /\ \A k \in 1 .. n : q[k] \in Plain(t)
  OBVIOUS
<1>2. PICK L \in [1 .. n + 1 -> Account] :
        /\ L[1] = a /\ L[n + 1] = b
        /\ \A k \in 1 .. n : Effect(t, L[k], q[k], L[k + 1])
  BY DEF Leads
<1> HIDE DEF n
<1> DEFINE Has(k) == L[k].held["component"] > 0
           Off == {k \in 1 .. n + 1 : ~Has(k)}
<1>3. ASSUME NEW k \in 1 .. n, Has(k) PROVE Has(k + 1)
  <2>1. /\ L[k] \in Account /\ L[k + 1] \in Account /\ Effect(t, L[k], q[k], L[k + 1])
        /\ q[k] \in Own(t) /\ q[k] \notin Gives
    BY <1>1, <1>2 DEF Plain
  <2>2. /\ L[k].held \in [Mutexes -> Nat] /\ L[k].held["component"] \in Nat
        /\ "component" \in Mutexes
    BY <2>1 DEF Account, Mutexes
  <2>3. CASE L[k + 1].held = L[k].held
    BY <1>3, <2>3
  <2>4. CASE L[k + 1].held # L[k].held
    <3>1. LockEffect(L[k], q[k], L[k + 1])
      BY <2>1, <2>4 DEF Effect, Ends, SameLocks
    <3>2. q[k].op = "unlock" => q[k].on # "component"
      <4>1. ASSUME q[k].op = "unlock" PROVE q[k] \in LockSteps
        BY <2>1, <4>1 DEF Own
      <4>2. ASSUME q[k].op = "unlock", q[k].on = "component" PROVE FALSE
        BY <2>1, <4>1, <4>2 DEF LockSteps, Gives
      <4> QED BY <4>2
    <3>3. CASE q[k].op = "lock" /\ L[k + 1].held = [L[k].held EXCEPT ![q[k].on] = @ + 1]
      BY <1>3, <2>2, <3>3
    <3>4. CASE q[k].op = "unlock" /\ L[k + 1].held = [L[k].held EXCEPT ![q[k].on] = @ - 1]
      BY <1>3, <2>2, <3>2, <3>4
    <3> QED BY <3>1, <3>3, <3>4 DEF LockEffect
  <2> QED BY <2>3, <2>4
<1>4. Has(1)
  BY <1>2
<1> HIDE DEF Has
<1>5. ASSUME ~Has(n + 1) PROVE FALSE
  <2>1. Off \in SUBSET Nat /\ Off # {}
    BY <1>1, <1>5
  <2>2. PICK m \in Off : \A k \in Off : m <= k
    BY <2>1, LeastNumber
  <2>3. m \in 1 .. n + 1 /\ ~Has(m) /\ m # 1
    BY <1>4, <2>2
  <2>4. m - 1 \in 1 .. n /\ m - 1 + 1 = m /\ ~(m <= m - 1)
    BY <1>1, <2>3
  <2>5. ~Has(m - 1)
    BY <1>3, <2>3, <2>4
  <2> QED BY <1>1, <2>2, <2>4, <2>5
<1> QED
  BY <1>2, <1>5 DEF Has

LEMMA ComponentFirst ==
  ASSUME InOrder, NEW G, Booked(G), NEW t \in Threads, owner["component"] = t, todo[t] # <<>>
  PROVE  ~(Step(t).op \in {"lock", "pass"} /\ Step(t).on = "query")
<1> SUFFICES ASSUME Step(t).op \in {"lock", "pass"}, Step(t).on = "query" PROVE FALSE
  OBVIOUS
<1>1. PICK a \in Seq(Quick(t)), b \in Seq(Plain(t)) : todo[t] = a \o b
  BY DEF InOrder, Ordered
<1>2. Step(t) \in Own(t)
  BY StepOwned DEF Booked
<1>3. Step(t) \in QueryRequests
  <2>1. Step(t) \in LockSteps
    BY <1>2 DEF Own
  <2> QED BY <2>1 DEF LockSteps, QueryRequests
<1>4. a = <<>>
  <2>1. a # <<>> => Step(t) = a[1] /\ a[1] \in Quick(t)
    BY <1>1 DEF Step
  <2> QED BY <1>3, <2>1 DEF Quick
<1>5. todo[t] \in Seq(Plain(t))
  BY <1>1, <1>4
<1>6. Leads(t, todo[t], G[t], AtRest(t))
  BY DEF Booked, TodoKept
<1>7. G[t].held["component"] > 0
  <2>1. "component" \in Mutexes /\ Nobody \notin Threads
    BY Constants, SpawnAssumption DEF Mutexes, Threads
  <2>2. depth["component"] \in Nat /\ depth["component"] # 0
    BY <2>1 DEF Booked, LocksKept
  <2> QED BY <2>1, <2>2 DEF Booked, LocksKept
<1>8. AtRest(t).held["component"] > 0
  BY <1>5, <1>6, <1>7, NotGivenBack
<1> QED
  BY <1>8 DEF AtRest, Acc, Mutexes

-----------------------------------------------------------------------------
(* The end of the query of applications, with one application              *)

QueryLock == [op |-> "lock", on |-> "query"]
CallerUnref == [op |-> "unref", on |-> Anonymous]
QueryUnlock == [op |-> "unlock", on |-> "query"]
FromUnref == <<CallerUnref, QueryUnlock>>
FromLock == <<QueryLock, CallerUnref, QueryUnlock>>

QueryShort ==
  setting.applications < 2 =>
    /\ at = "finish" => i > 1
    /\ at \in {"finish", "run"} => todo["main"] = <<>>
    /\ at = "exec" => todo["main"] \in {<<>>, <<QueryUnlock>>, FromUnref, FromLock}

LEMMA OneAndOne ==
  ASSUME NEW S, NEW x \in S, NEW y \in S
  PROVE  <<x>> \o <<y>> = <<x, y>>
<1> DEFINE u == <<x>>
           v == <<y>>
           w == <<x, y>>
<1>1. u \in Seq(S) /\ v \in Seq(S) /\ w \in Seq(S) /\ Len(u) = 1 /\ Len(v) = 1 /\ Len(w) = 2
      /\ u[1] = x /\ v[1] = y /\ w[1] = x /\ w[2] = y
  OBVIOUS
<1> HIDE DEF u, v, w
<1>2. /\ u \o v \in Seq(S) /\ Len(u \o v) = 2
      /\ \A k \in 1 .. 2 : (u \o v)[k] = IF k <= 1 THEN u[k] ELSE v[k - 1]
  BY <1>1, ConcatProperties
<1>3. \A k \in 1 .. 2 : (u \o v)[k] = w[k]
  BY <1>1, <1>2
<1>4. u \o v = w
  BY <1>1, <1>2, <1>3, SeqEqual
<1> QED
  BY <1>4 DEF u, v, w

LEMMA TwoAndOne ==
  ASSUME NEW S, NEW x \in S, NEW y \in S, NEW z \in S
  PROVE  <<x, y>> \o <<z>> = <<x, y, z>>
<1> DEFINE u == <<x, y>>
           v == <<z>>
           w == <<x, y, z>>
<1>1. u \in Seq(S) /\ v \in Seq(S) /\ w \in Seq(S) /\ Len(u) = 2 /\ Len(v) = 1 /\ Len(w) = 3
      /\ u[1] = x /\ u[2] = y /\ v[1] = z /\ w[1] = x /\ w[2] = y /\ w[3] = z
  OBVIOUS
<1> HIDE DEF u, v, w
<1>2. /\ u \o v \in Seq(S) /\ Len(u \o v) = Len(u) + Len(v)
      /\ \A k \in 1 .. Len(u) + Len(v) :
           (u \o v)[k] = IF k <= Len(u) THEN u[k] ELSE v[k - Len(u)]
  BY <1>1, ConcatProperties, Zenon
<1>3. Len(u \o v) = 3 /\ (u \o v)[1] = x /\ (u \o v)[2] = y /\ (u \o v)[3] = z
  BY <1>1, <1>2
<1>4. \A k \in 1 .. 3 : (u \o v)[k] = w[k]
  BY <1>1, <1>3
<1>5. u \o v = w
  BY <1>1, <1>2, <1>3, <1>4, SeqEqual
<1> QED
  BY <1>5 DEF u, v, w

LEMMA ShortTuples ==
  ASSUME NEW x, NEW y, NEW z
  PROVE  /\ <<>> \o <<y>> = <<y>>
         /\ <<x>> \o <<y>> \o <<z>> = <<x, y, z>>
         /\ Tail(<<x, y, z>>) = <<y, z>> /\ Tail(<<y, z>>) = <<z>> /\ Tail(<<z>>) = <<>>
<1> DEFINE S == {x, y, z}
<1>5. x \in S /\ y \in S /\ z \in S
  OBVIOUS
<1> HIDE DEF S
<1>1. <<x>> \o <<y>> = <<x, y>> /\ <<x, y>> \o <<z>> = <<x, y, z>>
  BY <1>5, OneAndOne, TwoAndOne
<1>2. <<>> \o <<y>> = <<y>>
  BY <1>5
<1>3. Tail(<<x, y, z>>) = <<y, z>>
  BY <1>5
<1>4. Tail(<<y, z>>) = <<z>> /\ Tail(<<z>>) = <<>>
  BY <1>5
<1> QED
  BY <1>1, <1>2, <1>3, <1>4, Zenon

LEMMA FinishNothing == xCOM_QueryFinish(Anonymous, <<>>) = FromLock
<1>1. <<>> \o <<CallerUnref>> = <<CallerUnref>>
  BY ShortTuples
<1>4. <<QueryLock>> \o <<CallerUnref>> \o <<QueryUnlock>> = <<QueryLock, CallerUnref, QueryUnlock>>
  <2> DEFINE S == {QueryLock, CallerUnref, QueryUnlock}
  <2>1. QueryLock \in S /\ CallerUnref \in S /\ QueryUnlock \in S
    OBVIOUS
  <2> HIDE DEF S
  <2>2. <<QueryLock>> \o <<CallerUnref>> = <<QueryLock, CallerUnref>>
    BY <2>1, OneAndOne
  <2>3. <<QueryLock, CallerUnref>> \o <<QueryUnlock>> = <<QueryLock, CallerUnref, QueryUnlock>>
    BY <2>1, TwoAndOne
  <2> QED BY <2>2, <2>3
<1>2. /\ Do("lock", "query") = <<QueryLock>> /\ Do("unref", Anonymous) = <<CallerUnref>>
      /\ Do("unlock", "query") = <<QueryUnlock>>
  BY DEF Do, QueryLock, CallerUnref, QueryUnlock
<1>3. xCOM_QueryFinish(Anonymous, <<>>) = <<QueryLock>> \o (<<>> \o <<CallerUnref>>) \o <<QueryUnlock>>
  BY <1>2 DEF xCOM_QueryFinish, Holding
<1> QED
  BY <1>1, <1>3, <1>4 DEF FromLock

LEMMA ShortMain ==
  ASSUME ProgramOK, QueryShort, MainStep
  PROVE  QueryShort'
<1>1. /\ setting \in Setting /\ i \in Nat \ {0} /\ TodoOK /\ "main" \in Threads
      /\ todo["main"] = <<>>
  BY MainCommon, Constants DEF ProgramOK, LibraryOK, MainOK
<1> USE DEF Main, GoOn, locksAlone, lockVars, threadsAlone, answerVars
<1>2. CASE Boot \/ QueryServices \/ NoArrays \/ ImportService \/ StartService \/ StartFails
             \/ WaitService \/ FinishServices \/ QueryApplications \/ ImportApplication
  <2>1. at' \notin {"finish", "run", "exec"}
    BY <1>2 DEF Boot, QueryServices, NoArrays, ImportService, StartService, StartFails,
       WaitService, MainWaits, FinishServices, QueryApplications, ImportApplication
  <2> QED BY <2>1 DEF QueryShort
<1>3. CASE StartApplication
  <2>1. at' = "finish" /\ i' = i + 1 /\ todo' = todo
    BY <1>3 DEF StartApplication
  <2> QED BY <1>1, <2>1 DEF QueryShort
<1>4. CASE FinishApplications
  <2>1. at' \in {"exec", "leave"} /\ setting' = setting
    BY <1>4 DEF FinishApplications
  <2>2. ASSUME setting.applications < 2 PROVE todo'["main"] = FromLock
    <3>1. TheApplications \in Seq(Components) /\ Len(TheApplications) \in Nat
      BY <1>1, Lists
    <3>5. Len(TheApplications) = setting.applications /\ setting.applications \in Nat
      <4>1. setting.applications \in 0 .. Len(Applications)
        BY <1>1 DEF Setting
      <4>2. Applications \in Seq(Components)
        BY SpawnAssumption
      <4> QED BY <4>1, <4>2 DEF TheApplications
    <3>2. i > Len(TheApplications)
      BY <1>1, <1>4, <2>2, <3>1, <3>5 DEF FinishApplications, QueryShort
    <3>3. SubSeq(TheApplications, i, Len(TheApplications)) = <<>>
      BY <1>1, <3>1, <3>2
    <3>4. todo'["main"] = xCOM_QueryFinish(Anonymous, <<>>)
      BY <1>1, <1>4, <3>3 DEF FinishApplications, MainCalls, TodoOK
    <3> QED BY <3>4, FinishNothing
  <2> QED BY <2>1, <2>2 DEF QueryShort
<1>5. CASE ExecWaits \/ ExecRuns \/ ExecReturns
  <2>1. at' \in {"run", "leave"} /\ todo' = todo
    BY <1>5 DEF ExecWaits, ExecRuns, ExecReturns
  <2> QED BY <1>1, <2>1 DEF QueryShort
<1>6. CASE Leave \/ StopService \/ SkipService \/ NullHandles \/ WaitStopped \/ DropService
             \/ CleanUp
  <2>1. at' \notin {"finish", "run", "exec"}
    BY <1>6 DEF Leave, StopService, SkipService, NullHandles, mainVars, WaitStopped, MainWaits,
       DropService, CleanUp
  <2> QED BY <2>1 DEF QueryShort
<1> QED
  BY <1>2, <1>3, <1>4, <1>5, <1>6 DEF MainStep

LEMMA ShortSame ==
  ASSUME QueryShort, UNCHANGED <<setting, at, i>>, todo'["main"] = todo["main"]
  PROVE  QueryShort'
BY DEF QueryShort

LEMMA ShortLibrary ==
  ASSUME LibraryOK, NEW G, Booked(G), QueryShort, InLibrary("main")
  PROVE  QueryShort'
<1>1. /\ UNCHANGED <<setting, at, i>> /\ LibraryStep("main") /\ todo["main"] # <<>>
      /\ "main" \in Threads /\ todo \in [Threads -> Seq(Steps)]
  BY Constants DEF InLibrary, LibraryStep, spawnVars, mainVars, LibraryOK, TodoOK
<1> SUFFICES ASSUME setting.applications < 2, at = "exec"
             PROVE  todo'["main"] \in {<<>>, <<QueryUnlock>>, FromUnref}
  BY <1>1 DEF QueryShort
<1>2. todo["main"] \in {<<QueryUnlock>>, FromUnref, FromLock}
  BY <1>1 DEF QueryShort
<1>3. Tail(todo["main"]) \in {<<>>, <<QueryUnlock>>, FromUnref}
  <2>1. /\ Tail(FromLock) = FromUnref /\ Tail(FromUnref) = <<QueryUnlock>>
        /\ Tail(<<QueryUnlock>>) = <<>>
    BY ShortTuples DEF FromLock, FromUnref
  <2> QED BY <1>2, <2>1
<1>4. Advance("main") => todo'["main"] = Tail(todo["main"])
  BY <1>1 DEF Advance
<1>5. Step("main") \in {QueryLock, CallerUnref, QueryUnlock}
  BY <1>2 DEF Step, FromLock, FromUnref
<1>6. CASE component_unref("main")
  <2>1. Step("main") = CallerUnref
    BY <1>5, <1>6 DEF component_unref, QueryLock, CallerUnref, QueryUnlock
  <2>2. /\ Leads("main", todo["main"], G["main"], AtRest("main"))
        /\ G \in [Threads -> Account] /\ RefsKept(G) /\ todo["main"] \in Seq(Steps)
    BY <1>1 DEF Booked, TodoKept
  <2>3. PICK b \in Account : Effect("main", G["main"], CallerUnref, b)
    BY <1>1, <2>1, <2>2, LeadsFirst DEF Step
  <2>4. RefEffect(G["main"], CallerUnref, b)
    BY <2>3, EffectOf DEF CallerUnref
  <2>5. G["main"].refs[Anonymous] > 0
    BY <2>4 DEF RefEffect, CallerUnref
  <2>6. refs[Anonymous] # 1
    BY <1>1, <2>2, <2>5, ProgramHeld
  <2>7. Advance("main")
    BY <1>6, <2>1, <2>6 DEF component_unref, CallerUnref
  <2> QED BY <1>3, <1>4, <2>7
<1>7. CASE Lock("main") \/ Unlock("main")
  BY <1>3, <1>4, <1>7 DEF Lock, Unlock
<1>8. CASE ~(component_unref("main") \/ Lock("main") \/ Unlock("main"))
  BY <1>1, <1>5, <1>8
     DEF LibraryStep, Pass, component_ref, component_init, component_destroy, import_new, Add,
         Open, Close, FreeImport, Quit, Post, Join, QueryLock, CallerUnref, QueryUnlock
<1> QED
  BY <1>6, <1>7, <1>8

-----------------------------------------------------------------------------
(* Who waits for whom                                                      *)

LEMMA AwaitedBy ==
  ASSUME NEW t \in Threads, NEW u \in Threads, Awaited(t) = u
  PROVE  /\ todo[t] # <<>> /\ u # t
         /\ \/ Step(t).op \in {"lock", "pass"} /\ owner[Step(t).on] = u
            \/ Step(t).op \in {"ref", "unref", "new"} /\ owner["component"] = u
            \/ Step(t).op = "add" /\ owner[Step(t).on[1]] = u
            \/ Step(t).op = "join" /\ Step(t).on = u
<1>1. Nobody \notin Threads
  BY Constants, SpawnAssumption DEF Threads
<1> DEFINE x == Step(t)
<1> HIDE DEF x
<1>2. CASE todo[t] = <<>>
  BY <1>1, <1>2 DEF Awaited
<1>3. CASE todo[t] # <<>> /\ x.op \in {"lock", "pass"} /\ ~Free(t, x.on)
  BY <1>3 DEF Awaited, Free, x
<1>4. CASE todo[t] # <<>> /\ x.op \in {"ref", "unref", "new"} /\ ~Free(t, "component")
  BY <1>4 DEF Awaited, Free, x
<1>5. CASE todo[t] # <<>> /\ x.op = "add" /\ ~Free(t, x.on[1])
  BY <1>5 DEF Awaited, Free, x
<1>6. CASE todo[t] # <<>> /\ x.op = "join" /\ t # x.on /\ Alive(x.on)
  BY <1>6 DEF Awaited, x
<1>7. CASE /\ todo[t] # <<>>
           /\ ~(x.op \in {"lock", "pass"} /\ ~Free(t, x.on))
           /\ ~(x.op \in {"ref", "unref", "new"} /\ ~Free(t, "component"))
           /\ ~(x.op = "add" /\ ~Free(t, x.on[1]))
           /\ ~(x.op = "join" /\ t # x.on /\ Alive(x.on))
  <2>1. Awaited(t) = Nobody
    BY <1>7 DEF Awaited, x
  <2> QED BY <1>1, <2>1
<1> QED
  BY <1>2, <1>3, <1>4, <1>5, <1>6, <1>7

\* One thread of a component is in a call of the library at a time.
LEMMA OneCaller ==
  ASSUME Orderly, NEW c \in Components, todo[c] # <<>>
  PROVE  /\ \A d \in Components : todo[d] # <<>> => d = c
         /\ todo["main"] # <<>> => at \in {"finish", "exec", "run"}
<1>1. /\ OneCall /\ RolesKept /\ TestCalls
      /\ AppSet \cap TestSet = {} /\ ServiceSet \cap AppSet = {} /\ ServiceSet \cap TestSet = {}
  BY OrderlyOK, AllRoles DEF Orderly
<1>2. \A d \in Components : todo[d] # <<>> => ~Idle(d)
  BY DEF Idle, Resting
<1>3. ASSUME NEW d \in ServiceSet, todo[d] # <<>>
      PROVE  d = TheServices[i] /\ at \in {"wait", "stopped"} /\ todo["main"] = <<>>
  BY <1>1, <1>3 DEF OneCall, Awaiting, Quiet, Resting
<1>4. ASSUME NEW d \in AppSet, todo[d] # <<>>
      PROVE  at \in {"finish", "exec", "run"} /\ d = started
  BY <1>2, <1>4, AllRoles, OneDriver
<1>5. ASSUME NEW s \in TestSet, todo[s] # <<>>
      PROVE  \E d \in AppSet : /\ ~Idle(d) /\ todo[d] = <<>> /\ d = started
                               /\ at \in {"finish", "exec", "run"} /\ Tests[work[d].k] = s
  <2>1. ~Idle(s)
    BY <1>2, <1>5, AllRoles
  <2>2. PICK d \in AppSet : work[d].at = "await" /\ Tests[work[d].k] = s
    BY <1>1, <2>1 DEF TestCalls
  <2>3. ~Idle(d) /\ todo[d] = <<>>
    BY <1>1, <2>2 DEF TestCalls, Idle, Resting
  <2>4. d = started /\ at \in {"finish", "exec", "run"}
    BY <2>3, OneDriver
  <2> QED BY <2>2, <2>3, <2>4
<1>6. ASSUME NEW d \in Components, todo[d] # <<>>
      PROVE  d \in ServiceSet \cup AppSet \cup TestSet
  BY <1>1, <1>2, <1>6 DEF RolesKept
<1> QED
  BY <1>3, <1>4, <1>5, <1>6

LEMMA OwnerHolds ==
  ASSUME NEW G, Booked(G), NEW t \in Threads, NEW m \in Mutexes, owner[m] = t
  PROVE  G[t].held[m] # 0
<1>1. Nobody \notin Threads
  BY Constants, SpawnAssumption DEF Threads
<1> QED
  BY <1>1 DEF Booked, LocksKept

\* What main() holds before each step of the end of the query.
LEMMA HeldAtEnd ==
  ASSUME NEW G, Booked(G)
  PROVE  /\ todo["main"] = FromUnref => \A m \in Mutexes \ {"query"} : G["main"].held[m] = 0
         /\ todo["main"] = FromLock => \A m \in Mutexes : G["main"].held[m] = 0
<1> DEFINE S == {QueryLock, CallerUnref, QueryUnlock}
           Rest0 == AtRest("main")
<1>1. /\ "main" \in Threads /\ G["main"] \in Account /\ "query" \in Mutexes
      /\ Leads("main", todo["main"], G["main"], Rest0)
  BY Constants DEF Booked, TodoKept, Mutexes
<1>2. \A m \in Mutexes : Rest0.held[m] = 0
  BY DEF AtRest, Acc
<1>3. /\ <<QueryUnlock>> \in Seq(S) /\ FromUnref \in Seq(S) /\ FromLock \in Seq(S)
      /\ <<QueryUnlock>> # <<>> /\ FromUnref # <<>> /\ FromLock # <<>>
      /\ Head(<<QueryUnlock>>) = QueryUnlock /\ Head(FromUnref) = CallerUnref
      /\ Head(FromLock) = QueryLock
  BY DEF FromUnref, FromLock
<1>4. /\ Tail(FromLock) = FromUnref /\ Tail(FromUnref) = <<QueryUnlock>>
      /\ Tail(<<QueryUnlock>>) = <<>>
  BY ShortTuples DEF FromLock, FromUnref
<1>5. \A a \in Account : a.held \in [Mutexes -> Nat]
  BY DEF Account
<1> HIDE DEF S, Rest0
<1>6. ASSUME NEW a \in Account, Leads("main", <<QueryUnlock>>, a, Rest0)
      PROVE  (\A m \in Mutexes \ {"query"} : a.held[m] = 0) /\ a.held["query"] = 1
  <2>1. PICK b \in Account : Effect("main", a, QueryUnlock, b) /\ Leads("main", <<>>, b, Rest0)
    BY <1>3, <1>4, <1>6, LeadsFirst
  <2>2. b = Rest0
    BY <2>1, LeadsNowhere
  <2>3. a.held["query"] > 0 /\ b.held = [a.held EXCEPT !["query"] = @ - 1]
    <3>1. LockEffect(a, QueryUnlock, b)
      BY <2>1, EffectOf DEF QueryUnlock
    <3> QED BY <3>1 DEF LockEffect, QueryUnlock
  <2> QED BY <1>1, <1>2, <1>5, <2>2, <2>3
<1>7. ASSUME NEW a \in Account, Leads("main", FromUnref, a, Rest0)
      PROVE  (\A m \in Mutexes \ {"query"} : a.held[m] = 0) /\ a.held["query"] = 1
  <2>1. PICK b \in Account : /\ Effect("main", a, CallerUnref, b)
                             /\ Leads("main", <<QueryUnlock>>, b, Rest0)
    BY <1>3, <1>4, <1>7, LeadsFirst
  <2>2. b.held = a.held
    BY <2>1, EffectOf DEF SameLocks, CallerUnref
  <2> QED BY <1>6, <2>1, <2>2
<1>8. ASSUME NEW a \in Account, Leads("main", FromLock, a, Rest0)
      PROVE  \A m \in Mutexes : a.held[m] = 0
  <2>1. PICK b \in Account : Effect("main", a, QueryLock, b) /\ Leads("main", FromUnref, b, Rest0)
    BY <1>3, <1>4, <1>8, LeadsFirst
  <2>2. b.held = [a.held EXCEPT !["query"] = @ + 1]
    <3>1. LockEffect(a, QueryLock, b)
      BY <2>1, EffectOf DEF QueryLock
    <3> QED BY <3>1 DEF LockEffect, QueryLock
  <2>3. (\A m \in Mutexes \ {"query"} : b.held[m] = 0) /\ b.held["query"] = 1
    BY <1>7, <2>1
  <2> QED BY <1>1, <1>5, <2>2, <2>3
<1> QED
  BY <1>1, <1>7, <1>8

\* main() and the thread of a component do not wait for each other.
LEMMA NoPair ==
  ASSUME Orderly, InOrder, QueryShort, setting.applications < 2, NEW w \in Components,
         Awaited("main") = w, Awaited(w) = "main"
  PROVE  FALSE
<1>1. /\ "main" \in Threads /\ w \in Threads /\ Components \subseteq Threads
      /\ Clients \subseteq Mutexes /\ Nobody \notin Threads
  BY Constants, SpawnAssumption DEF Threads
<1>2. PICK G : Booked(G)
  BY SomeBooked DEF Orderly
<1>3. /\ todo["main"] # <<>> /\ todo[w] # <<>>
      /\ \/ Step("main").op \in {"lock", "pass"} /\ owner[Step("main").on] = w
         \/ Step("main").op \in {"ref", "unref", "new"} /\ owner["component"] = w
         \/ Step("main").op = "add" /\ owner[Step("main").on[1]] = w
         \/ Step("main").op = "join" /\ Step("main").on = w
  BY <1>1, AwaitedBy
<1>4. at \in {"finish", "exec", "run"}
  BY <1>3, OneCaller
<1>5. todo["main"] \in {<<QueryUnlock>>, FromUnref, FromLock}
  BY <1>3, <1>4 DEF QueryShort
<1>6. PICK m \in Mutexes :
        /\ owner[m] = "main"
        /\ m = "query" => Step(w).op \in {"lock", "pass"} /\ Step(w).on = "query"
  <2>1. \/ Step(w).op \in {"lock", "pass"} /\ owner[Step(w).on] = "main"
        \/ Step(w).op \in {"ref", "unref", "new"} /\ owner["component"] = "main"
        \/ Step(w).op = "add" /\ owner[Step(w).on[1]] = "main"
        \/ Step(w).op = "join" /\ Step(w).on = "main"
    BY <1>1, AwaitedBy
  <2>2. Step(w) \in Own(w)
    BY <1>1, <1>2, <1>3, StepOwned DEF Booked
  <2>3. MayTouch(w) \subseteq Components
    BY Constants DEF MayTouch
  <2>4. CASE Step(w).op \in {"lock", "pass"} /\ owner[Step(w).on] = "main"
    BY <1>1, <2>2, <2>4, StepKinds
  <2>5. CASE Step(w).op \in {"ref", "unref", "new"} /\ owner["component"] = "main"
    <3>1. "component" \in Mutexes /\ "component" # "query"
      BY DEF Mutexes
    <3> QED BY <2>5, <3>1
  <2>6. CASE Step(w).op = "add" /\ owner[Step(w).on[1]] = "main"
    <3>1. Step(w).on \in MayImport(w)
      BY <1>1, <2>2, <2>6, StepKinds
    <3>2. Step(w).on[1] \in Clients
      BY <2>3, <3>1, Constants DEF MayImport
    <3>3. "query" \notin Clients
      BY LocksAssumption
    <3> QED BY <1>1, <2>6, <3>2, <3>3
  <2>7. CASE Step(w).op = "join" /\ Step(w).on = "main"
    <3>1. Step(w).on \in MayTouch(w)
      BY <1>1, <2>2, <2>7, StepKinds
    <3> QED BY <2>3, <2>7, <3>1, Constants
  <2> QED BY <2>1, <2>4, <2>5, <2>6, <2>7
<1>7. G["main"].held[m] # 0
  BY <1>1, <1>2, <1>6, OwnerHolds
<1>8. CASE todo["main"] = <<QueryUnlock>>
  <2>1. Step("main").op = "unlock"
    BY <1>8 DEF Step, QueryUnlock
  <2> QED BY <1>3, <2>1
<1>9. CASE todo["main"] = FromUnref
  <2>1. m = "query"
    BY <1>2, <1>7, <1>9, HeldAtEnd
  <2>2. Step("main").op = "unref"
    BY <1>9 DEF Step, FromUnref, CallerUnref
  <2>3. owner["component"] = w
    BY <1>3, <2>2
  <2> QED BY <1>1, <1>2, <1>3, <1>6, <2>1, <2>3, ComponentFirst
<1>10. CASE todo["main"] = FromLock
  BY <1>2, <1>7, <1>10, HeldAtEnd
<1> QED
  BY <1>5, <1>8, <1>9, <1>10

LEMMA NobodyWaits ==
  ASSUME Orderly, InOrder, QueryShort, setting.applications < 2
  PROVE  ~Deadlocked
<1> SUFFICES ASSUME NEW S \in SUBSET Threads, S # {}, \A t \in S : Awaited(t) \in S
             PROVE  FALSE
  BY DEF Deadlocked
<1>1. \A t \in S : t \in Threads /\ Awaited(t) \in S /\ todo[t] # <<>> /\ Awaited(t) # t
  BY AwaitedBy
<1>2. \A c, d \in S : c # "main" /\ d # "main" => c = d
  <2>1. \A c \in S : c # "main" => c \in Components
    BY DEF Threads
  <2> QED BY <1>1, <2>1, OneCaller
<1>3. \E w \in S : w # "main" /\ Awaited(w) = "main"
  BY <1>1, <1>2
<1>4. PICK w \in S : w # "main" /\ Awaited(w) = "main"
  BY <1>3
<1>5. w \in Components /\ Awaited("main") = w
  BY <1>1, <1>2, <1>4 DEF Threads
<1> QED
  BY <1>4, <1>5, NoPair

\* Once a fault ended the program, its threads are as they were before.
DeadInv == UsedInv /\ InOrder /\ QueryShort /\ (fault # "none" => NoDeadlock)

LEMMA DeadNoDeadlock ==
  ASSUME UsedInv, InOrder, QueryShort, fault = "none"
  PROVE  NoDeadlock
<1>1. ASSUME AllPolite PROVE Orderly
  BY <1>1 DEF Orderly, UsedInv, PoliteInv
<1> QED
  BY <1>1, NobodyWaits DEF NoDeadlock

LEMMA SameThreads ==
  ASSUME NoDeadlock, UNCHANGED <<setting, todo, owner, thread>>
  PROVE  NoDeadlock'
<1>1. AllPolite' => AllPolite
  BY DEF AllPolite, Polite, AnswersLast
<1>2. \A t : Awaited(t)' = Awaited(t)
  BY DEF Awaited, Step, Free, Alive
<1>3. Deadlocked' => Deadlocked
  BY <1>2 DEF Deadlocked
<1> QED
  BY <1>1, <1>3 DEF NoDeadlock

LEMMA DeadInit == SpawnInit => DeadInv
<1> SUFFICES ASSUME SpawnInit PROVE DeadInv
  OBVIOUS
<1> USE DEF SpawnInit, LocksInit, CallQueueInit
<1>1. UsedInv
  BY UsedInit
<1>2. InOrder
  <2>1. ASSUME NEW t \in Threads PROVE Ordered(t, todo[t])
    <3>1. todo[t] = <<>> \o <<>> /\ <<>> \in Seq(Quick(t)) /\ <<>> \in Seq(Plain(t))
      OBVIOUS
    <3> QED BY <3>1 DEF Ordered
  <2> QED BY <2>1 DEF InOrder
<1>3. QueryShort
  BY DEF QueryShort
<1> QED
  BY <1>1, <1>2, <1>3 DEF DeadInv

LEMMA DeadStutter ==
  ASSUME DeadInv, Still
  PROVE  DeadInv'
<1>1. UNCHANGED <<setting, todo, owner, thread, at, i>>
  BY DEF Still, queueVars, spawnVars, mainVars
<1>2. UsedInv'
  BY UsedStutter DEF DeadInv
<1>3. InOrder'
  BY <1>1 DEF DeadInv, InOrder
<1>4. QueryShort'
  BY <1>1, ShortSame DEF DeadInv
<1>5. NoDeadlock'
  <2>1. NoDeadlock
    BY DeadNoDeadlock DEF DeadInv
  <2> QED BY <1>1, <2>1, SameThreads DEF NoDeadlock, AllPolite, Polite
<1> QED
  BY <1>2, <1>3, <1>4, <1>5 DEF DeadInv

LEMMA DeadStep ==
  ASSUME DeadInv, SpawnNext
  PROVE  DeadInv'
<1>0. SUFFICES ASSUME ~Still PROVE DeadInv'
  BY DeadStutter
<1>cases. \/ MainStep \/ \E c \in Components : ComponentStep(c)
          \/ \E t \in Threads : InLibrary(t)
  BY <1>0, StepCases DEF DeadInv, UsedInv, SpawnInv, ProgramOK, MainOK
<1>1. UsedInv'
  BY UsedStep DEF DeadInv
<1>2. /\ ProgramOK /\ LibraryOK /\ InOrder /\ QueryShort /\ UsedInv /\ SpawnInv
      /\ setting' = setting
  BY SettingSame DEF DeadInv, UsedInv, SpawnInv, ProgramOK
<1>3. fault = "none"
  <2>1. MainStep => fault = "none"
    BY <1>2, MainCommon
  <2>2. \A c \in Components : ComponentStep(c) => fault = "none"
    BY <1>2, ComponentOthers
  <2> QED BY <1>cases, <2>1, <2>2 DEF InLibrary
<1>4. NoDeadlock
  BY <1>2, <1>3, DeadNoDeadlock
<1>5. InOrder' /\ QueryShort'
  <2>1. CASE MainStep
    BY <1>2, <2>1, MainInOrder, ShortMain
  <2>2. ASSUME NEW c \in Components, ComponentStep(c) PROVE InOrder' /\ QueryShort'
    <3>1. UNCHANGED <<setting, at, i>> /\ todo'["main"] = todo["main"]
      BY <1>2, <2>2, ComponentMain
    <3> QED BY <1>2, <2>2, <3>1, ComponentInOrder, ShortSame
  <2>3. ASSUME NEW t \in Threads, InLibrary(t) PROVE InOrder' /\ QueryShort'
    <3>1. LibraryStep(t) /\ UNCHANGED <<setting, at, i>>
      BY <2>3 DEF InLibrary, spawnVars, mainVars
    <3>2. InOrder'
      BY <1>2, <3>1, LibraryInOrder
    <3>3. CASE t = "main"
      <4>1. PICK G : Booked(G)
        BY <1>2, SomeBooked
      <4> QED BY <1>2, <2>3, <3>2, <3>3, <4>1, ShortLibrary
    <3>4. CASE t # "main"
      <4>1. t \in Components
        BY <3>4 DEF Threads
      <4>2. todo'["main"] = todo["main"]
        BY <1>2, <3>1, <3>4, <4>1, LibraryQueues, Constants
      <4> QED BY <1>2, <3>1, <3>2, <4>2, ShortSame
    <3> QED BY <3>3, <3>4
  <2> QED BY <1>cases, <2>1, <2>2, <2>3
<1>6. ASSUME fault' # "none" PROVE NoDeadlock'
  <2>1. ASSUME AllPolite' PROVE NullHandles
    <3>1. Orderly
      <4>1. AllPolite
        BY <1>2, <2>1 DEF AllPolite, Polite, AnswersLast
      <4> QED BY <1>2, <1>3, <4>1 DEF Orderly, UsedInv, PoliteInv
    <3>2. MainStep /\ ~NullHandles => fault' = "none"
      BY <3>1, MainGoes
    <3>3. \A c \in Components : ComponentStep(c) => fault' = "none"
      BY <3>1, ComponentOrder
    <3>4. \A t \in Threads : InLibrary(t) => fault' = "none"
      BY <3>1, LibraryFault
    <3> QED BY <1>cases, <1>6, <3>2, <3>3, <3>4
  <2>2. NullHandles => UNCHANGED <<setting, todo, owner, thread>>
    BY DEF NullHandles, queueVars
  <2> QED BY <1>4, <2>1, <2>2, SameThreads DEF NoDeadlock
<1> QED
  BY <1>1, <1>5, <1>6 DEF DeadInv

\* For any number of services and tests, in both builds: with one application, and
\* components that answer once, as the last thing they do, no set of threads waits
\* for each other in the mutexes of the library or to join a thread, in whatever
\* order their calls are scheduled.
THEOREM SpawnNoDeadlock == SpawnSpec => []NoDeadlock
<1>1. SpawnInit => DeadInv
  BY DeadInit
<1>2. DeadInv /\ [SpawnNext]_vars => DeadInv'
  BY DeadStep, DeadStutter, StutterStill
<1>3. DeadInv => NoDeadlock
  BY DeadNoDeadlock DEF DeadInv
<1> QED
  BY <1>1, <1>2, <1>3, PTL DEF SpawnSpec
=============================================================================
