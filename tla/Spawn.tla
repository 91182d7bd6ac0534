------------------------------- MODULE Spawn -------------------------------
(***************************************************************************)
(* The spawn program (spawn.c), the services and applications it starts,   *)
(* and an application that is the test driver (test.c), each in a thread   *)
(* of its own: the calls that are queued, the answers that are awaited on  *)
(* semaphores (semaphore.c), and the run loop (init.c) in both builds.     *)
(*                                                                         *)
(* A method is what its component makes of it: a sequence of answers, by   *)
(* the result or the error callback, and of work for which the API is      *)
(* called.  The work of an application is run_all_single(); a service asks *)
(* for the tests.  Components are installed so that a query finds the      *)
(* first ones of each role.                                                *)
(***************************************************************************)
EXTENDS Locks, FiniteSets, Integers

CONSTANTS
  Services, Applications, Tests,  \* sequences of components
  Settings                        \* what may be installed

Items == {"answer", "work"}

\* The build, how many of the services and applications are there, and what the
\* methods of each component do.
Setting == [glib : BOOLEAN, services : 0 .. Len(Services), applications : 0 .. Len(Applications),
            habit : [Components -> Seq(Items)]]

\* A component is called, and answers, in one role only, so that one driver runs at
\* a time; a query finds each component once, since the port for its role is one.
ASSUME SpawnAssumption ==
  /\ Services \in Seq(Components) /\ Applications \in Seq(Components)
  /\ Tests \in Seq(Components)
  /\ IsInjective(Services) /\ IsInjective(Applications) /\ IsInjective(Tests)
  /\ ToSet(Services) \cap (ToSet(Applications) \cup ToSet(Tests)) = {}
  /\ ToSet(Applications) \cap ToSet(Tests) = {}
  /\ Settings \subseteq Setting
  /\ IsFiniteSet(Components) /\ {"Start", "Stop", "Run"} \subseteq Methods
  /\ Components \cap {Anonymous, Nobody, "main"} = {} /\ Nobody # "main"

VARIABLES
  setting,    \* the build, how many services and applications, what methods do
  at, i,      \* main(): its next statement, and its loop counter
  result,     \* main(): result is XC_OK
  handles,    \* main(): the services of which the handle is valid
  started,    \* main(): the application that was imported, or Nobody
  sems,       \* the semaphore of main() and that of test.c, NoSem unless initialised
  runSem,     \* POSIX build: the run semaphore
  running,    \* GLib build: the main loop runs
  agenda,     \* what the method under way still does
  work,       \* the work of each component: its next statement and loop counter
  accepted,   \* history: the calls main() made of each component
  answered,   \* history: the answers of each component
  lost        \* history: a call to xCOM_Quit, or a call that there was no memory for

mainVars == <<at, i, result, handles, started>>
answerVars == <<sems, runSem, running, answered, lost>>
workVars == <<agenda, work>>
spawnVars == <<setting, mainVars, answerVars, workVars, accepted>>
vars == <<queueVars, lockVars, spawnVars>>

NoSem == -1
TheServices == SubSeq(Services, 1, setting.services)
TheApplications == SubSeq(Applications, 1, setting.applications)

Calm(t) == todo[t] = <<>>
Main(statement) == at = statement /\ Calm("main") /\ fault = "none"
MainCalls(steps) == todo' = [todo EXCEPT !["main"] = steps]
GoOn(statement, n) == at' = statement /\ i' = n

locksAlone == <<owner, depth, cstate, refs, imports, fault>>
threadsAlone == <<setting, answerVars, workVars, queueVars>>

-----------------------------------------------------------------------------
(* main(): services *)

\* xCOM_Init and the bundles of the command line: on an error, nothing starts.
Boot ==
  /\ Main("boot")
  /\ \E ok \in BOOLEAN :
       /\ result' = ok
       /\ GoOn(IF ok THEN "services" ELSE "clean", 1)
       /\ sems' = [sems EXCEPT !["main"] = IF ok THEN 0 ELSE NoSem]
  /\ UNCHANGED <<handles, started, setting, runSem, running, answered, lost, workVars,
                 queueVars, lockVars, accepted>>

\* Without memory for the query, the count of services stays 0.
QueryServices ==
  /\ Main("services")
  /\ \/ /\ MainCalls(xCOM_QueryInterface(Anonymous, TheServices))
        /\ GoOn("service", 1)
        /\ result' = TRUE
     \/ /\ MainCalls(ByInterface(Anonymous, query_new_fails(Anonymous)))
        /\ GoOn("clean", 1)
        /\ result' = FALSE
  /\ UNCHANGED <<handles, started, locksAlone, threadsAlone, accepted>>

\* malloc() fails: the arrays are NULL, the count is that of the services.
NoArrays ==
  /\ Main("service") /\ i = 1 /\ TheServices # <<>>
  /\ handles = {}
  /\ handles' = {Nobody}
  /\ result' = FALSE
  /\ MainCalls(xCOM_QueryFinish(Anonymous, TheServices))
  /\ GoOn("stop", 1)
  /\ UNCHANGED <<started, locksAlone, threadsAlone, accepted>>

ImportService ==
  /\ Main("service") /\ i <= Len(TheServices)
  /\ \/ /\ MainCalls(xCOM_QueryNext \o xCOM_Import(Anonymous, TheServices[i]))
        /\ handles' = handles \cup {TheServices[i]}
        /\ GoOn("start", i)
     \/ /\ MainCalls(xCOM_QueryNext \o ImportFails(Anonymous, TheServices[i]))
        /\ handles' = handles
        /\ GoOn("service", i + 1)
  /\ result' = TRUE
  /\ UNCHANGED <<started, locksAlone, threadsAlone, accepted>>

\* Mutant: the answer is not waited for.
StartServiceOnly ==
  /\ Main("start")
  /\ Enqueue(TheServices[i], "Start")
  /\ accepted' = [accepted EXCEPT ![TheServices[i]] = @ + 1]
  /\ result' = TRUE
  /\ GoOn("service", i + 1)
  /\ UNCHANGED <<handles, started, lockVars, setting, answerVars, workVars>>

StartService ==
  /\ Main("start")
  /\ Enqueue(TheServices[i], "Start")
  /\ accepted' = [accepted EXCEPT ![TheServices[i]] = @ + 1]
  /\ result' = TRUE
  /\ GoOn("wait", i)
  /\ UNCHANGED <<handles, started, lockVars, setting, answerVars, workVars>>

\* There is no memory for the call.
StartFails ==
  /\ Main("start")
  /\ result' = FALSE
  /\ GoOn("service", i + 1)
  /\ UNCHANGED <<handles, started, lockVars, setting, answerVars, workVars, queueVars,
                 accepted>>

\* xc_sem_wait
MainWaits(statement, next, n) ==
  /\ Main(statement) /\ sems["main"] \notin {0, NoSem}
  /\ sems' = [sems EXCEPT !["main"] = @ - 1]
  /\ GoOn(next, n)
  /\ UNCHANGED <<result, handles, started, lockVars, setting, runSem, running, answered,
                 lost, workVars, queueVars, accepted>>

WaitService == MainWaits("wait", "service", i + 1)

FinishServices ==
  /\ Main("service") /\ i > Len(TheServices)
  /\ MainCalls(xCOM_QueryFinish(Anonymous, <<>>))
  /\ GoOn(IF result THEN "applications" ELSE "stop", 1)
  /\ UNCHANGED <<result, handles, started, locksAlone, threadsAlone, accepted>>

-----------------------------------------------------------------------------
(* main(): the application and the run loop *)

\* An application that is named on the command line may be missing.
QueryApplications ==
  /\ Main("applications")
  /\ \/ /\ MainCalls(xCOM_QueryInterface(Anonymous, TheApplications))
        /\ GoOn("application", 1)
        /\ result' \in {TRUE, TheApplications # <<>>}
     \/ /\ MainCalls(ByInterface(Anonymous, query_new_fails(Anonymous)))
        /\ GoOn("leave", 1)
        /\ result' = FALSE
  /\ UNCHANGED <<handles, started, locksAlone, threadsAlone, accepted>>

ImportApplication ==
  /\ Main("application") /\ i <= Len(TheApplications)
  /\ \/ /\ MainCalls(xCOM_QueryNext \o xCOM_Import(Anonymous, TheApplications[i]))
        /\ started' = TheApplications[i]
        /\ result' = TRUE
        /\ GoOn("launch", i)
     \/ /\ MainCalls(xCOM_QueryNext \o ImportFails(Anonymous, TheApplications[i]))
        /\ result' = FALSE
        /\ GoOn("application", i + 1)
        /\ UNCHANGED started
  /\ UNCHANGED <<handles, locksAlone, threadsAlone, accepted>>

\* The result of Start() is ignored, also when there is no memory for the call.
StartApplication ==
  /\ Main("launch")
  /\ \/ /\ Enqueue(started, "Start")
        /\ accepted' = [accepted EXCEPT ![started] = @ + 1]
        /\ lost' = lost
     \/ /\ lost' = TRUE
        /\ UNCHANGED <<queueVars, accepted>>
  /\ GoOn("finish", i + 1)
  /\ UNCHANGED <<result, handles, started, lockVars, setting, sems, runSem, running,
                 answered, workVars>>

\* The imports of the applications after the one that started are not used.
FinishApplications ==
  /\ \/ Main("finish") /\ i \notin 3 .. Len(TheApplications)
     \/ Main("application") /\ i > Len(TheApplications)
  /\ MainCalls(xCOM_QueryFinish(Anonymous,
                 SubSeq(TheApplications, i, Len(TheApplications))))
  /\ GoOn(IF result THEN "exec" ELSE "leave", 1)
  /\ UNCHANGED <<result, handles, started, locksAlone, threadsAlone, accepted>>

\* With one left, and one freed before the one that started, that one is walked
\* back to, once the locks are taken.
FreedSibling ==
  /\ Main("finish") /\ i \in 3 .. Len(TheApplications)
  /\ Free("main", "query") /\ Free("main", "import")
  /\ fault' = "freed_sibling"

\* xCOM_Exec: xc_sem_wait() in the one build,
ExecWaits ==
  /\ Main("exec") /\ ~setting.glib /\ runSem > 0
  /\ runSem' = runSem - 1
  /\ GoOn("leave", 1)
  /\ UNCHANGED <<result, handles, started, lockVars, setting, sems, running, answered,
                 lost, workVars, queueVars, accepted>>

\* g_main_loop_run() in the other.
ExecRuns ==
  /\ Main("exec") /\ setting.glib
  /\ running' = TRUE
  /\ GoOn("run", 1)
  /\ UNCHANGED <<result, handles, started, lockVars, setting, sems, runSem, answered,
                 lost, workVars, queueVars, accepted>>

ExecReturns ==
  /\ Main("run") /\ ~running
  /\ GoOn("leave", 1)
  /\ UNCHANGED <<result, handles, started, lockVars, setting, answerVars, workVars,
                 queueVars, accepted>>

Leave ==
  /\ Main("leave")
  /\ IF started = Nobody THEN todo' = todo ELSE MainCalls(xCOM_UnImport(Anonymous, started))
  /\ GoOn("stop", 1)
  /\ UNCHANGED <<result, handles, started, locksAlone, threadsAlone, accepted>>

-----------------------------------------------------------------------------
(* main(): the end *)

StopService ==
  /\ Main("stop") /\ i <= Len(TheServices) /\ TheServices[i] \in handles
  /\ \/ /\ Enqueue(TheServices[i], "Stop")
        /\ accepted' = [accepted EXCEPT ![TheServices[i]] = @ + 1]
        /\ GoOn("stopped", i)
     \/ /\ GoOn("drop", i)
        /\ UNCHANGED <<queueVars, accepted>>
  /\ UNCHANGED <<result, handles, started, lockVars, setting, answerVars, workVars>>

SkipService ==
  /\ Main("stop") /\ i <= Len(TheServices)
  /\ {TheServices[i], Nobody} \cap handles = {}
  /\ GoOn("stop", i + 1)
  /\ UNCHANGED <<result, handles, started, lockVars, threadsAlone, accepted>>

\* The handle is read from an array that is NULL.
NullHandles ==
  /\ Main("stop") /\ i <= Len(TheServices) /\ Nobody \in handles
  /\ fault' = "null_handles"
  /\ UNCHANGED <<mainVars, setting, answerVars, workVars, queueVars, owner, depth, todo,
                 cstate, refs, imports, accepted>>

WaitStopped == MainWaits("stopped", "drop", i)

DropService ==
  /\ Main("drop")
  /\ MainCalls(xCOM_UnImport(Anonymous, TheServices[i]))
  /\ GoOn("stop", i + 1)
  /\ UNCHANGED <<result, handles, started, locksAlone, threadsAlone, accepted>>

\* The semaphore is destroyed, also when it was never initialised; xCOM_Destroy.
CleanUp ==
  /\ \/ Main("clean")
     \/ Main("stop") /\ i > Len(TheServices)
  /\ sems' = [sems EXCEPT !["main"] = NoSem]
  /\ GoOn("done", 1)
  /\ UNCHANGED <<result, handles, started, lockVars, setting, runSem, running, answered,
                 lost, workVars, queueVars, accepted>>

MainStep ==
  \/ Boot \/ QueryServices \/ NoArrays \/ ImportService \/ StartService \/ StartFails
  \/ WaitService \/ FinishServices \/ QueryApplications \/ ImportApplication
  \/ StartApplication \/ FinishApplications \/ ExecWaits \/ ExecRuns \/ ExecReturns
  \/ Leave \/ StopService \/ SkipService \/ NullHandles \/ WaitStopped \/ DropService \/ CleanUp

-----------------------------------------------------------------------------
(* The threads of the components *)

Busy(c) == thread[c] = "call" /\ Calm(c) /\ fault = "none"
CompCalls(c, steps) == todo' = [todo EXCEPT ![c] = steps]
WorkAt(c, statement, n) == work' = [work EXCEPT ![c] = [at |-> statement, k |-> n]]
Working(c, statement) == Busy(c) /\ work[c].at = statement

compAlone == <<setting, mainVars, accepted>>

\* The thread takes a call, and does what its component is used to.
TakesCall(c) ==
  /\ fault = "none"
  /\ Takes(c)
  /\ agenda' = [agenda EXCEPT ![c] = IF thread'[c] = "call" THEN setting.habit[c] ELSE <<>>]
  /\ UNCHANGED <<compAlone, answerVars, work, lockVars>>

WakesUp(c) ==
  /\ fault = "none"
  /\ Wakes(c)
  /\ UNCHANGED <<spawnVars, lockVars>>

CallReturns(c) ==
  /\ Working(c, "idle") /\ agenda[c] = <<>>
  /\ Returns(c)
  /\ UNCHANGED <<spawnVars, lockVars>>

Answering(c) ==
  /\ Working(c, "idle") /\ agenda[c] # <<>> /\ Head(agenda[c]) = "answer"
  /\ agenda' = [agenda EXCEPT ![c] = Tail(@)]
  /\ answered' = [answered EXCEPT ![c] = @ + 1]

\* service_result, service_error and test_run_result signal a semaphore.
Signals(c, who) ==
  /\ Answering(c)
  /\ IF sems[who] = NoSem THEN fault' = "late_answer" /\ sems' = sems
     ELSE fault' = fault /\ sems' = [sems EXCEPT ![who] = @ + 1]
  /\ UNCHANGED <<compAlone, work, runSem, running, lost, queueVars, owner, depth, todo, cstate,
                 refs, imports>>

ServiceAnswers(c) == c \in ToSet(Services) /\ Signals(c, "main")
TestAnswers(c) == c \in ToSet(Tests) /\ Signals(c, "tests")

\* xCOM_Quit: g_main_loop_quit() does nothing for a loop that does not run yet.
xCOM_Quit ==
  /\ runSem' = IF setting.glib THEN runSem ELSE runSem + 1
  /\ running' = FALSE
  /\ lost' = (lost \/ (setting.glib /\ ~running))

\* application_start_result
ApplicationAnswers(c) ==
  /\ c \in ToSet(Applications)
  /\ Answering(c)
  /\ xCOM_Quit
  /\ UNCHANGED <<compAlone, work, sems, queueVars, lockVars>>

BeginsWork(c) ==
  /\ Working(c, "idle") /\ agenda[c] # <<>> /\ Head(agenda[c]) = "work"
  /\ agenda' = [agenda EXCEPT ![c] = Tail(@)]
  /\ WorkAt(c, IF c \in ToSet(Applications) THEN "query" ELSE "ask", 1)
  /\ UNCHANGED <<compAlone, answerVars, queueVars, lockVars>>

\* A service asks for the tests, and does not import any.
Asks(c) ==
  /\ Working(c, "ask")
  /\ CompCalls(c, xCOM_QueryInterface(c, Tests) \o xCOM_QueryFinish(c, Tests))
  /\ WorkAt(c, "idle", 1)
  /\ UNCHANGED <<compAlone, answerVars, agenda, queueVars, locksAlone>>

\* run_all_single; the query may fail.
QueriesTests(c) ==
  /\ Working(c, "query")
  /\ sems' = [sems EXCEPT !["tests"] = 0]
  /\ \/ CompCalls(c, xCOM_QueryPort(c, Tests)) /\ WorkAt(c, "test", 1)
     \/ CompCalls(c, ByPort(c, query_new_fails(c))) /\ WorkAt(c, "summary", 1)
  /\ UNCHANGED <<compAlone, runSem, running, answered, lost, agenda, queueVars, locksAlone>>

ImportsTest(c) ==
  /\ Working(c, "test") /\ work[c].k <= Len(Tests)
  /\ LET s == Tests[work[c].k]
     IN  \/ CompCalls(c, xCOM_QueryNext \o xCOM_Import(c, s)) /\ WorkAt(c, "run", work[c].k)
         \/ CompCalls(c, xCOM_QueryNext \o ImportFails(c, s)) /\ WorkAt(c, "test", work[c].k + 1)
  /\ UNCHANGED <<compAlone, answerVars, agenda, queueVars, locksAlone>>

\* Run() is called through the switch of the import, or there is no memory for the call.
RunsTest(c) ==
  LET s == Tests[work[c].k]
  IN  /\ Working(c, "run")
      /\ IF imports[<<c, s>>] # "open"
           THEN /\ fault' = "freed_import"
                /\ UNCHANGED <<queueVars, work>>
           ELSE /\ fault' = fault
                /\ \/ Enqueue(s, "Run") /\ WorkAt(c, "await", work[c].k)
                   \/ WorkAt(c, "unimport", work[c].k) /\ UNCHANGED queueVars
      /\ UNCHANGED <<compAlone, answerVars, agenda, owner, depth, todo, cstate, refs, imports>>

AwaitsTest(c) ==
  /\ Working(c, "await") /\ sems["tests"] \notin {0, NoSem}
  /\ sems' = [sems EXCEPT !["tests"] = @ - 1]
  /\ WorkAt(c, "unimport", work[c].k)
  /\ UNCHANGED <<compAlone, runSem, running, answered, lost, agenda, queueVars, lockVars>>

UnImportsTest(c) ==
  /\ Working(c, "unimport")
  /\ CompCalls(c, xCOM_UnImport(c, Tests[work[c].k]))
  /\ WorkAt(c, "test", work[c].k + 1)
  /\ UNCHANGED <<compAlone, answerVars, agenda, queueVars, locksAlone>>

FinishesTests(c) ==
  /\ Working(c, "test") /\ work[c].k > Len(Tests)
  /\ CompCalls(c, xCOM_QueryFinish(c, <<>>))
  /\ WorkAt(c, "summary", 1)
  /\ UNCHANGED <<compAlone, answerVars, agenda, queueVars, locksAlone>>

\* The semaphore is on the stack of run_all_single(), which returns.
EndsTests(c) ==
  /\ Working(c, "summary")
  /\ sems' = [sems EXCEPT !["tests"] = NoSem]
  /\ WorkAt(c, "idle", 1)
  /\ UNCHANGED <<compAlone, runSem, running, answered, lost, agenda, queueVars, lockVars>>

InLibrary(t) ==
  /\ fault = "none"
  /\ LibraryStep(t)
  /\ UNCHANGED spawnVars

\* Where the behaviour of the library is not defined, nothing else is said of it.
Undefined(t) ==
  /\ fault = "none"
  /\ \/ LoadFails(t)
     \/ t = "main" /\ FreedSibling
  /\ UNCHANGED <<spawnVars, queueVars, owner, depth, todo, cstate, refs, imports>>

ComponentStep(c) ==
  \/ WakesUp(c) \/ TakesCall(c) \/ CallReturns(c)
  \/ ServiceAnswers(c) \/ TestAnswers(c) \/ ApplicationAnswers(c)
  \/ BeginsWork(c) \/ Asks(c)
  \/ QueriesTests(c) \/ ImportsTest(c) \/ RunsTest(c) \/ AwaitsTest(c) \/ UnImportsTest(c)
  \/ FinishesTests(c) \/ EndsTests(c)

SpawnInit ==
  /\ CallQueueInit /\ LocksInit
  /\ setting \in Settings
  /\ at = "boot" /\ i = 1 /\ result = TRUE /\ handles = {} /\ started = Nobody
  /\ sems = [w \in {"main", "tests"} |-> NoSem]
  /\ runSem = 0 /\ running = FALSE
  /\ agenda = [c \in Components |-> <<>>]
  /\ work = [c \in Components |-> [at |-> "idle", k |-> 1]]
  /\ accepted = [c \in Components |-> 0] /\ answered = [c \in Components |-> 0]
  /\ lost = FALSE

MainThread == MainStep \/ InLibrary("main") \/ Undefined("main")
ComponentThread(c) == ComponentStep(c) \/ InLibrary(c) \/ Undefined(c)

SpawnNext == MainThread \/ \E c \in Components : ComponentThread(c)

\* Threads are scheduled, and a thread that waits for a mutex or a semaphore that
\* is released for good goes on.
SpawnSpec ==
  /\ SpawnInit /\ [][SpawnNext]_vars
  /\ WF_vars(MainThread)
  /\ \A c \in Components : WF_vars(ComponentThread(c))

-----------------------------------------------------------------------------
(* Properties *)

SpawnTypeOK ==
  /\ setting \in Setting
  /\ QueueTypeOK /\ LocksTypeOK
  /\ at \in {"boot", "services", "service", "start", "wait", "applications", "application",
             "launch", "finish", "exec", "run", "leave", "stop", "stopped", "drop", "clean",
             "done"}
  /\ i \in 1 .. Len(Services) + Len(Applications) + 1
  /\ result \in BOOLEAN /\ running \in BOOLEAN /\ lost \in BOOLEAN
  /\ handles \subseteq ToSet(Services) \cup {Nobody}
  /\ started \in ToSet(Applications) \cup {Nobody}
  /\ sems \in [{"main", "tests"} -> Nat \cup {NoSem}] /\ runSem \in Nat
  /\ agenda \in [Components -> Seq(Items)]

\* A method that answers once, as the last thing it does.
AnswersLast(items) ==
  items # <<>> /\ \A k \in DOMAIN items : items[k] = "answer" <=> k = Len(items)

Polite(c) == AnswersLast(setting.habit[c])
AllPolite == \A c \in Components : Polite(c)

\* When the application is called, each service that took its Start() call has
\* answered it; and a service is only dropped once it answered its Stop(), too,
\* so that the queue of its component is empty: unless some service answers
\* more than once, as all services share one semaphore.
AnswersAwaited ==
  (\A k \in DOMAIN Services : Polite(Services[k])) =>
    /\ at \in {"applications", "application", "launch", "finish", "exec", "run", "leave"} =>
         \A s \in ToSet(Services) : answered[s] = accepted[s]
    /\ at = "drop" => answered[TheServices[i]] = accepted[TheServices[i]]
    /\ \A s \in ToSet(Services) : dropped[s] = 0

\* The locks and the counts of references keep to what a component may rely on:
\* its init() and destroy() take turns, each call finds its thread alive, and
\* that thread is told to quit before it is woken for it, once.
KeepsQueueSpec == QueueSpec

\* No call goes through an import that is freed.  Nothing signals a semaphore after
\* its stack frame is gone, however often the services and applications answer,
\* since dropping an import joins the thread that answers: unless a test answers
\* more or less than once, or goes on after it.  And no code is unmapped under its
\* thread, unless some component does.
UsedWhileThere ==
  /\ fault # "freed_import"
  /\ fault = "late_answer" => \E s \in ToSet(Tests) : ~Polite(s)
  /\ fault = "unmapped" => ~AllPolite

\* With one application, and components that answer once, as the last thing they
\* do, no schedule of the threads lets them wait for each other in the locks of the
\* library or for the end of a thread.  With two, main() finishes the query of
\* the one it does not import, queries before imports, against xCOM_Import() in
\* the other, which takes these locks the other way around; so does a service that
\* asks for the tests, once another one answered twice.
NoDeadlock == (setting.applications < 2 /\ AllPolite) => ~Deadlocked

\* Where components answer once, as the last thing they do, and one application
\* was started, the program ends: unless the call to xCOM_Quit came before the
\* loop of GLib ran, or there was no memory for the call that starts the
\* application, which is ignored.
SpawnEnds ==
  (setting.applications < 2 /\ AllPolite) =>
    <>(at = "done" \/ lost \/ fault # "none" \/ (at \in {"exec", "run"} /\ started = Nobody))
=============================================================================
