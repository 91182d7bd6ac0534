----------------------------- MODULE CallQueue -----------------------------
(***************************************************************************)
(* The code that cgeneric.py generates around the methods a component      *)
(* provides: a call is copied to a queue and a semaphore is signalled; the *)
(* thread of the component takes one call after the other.  init() starts  *)
(* the thread, destroy() stops and joins it.                               *)
(*                                                                         *)
(* The mutex of a queue is held for a few statements that do not block,    *)
(* except where the thread finds an empty queue: it then keeps the mutex,  *)
(* and waits for it again.                                                 *)
(***************************************************************************)
EXTENDS Naturals, Sequences

CONSTANTS
  Components,   \* the components; each has a thread of the same name
  Methods       \* what can be called

VARIABLES
  queue,    \* __queued_messages: the calls of each component
  posts,    \* __sem: its count
  quit,     \* __quit: "no", "set", or "posted" once the semaphore is signalled, too
  thread,   \* what the thread does: "none", "wait", "woken", "call", "kept", "ended"
  dropped   \* history: calls that were freed by the thread when it ended

queueVars == <<queue, posts, quit, thread, dropped>>

Doing == {"none", "wait", "woken", "call", "kept", "ended"}
Alive(c) == thread[c] \notin {"none", "ended"}

CallQueueInit ==
  /\ queue = [c \in Components |-> <<>>]
  /\ posts = [c \in Components |-> 0]
  /\ quit = [c \in Components |-> "no"]
  /\ thread = [c \in Components |-> "none"]
  /\ dropped = [c \in Components |-> 0]

\* The init() of a component, once that of the user succeeded.
StartQueue(c) ==
  /\ queue' = [queue EXCEPT ![c] = <<>>]
  /\ posts' = [posts EXCEPT ![c] = 0]
  /\ quit' = [quit EXCEPT ![c] = "no"]
  /\ thread' = [thread EXCEPT ![c] = "wait"]
  /\ UNCHANGED dropped

\* Mutant: the semaphore is signalled for the first call only.
EnqueueFirst(c, m) ==
  /\ thread[c] # "kept"
  /\ queue' = [queue EXCEPT ![c] = Append(@, m)]
  /\ posts' = [posts EXCEPT ![c] = IF queue[c] = <<>> THEN @ + 1 ELSE @]
  /\ UNCHANGED <<quit, thread, dropped>>

\* The method that clients see, when there is memory for the copy.
Enqueue(c, m) ==
  /\ thread[c] # "kept"
  /\ queue' = [queue EXCEPT ![c] = Append(@, m)]
  /\ posts' = [posts EXCEPT ![c] = @ + 1]
  /\ UNCHANGED <<quit, thread, dropped>>

\* The thread returns from xc_sem_wait().
Wakes(c) ==
  /\ thread[c] = "wait" /\ posts[c] > 0
  /\ posts' = [posts EXCEPT ![c] = @ - 1]
  /\ thread' = [thread EXCEPT ![c] = "woken"]
  /\ UNCHANGED <<queue, quit, dropped>>

\* With the mutex, it takes a call or, told to quit, frees those that remain.
Takes(c) ==
  /\ thread[c] = "woken"
  /\ IF quit[c] # "no"
       THEN /\ thread' = [thread EXCEPT ![c] = "ended"]
            /\ dropped' = [dropped EXCEPT ![c] = @ + Len(queue[c])]
            /\ queue' = [queue EXCEPT ![c] = <<>>]
       ELSE /\ thread' = [thread EXCEPT ![c] = IF queue[c] = <<>> THEN "kept" ELSE "call"]
            /\ queue' = [queue EXCEPT ![c] = IF @ = <<>> THEN @ ELSE Tail(@)]
            /\ UNCHANGED dropped
  /\ UNCHANGED <<posts, quit>>

\* The handler of the call returned; its result is ignored.
Returns(c) ==
  /\ thread[c] = "call"
  /\ thread' = [thread EXCEPT ![c] = "wait"]
  /\ UNCHANGED <<queue, posts, quit, dropped>>

\* The destroy() of a component.
SetQuit(c) ==
  /\ quit' = [quit EXCEPT ![c] = "set"]
  /\ UNCHANGED <<queue, posts, thread, dropped>>

\* Mutant: the thread is not woken.
PostQuitSilently(c) ==
  /\ quit' = [quit EXCEPT ![c] = "posted"]
  /\ UNCHANGED <<queue, posts, thread, dropped>>

PostQuit(c) ==
  /\ quit' = [quit EXCEPT ![c] = "posted"]
  /\ posts' = [posts EXCEPT ![c] = @ + 1]
  /\ UNCHANGED <<queue, thread, dropped>>

\* What the library owes a component: init() and destroy() take turns, and its
\* methods are only called in between.
QueueNext ==
  \E c \in Components :
    \/ ~Alive(c) /\ StartQueue(c)
    \/ Alive(c) /\ quit[c] = "no" /\ SetQuit(c)
    \/ quit[c] = "set" /\ PostQuit(c)
    \/ \E m \in Methods : Alive(c) /\ Enqueue(c, m)
    \/ Wakes(c) \/ Takes(c) \/ Returns(c)

QueueSpec == CallQueueInit /\ [][QueueNext]_queueVars

-----------------------------------------------------------------------------
(* Properties *)

QueueTypeOK ==
  /\ queue \in [Components -> Seq(Methods)]
  /\ posts \in [Components -> Nat] /\ dropped \in [Components -> Nat]
  /\ quit \in [Components -> {"no", "set", "posted"}]
  /\ thread \in [Components -> Doing]

\* The semaphore counts the calls on the queue, and the request to quit: the
\* thread never wakes up to an empty queue, with the mutex of which it would
\* block itself and every client, and no call is left behind asleep.
QueueExact ==
  \A c \in Components : Alive(c) =>
    /\ thread[c] # "kept"
    /\ posts[c] + (IF thread[c] = "woken" THEN 1 ELSE 0) =
         Len(queue[c]) + (IF quit[c] = "posted" THEN 1 ELSE 0)
=============================================================================
