---------------------------- MODULE MCLifecycle ----------------------------
(* Instances of Lifecycle for TLC. *)
EXTENDS Lifecycle

CONSTANTS app, A, B, C, I, J

\* Who provides I and J, what A requires at load time and at run time, and what
\* the application, A and B query by name.  Methods may fail, and clients leave an
\* import and a query for a loadtime port of A.
Table(provI, provJ, loadA, runA, named) ==
  [providers |-> [x \in {I, J} |-> IF x = I THEN provI ELSE provJ],
   loadtime  |-> [x \in {app, A, B, C} |-> IF x = A THEN loadA ELSE <<>>],
   runtime   |-> [x \in {app, A, B, C} |-> IF x = A THEN runA ELSE {}],
   named     |-> [x \in {app, A, B, C} |-> named[x]],
   fails     |-> TRUE,
   spare     |-> [imports |-> 1, queries |-> 1]]

Sparing(m, n, tables) ==
  {[table EXCEPT !.spare = [imports |-> m, queries |-> n]] : table \in tables}
Faultless(tables) == {[table EXCEPT !.fails = FALSE] : table \in tables}

Named(byApp, byA, byB) ==
  [x \in {app, A, B, C} |->
     CASE x = app -> byApp [] x = A -> byA [] x = B -> byB [] OTHER -> {}]

Needs(iface, optional, multiple) ==
  [iface |-> iface, optional |-> optional, multiple |-> multiple]

Any == Named({I, J}, {I, J}, {I, J})

\* Where nothing fails: two providers of one interface; a component that needs one
\* other, or all the providers of an interface, at load time; one that imports
\* another at run time through a port.
FaultlessWirings ==
  Faultless(Sparing(2, 1,
    {Table(<<A, B>>, <<>>, <<>>, {}, Any),
     Table(<<A>>, <<B>>, <<Needs(J, FALSE, FALSE)>>, {}, Any),
     Table(<<A>>, <<B, C>>, <<Needs(J, FALSE, TRUE)>>, {}, Any),
     Table(<<A>>, <<B>>, <<>>, {J}, Any)}))

\* Where methods fail: one provider for each interface; a mandatory and an
\* optional loadtime port, and a run time port.  One query at a time.
FailingWirings ==
  Sparing(1, 2,
    {Table(<<A>>, <<B>>, <<Needs(J, FALSE, FALSE)>>, {}, Any),
     Table(<<A>>, <<B>>, <<Needs(J, TRUE, FALSE)>>, {}, Any),
     Table(<<A>>, <<B>>, <<>>, {J}, Any)})

SessionWirings == FaultlessWirings \cup FailingWirings

\* Components that import others themselves, from their methods: nobody
\* imports, even through others, a component that imports it.
NestedWirings ==
  Sparing(0, 0,
    {Table(<<A>>, <<B>>, <<>>, {}, Named({I}, {J}, {})),
     Table(<<A>>, <<B>>, <<>>, {}, Named({I, J}, {J}, {}))})

\* For clients that do anything: a loadtime import, and two providers.
MisuseWirings ==
  Sparing(0, 1,
    {Table(<<A>>, <<B>>, <<Needs(J, FALSE, FALSE)>>, {}, Named({I}, {J}, {})),
     Table(<<A, B>>, <<>>, <<>>, {}, Named({I}, {}, {}))})

\* One component with a loadtime import.
DestroySkippedWirings ==
  {Table(<<A>>, <<B>>, <<Needs(J, FALSE, FALSE)>>, {}, Named({I}, {}, {}))}

\* Two providers of one interface.
TwoProviderWirings == {Table(<<A, B>>, <<>>, <<>>, {}, Named({I}, {}, {}))}

\* A mandatory loadtime port, followed by an optional one.
MaskedWirings ==
  {Table(<<A>>, <<B>>, <<Needs(J, FALSE, FALSE), Needs(J, TRUE, FALSE)>>, {},
         Named({I}, {}, {}))}
=============================================================================
