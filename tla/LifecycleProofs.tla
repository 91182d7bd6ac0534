--------------------------- MODULE LifecycleProofs ---------------------------
(***************************************************************************)
(* What TLAPS proves about Lifecycle for every set of components, port     *)
(* table and pool of imports and queries.                                  *)
(***************************************************************************)
EXTENDS Lifecycle, SequenceTheorems, FiniteSetTheorems, TLAPS

\* The program counters that ask nothing of the activation that has them.
PlainPoints == Points \ ({"next", "imported"} \cup PortMethods)

-----------------------------------------------------------------------------
(* The call stack *)

LEMMA PushType ==
  ASSUME NEW S, NEW f \in S, NEW s \in Seq(S)
  PROVE  <<f>> \o s \in Seq(S)
  OBVIOUS

LEMMA PushTwoType ==
  ASSUME NEW S, NEW f \in S, NEW g \in S, NEW s \in Seq(S)
  PROVE  <<f, g>> \o s \in Seq(S)
  OBVIOUS

LEMMA TopType ==
  ASSUME stack \in Seq(Activation), stack # <<>>
  PROVE  Top \in Activation /\ Rest \in Seq(Activation)
  BY HeadTailProperties DEF Top, Rest

\* An activation that starts is well formed.
LEMMA EnterType ==
  ASSUME NEW op \in Activations, NEW pc \in Points, NEW c \in Comps,
         NEW i \in ImportPtr, NEW q \in QueryIds \cup {Nil},
         op \in {"open", "close", "free"} \/ pc \in {"imported"} \cup PortMethods
           => i \in ImportIds,
         op = "finish" \/ pc \in {"next", "imported"} => q \in QueryIds
  PROVE  Enter(op, pc, c, i, q) \in Activation
  BY DEF Enter, Activation, ImportPtr, Results

\* The running activation stays well formed as it moves on.
LEMMA ResumeType ==
  ASSUME stack \in Seq(Activation), stack # <<>>, NEW pc \in PlainPoints
  PROVE  Resume(pc) \in Activation
  BY TopType DEF Resume, Activation, PlainPoints

LEMMA AnsweredType ==
  ASSUME stack \in Seq(Activation), stack # <<>>, ret \in Results,
         "client_done" \in PlainPoints
  PROVE  <<Answered>> \o Rest \in Seq(Activation)
  <1>1. Answered \in Activation
    BY ResumeType DEF Answered, Activation
  <1>2. QED
    BY <1>1, TopType, PushType

LEMMA GotoType ==
  ASSUME stack \in Seq(Activation), stack # <<>>, NEW pc \in PlainPoints, Goto(pc)
  PROVE  stack' \in Seq(Activation)
  BY TopType, ResumeType, PushType DEF Goto

LEMMA CallType ==
  ASSUME stack \in Seq(Activation), stack # <<>>, NEW pc \in PlainPoints,
         NEW f \in Activation, Call(f, pc)
  PROVE  stack' \in Seq(Activation)
  BY TopType, ResumeType, PushTwoType DEF Call

LEMMA InvokeType ==
  ASSUME NEW method \in Methods, NEW c \in Comps, NEW i \in ImportIds,
         NEW s \in Seq(Activation), ret \in Results, Invoke(method, c, i, s)
  PROVE  stack' \in Seq(Activation) /\ ret' \in Results
  <1>1. Enter("method", method, c, i, Nil) \in Activation
    BY EnterType DEF Methods, Points, PortMethods, Activations, ImportPtr
  <1>2. QED
    BY <1>1, PushType DEF Invoke, Results

-----------------------------------------------------------------------------
(* Components *)

LEMMA RefType ==
  ASSUME refs \in [Comps -> Nat], NEW c \in Comps, Ref(c)
  PROVE  refs' \in [Comps -> Nat]
  BY DEF Ref

LEMMA UnrefType ==
  ASSUME refs \in [Comps -> Nat], fault \in Faults, NEW c \in Comps,
         NEW s \in Seq(Activation), Unref(c, s)
  PROVE  refs' \in [Comps -> Nat] /\ fault' \in Faults /\ stack' \in Seq(Activation)
  <1>1. Enter("destroy", "start", c, Nil, Nil) \in Activation
    BY EnterType DEF Points, PortMethods, Activations, ImportPtr
  <1>2. stack' \in Seq(Activation)
    BY <1>1, PushType DEF Unref
  <1>3. refs' \in [Comps -> Nat]
    BY DEF Unref, Dropped
  <1>4. fault' \in Faults
    BY DEF Unref, Faults
  <1>5. QED
    BY <1>2, <1>3, <1>4

LEMMA LoadType ==
  ASSUME cstate \in [Comps -> ComponentStates],
         entry \in [Comps -> {"unset", "set", "null"}], NEW c, NEW o, Load(c, o)
  PROVE  /\ cstate' \in [Comps -> ComponentStates]
         /\ entry' \in [Comps -> {"unset", "set", "null"}]
  BY DEF Load, ComponentStates

-----------------------------------------------------------------------------
(* The lists of imports *)

LEMMA WithoutType ==
  ASSUME NEW S, NEW list \in Seq(S), NEW i
  PROVE  Without(list, i) \in Seq(S)
  <1>1. CASE ~\E m \in DOMAIN list : list[m] = i
    BY <1>1 DEF Without
  <1>2. CASE \E m \in DOMAIN list : list[m] = i
    <2> DEFINE n == CHOOSE m \in DOMAIN list : list[m] = i
    <2>1. n \in 1..Len(list)
      BY <1>2, LenProperties
    <2> HIDE DEF n
    <2>2. SubSeq(list, 1, n - 1) \in Seq(S)
      <3>1. \A k \in 1..n - 1 : list[k] \in S
        BY <2>1, ElementOfSeq, LenProperties
      <3>2. QED
        BY <2>1, <3>1, LenProperties, SubSeqProperties
    <2>3. SubSeq(list, n + 1, Len(list)) \in Seq(S)
      <3>1. \A k \in n + 1..Len(list) : list[k] \in S
        BY <2>1, ElementOfSeq, LenProperties
      <3>2. QED
        BY <2>1, <3>1, LenProperties, SubSeqProperties
    <2>4. Without(list, i) = SubSeq(list, 1, n - 1) \o SubSeq(list, n + 1, Len(list))
      BY <1>2 DEF Without, n
    <2>5. QED
      BY <2>2, <2>3, <2>4, ConcatProperties
  <1>3. QED
    BY <1>1, <1>2

LEMMA AfterType ==
  ASSUME NEW list \in Seq(ImportIds), NEW i
  PROVE  After(list, i) \in ImportPtr
  <1>1. CASE ~\E n \in 1..Len(list) - 1 : list[n] = i
    BY <1>1 DEF After, ImportPtr
  <1>2. CASE \E n \in 1..Len(list) - 1 : list[n] = i
    <2> DEFINE m == CHOOSE n \in 1..Len(list) - 1 : list[n] = i
    <2>1. m \in 1..Len(list) - 1
      BY <1>2
    <2>2. 1 + m \in 1..Len(list)
      BY <2>1, LenProperties
    <2>3. list[1 + m] \in ImportIds
      BY <2>2, ElementOfSeq
    <2>4. After(list, i) = list[1 + m]
      BY <1>2 DEF After
    <2>5. QED
      BY <2>3, <2>4 DEF ImportPtr
  <1>3. QED
    BY <1>1, <1>2

LEMMA FirstType ==
  ASSUME NEW list \in Seq(ImportIds)
  PROVE  First(list) \in ImportPtr
  BY DEF First, ImportPtr

-----------------------------------------------------------------------------
(* Queries *)

\* query_new leaves every import, query and count well typed, whatever imports
\* it takes from the pool.
LEMMA QueryNewType ==
  ASSUME TypeOK, NEW c \in Comps, NEW iface \in Interfaces, NEW port \in BOOLEAN,
         NEW user \in BOOLEAN, NEW q \in QueryIds, NEW s, QueryNew(c, iface, port, user, q, s)
  PROVE  /\ wiring' = wiring /\ cstate' = cstate /\ entry' = entry
         /\ refs' \in [Comps -> Nat] /\ imports' \in [Comps -> Seq(ImportIds)]
         /\ imp' \in [ImportIds -> Import] /\ qry' \in [QueryIds -> Query]
         /\ given' = given /\ stack' = s /\ fault' = fault /\ up' = up
  <1> DEFINE provs == wiring.providers[iface]
             n == Len(provs)
  <1>1. provs \in Seq(Components) /\ n \in Nat
    BY LenProperties DEF TypeOK, Wiring
  <1>2. PICK ids \in [1..n -> ImportIds] :
          LET At1(k) == IF k \in 1..n THEN ids[k] ELSE Nil
              New(k) == [st |-> "queried", query |-> q, client |-> c,
                         server |-> provs[k], port |-> port,
                         next |-> At1(k + 1), prev |-> At1(k - 1),
                         srvReg |-> FALSE, cliReg |-> FALSE]
          IN /\ imp' = [i \in ImportIds |->
                          IF \E k \in 1..n : ids[k] = i
                            THEN New(CHOOSE k \in 1..n : ids[k] = i) ELSE imp[i]]
             /\ qry' = [qry EXCEPT ![q] =
                          [live |-> TRUE, user |-> user, client |-> c,
                           first |-> At1(1), last |-> At1(n), cursor |-> At1(1)]]
             /\ imports' = [imports EXCEPT ![c] = @ \o ids]
             /\ refs' = [x \in Comps |-> refs[x] + (IF x = c THEN 1 ELSE 0)
                                       + Cardinality({k \in 1..n : provs[k] = x})]
    BY DEF QueryNew, import_new, Linked, component_add_import
  <1> DEFINE At1(k) == IF k \in 1..n THEN ids[k] ELSE Nil
             New(k) == [st |-> "queried", query |-> q, client |-> c,
                        server |-> provs[k], port |-> port,
                        next |-> At1(k + 1), prev |-> At1(k - 1),
                        srvReg |-> FALSE, cliReg |-> FALSE]
  <1>3. \A k : At1(k) \in ImportPtr
    BY DEF ImportPtr
  <1>4. \A k \in 1..n : New(k) \in Import
    <2> SUFFICES ASSUME NEW k \in 1..n PROVE New(k) \in Import
      OBVIOUS
    <2>1. provs[k] \in Comps
      BY <1>1, ElementOfSeq DEF Comps
    <2>2. At1(k + 1) \in ImportPtr /\ At1(k - 1) \in ImportPtr
      BY <1>3
    <2> HIDE DEF At1, provs, n
    <2>3. QED
      BY <2>1, <2>2 DEF Import, ImportStates
  <1>5. imp' \in [ImportIds -> Import]
    <2>1. imp' = [i \in ImportIds |->
                    IF \E k \in 1..n : ids[k] = i
                      THEN New(CHOOSE k \in 1..n : ids[k] = i) ELSE imp[i]]
      BY <1>2
    <2>2. \A i \in ImportIds : (\E k \in 1..n : ids[k] = i)
            => New(CHOOSE k \in 1..n : ids[k] = i) \in Import
      <3> SUFFICES ASSUME NEW i \in ImportIds, \E k \in 1..n : ids[k] = i
                   PROVE  New(CHOOSE k \in 1..n : ids[k] = i) \in Import
        OBVIOUS
      <3>1. (CHOOSE k \in 1..n : ids[k] = i) \in 1..n
        OBVIOUS
      <3> HIDE DEF New
      <3>2. QED
        BY <1>4, <3>1
    <2> HIDE DEF New
    <2>3. QED
      BY <2>1, <2>2 DEF TypeOK
  <1>6. qry' \in [QueryIds -> Query]
    <2>1. qry' = [qry EXCEPT ![q] = [live |-> TRUE, user |-> user, client |-> c,
                    first |-> At1(1), last |-> At1(n), cursor |-> At1(1)]]
      BY <1>2
    <2>2. At1(1) \in ImportPtr /\ At1(n) \in ImportPtr
      BY <1>3
    <2> HIDE DEF At1
    <2>3. QED
      BY <2>1, <2>2 DEF TypeOK, Query
  <1>7. imports' \in [Comps -> Seq(ImportIds)]
    <2>1. ids \in Seq(ImportIds)
      BY <1>1, IsASeq
    <2>2. imports' = [imports EXCEPT ![c] = imports[c] \o ids]
      BY <1>2
    <2>3. imports[c] \o ids \in Seq(ImportIds)
      BY <2>1, ConcatProperties DEF TypeOK
    <2>4. QED
      BY <2>2, <2>3 DEF TypeOK
  <1>8. refs' \in [Comps -> Nat]
    <2>1. \A x : Cardinality({k \in 1..n : provs[k] = x}) \in Nat
      <3> SUFFICES ASSUME NEW x PROVE Cardinality({k \in 1..n : provs[k] = x}) \in Nat
        OBVIOUS
      <3>1. IsFiniteSet(1..n)
        BY <1>1, FS_Interval
      <3>2. {k \in 1..n : provs[k] = x} \in SUBSET (1..n)
        OBVIOUS
      <3>3. IsFiniteSet({k \in 1..n : provs[k] = x})
        BY <3>1, <3>2, FS_Subset
      <3>4. QED
        BY <3>3, FS_CardinalityType
    <2> DEFINE served(x) == Cardinality({k \in 1..n : provs[k] = x})
    <2>2. refs' = [x \in Comps |-> refs[x] + (IF x = c THEN 1 ELSE 0) + served(x)]
      BY <1>2
    <2>3. \A x : served(x) \in Nat
      BY <2>1
    <2> HIDE DEF served
    <2>4. \A x \in Comps : refs[x] + (IF x = c THEN 1 ELSE 0) + served(x) \in Nat
      BY <2>3 DEF TypeOK
    <2>5. QED
      BY <2>2, <2>4
  <1>9. QED
    BY <1>5, <1>6, <1>7, <1>8 DEF QueryNew

\* Moving the cursor of a query, or an import to another state, keeps it typed.
LEMMA CursorType ==
  ASSUME qry \in [QueryIds -> Query], NEW q \in QueryIds, NEW i \in ImportPtr
  PROVE  [qry EXCEPT ![q].cursor = i] \in [QueryIds -> Query]
  <1>1. [qry[q] EXCEPT !.cursor = i] \in Query
    BY DEF Query
  <1>2. QED
    BY <1>1

LEMMA StateType ==
  ASSUME imp \in [ImportIds -> Import], NEW i \in ImportIds, NEW st \in ImportStates
  PROVE  [imp EXCEPT ![i].st = st] \in [ImportIds -> Import]
  <1>1. [imp[i] EXCEPT !.st = st] \in Import
    BY DEF Import
  <1>2. QED
    BY <1>1

-----------------------------------------------------------------------------
(* Types are kept by every action *)

LEMMA FaultType ==
  ASSUME TypeOK, NEW kind \in Faults, Fault(kind)
  PROVE  TypeOK'
  BY DEF TypeOK, Fault, compVars, objVars

LEMMA ComponentStepType == TypeOK /\ ComponentStep => TypeOK'
  <1> SUFFICES ASSUME TypeOK, ComponentStep PROVE TypeOK'
    OBVIOUS
  <1> stack \in Seq(Activation) /\ ret \in Results
    BY DEF TypeOK
  <1>0. /\ stack # <<>> => Top \in Activation /\ Rest \in Seq(Activation)
        /\ {"start", "ports", "port_done", "called", "failed", "call", "unload"}
             \subseteq PlainPoints
    BY TopType DEF PlainPoints, Points, PortMethods, Methods
  <1>1. CASE InitLoad
    <2>1. stack # <<>> /\ Goto("ports")
      BY <1>1 DEF InitLoad, At
    <2>2. stack' \in Seq(Activation)
      BY <2>1, <1>0, GotoType
    <2>3. /\ cstate' \in [Comps -> ComponentStates]
          /\ entry' \in [Comps -> {"unset", "set", "null"}]
      BY <1>1, LoadType DEF InitLoad, TypeOK
    <2>4. QED
      BY <1>1, <2>2, <2>3 DEF InitLoad, TypeOK, objVars
  <1>2. CASE InitAlready
    BY <1>0, <1>2 DEF InitAlready, At, TypeOK, ComponentStates, Results, objVars
  <1>3. CASE InitQuery
    <2>1. /\ stack # <<>> /\ Top.pc = "ports" /\ Top.k <= Len(wiring.loadtime[Top.c])
          /\ ret' = ret
      BY <1>3 DEF InitQuery, At
    <2>2. Top \in Activation /\ Rest \in Seq(Activation)
      BY <1>0, <2>1
    <2>3. LoadtimePort.iface \in Interfaces
      <3>1. wiring.loadtime[Top.c] \in Seq(Port)
        BY <2>2 DEF TypeOK, Wiring, Activation
      <3>2. Top.k \in 1..Len(wiring.loadtime[Top.c])
        BY <2>1, <2>2, <3>1, LenProperties DEF Activation
      <3>3. LoadtimePort \in Port
        BY <3>1, <3>2, ElementOfSeq DEF LoadtimePort
      <3>4. QED
        BY <3>3 DEF Port
    <2> DEFINE s(q) == <<IF wiring.providers[LoadtimePort.iface] = <<>>
                           THEN [Resume("port_done") EXCEPT !.r = "error"]
                           ELSE [Resume("next") EXCEPT !.q = q, !.r = "ok"]>> \o Rest
    <2>4. PICK q \in QueryIds :
            QueryNew(Top.c, LoadtimePort.iface, TRUE, FALSE, q, s(q))
      BY <1>3 DEF InitQuery
    <2>5. s(q) \in Seq(Activation)
      <3>1. [Resume("port_done") EXCEPT !.r = "error"] \in Activation
        BY <2>2 DEF Resume, Activation, Points, Results, Methods, PortMethods
      <3>2. [Resume("next") EXCEPT !.q = q, !.r = "ok"] \in Activation
        BY <2>2 DEF Resume, Activation, Points, Results, Methods, PortMethods
      <3>3. QED
        BY <2>2, <3>1, <3>2, PushType
    <2> HIDE DEF s
    <2>6. Top.c \in Comps
      BY <2>2 DEF Activation
    <2>7. QED
      BY <2>1, <2>3, <2>4, <2>5, <2>6, QueryNewType DEF TypeOK
  <1>4. CASE InitNext
    <2> DEFINE q == Top.q
               i == qry[q].cursor
    <2>1. stack # <<>> /\ Top.op = "init" /\ Top.pc = "next"
      BY <1>4 DEF InitNext, At
    <2>2. Top \in Activation /\ Rest \in Seq(Activation)
      BY <1>0, <2>1
    <2>3. q \in QueryIds /\ qry[q] \in Query
      BY <2>1, <2>2 DEF Activation, TypeOK
    <2>4. CASE i = Nil
      <3>1. Enter("finish", "start", qry[q].client, qry[q].first, q) \in Activation
        BY <2>3, EnterType DEF Query, Activations, Points, PortMethods
      <3>2. Call(Enter("finish", "start", qry[q].client, qry[q].first, q), "port_done")
        BY <1>4, <2>4 DEF InitNext
      <3>3. stack' \in Seq(Activation)
        BY <2>1, <3>1, <3>2, <1>0, CallType
      <3>4. QED
        BY <1>4, <2>4, <3>3 DEF InitNext, TypeOK, compVars, objVars
    <2>5. CASE i # Nil /\ ~Live(i)
      BY <1>4, <2>5, FaultType DEF InitNext, Fault, Faults, compVars
    <2>6. CASE i # Nil /\ Live(i)
      <3>1. i \in ImportIds
        BY <2>3, <2>6 DEF Query, ImportPtr
      <3>2. imp[i] \in Import
        BY <3>1 DEF TypeOK
      <3>3. Enter("open", "start", imp[i].client, i, Nil) \in Activation
        BY <3>1, <3>2, EnterType DEF Import, Activations, Points, PortMethods, ImportPtr
      <3>4. [Resume("imported") EXCEPT !.i = i] \in Activation
        BY <2>1, <2>2, <2>3, <3>1 DEF Resume, Activation, Points, ImportPtr, Methods,
          PortMethods
      <3>5. stack' \in Seq(Activation)
        BY <1>4, <2>2, <2>6, <3>3, <3>4, PushTwoType DEF InitNext
      <3>6. imp[i].next \in ImportPtr /\ qry \in [QueryIds -> Query]
        BY <3>2 DEF Import, TypeOK
      <3>7. [qry EXCEPT ![q].cursor = imp[i].next] \in [QueryIds -> Query]
        BY <2>3, <3>6, CursorType
      <3>8. qry' \in [QueryIds -> Query]
        BY <1>4, <2>6, <3>7 DEF InitNext
      <3>9. QED
        BY <1>4, <2>6, <3>5, <3>8 DEF InitNext, TypeOK, compVars
    <2>7. QED
      BY <2>4, <2>5, <2>6
  <1>5. CASE InitImported
    <2>1. stack # <<>> /\ Top.op = "init" /\ Top.pc = "imported"
      BY <1>5 DEF InitImported, At
    <2>2. Top \in Activation /\ Rest \in Seq(Activation)
      BY <1>0, <2>1
    <2>3. /\ Top.i \in ImportIds /\ Top.q \in QueryIds
          /\ qry[Top.q].client \in Comps /\ qry[Top.q].first \in ImportPtr
      BY <2>1, <2>2 DEF Activation, TypeOK, Query
    <2>4. Enter("finish", "start", qry[Top.q].client, qry[Top.q].first, Top.q) \in Activation
      BY <2>3, EnterType DEF Activations, Points, PortMethods
    <2>5. [Resume("port_done") EXCEPT !.i = Nil, !.r = ret] \in Activation
      BY <2>1, <2>2 DEF Resume, Activation, Points, ImportPtr, Methods, PortMethods
    <2>6. [Resume("next") EXCEPT !.i = Nil, !.r = ret] \in Activation
      BY <2>1, <2>2, <2>3 DEF Resume, Activation, Points, ImportPtr, Methods, PortMethods
    <2>7. stack' \in Seq(Activation)
      <3>1. CASE PortSatisfied(LoadtimePort, ret)
        BY <1>5, <2>2, <2>4, <2>5, <3>1, PushTwoType DEF InitImported
      <3>2. CASE ~PortSatisfied(LoadtimePort, ret)
        BY <1>5, <2>2, <2>6, <3>2, PushType DEF InitImported
      <3>3. QED
        BY <3>1, <3>2
    <2>8. given' \subseteq ImportIds
      BY <1>5, <2>3 DEF InitImported, TypeOK
    <2>9. QED
      BY <1>5, <2>7, <2>8 DEF InitImported, TypeOK, compVars
  <1>6. CASE InitPortDone
    <2>1. stack # <<>> /\ Top.op = "init" /\ Top.pc = "port_done"
      BY <1>6 DEF InitPortDone, At
    <2>2. Top \in Activation /\ Rest \in Seq(Activation)
      BY <1>0, <2>1
    <2>3. PortResult(LoadtimePort, Resume("ports").r) \in Results
      BY <2>2 DEF PortResult, Resume, Activation, Results
    <2>4. [Resume("ports") EXCEPT !.k = @ + 1, !.q = Nil,
             !.r = PortResult(LoadtimePort, @)] \in Activation
      <3>1. Resume("ports") \in Activation
        BY <1>0, <2>1, ResumeType
      <3>2. /\ Resume("ports").op = "init" /\ Resume("ports").pc = "ports"
            /\ Resume("ports").k + 1 \in Nat \ {0}
        BY <2>1, <2>2 DEF Resume, Activation
      <3>3. QED
        BY <2>3, <3>1, <3>2 DEF Activation, PortMethods
    <2>5. stack' \in Seq(Activation)
      BY <1>6, <2>2, <2>4, PushType DEF InitPortDone
    <2>6. QED
      BY <1>6, <2>5 DEF InitPortDone, TypeOK, compVars, objVars
  <1>7. CASE InitCall
    <2>1. stack # <<>>
      BY <1>7 DEF InitCall, At
    <2>2. Top \in Activation /\ Top.c \in Comps /\ Top.r \in Results
      BY <1>0, <2>1 DEF Activation
    <2>3. CASE Call(Enter("method", "init", Top.c, Nil, Nil), "called")
               /\ UNCHANGED <<compVars, objVars, ret, fault>>
      <3>1. Enter("method", "init", Top.c, Nil, Nil) \in Activation
        BY <2>2, EnterType DEF Activations, Points, Methods, PortMethods, ImportPtr
      <3>2. stack' \in Seq(Activation)
        BY <1>0, <2>1, <2>3, <3>1, CallType
      <3>3. QED
        BY <2>3, <3>2 DEF TypeOK, compVars, objVars
    <2>4. CASE Goto("called") /\ ret' = Top.r /\ UNCHANGED <<compVars, objVars, fault>>
      <3>1. stack' \in Seq(Activation)
        BY <1>0, <2>1, <2>4, GotoType
      <3>2. QED
        BY <2>2, <2>4, <3>1 DEF TypeOK, compVars, objVars
    <2>5. CASE Fault("wild_call")
      BY <2>5, FaultType DEF Faults
    <2>6. QED
      BY <1>7, <2>3, <2>4, <2>5 DEF InitCall
  <1>8. CASE InitDone
    <2>1. stack # <<>>
      BY <1>8 DEF InitDone, At
    <2>2. Rest \in Seq(Activation) /\ Top.c \in Comps
      BY <1>0, <2>1 DEF Activation
    <2>3. CASE ret = "ok"
      BY <1>8, <2>2, <2>3 DEF InitDone, TypeOK, ComponentStates, objVars
    <2>4. CASE ret # "ok"
      <3>1. Enter("close_imports", "loop", Top.c, First(imports[Top.c]), Nil) \in Activation
        <4>1. First(imports[Top.c]) \in ImportPtr
          BY <2>2, FirstType DEF TypeOK
        <4>2. QED
          BY <2>2, <4>1, EnterType DEF Activations, Points, PortMethods
      <3>2. stack' \in Seq(Activation)
        BY <1>0, <1>8, <2>1, <2>4, <3>1, CallType DEF InitDone
      <3>3. QED
        BY <1>8, <2>4, <3>2 DEF InitDone, TypeOK, objVars
    <2>5. QED
      BY <2>3, <2>4
  <1>9. CASE InitFailed
    BY <1>0, <1>9 DEF InitFailed, At, TypeOK, Results, compVars, objVars
  <1>10. CASE DestroyStart
    <2>1. stack # <<>>
      BY <1>10 DEF DestroyStart, At
    <2>2. Rest \in Seq(Activation) /\ Top.c \in Comps
      BY <1>0, <2>1 DEF Activation
    <2>3. CASE Destroyable(Top.c)
      <3>1. Enter("close_imports", "loop", Top.c, First(imports[Top.c]), Nil) \in Activation
        <4>1. First(imports[Top.c]) \in ImportPtr
          BY <2>2, FirstType DEF TypeOK
        <4>2. QED
          BY <2>2, <4>1, EnterType DEF Activations, Points, PortMethods
      <3>2. stack' \in Seq(Activation)
        BY <1>0, <1>10, <2>1, <2>3, <3>1, CallType DEF DestroyStart
      <3>3. QED
        BY <1>10, <2>3, <3>2 DEF DestroyStart, TypeOK, ComponentStates, objVars
    <2>4. CASE ~Destroyable(Top.c)
      <3>1. stack' \in Seq(Activation)
        BY <1>0, <1>10, <2>1, <2>4, GotoType DEF DestroyStart
      <3>2. QED
        BY <1>10, <2>4, <3>1 DEF DestroyStart, TypeOK, objVars
    <2>5. QED
      BY <2>3, <2>4
  <1>11. CASE DestroyCall
    <2>1. stack # <<>>
      BY <1>11 DEF DestroyCall, At
    <2>2. Top.c \in Comps
      BY <1>0, <2>1 DEF Activation
    <2>3. CASE Call(Enter("method", "destroy", Top.c, Nil, Nil), "unload")
               /\ UNCHANGED <<compVars, objVars, ret, fault>>
      <3>1. Enter("method", "destroy", Top.c, Nil, Nil) \in Activation
        BY <2>2, EnterType DEF Activations, Points, Methods, PortMethods, ImportPtr
      <3>2. stack' \in Seq(Activation)
        BY <1>0, <2>1, <2>3, <3>1, CallType
      <3>3. QED
        BY <2>3, <3>2 DEF TypeOK, compVars, objVars
    <2>4. CASE Goto("unload") /\ UNCHANGED <<compVars, objVars, ret, fault>>
      <3>1. stack' \in Seq(Activation)
        BY <1>0, <2>1, <2>4, GotoType
      <3>2. QED
        BY <2>4, <3>1 DEF TypeOK, compVars, objVars
    <2>5. CASE Fault("wild_call")
      BY <2>5, FaultType DEF Faults
    <2>6. QED
      BY <1>11, <2>3, <2>4, <2>5 DEF DestroyCall
  <1>12. CASE DestroyUnload
    BY <1>0, <1>12 DEF DestroyUnload, At, TypeOK, ComponentStates, objVars
  <1>13. CASE CloseImportsStep
    <2> DEFINE i == Top.i
    <2>1. stack # <<>> /\ Top.op = "close_imports" /\ Top.pc = "loop"
      BY <1>13 DEF CloseImportsStep, At
    <2>2. Top \in Activation /\ Rest \in Seq(Activation) /\ Top.c \in Comps
          /\ i \in ImportPtr
      BY <1>0, <2>1 DEF Activation
    <2>3. CASE i = Nil
      BY <1>13, <2>2, <2>3 DEF CloseImportsStep, TypeOK, compVars, objVars
    <2>4. CASE i # Nil /\ ~(Live(i) /\ Listed(i))
      BY <1>13, <2>4, FaultType DEF CloseImportsStep, Faults
    <2>5. CASE i # Nil /\ Live(i) /\ Listed(i)
      <3>1. i \in ImportIds /\ imp[i].client \in Comps /\ imports[Top.c] \in Seq(ImportIds)
        BY <2>2, <2>5 DEF ImportPtr, TypeOK, Import
      <3>2. Enter("free", "start", imp[i].client, i, Nil) \in Activation
        BY <3>1, EnterType DEF Activations, Points, PortMethods, ImportPtr
      <3>3. [Top EXCEPT !.i = After(imports[Top.c], i)] \in Activation
        BY <2>1, <2>2, <3>1, AfterType DEF Activation, PortMethods
      <3>4. stack' \in Seq(Activation)
        <4>1. stack' = <<Enter("free", "start", imp[i].client, i, Nil),
                         [Top EXCEPT !.i = After(imports[Top.c], i)]>> \o Rest
          BY <1>13, <2>5 DEF CloseImportsStep
        <4>2. QED
          BY <2>2, <3>2, <3>3, <4>1, PushTwoType
      <3>5. Without(imports[Top.c], i) \in Seq(ImportIds)
        BY <3>1, WithoutType
      <3>6. imports' \in [Comps -> Seq(ImportIds)]
        BY <1>13, <2>5, <3>5 DEF CloseImportsStep, TypeOK
      <3>7. QED
        BY <1>13, <2>5, <3>4, <3>6 DEF CloseImportsStep, TypeOK, objVars
    <2>6. QED
      BY <2>3, <2>4, <2>5
  <1>14. QED
    BY <1>1, <1>2, <1>3, <1>4, <1>5, <1>6, <1>7, <1>8, <1>9, <1>10, <1>11, <1>12, <1>13
       DEF ComponentStep

\* query_unlink_import keeps the queries typed.
LEMMA UnlinkType ==
  ASSUME TypeOK, NEW i \in ImportIds
  PROVE  Unlink(i) \in [QueryIds -> Query]
  <1> DEFINE q == imp[i].query
             rec == [[qry[q] EXCEPT !.first = IF @ = i THEN imp[i].next ELSE @]
                       EXCEPT !.last = IF @ = i THEN Nil ELSE @]
  <1>1. q \in QueryIds \cup {Nil} /\ imp[i].next \in ImportPtr
    BY DEF TypeOK, Import
  <1>2. CASE q # Nil /\ qry[q].live
    <2>1. q \in QueryIds /\ qry[q] \in Query
      BY <1>1, <1>2 DEF TypeOK
    <2>2. rec \in Query
      BY <1>1, <2>1 DEF Query, ImportPtr
    <2>3. Unlink(i) = [qry EXCEPT ![q] = rec]
      BY <1>2, <2>1 DEF Unlink, TypeOK
    <2> HIDE DEF rec
    <2>4. QED
      BY <2>1, <2>2, <2>3 DEF TypeOK
  <1>3. CASE ~(q # Nil /\ qry[q].live)
    BY <1>3 DEF Unlink, TypeOK
  <1>4. QED
    BY <1>2, <1>3

LEMMA OpenType ==
  TypeOK /\ (\/ OpenStart \/ OpenInited \/ OpenServer \/ OpenClient \/ OpenClientDone
             \/ OpenSwitch \/ OpenFailed \/ OpenFailedDone) => TypeOK'
  <1> SUFFICES ASSUME TypeOK, stack # <<>>, Top.op = "open",
                      \/ OpenStart \/ OpenInited \/ OpenServer \/ OpenClient \/ OpenClientDone
                      \/ OpenSwitch \/ OpenFailed \/ OpenFailedDone
               PROVE  TypeOK'
    BY DEF OpenStart, OpenInited, OpenServer, OpenClient, OpenClientDone, OpenSwitch,
      OpenFailed, OpenFailedDone, At
  <1> DEFINE i == Top.i
  <1>0. /\ stack \in Seq(Activation) /\ Rest \in Seq(Activation) /\ ret \in Results
        /\ i \in ImportIds /\ imp[i] \in Import /\ Top.c \in Comps
        /\ imp[i].client \in Comps /\ imp[i].server \in Comps
        /\ {"inited", "server", "client", "client_done", "switch", "failed", "release"}
             \subseteq PlainPoints
        /\ \A st \in ImportStates : [imp EXCEPT ![i].st = st] \in [ImportIds -> Import]
        /\ {"unregistered", "registered_to_server", "registered_to_client", "opened"}
             \subseteq ImportStates
    <2>1. stack \in Seq(Activation) /\ ret \in Results /\ imp \in [ImportIds -> Import]
      BY DEF TypeOK
    <2>2. Top \in Activation /\ Rest \in Seq(Activation)
      BY <2>1, TopType
    <2>3. i \in ImportIds /\ Top.c \in Comps
      BY <2>2 DEF Activation
    <2>4. imp[i] \in Import /\ imp[i].client \in Comps /\ imp[i].server \in Comps
      BY <2>1, <2>3 DEF Import
    <2>5. {"inited", "server", "client", "client_done", "switch", "failed", "release"}
             \subseteq PlainPoints
      BY DEF PlainPoints, Points, PortMethods
    <2>6. \A st \in ImportStates : [imp EXCEPT ![i].st = st] \in [ImportIds -> Import]
      BY <2>1, <2>3, StateType
    <2>7. QED
      BY <2>1, <2>2, <2>3, <2>4, <2>5, <2>6 DEF ImportStates
  <1> HIDE DEF i
  <1>1. CASE OpenStart
    <2>1. CASE Openable(i)
      <3>1. qry' \in [QueryIds -> Query]
        BY <1>0, <1>1, <2>1, UnlinkType DEF OpenStart, TypeOK, i
      <3>2. imp' \in [ImportIds -> Import]
        <4>1. [[imp[i] EXCEPT !.st = "unregistered"] EXCEPT !.query = Nil] \in Import
          BY <1>0 DEF Import
        <4>2. imp' = [imp EXCEPT ![i] =
                        [[imp[i] EXCEPT !.st = "unregistered"] EXCEPT !.query = Nil]]
          BY <1>0, <1>1, <2>1 DEF OpenStart, TypeOK, i
        <4>3. QED
          BY <4>1, <4>2 DEF TypeOK
      <3>3. Enter("init", "start", imp[i].server, Nil, Nil) \in Activation
        BY <1>0, EnterType DEF Activations, Points, PortMethods, ImportPtr
      <3>4. stack' \in Seq(Activation)
        <4>1. Call(Enter("init", "start", imp[i].server, Nil, Nil), "inited")
          BY <1>1, <2>1 DEF OpenStart, i
        <4>2. QED
          BY <1>0, <3>3, <4>1, CallType
      <3>5. QED
        BY <1>1, <2>1, <3>1, <3>2, <3>4 DEF OpenStart, TypeOK, compVars, i
    <2>2. CASE ~Openable(i)
      BY <1>0, <1>1, <2>2 DEF OpenStart, TypeOK, Results, compVars, i
    <2>3. QED
      BY <2>1, <2>2
  <1>2. CASE OpenInited
    <2>1. CASE Refused(ret)
      <3>1. stack' \in Seq(Activation)
        BY <1>0, <1>2, <2>1, GotoType DEF OpenInited
      <3>2. QED
        BY <1>2, <2>1, <3>1 DEF OpenInited, TypeOK, compVars, objVars
    <2>2. CASE ~Refused(ret) /\ ~Live(i)
      BY <1>2, <2>2, FaultType DEF OpenInited, Faults, i
    <2>3. CASE ~Refused(ret) /\ Live(i) /\ imp[i].st # "unregistered"
      BY <1>2, <2>3, FaultType DEF OpenInited, Faults, i
    <2>4. CASE ~Refused(ret) /\ Live(i) /\ imp[i].st = "unregistered"
      <3>1. <<Resume("server")>> \o Rest \in Seq(Activation)
        BY <1>0, ResumeType, PushType
      <3>2. Invoke("register_server", imp[i].server, i, <<Resume("server")>> \o Rest)
        BY <1>2, <2>4 DEF OpenInited, i
      <3>3. stack' \in Seq(Activation) /\ ret' \in Results
        BY <1>0, <3>1, <3>2, InvokeType DEF Methods, PortMethods
      <3>4. QED
        BY <1>0, <1>2, <2>4, <3>3 DEF OpenInited, TypeOK, compVars, i
    <2>5. QED
      BY <2>1, <2>2, <2>3, <2>4
  <1>3. CASE OpenServer
    <2>1. CASE Refused(ret)
      <3>1. stack' \in Seq(Activation)
        BY <1>0, <1>3, <2>1, GotoType DEF OpenServer
      <3>2. QED
        BY <1>3, <2>1, <3>1 DEF OpenServer, TypeOK, compVars, objVars
    <2>2. CASE ~Refused(ret) /\ ~Live(i)
      BY <1>3, <2>2, FaultType DEF OpenServer, Faults, i
    <2>3. CASE ~Refused(ret) /\ Live(i) /\ imp[i].port
      <3> DEFINE c == imp[i].client
      <3>1. imp' \in [ImportIds -> Import]
        BY <1>0, <1>3, <2>3 DEF OpenServer, i
      <3>2. refs' \in [Comps -> Nat]
        BY <1>0, <1>3, <2>3, RefType DEF OpenServer, TypeOK, i
      <3>3. PICK o \in {"ok", "no_library", "no_symbol"} :
              /\ Load(c, o)
              /\ IF o # "ok"
                   THEN Goto("client") /\ ret' = "error"
                   ELSE IF entry'[c] = "set"
                     THEN Call(Enter("method", "register_client", c, i, Nil), "client")
                          /\ ret' = ret
                     ELSE Goto("client") /\ ret' = "ok"
        BY <1>3, <2>3 DEF OpenServer, i
      <3>4. /\ cstate' \in [Comps -> ComponentStates]
            /\ entry' \in [Comps -> {"unset", "set", "null"}]
        BY <3>3, LoadType DEF TypeOK
      <3>5. Enter("method", "register_client", c, i, Nil) \in Activation
        BY <1>0, EnterType DEF Activations, Points, Methods, PortMethods, ImportPtr
      <3>6. stack' \in Seq(Activation) /\ ret' \in Results
        BY <1>0, <3>3, <3>5, GotoType, CallType DEF Results
      <3>7. QED
        BY <1>3, <2>3, <3>1, <3>2, <3>4, <3>6 DEF OpenServer, TypeOK, i
    <2>4. CASE ~Refused(ret) /\ Live(i) /\ ~imp[i].port
      <3>1. stack' \in Seq(Activation)
        BY <1>0, <1>3, <2>4, GotoType DEF OpenServer, i
      <3>2. imp' \in [ImportIds -> Import]
        BY <1>0, <1>3, <2>4 DEF OpenServer, i
      <3>3. QED
        BY <1>3, <2>4, <3>1, <3>2 DEF OpenServer, TypeOK, compVars, i
    <2>5. QED
      BY <2>1, <2>2, <2>3, <2>4
  <1>4. CASE OpenClient
    <2>1. CASE ~Live(i)
      BY <1>4, <2>1, FaultType DEF OpenClient, Faults, i
    <2>2. CASE Live(i)
      <3>1. <<Answered>> \o Rest \in Seq(Activation)
        BY <1>0, AnsweredType
      <3>2. Unref(imp[i].client, <<Answered>> \o Rest)
        BY <1>4, <2>2 DEF OpenClient, i
      <3>3. refs' \in [Comps -> Nat] /\ fault' \in Faults /\ stack' \in Seq(Activation)
        BY <1>0, <3>1, <3>2, UnrefType DEF TypeOK
      <3>4. QED
        BY <1>4, <2>2, <3>3 DEF OpenClient, TypeOK, objVars, i
    <2>3. QED
      BY <2>1, <2>2
  <1>9. CASE OpenClientDone
    <2>1. CASE Refused(Top.r)
      <3>1. stack' \in Seq(Activation)
        BY <1>0, <1>9, <2>1, GotoType DEF OpenClientDone
      <3>2. QED
        BY <1>9, <2>1, <3>1 DEF OpenClientDone, TypeOK, compVars, objVars
    <2>2. CASE ~Refused(Top.r) /\ ~Live(i)
      BY <1>9, <2>2, FaultType DEF OpenClientDone, Faults, i
    <2>3. CASE ~Refused(Top.r) /\ Live(i)
      <3>1. stack' \in Seq(Activation)
        BY <1>0, <1>9, <2>3, GotoType DEF OpenClientDone, i
      <3>2. imp' \in [ImportIds -> Import]
        BY <1>0, <1>9, <2>3 DEF OpenClientDone, i
      <3>3. QED
        BY <1>9, <2>3, <3>1, <3>2 DEF OpenClientDone, TypeOK, compVars, i
    <2>4. QED
      BY <2>1, <2>2, <2>3
  <1>5. CASE OpenSwitch
    <2>1. CASE ~Live(i)
      BY <1>5, <2>1, FaultType DEF OpenSwitch, Faults, i
    <2>2. CASE Live(i) /\ entry[imp[i].server] # "set"
      BY <1>5, <2>2, FaultType DEF OpenSwitch, Faults, i
    <2>3. CASE Live(i) /\ entry[imp[i].server] = "set"
      <3>1. imp' \in [ImportIds -> Import]
        BY <1>0, <1>5, <2>3 DEF OpenSwitch, i
      <3>2. QED
        BY <1>0, <1>5, <2>3, <3>1 DEF OpenSwitch, TypeOK, Results, compVars, i
    <2>4. QED
      BY <2>1, <2>2, <2>3
  <1>6. CASE OpenFailed
    <2>1. Enter("close", "start", Top.c, Top.i, Nil) \in Activation
      BY <1>0, EnterType DEF Activations, Points, PortMethods, ImportPtr, i
    <2>2. stack' \in Seq(Activation)
      BY <1>0, <1>6, <2>1, CallType DEF OpenFailed
    <2>3. QED
      BY <1>6, <2>2 DEF OpenFailed, TypeOK, compVars, objVars
  <1>7. CASE OpenFailedDone
    BY <1>0, <1>7 DEF OpenFailedDone, TypeOK, Results, compVars, objVars
  <1>8. QED
    BY <1>1, <1>2, <1>3, <1>4, <1>5, <1>6, <1>7, <1>9

LEMMA CloseType ==
  TypeOK /\ (\/ CloseStart \/ FreeStart \/ FreeClient \/ FreeClientDone \/ FreeServer
             \/ FreeRelease \/ FreeDone) => TypeOK'
  <1> SUFFICES ASSUME TypeOK, stack # <<>>, Top.op \in {"close", "free"},
                      \/ CloseStart \/ FreeStart \/ FreeClient \/ FreeClientDone \/ FreeServer
                      \/ FreeRelease \/ FreeDone
               PROVE  TypeOK'
    BY DEF CloseStart, FreeStart, FreeClient, FreeClientDone, FreeServer, FreeRelease,
      FreeDone, At
  <1> DEFINE i == Top.i
  <1>0. /\ stack \in Seq(Activation) /\ Rest \in Seq(Activation) /\ ret \in Results
        /\ i \in ImportIds /\ imp[i] \in Import
        /\ imp[i].client \in Comps /\ imp[i].server \in Comps
        /\ {"client", "client_done", "server", "release", "freed"} \subseteq PlainPoints
        /\ \A st \in ImportStates : [imp EXCEPT ![i].st = st] \in [ImportIds -> Import]
        /\ {"unregistered", "registered_to_server", "registered_to_client"}
             \subseteq ImportStates
    <2>1. stack \in Seq(Activation) /\ ret \in Results /\ imp \in [ImportIds -> Import]
      BY DEF TypeOK
    <2>2. Top \in Activation /\ Rest \in Seq(Activation)
      BY <2>1, TopType
    <2>3. i \in ImportIds
      BY <2>2 DEF Activation
    <2>4. imp[i] \in Import /\ imp[i].client \in Comps /\ imp[i].server \in Comps
      BY <2>1, <2>3 DEF Import
    <2>5. {"client", "client_done", "server", "release", "freed"} \subseteq PlainPoints
      BY DEF PlainPoints, Points, PortMethods
    <2>6. \A st \in ImportStates : [imp EXCEPT ![i].st = st] \in [ImportIds -> Import]
      BY <2>1, <2>3, StateType
    <2>7. QED
      BY <2>1, <2>2, <2>3, <2>4, <2>5, <2>6 DEF ImportStates
  <1> HIDE DEF i
  <1>1. CASE CloseStart
    <2>1. CASE ~(Live(i) /\ Listed(i))
      BY <1>1, <2>1, FaultType DEF CloseStart, Faults, i
    <2>2. CASE Live(i) /\ Listed(i)
      <3> DEFINE c == imp[i].client
                 free == <<Enter("free", "start", c, i, Nil)>> \o Rest
      <3>1. free \in Seq(Activation)
        <4>1. Enter("free", "start", c, i, Nil) \in Activation
          BY <1>0, EnterType DEF Activations, Points, PortMethods, ImportPtr
        <4>2. QED
          BY <1>0, <4>1, PushType
      <3>2. Enter("destroy", "start", c, Nil, Nil) \in Activation
        BY <1>0, EnterType DEF Activations, Points, PortMethods, ImportPtr
      <3>3. stack' = IF refs[c] = 0 THEN <<Enter("destroy", "start", c, Nil, Nil)>> \o free
                                    ELSE free
        BY <1>1, <2>2 DEF CloseStart, i
      <3>4. stack' \in Seq(Activation)
        <4> HIDE DEF free, c
        <4>1. QED
          BY <3>1, <3>2, <3>3, PushType
      <3>5. Without(imports[c], i) \in Seq(ImportIds)
        BY <1>0, WithoutType DEF TypeOK
      <3>6. imports' \in [Comps -> Seq(ImportIds)]
        BY <1>0, <1>1, <2>2, <3>5 DEF CloseStart, TypeOK, i
      <3>7. QED
        BY <1>1, <2>2, <3>4, <3>6 DEF CloseStart, TypeOK, objVars, i
    <2>3. QED
      BY <2>1, <2>2
  <1>2. CASE FreeStart
    <2>1. CASE ~Live(i)
      BY <1>2, <2>1, FaultType DEF FreeStart, Faults, i
    <2>2. CASE Live(i) /\ Registered(i) /\ imp[i].port
      <3>1. imp' \in [ImportIds -> Import]
        BY <1>0, <1>2, <2>2 DEF FreeStart, i
      <3>2. refs' \in [Comps -> Nat]
        BY <1>0, <1>2, <2>2, RefType DEF FreeStart, TypeOK, i
      <3>3. <<Resume("client")>> \o Rest \in Seq(Activation)
        BY <1>0, ResumeType, PushType
      <3>4. Invoke("unregister_client", imp[i].client, i, <<Resume("client")>> \o Rest)
        BY <1>2, <2>2 DEF FreeStart, i
      <3>5. stack' \in Seq(Activation) /\ ret' \in Results
        BY <1>0, <3>3, <3>4, InvokeType DEF Methods, PortMethods
      <3>6. QED
        BY <1>2, <2>2, <3>1, <3>2, <3>5 DEF FreeStart, TypeOK, i
    <2>3. CASE Live(i) /\ ~(Registered(i) /\ imp[i].port)
      <3>1. imp' \in [ImportIds -> Import]
        BY <1>0, <1>2, <2>3 DEF FreeStart, TypeOK, i
      <3>2. stack' \in Seq(Activation)
        BY <1>0, <1>2, <2>3, GotoType DEF FreeStart, i
      <3>3. QED
        BY <1>2, <2>3, <3>1, <3>2 DEF FreeStart, TypeOK, compVars, i
    <2>4. QED
      BY <2>1, <2>2, <2>3
  <1>3. CASE FreeClient
    <2>1. CASE ~Live(i)
      BY <1>3, <2>1, FaultType DEF FreeClient, Faults, i
    <2>2. CASE Live(i)
      <3>1. <<Answered>> \o Rest \in Seq(Activation)
        BY <1>0, AnsweredType
      <3>2. Unref(imp[i].client, <<Answered>> \o Rest)
        BY <1>3, <2>2 DEF FreeClient, i
      <3>3. refs' \in [Comps -> Nat] /\ fault' \in Faults /\ stack' \in Seq(Activation)
        BY <1>0, <3>1, <3>2, UnrefType DEF TypeOK
      <3>4. QED
        BY <1>3, <2>2, <3>3 DEF FreeClient, TypeOK, objVars, i
    <2>3. QED
      BY <2>1, <2>2
  <1>8. CASE FreeClientDone
    <2>1. CASE Top.r = "error"
      <3>1. stack' \in Seq(Activation)
        BY <1>0, <1>8, <2>1, GotoType DEF FreeClientDone
      <3>2. QED
        BY <1>8, <2>1, <3>1 DEF FreeClientDone, TypeOK, compVars, objVars
    <2>2. CASE Top.r # "error" /\ ~Live(i)
      BY <1>8, <2>2, FaultType DEF FreeClientDone, Faults, i
    <2>3. CASE Top.r # "error" /\ Live(i)
      <3>1. stack' \in Seq(Activation)
        BY <1>0, <1>8, <2>3, GotoType DEF FreeClientDone, i
      <3>2. imp' \in [ImportIds -> Import]
        BY <1>0, <1>8, <2>3 DEF FreeClientDone, i
      <3>3. QED
        BY <1>8, <2>3, <3>1, <3>2 DEF FreeClientDone, TypeOK, compVars, i
    <2>4. QED
      BY <2>1, <2>2, <2>3
  <1>4. CASE FreeServer
    <2>1. CASE imp[i].st = "registered_to_server"
      <3>1. <<Resume("release")>> \o Rest \in Seq(Activation)
        BY <1>0, ResumeType, PushType
      <3>2. Invoke("unregister_server", imp[i].server, i, <<Resume("release")>> \o Rest)
        BY <1>4, <2>1 DEF FreeServer, i
      <3>3. stack' \in Seq(Activation) /\ ret' \in Results
        BY <1>0, <3>1, <3>2, InvokeType DEF Methods, PortMethods
      <3>4. QED
        BY <1>4, <3>3 DEF FreeServer, TypeOK, compVars, objVars
    <2>2. CASE imp[i].st # "registered_to_server"
      <3>1. stack' \in Seq(Activation)
        BY <1>0, <1>4, <2>2, GotoType DEF FreeServer, i
      <3>2. QED
        BY <1>4, <2>2, <3>1 DEF FreeServer, TypeOK, compVars, objVars, i
    <2>3. QED
      BY <2>1, <2>2
  <1>5. CASE FreeRelease
    <2>1. CASE ~Live(i)
      BY <1>5, <2>1, FaultType DEF FreeRelease, Faults, i
    <2>2. CASE Live(i)
      <3>1. imp' \in [ImportIds -> Import]
        BY <1>0, <1>5, <2>2 DEF FreeRelease, TypeOK, i
      <3>2. <<Resume("freed")>> \o Rest \in Seq(Activation)
        BY <1>0, ResumeType, PushType
      <3>3. Unref(imp[i].server, <<Resume("freed")>> \o Rest)
        BY <1>5, <2>2 DEF FreeRelease, i
      <3>4. refs' \in [Comps -> Nat] /\ fault' \in Faults /\ stack' \in Seq(Activation)
        BY <1>0, <3>2, <3>3, UnrefType DEF TypeOK
      <3>5. QED
        BY <1>5, <2>2, <3>1, <3>4 DEF FreeRelease, TypeOK, i
    <2>3. QED
      BY <2>1, <2>2
  <1>6. CASE FreeDone
    <2>1. NoImport \in Import
      BY <1>0 DEF NoImport, Import, ImportPtr, Comps
    <2>2. imp' \in [ImportIds -> Import]
      BY <1>6, <2>1 DEF FreeDone, TypeOK, i
    <2>3. QED
      BY <1>0, <1>6, <2>2 DEF FreeDone, TypeOK, compVars
  <1>7. QED
    BY <1>1, <1>2, <1>3, <1>4, <1>5, <1>6, <1>8

LEMMA QueryStepType == TypeOK /\ QueryStep => TypeOK'
  <1> SUFFICES ASSUME TypeOK, stack # <<>>, Top.op = "finish",
                      Top.pc \in {"start", "back", "forward", "finish"}, QueryStep
               PROVE  TypeOK'
    BY DEF QueryStep, FinishStart, FinishBack, FinishForward, FinishDone, At
  <1> DEFINE i == Top.i
  <1>0. /\ Top \in Activation /\ Rest \in Seq(Activation) /\ Top.c \in Comps
        /\ Top.q \in QueryIds /\ i \in ImportPtr
        /\ stack \in Seq(Activation) /\ "finish" \in PlainPoints
    BY TopType DEF Activation, TypeOK, PlainPoints, Points, PortMethods
  <1>1. i # Nil => i \in ImportIds /\ imp[i] \in Import
    BY <1>0 DEF ImportPtr, TypeOK
  <1>2. ASSUME NEW succ \in ImportPtr, i # Nil, FinishVisit(i, succ)
        PROVE  TypeOK'
    <2>1. Enter("close", "start", imp[i].client, i, Nil) \in Activation
      BY <1>1, <1>2, EnterType DEF Import, Activations, Points, PortMethods, ImportPtr
    <2>2. [Top EXCEPT !.i = succ] \in Activation
      BY <1>0 DEF Activation, PortMethods
    <2>3. stack' \in Seq(Activation)
      <3>1. <<[Top EXCEPT !.i = succ]>> \o Rest \in Seq(Activation)
        BY <1>0, <2>2, PushType
      <3>2. QED
        BY <1>2, <2>1, <3>1, PushType DEF FinishVisit
    <2>4. QED
      BY <1>2, <2>3 DEF FinishVisit, TypeOK, compVars, objVars
  <1>3. CASE FinishStart
    <2>1. CASE i = Nil
      <3>1. stack' \in Seq(Activation)
        BY <1>0, <1>3, <2>1, GotoType DEF FinishStart
      <3>2. QED
        BY <1>3, <2>1, <3>1 DEF FinishStart, TypeOK, compVars, objVars
    <2>2. CASE i # Nil /\ ~Live(i)
      BY <1>3, <2>2, FaultType DEF FinishStart, Faults
    <2>3. CASE i # Nil /\ Live(i)
      <3>1. imp[i].prev \in ImportPtr
        BY <1>1, <2>3 DEF Import
      <3>2. [Resume("back") EXCEPT !.i = imp[i].prev, !.j = i] \in Activation
        BY <1>0, <3>1 DEF Resume, Activation, Points, PortMethods
      <3>3. stack' \in Seq(Activation)
        BY <1>0, <1>3, <2>3, <3>2, PushType DEF FinishStart
      <3>4. QED
        BY <1>3, <2>3, <3>3 DEF FinishStart, TypeOK, compVars, objVars
    <2>4. QED
      BY <2>1, <2>2, <2>3
  <1>4. CASE FinishBack
    <2>1. CASE i = Nil
      <3>1. [Resume("forward") EXCEPT !.i = Top.j, !.j = Nil] \in Activation
        BY <1>0 DEF Resume, Activation, Points, PortMethods, ImportPtr
      <3>2. stack' \in Seq(Activation)
        BY <1>0, <1>4, <2>1, <3>1, PushType DEF FinishBack
      <3>3. QED
        BY <1>4, <2>1, <3>2 DEF FinishBack, TypeOK, compVars, objVars
    <2>2. CASE i # Nil /\ ~Live(i)
      BY <1>4, <2>2, FaultType DEF FinishBack, Faults
    <2>3. CASE i # Nil /\ Live(i)
      BY <1>1, <1>2, <1>4, <2>3 DEF FinishBack, Import
    <2>4. QED
      BY <2>1, <2>2, <2>3
  <1>5. CASE FinishForward
    <2>1. CASE i = Nil
      <3>1. stack' \in Seq(Activation)
        BY <1>0, <1>5, <2>1, GotoType DEF FinishForward
      <3>2. QED
        BY <1>5, <2>1, <3>1 DEF FinishForward, TypeOK, compVars, objVars
    <2>2. CASE i # Nil /\ ~Live(i)
      BY <1>5, <2>2, FaultType DEF FinishForward, Faults
    <2>3. CASE i # Nil /\ Live(i)
      BY <1>1, <1>2, <1>5, <2>3 DEF FinishForward, Import
    <2>4. QED
      BY <2>1, <2>2, <2>3
  <1>6. CASE FinishDone
    <2>1. NoQuery \in Query
      BY DEF NoQuery, Query, ImportPtr, Comps
    <2>2. qry' \in [QueryIds -> Query]
      BY <1>6, <2>1 DEF FinishDone, QueryRemoved, TypeOK
    <2>3. refs' \in [Comps -> Nat] /\ fault' \in Faults /\ stack' \in Seq(Activation)
      BY <1>0, <1>6, UnrefType DEF FinishDone, TypeOK
    <2>4. QED
      BY <1>6, <2>2, <2>3 DEF FinishDone, TypeOK, Results
  <1>7. QED
    BY <1>3, <1>4, <1>5, <1>6 DEF QueryStep

LEMMA MethodReturnType == TypeOK /\ MethodReturn => TypeOK'
  <1> SUFFICES ASSUME TypeOK, stack # <<>>, MethodReturn PROVE TypeOK'
    BY DEF MethodReturn
  <1>1. Top \in Activation /\ Rest \in Seq(Activation)
    BY TopType DEF TypeOK
  <1>2. ret' \in Results
    BY OutcomeAssumption DEF MethodReturn, Outcomes, Results
  <1>3. up' \in [Comps -> BOOLEAN]
    BY DEF MethodReturn, TypeOK
  <1>4. imp' \in [ImportIds -> Import]
    <2>1. CASE Top.pc \in PortMethods
      <3>1. Top.i \in ImportIds
        BY <1>1, <2>1 DEF Activation
      <3>2. \A r \in BOOLEAN : /\ [imp[Top.i] EXCEPT !.srvReg = r] \in Import
                              /\ [imp[Top.i] EXCEPT !.cliReg = r] \in Import
        <4>1. imp[Top.i] \in Import
          BY <3>1 DEF TypeOK
        <4>2. QED
          BY <4>1 DEF Import
      <3>3. PICK r \in BOOLEAN :
              imp' \in {[imp EXCEPT ![Top.i].srvReg = r], [imp EXCEPT ![Top.i].cliReg = r]}
        <4>1. (ret' = "ok") \in BOOLEAN
          OBVIOUS
        <4>2. CASE Top.pc = "register_server"
          BY <4>1, <4>2 DEF MethodReturn
        <4>3. CASE Top.pc = "register_client"
          BY <4>1, <4>3 DEF MethodReturn
        <4>4. CASE Top.pc = "unregister_server"
          BY <4>4 DEF MethodReturn
        <4>5. CASE Top.pc = "unregister_client"
          BY <4>5 DEF MethodReturn
        <4>6. QED
          BY <2>1, <4>2, <4>3, <4>4, <4>5 DEF PortMethods
      <3>4. CASE imp' = [imp EXCEPT ![Top.i].srvReg = r]
        BY <3>1, <3>2, <3>4 DEF TypeOK
      <3>5. CASE imp' = [imp EXCEPT ![Top.i].cliReg = r]
        BY <3>1, <3>2, <3>5 DEF TypeOK
      <3>6. QED
        BY <3>3, <3>4, <3>5
    <2>2. CASE Top.pc \notin PortMethods
      BY <2>2 DEF MethodReturn, PortMethods, TypeOK
    <2>3. QED
      BY <2>1, <2>2
  <1>5. QED
    BY <1>1, <1>2, <1>3, <1>4 DEF MethodReturn, TypeOK

LEMMA ApiCallType == TypeOK /\ ApiCall => TypeOK'
  <1> SUFFICES ASSUME TypeOK, ApiCall PROVE TypeOK'
    OBVIOUS
  <1>0. /\ stack \in Seq(Activation) /\ ret \in Results
        /\ imp \in [ImportIds -> Import] /\ qry \in [QueryIds -> Query]
    BY DEF TypeOK
  <1>1. ASSUME NEW c \in Comps, NEW iface \in Interfaces, xCOM_QueryInterface(c, iface)
        PROVE  TypeOK'
    <2>1. PICK q \in QueryIds : QueryNew(c, iface, FALSE, TRUE, q, stack)
      BY <1>1 DEF xCOM_QueryInterface
    <2>2. QED
      BY <1>1, <2>1, QueryNewType DEF xCOM_QueryInterface, TypeOK, Results
  <1>2. ASSUME NEW c \in Comps, NEW iface \in Interfaces, xCOM_QueryPort(c, iface)
        PROVE  TypeOK'
    <2>1. PICK q \in QueryIds : QueryNew(c, iface, TRUE, TRUE, q, stack)
      BY <1>2 DEF xCOM_QueryPort
    <2>2. QED
      BY <1>2, <2>1, QueryNewType DEF xCOM_QueryPort, TypeOK, Results
  <1>3. ASSUME NEW q \in QueryIds, xCOM_QueryNext(q)
        PROVE  TypeOK'
    <2> DEFINE i == qry[q].cursor
    <2>1. i \in ImportIds
      BY <1>0, <1>3 DEF xCOM_QueryNext, Query, ImportPtr
    <2>2. CASE ~Live(i)
      BY <1>3, <2>2, FaultType DEF xCOM_QueryNext, Faults
    <2>3. CASE Live(i)
      <3>1. imp[i].next \in ImportPtr
        BY <1>0, <2>1 DEF Import
      <3>2. qry' \in [QueryIds -> Query]
        BY <1>0, <1>3, <2>3, <3>1, CursorType DEF xCOM_QueryNext
      <3>3. QED
        BY <1>3, <2>1, <2>3, <3>2 DEF xCOM_QueryNext, TypeOK, Results, compVars
    <2>4. QED
      BY <2>2, <2>3
  <1>4. ASSUME NEW q \in QueryIds, xCOM_QueryFinish(q)
        PROVE  TypeOK'
    <2>1. Enter("finish", "start", qry[q].client, qry[q].first, q) \in Activation
      BY <1>0, EnterType DEF Query, Activations, Points, PortMethods
    <2>2. stack' \in Seq(Activation)
      BY <1>0, <1>4, <2>1, PushType DEF xCOM_QueryFinish
    <2>3. QED
      BY <1>4, <2>2 DEF xCOM_QueryFinish, TypeOK, compVars, objVars
  <1>5. ASSUME NEW i \in ImportIds
        PROVE  /\ Enter("open", "start", imp[i].client, i, Nil) \in Activation
               /\ Enter("close", "start", imp[i].client, i, Nil) \in Activation
    BY <1>0, EnterType DEF Import, Activations, Points, PortMethods, ImportPtr
  <1>6. ASSUME NEW i \in ImportIds, xCOM_Import(i)
        PROVE  TypeOK'
    <2>1. stack' \in Seq(Activation)
      BY <1>0, <1>5, <1>6, PushType DEF xCOM_Import
    <2>2. QED
      BY <1>6, <2>1 DEF xCOM_Import, TypeOK, compVars, objVars
  <1>7. ASSUME NEW i \in ImportIds, xCOM_UnImport(i)
        PROVE  TypeOK'
    <2>1. stack' \in Seq(Activation)
      BY <1>0, <1>5, <1>7, PushType DEF xCOM_UnImport
    <2>2. QED
      BY <1>7, <2>1 DEF xCOM_UnImport, TypeOK, compVars, objVars
  <1>8. ASSUME NEW i \in ImportIds, Access(i)
        PROVE  imp' \in [ImportIds -> Import]
    BY <1>0, <1>8, StateType DEF Access, ImportStates
  <1>9. ASSUME NEW i \in ImportIds, ImportAccessor(i)
        PROVE  TypeOK'
    BY <1>8, <1>9 DEF ImportAccessor, TypeOK, compVars
  <1>10. ASSUME NEW i \in ImportIds, xCOM_GetNextImport(i)
         PROVE  TypeOK'
    <2> DEFINE j == imp[i].next
    <2>1. CASE j # Nil /\ ~Live(j)
      BY <1>10, <2>1, FaultType DEF xCOM_GetNextImport, Faults
    <2>2. CASE ~(j # Nil /\ ~Live(j))
      <3>1. j \in ImportIds \cup {Nil}
        BY <1>0 DEF Import, ImportPtr
      <3>2. given' \subseteq ImportIds
        BY <1>10, <2>2, <3>1 DEF xCOM_GetNextImport, TypeOK
      <3>3. imp' \in [ImportIds -> Import]
        BY <1>8, <1>10, <2>2 DEF xCOM_GetNextImport
      <3>4. QED
        BY <1>10, <2>2, <3>2, <3>3 DEF xCOM_GetNextImport, TypeOK, compVars
    <2>3. QED
      BY <2>1, <2>2
  <1>11. ASSUME NEW c \in Comps, ComponentAccessor(c)
         PROVE  TypeOK'
    <2>1. Enter("destroy", "start", c, Nil, Nil) \in Activation
      BY EnterType DEF Activations, Points, PortMethods, ImportPtr
    <2>2. stack' \in Seq(Activation)
      BY <1>0, <1>11, <2>1, PushType DEF ComponentAccessor
    <2>3. QED
      BY <1>11, <2>2 DEF ComponentAccessor, TypeOK, compVars, objVars
  <1>12. QED
    BY <1>1, <1>2, <1>3, <1>4, <1>6, <1>7, <1>9, <1>10, <1>11 DEF ApiCall

\* Whatever clients do and whatever methods return, the state of the library
\* stays well typed: a pointer of an import, a query or an activation names an
\* import or is NULL, a function that dereferences its argument has one, and a
\* count of references is a natural number (component_unref, import_new,
\* query_add_import, and the functions that call each other).
THEOREM TypeCorrect == Spec => []TypeOK
  <1>1. Init => TypeOK
    BY WiringAssumption DEF Init, TypeOK, ComponentStates, NoImport, Import, NoQuery, Query,
      ImportPtr, Comps, Results, Faults
  <1>2. TypeOK /\ [Next]_vars => TypeOK'
    <2> SUFFICES ASSUME TypeOK, [Next]_vars PROVE TypeOK'
      OBVIOUS
    <2>1. CASE ComponentStep
      BY <2>1, ComponentStepType
    <2>2. CASE ImportStep
      BY <2>2, OpenType, CloseType DEF ImportStep
    <2>3. CASE QueryStep
      BY <2>3, QueryStepType
    <2>4. CASE MethodReturn
      BY <2>4, MethodReturnType
    <2>5. CASE ApiCall
      BY <2>5, ApiCallType
    <2>6. CASE UNCHANGED vars
      BY <2>6 DEF vars, TypeOK
    <2>7. QED
      BY <2>1, <2>2, <2>3, <2>4, <2>5, <2>6 DEF Next, Step
  <1>3. QED
    BY <1>1, <1>2, PTL DEF Spec

-----------------------------------------------------------------------------
(* The list of a client's imports.  Imports enter it when query_new creates  *)
(* them and leave it when import_close or component_close_imports hands them *)
(* to import_free, so that what matters of the call stack is which           *)
(* import_free activations are on it.  component_close_imports keeps a       *)
(* pointer to the next import across such an activation, in which components *)
(* are called back: that the pointer still names an import of the same       *)
(* client, if it names a live one, is the strengthening the induction needs  *)
(* (WalksOwn).                                                               *)

\* The part of the call stack that the lists depend on.
Watched == {"free", "close_imports"}
Trace(f) == IF f.op \in Watched THEN {[op |-> f.op, c |-> f.c, i |-> f.i]} ELSE {}
Traces(s) == UNION {Trace(s[n]) : n \in DOMAIN s}

Elements(list) == {list[n] : n \in DOMAIN list}

\* An activation of component_close_imports that is about to close a live
\* import closes one of its own component.
WalksOwn ==
  \A t \in Traces(stack) :
    t.op = "close_imports" /\ t.i \in ImportIds /\ Live(t.i) => imp[t.i].client = t.c

ListsInv == ListsExact /\ WalksOwn

-----------------------------------------------------------------------------
(* Traces of the call stack *)

LEMMA TracesPush ==
  ASSUME NEW S, NEW f, NEW s \in Seq(S)
  PROVE  Traces(<<f>> \o s) = Trace(f) \cup Traces(s)
  <1> DEFINE T == S \cup {f}
             p == <<f>> \o s
  <1>1. s \in Seq(T) /\ <<f>> \in Seq(T)
    BY SeqMonotonic
  <1>2. /\ Len(p) = 1 + Len(s) /\ DOMAIN p = 1..1 + Len(s)
        /\ \A n \in 1..1 + Len(s) : p[n] = IF n <= 1 THEN f ELSE s[n - 1]
    BY <1>1, ConcatProperties, LenProperties
  <1>3. Len(s) \in Nat /\ DOMAIN s = 1..Len(s)
    BY LenProperties
  <1> HIDE DEF p
  <1>4. p[1] = f /\ 1 \in DOMAIN p
    BY <1>2, <1>3
  <1>5. \A n \in DOMAIN s : n + 1 \in DOMAIN p /\ p[n + 1] = s[n]
    BY <1>2, <1>3
  <1>6. \A n \in DOMAIN p : n # 1 => n - 1 \in DOMAIN s /\ p[n] = s[n - 1]
    BY <1>2, <1>3
  <1>7. Traces(p) \subseteq Trace(f) \cup Traces(s)
    <2> SUFFICES ASSUME NEW n \in DOMAIN p, NEW t \in Trace(p[n])
                 PROVE  t \in Trace(f) \cup Traces(s)
      BY DEF Traces
    <2>1. CASE n = 1
      BY <1>4, <2>1
    <2>2. CASE n # 1
      BY <1>6, <2>2 DEF Traces
    <2>3. QED
      BY <2>1, <2>2
  <1>8. Trace(f) \subseteq Traces(p)
    BY <1>4 DEF Traces
  <1>9. Traces(s) \subseteq Traces(p)
    <2> SUFFICES ASSUME NEW n \in DOMAIN s, NEW t \in Trace(s[n])
                 PROVE  t \in Traces(p)
      BY DEF Traces
    <2>1. n + 1 \in DOMAIN p /\ t \in Trace(p[n + 1])
      BY <1>5
    <2>2. QED
      BY <2>1 DEF Traces
  <1>10. QED
    BY <1>7, <1>8, <1>9 DEF p

LEMMA TracesPushTwo ==
  ASSUME NEW S, NEW f, NEW g, NEW s \in Seq(S)
  PROVE  Traces(<<f, g>> \o s) = Trace(f) \cup Trace(g) \cup Traces(s)
  <1> DEFINE T == S \cup {f, g}
             a == <<f>> \o <<g>>
             b == <<f, g>>
             r == <<g>> \o s
  <1>1. s \in Seq(T) /\ <<f>> \in Seq(T) /\ <<g>> \in Seq(T)
    BY SeqMonotonic
  <1>2. a = b
    <2>1. a \in Seq(T) /\ Len(a) = 2 /\ a[1] = f /\ a[2] = g
      BY <1>1, ConcatProperties
    <2>2. b \in Seq(T) /\ Len(b) = 2 /\ b[1] = f /\ b[2] = g
      OBVIOUS
    <2> HIDE DEF a, b
    <2>3. \A n \in 1..Len(a) : a[n] = b[n]
      BY <2>1, <2>2
    <2>4. QED
      BY <2>1, <2>2, <2>3, SeqEqual
  <1>3. a \o s = <<f>> \o r
    BY <1>1, ConcatAssociative
  <1>4. r \in Seq(T)
    BY <1>1, ConcatProperties
  <1>5. Traces(r) = Trace(g) \cup Traces(s)
    BY TracesPush
  <1> HIDE DEF r
  <1>6. Traces(<<f>> \o r) = Trace(f) \cup Traces(r)
    BY <1>4, TracesPush
  <1>7. QED
    BY <1>2, <1>3, <1>5, <1>6

LEMMA TracesTop ==
  ASSUME stack \in Seq(Activation), stack # <<>>
  PROVE  Traces(stack) = Trace(Top) \cup Traces(Rest)
  <1>1. Top \in Activation /\ Rest \in Seq(Activation)
    BY TopType
  <1>2. stack = <<Top>> \o Rest
    BY HeadTailProperties DEF Top, Rest
  <1>3. QED
    BY <1>1, <1>2, TracesPush

\* What names the import of an import_free activation.
LEMMA TracesFree ==
  ASSUME NEW s, NEW i
  PROVE  (\E n \in DOMAIN s : s[n].op = "free" /\ s[n].i = i)
           <=> \E t \in Traces(s) : t.op = "free" /\ t.i = i
  <1>1. ASSUME NEW n \in DOMAIN s, s[n].op = "free", s[n].i = i
        PROVE  \E t \in Traces(s) : t.op = "free" /\ t.i = i
    <2> DEFINE t == [op |-> s[n].op, c |-> s[n].c, i |-> s[n].i]
    <2>1. t \in Trace(s[n])
      BY <1>1 DEF Trace, Watched
    <2>2. t \in Traces(s)
      BY <2>1 DEF Traces
    <2>3. QED
      BY <1>1, <2>2
  <1>2. ASSUME NEW t \in Traces(s), t.op = "free", t.i = i
        PROVE  \E n \in DOMAIN s : s[n].op = "free" /\ s[n].i = i
    <2>1. PICK n \in DOMAIN s : t \in Trace(s[n])
      BY DEF Traces
    <2>2. t = [op |-> s[n].op, c |-> s[n].c, i |-> s[n].i]
      BY <2>1 DEF Trace
    <2>3. QED
      BY <1>2, <2>2
  <1>3. QED
    BY <1>1, <1>2

-----------------------------------------------------------------------------
(* Steps that change neither a list nor what is being freed *)

LEMMA EnterTrace ==
  ASSUME NEW op, NEW pc, NEW c, NEW i, NEW q
  PROVE  /\ op \notin Watched => Trace(Enter(op, pc, c, i, q)) = {}
         /\ op \in Watched => Trace(Enter(op, pc, c, i, q)) = {[op |-> op, c |-> c, i |-> i]}
  BY DEF Trace, Enter

LEMMA EnterTraces ==
  ASSUME NEW op, op \notin Watched, NEW pc, NEW c, NEW i, NEW q, NEW S, NEW s \in Seq(S)
  PROVE  Traces(<<Enter(op, pc, c, i, q)>> \o s) = Traces(s)
  <1> DEFINE f == Enter(op, pc, c, i, q)
  <1>1. Trace(f) = {}
    BY EnterTrace
  <1> HIDE DEF f
  <1>2. Traces(<<f>> \o s) = Trace(f) \cup Traces(s)
    BY TracesPush
  <1>3. QED
    BY <1>1, <1>2 DEF f

LEMMA PlainTraces ==
  ASSUME NEW S, NEW s \in Seq(S), NEW f, NEW g
  PROVE  Trace(f) = {} /\ Trace(g) = {}
           => Traces(<<f>> \o s) = Traces(s) /\ Traces(<<f, g>> \o s) = Traces(s)
  <1>1. Traces(<<f>> \o s) = Trace(f) \cup Traces(s)
    BY TracesPush
  <1>2. Traces(<<f, g>> \o s) = Trace(f) \cup Trace(g) \cup Traces(s)
    BY TracesPushTwo
  <1>3. QED
    BY <1>1, <1>2

LEMMA ResumeTrace ==
  ASSUME stack \in Seq(Activation), stack # <<>>, NEW pc
  PROVE  Trace(Resume(pc)) = Trace(Top)
  BY TopType DEF Resume, Trace, Activation

LEMMA PopTraces ==
  ASSUME stack \in Seq(Activation), stack # <<>>, Top.op \notin Watched
  PROVE  Traces(Rest) = Traces(stack) /\ Rest \in Seq(Activation)
  BY TracesTop, TopType DEF Trace

LEMMA ResumeTraces ==
  ASSUME stack \in Seq(Activation), stack # <<>>, NEW pc
  PROVE  Traces(<<Resume(pc)>> \o Rest) = Traces(stack)
  <1> DEFINE f == Resume(pc)
             r == Rest
  <1>1. Trace(f) = Trace(Top) /\ r \in Seq(Activation)
    BY ResumeTrace, TopType
  <1>2. Traces(stack) = Trace(Top) \cup Traces(r)
    BY TracesTop
  <1> HIDE DEF f, r
  <1>3. Traces(<<f>> \o r) = Trace(f) \cup Traces(r)
    BY <1>1, TracesPush
  <1>4. QED
    BY <1>1, <1>2, <1>3 DEF f, r

LEMMA GotoTraces ==
  ASSUME stack \in Seq(Activation), stack # <<>>, NEW pc, Goto(pc)
  PROVE  Traces(stack') = Traces(stack)
  BY ResumeTraces DEF Goto

LEMMA CallTraces ==
  ASSUME stack \in Seq(Activation), stack # <<>>, NEW pc, NEW f, Call(f, pc)
  PROVE  Traces(stack') = Trace(f) \cup Traces(stack)
  BY TracesTop, TopType, TracesPushTwo, ResumeTrace DEF Call

LEMMA InvokeTraces ==
  ASSUME NEW method, NEW c, NEW i, NEW S, NEW s \in Seq(S), Invoke(method, c, i, s)
  PROVE  Traces(stack') = Traces(s)
  <1>1. "method" \notin Watched
    BY DEF Watched
  <1>2. Traces(<<Enter("method", method, c, i, Nil)>> \o s) = Traces(s)
    BY <1>1, EnterTraces
  <1>3. QED
    BY <1>2 DEF Invoke

LEMMA UnrefTraces ==
  ASSUME NEW c, NEW S, NEW s \in Seq(S), Unref(c, s)
  PROVE  Traces(stack') = Traces(s)
  <1>1. "destroy" \notin Watched
    BY DEF Watched
  <1>2. Traces(<<Enter("destroy", "start", c, Nil, Nil)>> \o s) = Traces(s)
    BY <1>1, EnterTraces
  <1>3. QED
    BY <1>2 DEF Unref

\* The running activation moves on after a call that may start another one.
LEMMA UnrefResume ==
  ASSUME stack \in Seq(Activation), stack # <<>>, NEW c, NEW pc,
         Unref(c, <<Resume(pc)>> \o Rest)
  PROVE  Traces(stack') = Traces(stack)
  <1> DEFINE s == <<Resume(pc)>> \o Rest
             S == Activation \cup {Resume(pc)}
  <1>1. s \in Seq(S) /\ Traces(s) = Traces(stack)
    <2>1. Rest \in Seq(S)
      BY TopType, SeqMonotonic
    <2>2. QED
      BY <2>1, PushType, ResumeTraces
  <1>2. Unref(c, s)
    OBVIOUS
  <1> HIDE DEF s
  <1>3. QED
    BY <1>1, <1>2, UnrefTraces

LEMMA UnrefAnswered ==
  ASSUME stack \in Seq(Activation), stack # <<>>, NEW c, Unref(c, <<Answered>> \o Rest)
  PROVE  Traces(stack') = Traces(stack)
  <1> DEFINE f == Answered
             r == Rest
             s == <<f>> \o r
             S == Activation \cup {f}
  <1>1. Trace(f) = Trace(Top) /\ r \in Seq(Activation) /\ Traces(stack) = Trace(Top) \cup Traces(r)
    BY TopType, TracesTop DEF Answered, Resume, Trace, Activation
  <1>2. Unref(c, s)
    OBVIOUS
  <1> HIDE DEF f, r
  <1>3. s \in Seq(S)
    BY <1>1, SeqMonotonic, PushType
  <1>4. Traces(s) = Traces(stack)
    BY <1>1, TracesPush
  <1> HIDE DEF s
  <1>5. QED
    BY <1>2, <1>3, <1>4, UnrefTraces

LEMMA InvokeResume ==
  ASSUME stack \in Seq(Activation), stack # <<>>, NEW method, NEW c, NEW i, NEW pc,
         Invoke(method, c, i, <<Resume(pc)>> \o Rest)
  PROVE  Traces(stack') = Traces(stack)
  <1> DEFINE s == <<Resume(pc)>> \o Rest
             S == Activation \cup {Resume(pc)}
  <1>1. s \in Seq(S) /\ Traces(s) = Traces(stack)
    <2>1. Rest \in Seq(S)
      BY TopType, SeqMonotonic
    <2>2. QED
      BY <2>1, PushType, ResumeTraces
  <1>2. Invoke(method, c, i, s)
    OBVIOUS
  <1> HIDE DEF s
  <1>3. QED
    BY <1>1, <1>2, InvokeTraces

SameImports ==
  \A i \in ImportIds : (Live(i)' <=> Live(i)) /\ imp'[i].client = imp[i].client
Quiet == imports' = imports /\ SameImports /\ Traces(stack') = Traces(stack)

LEMMA QuietKeeps ==
  ASSUME ListsInv, Quiet
  PROVE  ListsInv'
  <1>1. \A i : Freeing(i)' <=> Freeing(i)
    <2> SUFFICES ASSUME NEW i PROVE Freeing(i)' <=> Freeing(i)
      OBVIOUS
    <2>1. Freeing(i) <=> \E t \in Traces(stack) : t.op = "free" /\ t.i = i
      BY TracesFree DEF Freeing
    <2>2. Freeing(i)' <=> \E t \in Traces(stack') : t.op = "free" /\ t.i = i
      BY TracesFree DEF Freeing
    <2>3. QED
      BY <2>1, <2>2 DEF Quiet
  <1>2. ListsExact'
    BY <1>1 DEF ListsInv, ListsExact, Quiet, SameImports
  <1>3. WalksOwn'
    BY DEF ListsInv, WalksOwn, Quiet, SameImports
  <1>4. QED
    BY <1>2, <1>3 DEF ListsInv

\* An import that was not freed moves to another state.
LEMMA StateSame ==
  ASSUME imp \in [ImportIds -> Import], NEW i \in ImportIds, Live(i),
         NEW st \in ImportStates, imp' = [imp EXCEPT ![i].st = st]
  PROVE  SameImports
  <1>1. st # "free"
    BY DEF ImportStates
  <1>2. QED
    BY <1>1 DEF SameImports, Live, Import

LEMMA FaultQuiet == ASSUME NEW kind, Fault(kind) PROVE Quiet
  BY DEF Fault, Quiet, SameImports, Live, compVars, objVars

-----------------------------------------------------------------------------
(* The quiet steps *)

LEMMA ComponentQuiet ==
  ASSUME TypeOK,
         \/ InitLoad \/ InitAlready \/ InitNext \/ InitImported \/ InitPortDone
         \/ InitCall \/ InitFailed \/ DestroyCall \/ DestroyUnload
  PROVE  Quiet
  <1>0. /\ stack \in Seq(Activation) /\ stack # <<>>
        /\ Top.op \in {"init", "destroy"} /\ Top \in Activation /\ Rest \in Seq(Activation)
    <2>1. stack \in Seq(Activation) /\ stack # <<>> /\ Top.op \in {"init", "destroy"}
      BY DEF TypeOK, InitLoad, InitAlready, InitNext, InitImported, InitPortDone, InitCall,
        InitFailed, DestroyCall, DestroyUnload, At
    <2>2. QED
      BY <2>1, TopType
  <1>1. /\ Top.op \notin Watched /\ "method" \notin Watched
        /\ "open" \notin Watched /\ "finish" \notin Watched
    BY <1>0 DEF Watched
  <1>2. Traces(Rest) = Traces(stack) /\ Trace(Top) = {}
    BY <1>0, <1>1, PopTraces DEF Trace
  <1>3. ASSUME NEW f, Trace(f) = {} PROVE Traces(<<f>> \o Rest) = Traces(stack)
    <2> DEFINE r == Rest
    <2>1. r \in Seq(Activation) /\ Traces(r) = Traces(stack)
      BY <1>0, <1>2
    <2> HIDE DEF r
    <2>2. Traces(<<f>> \o r) = Traces(r)
      BY <1>3, <2>1, PlainTraces
    <2>3. QED
      BY <2>1, <2>2 DEF r
  <1>4. ASSUME NEW f, NEW g, Trace(f) = {}, Trace(g) = {}
        PROVE  Traces(<<f, g>> \o Rest) = Traces(stack)
    <2> DEFINE r == Rest
    <2>1. r \in Seq(Activation) /\ Traces(r) = Traces(stack)
      BY <1>0, <1>2
    <2> HIDE DEF r
    <2>2. Traces(<<f, g>> \o r) = Traces(r)
      BY <1>4, <2>1, PlainTraces
    <2>3. QED
      BY <2>1, <2>2 DEF r
  <1>5. CASE InitLoad
    BY <1>0, <1>5, GotoTraces DEF InitLoad, objVars, Quiet, SameImports, Live
  <1>6. CASE InitAlready
    BY <1>2, <1>6 DEF InitAlready, objVars, Quiet, SameImports, Live
  <1>7. CASE InitNext
    <2> DEFINE q == Top.q
               i == qry[q].cursor
    <2>1. CASE i = Nil
      <3>1. Call(Enter("finish", "start", qry[q].client, qry[q].first, q), "port_done")
            /\ UNCHANGED <<compVars, objVars>>
        BY <1>7, <2>1 DEF InitNext
      <3>2. Trace(Enter("finish", "start", qry[q].client, qry[q].first, q)) = {}
        BY <1>1, EnterTrace
      <3>3. Traces(stack') = Traces(stack)
        BY <1>0, <3>1, <3>2, CallTraces
      <3>4. QED
        BY <3>1, <3>3 DEF compVars, objVars, Quiet, SameImports, Live
    <2>2. CASE i # Nil /\ ~Live(i)
      BY <1>7, <2>2, FaultQuiet DEF InitNext
    <2>3. CASE i # Nil /\ Live(i)
      <3> DEFINE f == Enter("open", "start", imp[i].client, i, Nil)
                 g == [Resume("imported") EXCEPT !.i = i]
      <3>1. stack' = <<f, g>> \o Rest /\ UNCHANGED <<compVars, imp>>
        BY <1>7, <2>3 DEF InitNext
      <3>2. Trace(f) = {}
        BY <1>1, EnterTrace
      <3>3. Trace(g) = {}
        BY <1>0, <1>1 DEF Trace, Resume, Activation
      <3> HIDE DEF f, g
      <3>4. Traces(stack') = Traces(stack)
        BY <1>4, <3>1, <3>2, <3>3
      <3>5. QED
        BY <3>1, <3>4 DEF compVars, Quiet, SameImports, Live
    <2>4. QED
      BY <2>1, <2>2, <2>3
  <1>8. CASE InitImported
    <2> DEFINE f == Enter("finish", "start", qry[Top.q].client, qry[Top.q].first, Top.q)
               g == [Resume("port_done") EXCEPT !.i = Nil, !.r = ret]
               h == [Resume("next") EXCEPT !.i = Nil, !.r = ret]
    <2>1. stack' = <<f, g>> \o Rest \/ stack' = <<h>> \o Rest
      BY <1>8 DEF InitImported
    <2>2. Trace(f) = {}
      BY <1>1, EnterTrace
    <2>3. Trace(g) = {} /\ Trace(h) = {}
      BY <1>0, <1>1 DEF Trace, Resume, Activation
    <2> HIDE DEF f, g, h
    <2>4. Traces(stack') = Traces(stack)
      <3>1. Traces(<<f, g>> \o Rest) = Traces(stack)
        BY <1>4, <2>2, <2>3
      <3>2. Traces(<<h>> \o Rest) = Traces(stack)
        BY <1>3, <2>3
      <3>3. QED
        BY <2>1, <3>1, <3>2
    <2>5. QED
      BY <1>8, <2>4 DEF InitImported, compVars, Quiet, SameImports, Live
  <1>9. CASE InitPortDone
    <2> DEFINE f == [Resume("ports") EXCEPT !.k = @ + 1, !.q = Nil,
                       !.r = PortResult(LoadtimePort, @)]
    <2>1. Trace(f) = {}
      BY <1>0, <1>1 DEF Trace, Resume, Activation
    <2>2. stack' = <<f>> \o Rest
      BY <1>9 DEF InitPortDone
    <2> HIDE DEF f
    <2>3. Traces(stack') = Traces(stack)
      BY <1>3, <2>1, <2>2
    <2>4. QED
      BY <1>9, <2>3 DEF InitPortDone, compVars, objVars, Quiet, SameImports, Live
  <1>10. ASSUME NEW m, NEW pc, Call(Enter("method", m, Top.c, Nil, Nil), pc)
         PROVE  Traces(stack') = Traces(stack)
    <2>1. Trace(Enter("method", m, Top.c, Nil, Nil)) = {}
      BY <1>1, EnterTrace
    <2>2. QED
      BY <1>0, <1>10, <2>1, CallTraces
  <1>11. CASE InitCall
    <2>1. CASE Fault("wild_call")
      BY <2>1, FaultQuiet
    <2>2. CASE ~Fault("wild_call")
      <3>1. Traces(stack') = Traces(stack)
        BY <1>0, <1>10, <1>11, <2>2, GotoTraces DEF InitCall
      <3>2. QED
        BY <1>11, <2>2, <3>1 DEF InitCall, compVars, objVars, Quiet, SameImports, Live
    <2>3. QED
      BY <2>1, <2>2
  <1>12. CASE InitFailed
    BY <1>2, <1>12 DEF InitFailed, compVars, objVars, Quiet, SameImports, Live
  <1>13. CASE DestroyCall
    <2>1. CASE Fault("wild_call")
      BY <2>1, FaultQuiet
    <2>2. CASE ~Fault("wild_call")
      <3>1. Traces(stack') = Traces(stack)
        BY <1>0, <1>10, <1>13, <2>2, GotoTraces DEF DestroyCall
      <3>2. QED
        BY <1>13, <2>2, <3>1 DEF DestroyCall, compVars, objVars, Quiet, SameImports, Live
    <2>3. QED
      BY <2>1, <2>2
  <1>14. CASE DestroyUnload
    BY <1>2, <1>14 DEF DestroyUnload, objVars, Quiet, SameImports, Live
  <1>15. QED
    BY <1>5, <1>6, <1>7, <1>8, <1>9, <1>11, <1>12, <1>13, <1>14

LEMMA OpenQuiet ==
  ASSUME TypeOK,
         \/ OpenStart \/ OpenInited \/ OpenServer \/ OpenClient \/ OpenClientDone
         \/ OpenSwitch \/ OpenFailed \/ OpenFailedDone
  PROVE  Quiet
  <1> DEFINE i == Top.i
  <1>0. /\ stack \in Seq(Activation) /\ stack # <<>> /\ imp \in [ImportIds -> Import]
        /\ Top.op = "open" /\ Top \in Activation /\ Rest \in Seq(Activation)
        /\ i \in ImportIds
        /\ {"unregistered", "registered_to_server", "registered_to_client", "opened"}
             \subseteq ImportStates
    <2>1. stack \in Seq(Activation) /\ stack # <<>> /\ Top.op = "open"
      BY DEF TypeOK, OpenStart, OpenInited, OpenServer, OpenClient, OpenClientDone,
        OpenSwitch, OpenFailed, OpenFailedDone, At
    <2>2. Top \in Activation /\ Rest \in Seq(Activation)
      BY <2>1, TopType
    <2>3. QED
      BY <2>1, <2>2 DEF Activation, TypeOK, ImportStates
  <1>1. /\ Top.op \notin Watched /\ "init" \notin Watched /\ "close" \notin Watched
        /\ "method" \notin Watched
    BY <1>0 DEF Watched
  <1>2. Traces(Rest) = Traces(stack)
    BY <1>0, <1>1, PopTraces
  <1>4. ASSUME NEW st \in ImportStates, Live(i), imp' = [imp EXCEPT ![i].st = st]
        PROVE  SameImports
    BY <1>0, <1>4, StateSame
  <1>5. imp' = imp => SameImports
    BY DEF SameImports, Live
  <1> HIDE DEF i
  <1>6. CASE OpenStart
    <2>1. CASE Openable(i)
      <3>1. Trace(Enter("init", "start", imp[i].server, Nil, Nil)) = {}
        BY <1>1, EnterTrace
      <3>2. Traces(stack') = Traces(stack)
        <4> DEFINE f == Enter("init", "start", imp[i].server, Nil, Nil)
        <4>1. Call(f, "inited")
          BY <1>6, <2>1 DEF OpenStart, i
        <4>2. Trace(f) = {}
          BY <3>1
        <4> HIDE DEF f
        <4>3. QED
          BY <1>0, <4>1, <4>2, CallTraces
      <3>3. SameImports
        <4>1. imp' = [imp EXCEPT ![i] =
                        [[imp[i] EXCEPT !.st = "unregistered"] EXCEPT !.query = Nil]]
          BY <1>0, <1>6, <2>1 DEF OpenStart, i
        <4>2. imp[i].st # "free"
          BY <2>1 DEF Openable
        <4>3. QED
          BY <1>0, <4>1, <4>2 DEF SameImports, Live, Import
      <3>4. QED
        BY <1>6, <3>2, <3>3 DEF OpenStart, compVars, Quiet
    <2>2. CASE ~Openable(i)
      BY <1>2, <1>5, <1>6, <2>2 DEF OpenStart, compVars, Quiet, i
    <2>3. QED
      BY <2>1, <2>2
  <1>7. CASE OpenInited
    <2>1. CASE Refused(ret)
      BY <1>0, <1>5, <1>7, <2>1, GotoTraces DEF OpenInited, objVars, compVars, Quiet
    <2>2. CASE ~Refused(ret) /\ ~(Live(i) /\ imp[i].st = "unregistered")
      BY <1>7, <2>2, FaultQuiet DEF OpenInited, i
    <2>3. CASE ~Refused(ret) /\ Live(i) /\ imp[i].st = "unregistered"
      <3>1. Invoke("register_server", imp[i].server, i, <<Resume("server")>> \o Rest)
        BY <1>7, <2>3 DEF OpenInited, i
      <3>2. Traces(stack') = Traces(stack)
        BY <1>0, <3>1, InvokeResume
      <3>3. QED
        BY <1>5, <1>7, <2>3, <3>2 DEF OpenInited, compVars, Quiet, i
    <2>4. QED
      BY <2>1, <2>2, <2>3
  <1>8. CASE OpenServer
    <2>1. CASE Refused(ret)
      BY <1>0, <1>5, <1>8, <2>1, GotoTraces DEF OpenServer, objVars, compVars, Quiet
    <2>2. CASE ~Refused(ret) /\ ~Live(i)
      BY <1>8, <2>2, FaultQuiet DEF OpenServer, i
    <2>3. CASE ~Refused(ret) /\ Live(i) /\ imp[i].port
      <3> DEFINE f == Enter("method", "register_client", imp[i].client, i, Nil)
      <3>1. Goto("client") \/ Call(f, "client")
        BY <1>8, <2>3 DEF OpenServer, i
      <3>2. Trace(f) = {}
        BY <1>1, EnterTrace
      <3> HIDE DEF f
      <3>3. Traces(stack') = Traces(stack)
        BY <1>0, <3>1, <3>2, GotoTraces, CallTraces
      <3>4. SameImports
        BY <1>0, <1>4, <1>8, <2>3 DEF OpenServer, i
      <3>5. QED
        BY <1>8, <2>3, <3>3, <3>4 DEF OpenServer, Quiet, i
    <2>4. CASE ~Refused(ret) /\ Live(i) /\ ~imp[i].port
      <3>1. Goto("switch") /\ imports' = imports
        BY <1>8, <2>4 DEF OpenServer, compVars, i
      <3>2. SameImports
        BY <1>0, <1>4, <1>8, <2>4 DEF OpenServer, i
      <3>3. QED
        BY <1>0, <3>1, <3>2, GotoTraces DEF Quiet
    <2>5. QED
      BY <2>1, <2>2, <2>3, <2>4
  <1>9. CASE OpenClient
    <2>1. CASE ~Live(i)
      BY <1>9, <2>1, FaultQuiet DEF OpenClient, i
    <2>2. CASE Live(i)
      <3>1. /\ Unref(imp[i].client, <<Answered>> \o Rest)
            /\ imports' = imports /\ imp' = imp
        BY <1>9, <2>2 DEF OpenClient, objVars, i
      <3>2. Traces(stack') = Traces(stack)
        BY <1>0, <3>1, UnrefAnswered
      <3>3. QED
        BY <1>5, <3>1, <3>2 DEF Quiet
    <2>3. QED
      BY <2>1, <2>2
  <1>14. CASE OpenClientDone
    <2>1. CASE Refused(Top.r)
      BY <1>0, <1>5, <1>14, <2>1, GotoTraces DEF OpenClientDone, objVars, compVars, Quiet
    <2>2. CASE ~Refused(Top.r) /\ ~Live(i)
      BY <1>14, <2>2, FaultQuiet DEF OpenClientDone, i
    <2>3. CASE ~Refused(Top.r) /\ Live(i)
      <3>1. Goto("switch") /\ imports' = imports
        BY <1>14, <2>3 DEF OpenClientDone, compVars, i
      <3>2. SameImports
        BY <1>0, <1>4, <1>14, <2>3 DEF OpenClientDone, i
      <3>3. QED
        BY <1>0, <3>1, <3>2, GotoTraces DEF Quiet
    <2>4. QED
      BY <2>1, <2>2, <2>3
  <1>10. CASE OpenSwitch
    <2>1. CASE ~Live(i) \/ entry[imp[i].server] # "set"
      BY <1>10, <2>1, FaultQuiet DEF OpenSwitch, i
    <2>2. CASE Live(i) /\ entry[imp[i].server] = "set"
      <3>1. stack' = Rest /\ imports' = imports
        BY <1>10, <2>2 DEF OpenSwitch, compVars, i
      <3>2. SameImports
        BY <1>0, <1>4, <1>10, <2>2 DEF OpenSwitch, i
      <3>3. QED
        BY <1>2, <3>1, <3>2 DEF Quiet
    <2>3. QED
      BY <2>1, <2>2
  <1>11. CASE OpenFailed
    <2>1. Trace(Enter("close", "start", Top.c, Top.i, Nil)) = {}
      BY <1>1, EnterTrace
    <2>2. Traces(stack') = Traces(stack)
      BY <1>0, <1>11, <2>1, CallTraces DEF OpenFailed
    <2>3. QED
      BY <1>5, <1>11, <2>2 DEF OpenFailed, compVars, objVars, Quiet
  <1>12. CASE OpenFailedDone
    BY <1>2, <1>5, <1>12 DEF OpenFailedDone, compVars, objVars, Quiet
  <1>13. QED
    BY <1>6, <1>7, <1>8, <1>9, <1>10, <1>11, <1>12, <1>14

LEMMA FreeQuiet ==
  ASSUME TypeOK, FreeStart \/ FreeClient \/ FreeClientDone \/ FreeServer \/ FreeRelease
  PROVE  Quiet
  <1> DEFINE i == Top.i
  <1>0. /\ stack \in Seq(Activation) /\ stack # <<>> /\ imp \in [ImportIds -> Import]
        /\ Rest \in Seq(Activation) /\ i \in ImportIds
        /\ {"unregistered", "registered_to_server", "registered_to_client"}
             \subseteq ImportStates
    <2>1. stack \in Seq(Activation) /\ stack # <<>> /\ Top.op = "free"
      BY DEF TypeOK, FreeStart, FreeClient, FreeClientDone, FreeServer, FreeRelease, At
    <2>2. Top \in Activation /\ Rest \in Seq(Activation)
      BY <2>1, TopType
    <2>3. QED
      BY <2>1, <2>2 DEF Activation, TypeOK, ImportStates
  <1>2. ASSUME NEW st \in ImportStates, Live(i), imp' = [imp EXCEPT ![i].st = st]
        PROVE  SameImports
    BY <1>0, <1>2, StateSame
  <1>3. imp' = imp => SameImports
    BY DEF SameImports, Live
  <1> HIDE DEF i
  <1>4. CASE FreeStart
    <2>1. CASE ~Live(i)
      BY <1>4, <2>1, FaultQuiet DEF FreeStart, i
    <2>2. CASE Live(i) /\ Registered(i) /\ imp[i].port
      <3>1. /\ Invoke("unregister_client", imp[i].client, i, <<Resume("client")>> \o Rest)
            /\ imports' = imports
        BY <1>4, <2>2 DEF FreeStart, i
      <3>2. SameImports
        BY <1>0, <1>2, <1>4, <2>2 DEF FreeStart, i
      <3>3. QED
        BY <1>0, <3>1, <3>2, InvokeResume DEF Quiet
    <2>3. CASE Live(i) /\ ~(Registered(i) /\ imp[i].port)
      <3>1. Goto("server") /\ imports' = imports
        BY <1>4, <2>3 DEF FreeStart, compVars, i
      <3>2. SameImports
        BY <1>0, <1>2, <1>3, <1>4, <2>3 DEF FreeStart, i
      <3>3. QED
        BY <1>0, <3>1, <3>2, GotoTraces DEF Quiet
    <2>4. QED
      BY <2>1, <2>2, <2>3
  <1>5. CASE FreeClient
    <2>1. CASE ~Live(i)
      BY <1>5, <2>1, FaultQuiet DEF FreeClient, i
    <2>2. CASE Live(i)
      <3>1. /\ Unref(imp[i].client, <<Answered>> \o Rest)
            /\ imports' = imports /\ imp' = imp
        BY <1>5, <2>2 DEF FreeClient, objVars, i
      <3>2. Traces(stack') = Traces(stack)
        BY <1>0, <3>1, UnrefAnswered
      <3>3. QED
        BY <1>3, <3>1, <3>2 DEF Quiet
    <2>3. QED
      BY <2>1, <2>2
  <1>9. CASE FreeClientDone
    <2>1. CASE Top.r = "error"
      BY <1>0, <1>3, <1>9, <2>1, GotoTraces DEF FreeClientDone, objVars, compVars, Quiet
    <2>2. CASE Top.r # "error" /\ ~Live(i)
      BY <1>9, <2>2, FaultQuiet DEF FreeClientDone, i
    <2>3. CASE Top.r # "error" /\ Live(i)
      <3>1. Goto("server") /\ imports' = imports
        BY <1>9, <2>3 DEF FreeClientDone, compVars, i
      <3>2. SameImports
        BY <1>0, <1>2, <1>9, <2>3 DEF FreeClientDone, i
      <3>3. QED
        BY <1>0, <3>1, <3>2, GotoTraces DEF Quiet
    <2>4. QED
      BY <2>1, <2>2, <2>3
  <1>6. CASE FreeServer
    <2>1. imports' = imports /\ imp' = imp
      BY <1>6 DEF FreeServer, compVars, objVars
    <2>2. \/ Goto("release")
          \/ Invoke("unregister_server", imp[i].server, i, <<Resume("release")>> \o Rest)
      BY <1>6 DEF FreeServer, i
    <2>3. Traces(stack') = Traces(stack)
      BY <1>0, <2>2, GotoTraces, InvokeResume
    <2>4. QED
      BY <1>3, <2>1, <2>3 DEF Quiet
  <1>7. CASE FreeRelease
    <2>1. CASE ~Live(i)
      BY <1>7, <2>1, FaultQuiet DEF FreeRelease, i
    <2>2. CASE Live(i)
      <3>1. Unref(imp[i].server, <<Resume("freed")>> \o Rest) /\ imports' = imports
        BY <1>7, <2>2 DEF FreeRelease, i
      <3>2. SameImports
        BY <1>0, <1>2, <1>3, <1>7, <2>2 DEF FreeRelease, i
      <3>3. QED
        BY <1>0, <3>1, <3>2, UnrefResume DEF Quiet
    <2>3. QED
      BY <2>1, <2>2
  <1>8. QED
    BY <1>4, <1>5, <1>6, <1>7, <1>9

LEMMA QueryStepQuiet == ASSUME TypeOK, QueryStep PROVE Quiet
  <1> DEFINE i == Top.i
  <1>0. /\ stack \in Seq(Activation) /\ stack # <<>>
        /\ Top.op = "finish" /\ Top \in Activation /\ Rest \in Seq(Activation)
    <2>1. stack \in Seq(Activation) /\ stack # <<>> /\ Top.op = "finish"
      BY DEF TypeOK, QueryStep, FinishStart, FinishBack, FinishForward, FinishDone, At
    <2>2. QED
      BY <2>1, TopType
  <1>1. Top.op \notin Watched /\ "close" \notin Watched /\ Trace(Top) = {}
    BY <1>0 DEF Watched, Trace
  <1>2. Traces(Rest) = Traces(stack)
    BY <1>0, <1>1, PopTraces
  <1>3. ASSUME NEW f, NEW g, Trace(f) = {}, Trace(g) = {}
        PROVE  /\ Traces(<<f>> \o Rest) = Traces(stack)
               /\ Traces(<<g>> \o (<<f>> \o Rest)) = Traces(stack)
    <2> DEFINE r == Rest
               s == <<f>> \o r
    <2>1. r \in Seq(Activation) /\ Traces(r) = Traces(stack)
      BY <1>0, <1>2
    <2> HIDE DEF r
    <2>2. Traces(s) = Traces(r)
      BY <1>3, <2>1, PlainTraces
    <2>3. s \in Seq(Activation \cup {f})
      BY <2>1, SeqMonotonic, PushType
    <2> HIDE DEF s
    <2>4. Traces(<<g>> \o s) = Traces(s)
      BY <1>3, <2>3, PlainTraces
    <2>5. QED
      BY <2>1, <2>2, <2>4 DEF r, s
  <1>4. imp' = imp => SameImports
    BY DEF SameImports, Live
  <1>5. ASSUME NEW succ, i # Nil, FinishVisit(i, succ)
        PROVE  Quiet
    <2> DEFINE f == [Top EXCEPT !.i = succ]
               g == Enter("close", "start", imp[i].client, i, Nil)
    <2>1. Trace(f) = {} /\ Trace(g) = {}
      BY <1>0, <1>1, EnterTrace DEF Trace, Activation
    <2>2. stack' = <<f>> \o Rest \/ stack' = <<g>> \o (<<f>> \o Rest)
      BY <1>5 DEF FinishVisit
    <2> HIDE DEF f, g
    <2>3. /\ Traces(<<f>> \o Rest) = Traces(stack)
          /\ Traces(<<g>> \o (<<f>> \o Rest)) = Traces(stack)
      BY <1>3, <2>1
    <2>4. Traces(stack') = Traces(stack)
      BY <2>2, <2>3
    <2>5. QED
      BY <1>4, <1>5, <2>4 DEF FinishVisit, compVars, objVars, Quiet
  <1>6. Goto("finish") /\ UNCHANGED <<compVars, objVars, ret, fault>> => Quiet
    BY <1>0, <1>4, GotoTraces DEF Quiet, compVars, objVars
  <1>7. CASE FinishStart
    <2>1. CASE i = Nil
      BY <1>6, <1>7, <2>1 DEF FinishStart
    <2>2. CASE i # Nil /\ ~Live(i)
      BY <1>7, <2>2, FaultQuiet DEF FinishStart
    <2>3. CASE i # Nil /\ Live(i)
      <3> DEFINE f == [Resume("back") EXCEPT !.i = imp[i].prev, !.j = i]
      <3>1. Trace(f) = {}
        BY <1>0, <1>1 DEF Trace, Resume, Activation
      <3>2. stack' = <<f>> \o Rest /\ UNCHANGED <<compVars, objVars>>
        BY <1>7, <2>3 DEF FinishStart
      <3> HIDE DEF f
      <3>3. QED
        BY <1>3, <1>4, <3>1, <3>2 DEF Quiet, compVars, objVars
    <2>4. QED
      BY <2>1, <2>2, <2>3
  <1>8. CASE FinishBack
    <2>1. CASE i = Nil
      <3> DEFINE f == [Resume("forward") EXCEPT !.i = Top.j, !.j = Nil]
      <3>1. Trace(f) = {}
        BY <1>0, <1>1 DEF Trace, Resume, Activation
      <3>2. stack' = <<f>> \o Rest /\ UNCHANGED <<compVars, objVars>>
        BY <1>8, <2>1 DEF FinishBack
      <3> HIDE DEF f
      <3>3. QED
        BY <1>3, <1>4, <3>1, <3>2 DEF Quiet, compVars, objVars
    <2>2. CASE i # Nil /\ ~Live(i)
      BY <1>8, <2>2, FaultQuiet DEF FinishBack
    <2>3. CASE i # Nil /\ Live(i)
      BY <1>5, <1>8, <2>3 DEF FinishBack
    <2>4. QED
      BY <2>1, <2>2, <2>3
  <1>9. CASE FinishForward
    <2>1. CASE i = Nil
      BY <1>6, <1>9, <2>1 DEF FinishForward
    <2>2. CASE i # Nil /\ ~Live(i)
      BY <1>9, <2>2, FaultQuiet DEF FinishForward
    <2>3. CASE i # Nil /\ Live(i)
      BY <1>5, <1>9, <2>3 DEF FinishForward
    <2>4. QED
      BY <2>1, <2>2, <2>3
  <1>10. CASE FinishDone
    <2>1. Unref(Top.c, Rest) /\ imports' = imports /\ imp' = imp
      BY <1>10 DEF FinishDone
    <2>2. Traces(stack') = Traces(Rest)
      <3> DEFINE r == Rest
      <3>1. r \in Seq(Activation) /\ Unref(Top.c, r)
        BY <1>0, <2>1
      <3> HIDE DEF r
      <3>2. Traces(stack') = Traces(r)
        BY <3>1, UnrefTraces
      <3>3. QED
        BY <3>2 DEF r
    <2>3. QED
      BY <1>2, <1>4, <2>1, <2>2 DEF Quiet
  <1>11. QED
    BY <1>7, <1>8, <1>9, <1>10 DEF QueryStep

LEMMA MethodReturnQuiet == ASSUME TypeOK, MethodReturn PROVE Quiet
  <1>1. /\ stack \in Seq(Activation) /\ stack # <<>> /\ Top.op = "method"
        /\ imp \in [ImportIds -> Import]
    BY DEF TypeOK, MethodReturn
  <1>2. Traces(Rest) = Traces(stack)
    BY <1>1, PopTraces DEF Watched
  <1>3. \A i, r : /\ imp' = [imp EXCEPT ![i].srvReg = r] => SameImports
                  /\ imp' = [imp EXCEPT ![i].cliReg = r] => SameImports
    BY <1>1 DEF SameImports, Live, Import
  <1>4. imp' = imp => SameImports
    BY DEF SameImports, Live
  <1>5. SameImports
    <2>1. CASE Top.pc = "register_server"
      <3>1. PICK r \in BOOLEAN : imp' = [imp EXCEPT ![Top.i].srvReg = r]
        BY <2>1 DEF MethodReturn
      <3>2. QED
        BY <1>3, <3>1
    <2>2. CASE Top.pc = "register_client"
      <3>1. PICK r \in BOOLEAN : imp' = [imp EXCEPT ![Top.i].cliReg = r]
        BY <2>2 DEF MethodReturn
      <3>2. QED
        BY <1>3, <3>1
    <2>3. CASE Top.pc = "unregister_server"
      <3>1. imp' = [imp EXCEPT ![Top.i].srvReg = FALSE]
        BY <2>3 DEF MethodReturn
      <3>2. QED
        BY <1>3, <3>1
    <2>4. CASE Top.pc = "unregister_client"
      <3>1. imp' = [imp EXCEPT ![Top.i].cliReg = FALSE]
        BY <2>4 DEF MethodReturn
      <3>2. QED
        BY <1>3, <3>1
    <2>5. CASE Top.pc \notin PortMethods
      BY <1>4, <2>5 DEF MethodReturn, PortMethods
    <2>6. QED
      BY <2>1, <2>2, <2>3, <2>4, <2>5 DEF PortMethods
  <1>6. QED
    BY <1>2, <1>5 DEF MethodReturn, Quiet

\* The calls of the API other than the two that make a query.
LEMMA ApiQuiet ==
  ASSUME TypeOK,
         \/ \E q \in QueryIds : xCOM_QueryNext(q) \/ xCOM_QueryFinish(q)
         \/ \E i \in ImportIds : \/ xCOM_Import(i) \/ xCOM_UnImport(i)
                                 \/ ImportAccessor(i) \/ xCOM_GetNextImport(i)
         \/ \E c \in Comps : ComponentAccessor(c)
  PROVE  Quiet
  <1>0. stack \in Seq(Activation) /\ imp \in [ImportIds -> Import]
    BY DEF TypeOK
  <1>1. /\ "finish" \notin Watched /\ "open" \notin Watched /\ "close" \notin Watched
        /\ "destroy" \notin Watched
    BY DEF Watched
  <1>2. imp' = imp => SameImports
    BY DEF SameImports, Live
  <1>3. ASSUME NEW op, op \notin Watched, NEW c, NEW i, NEW q
        PROVE  Traces(<<Enter(op, "start", c, i, q)>> \o stack) = Traces(stack)
    BY <1>0, <1>3, EnterTraces
  <1>4. ASSUME NEW q \in QueryIds, xCOM_QueryNext(q) PROVE Quiet
    <2>1. CASE ~Live(qry[q].cursor)
      BY <1>4, <2>1, FaultQuiet DEF xCOM_QueryNext
    <2>2. CASE Live(qry[q].cursor)
      BY <1>2, <1>4, <2>2 DEF xCOM_QueryNext, compVars, Quiet
    <2>3. QED
      BY <2>1, <2>2
  <1>5. ASSUME NEW q \in QueryIds, xCOM_QueryFinish(q) PROVE Quiet
    BY <1>1, <1>2, <1>3, <1>5 DEF xCOM_QueryFinish, compVars, objVars, Quiet
  <1>6. ASSUME NEW i \in ImportIds, xCOM_Import(i) PROVE Quiet
    BY <1>1, <1>2, <1>3, <1>6 DEF xCOM_Import, compVars, objVars, Quiet
  <1>7. ASSUME NEW i \in ImportIds, xCOM_UnImport(i) PROVE Quiet
    BY <1>1, <1>2, <1>3, <1>7 DEF xCOM_UnImport, compVars, objVars, Quiet
  <1>8. ASSUME NEW i \in ImportIds, Valid(i), Access(i) PROVE SameImports
    BY <1>0, <1>8, StateSame DEF Valid, Access, ImportStates
  <1>9. ASSUME NEW i \in ImportIds, ImportAccessor(i) PROVE Quiet
    BY <1>8, <1>9 DEF ImportAccessor, compVars, Quiet
  <1>10. ASSUME NEW i \in ImportIds, xCOM_GetNextImport(i) PROVE Quiet
    <2> DEFINE j == imp[i].next
    <2>1. CASE j # Nil /\ ~Live(j)
      BY <1>10, <2>1, FaultQuiet DEF xCOM_GetNextImport
    <2>2. CASE ~(j # Nil /\ ~Live(j))
      BY <1>8, <1>10, <2>2 DEF xCOM_GetNextImport, compVars, Quiet
    <2>3. QED
      BY <2>1, <2>2
  <1>11. ASSUME NEW c \in Comps, ComponentAccessor(c) PROVE Quiet
    BY <1>1, <1>2, <1>3, <1>11 DEF ComponentAccessor, compVars, objVars, Quiet
  <1>12. QED
    BY <1>4, <1>5, <1>6, <1>7, <1>9, <1>10, <1>11

-----------------------------------------------------------------------------
(* Lists without duplicates *)

Distinct(list) == \A m, n \in DOMAIN list : list[m] = list[n] => m = n

\* XC_CLIST_REMOVE takes the import off the list and leaves the others on it.
LEMMA WithoutElements ==
  ASSUME NEW S, NEW list \in Seq(S), NEW i, Distinct(list)
  PROVE  /\ Distinct(Without(list, i))
         /\ Elements(Without(list, i)) = Elements(list) \ {i}
  <1>0. Len(list) \in Nat /\ DOMAIN list = 1..Len(list)
    BY LenProperties
  <1>1. CASE ~\E m \in DOMAIN list : list[m] = i
    <2>1. Without(list, i) = list
      BY <1>1 DEF Without
    <2>2. i \notin Elements(list)
      BY <1>1 DEF Elements
    <2>3. QED
      BY <2>1, <2>2
  <1>2. CASE \E m \in DOMAIN list : list[m] = i
    <2> DEFINE n == CHOOSE m \in DOMAIN list : list[m] = i
               a == SubSeq(list, 1, n - 1)
               b == SubSeq(list, n + 1, Len(list))
               w == a \o b
    <2>1. n \in 1..Len(list) /\ list[n] = i
      BY <1>0, <1>2
    <2>2. Without(list, i) = w
      BY <1>2 DEF Without
    <2> HIDE DEF n
    <2>3. \A k \in 1..Len(list) : list[k] \in S
      BY ElementOfSeq
    <2>4. /\ a \in Seq(S) /\ Len(a) = n - 1
          /\ \A k \in 1..n - 1 : a[k] = list[k]
      BY <1>0, <2>1, <2>3, SubSeqProperties
    <2>5. /\ b \in Seq(S) /\ Len(b) = Len(list) - n
          /\ \A k \in 1..Len(list) - n : b[k] = list[n + k]
      <3> DEFINE m == n + 1
                 l == Len(list)
      <3>1. m \in Int /\ l \in Int /\ \A k \in m..l : list[k] \in S
        BY <1>0, <2>1, <2>3
      <3> HIDE DEF m, l
      <3>2. /\ SubSeq(list, m, l) \in Seq(S)
            /\ Len(SubSeq(list, m, l)) = IF m <= l THEN l - m + 1 ELSE 0
            /\ \A k \in 1..l - m + 1 : SubSeq(list, m, l)[k] = list[m + k - 1]
        BY <3>1, SubSeqProperties
      <3>3. b = SubSeq(list, m, l)
        BY DEF m, l
      <3> HIDE DEF b
      <3>4. (IF m <= l THEN l - m + 1 ELSE 0) = Len(list) - n /\ l - m + 1 = Len(list) - n
        <4>1. n \in Int /\ n <= l /\ m = n + 1 /\ l \in Nat /\ l = Len(list)
          BY <1>0, <2>1 DEF m, l
        <4>2. l - m + 1 = l - n
          BY <4>1
        <4>3. m <= l \/ l - n = 0
          BY <4>1
        <4>4. CASE m <= l
          BY <4>1, <4>2, <4>4
        <4>5. CASE ~(m <= l)
          BY <4>1, <4>2, <4>3, <4>5
        <4>6. QED
          BY <4>4, <4>5
      <3>5. \A k \in 1..Len(list) - n : m + k - 1 = n + k
        BY <1>0, <2>1 DEF m
      <3>6. QED
        BY <3>2, <3>3, <3>4, <3>5
    <2> HIDE DEF a, b
    <2>6. /\ w \in Seq(S) /\ Len(w) = Len(list) - 1 /\ DOMAIN w = 1..Len(list) - 1
          /\ \A k \in 1..Len(list) - 1 : w[k] = IF k < n THEN list[k] ELSE list[k + 1]
      <3>1. /\ w \in Seq(S) /\ Len(w) = Len(a) + Len(b)
            /\ \A k \in 1..Len(a) + Len(b) :
                 w[k] = IF k <= Len(a) THEN a[k] ELSE b[k - Len(a)]
        BY <2>4, <2>5, ConcatProperties
      <3>2. Len(a) + Len(b) = Len(list) - 1
        BY <1>0, <2>1, <2>4, <2>5
      <3>3. DOMAIN w = 1..Len(list) - 1
        BY <3>1, <3>2, LenProperties
      <3>4. ASSUME NEW k \in 1..Len(list) - 1
            PROVE  w[k] = IF k < n THEN list[k] ELSE list[k + 1]
        <4>1. CASE k < n
          BY <1>0, <2>1, <2>4, <3>1, <3>2, <3>4, <4>1
        <4>2. CASE ~(k < n)
          <5>1. w[k] = b[k - (n - 1)]
            BY <1>0, <2>1, <2>4, <3>1, <3>2, <3>4, <4>2
          <5>2. k - (n - 1) \in 1..Len(list) - n
            BY <1>0, <2>1, <3>4, <4>2
          <5>3. b[k - (n - 1)] = list[n + (k - (n - 1))]
            BY <2>5, <5>2
          <5>4. n + (k - (n - 1)) = k + 1
            BY <2>1, <3>4
          <5>5. QED
            BY <4>2, <5>1, <5>3, <5>4
        <4>3. QED
          BY <4>1, <4>2
      <3>5. QED
        BY <3>1, <3>2, <3>3, <3>4
    <2> HIDE DEF w
    <2> DEFINE at(k) == IF k < n THEN k ELSE k + 1
    <2>7. \A k \in DOMAIN w : /\ at(k) \in DOMAIN list /\ at(k) # n /\ w[k] = list[at(k)]
      BY <1>0, <2>1, <2>6
    <2>8. Distinct(w)
      <3> SUFFICES ASSUME NEW k \in DOMAIN w, NEW m \in DOMAIN w, w[k] = w[m]
                   PROVE  k = m
        BY DEF Distinct
      <3>1. at(k) = at(m)
        BY <2>7 DEF Distinct
      <3>2. QED
        BY <1>0, <2>1, <2>6, <3>1
    <2>9. Elements(w) \subseteq Elements(list) \ {i}
      <3> SUFFICES ASSUME NEW k \in DOMAIN w PROVE w[k] \in Elements(list) \ {i}
        BY DEF Elements
      <3> HIDE DEF at
      <3>1. QED
        BY <1>0, <2>1, <2>7 DEF Distinct, Elements
    <2>10. Elements(list) \ {i} \subseteq Elements(w)
      <3> SUFFICES ASSUME NEW m \in DOMAIN list, m # n PROVE list[m] \in Elements(w)
        BY <2>1 DEF Elements
      <3>1. CASE m < n
        <4>1. m \in DOMAIN w /\ w[m] = list[m]
          BY <1>0, <2>1, <2>6, <3>1
        <4>2. QED
          BY <4>1 DEF Elements
      <3>2. CASE ~(m < n)
        <4>1. m - 1 \in DOMAIN w /\ w[m - 1] = list[m]
          BY <1>0, <2>1, <2>6, <3>2
        <4>2. QED
          BY <4>1 DEF Elements
      <3>3. QED
        BY <3>1, <3>2
    <2>11. QED
      BY <2>2, <2>8, <2>9, <2>10
  <1>3. QED
    BY <1>1, <1>2

LEMMA ConcatElements ==
  ASSUME NEW S, NEW s \in Seq(S), NEW t \in Seq(S), Distinct(s), Distinct(t),
         Elements(s) \cap Elements(t) = {}
  PROVE  Distinct(s \o t) /\ Elements(s \o t) = Elements(s) \cup Elements(t)
  <1> DEFINE w == s \o t
  <1>1. /\ Len(s) \in Nat /\ Len(t) \in Nat
        /\ DOMAIN s = 1..Len(s) /\ DOMAIN t = 1..Len(t)
    BY LenProperties
  <1>2. /\ DOMAIN w = 1..Len(s) + Len(t)
        /\ \A k \in 1..Len(s) + Len(t) : w[k] = IF k <= Len(s) THEN s[k] ELSE t[k - Len(s)]
    BY ConcatProperties, LenProperties
  <1> HIDE DEF w
  <1>3. \A k \in DOMAIN w : \/ k \in DOMAIN s /\ w[k] = s[k]
                            \/ k - Len(s) \in DOMAIN t /\ w[k] = t[k - Len(s)] /\ k \in Int
    BY <1>1, <1>2
  <1>4. \A k \in DOMAIN s : k \in DOMAIN w /\ w[k] = s[k]
    BY <1>1, <1>2
  <1>5. \A k \in DOMAIN t : k + Len(s) \in DOMAIN w /\ w[k + Len(s)] = t[k]
    BY <1>1, <1>2
  <1>6. Elements(w) = Elements(s) \cup Elements(t)
    <2>1. Elements(w) \subseteq Elements(s) \cup Elements(t)
      BY <1>3 DEF Elements
    <2>2. Elements(s) \subseteq Elements(w)
      BY <1>4 DEF Elements
    <2>3. Elements(t) \subseteq Elements(w)
      BY <1>5 DEF Elements
    <2>4. QED
      BY <2>1, <2>2, <2>3
  <1>7. Distinct(w)
    <2> SUFFICES ASSUME NEW k \in DOMAIN w, NEW m \in DOMAIN w, w[k] = w[m] PROVE k = m
      BY DEF Distinct
    <2>1. \A x \in DOMAIN s, y \in DOMAIN t : s[x] # t[y]
      BY DEF Elements
    <2>2. QED
      BY <1>1, <1>3, <2>1 DEF Distinct
  <1>8. QED
    BY <1>6, <1>7 DEF w

\* The elements that a walk over a list starts and goes on with.
LEMMA FirstElement ==
  ASSUME NEW list \in Seq(ImportIds)
  PROVE  First(list) \in Elements(list) \cup {Nil}
  <1>1. CASE list = <<>>
    BY <1>1 DEF First
  <1>2. CASE list # <<>>
    <2>1. 1 \in DOMAIN list
      BY <1>2, EmptySeq, LenProperties
    <2>2. QED
      BY <1>2, <2>1 DEF First, Elements
  <1>3. QED
    BY <1>1, <1>2

LEMMA AfterElement ==
  ASSUME NEW list \in Seq(ImportIds), NEW i
  PROVE  After(list, i) \in Elements(list) \cup {Nil}
  <1>1. CASE ~\E n \in 1..Len(list) - 1 : list[n] = i
    BY <1>1 DEF After
  <1>2. CASE \E n \in 1..Len(list) - 1 : list[n] = i
    <2> DEFINE m == CHOOSE n \in 1..Len(list) - 1 : list[n] = i
    <2>1. m \in 1..Len(list) - 1
      BY <1>2
    <2>2. After(list, i) = list[1 + m]
      BY <1>2 DEF After
    <2> HIDE DEF m
    <2>3. 1 + m \in DOMAIN list
      BY <2>1, LenProperties
    <2>4. QED
      BY <2>2, <2>3 DEF Elements
  <1>3. QED
    BY <1>1, <1>2

-----------------------------------------------------------------------------
(* The steps that change a list, a walk or what is being freed *)

\* The invariant, list by list.
Held(c) == {i \in ImportIds : Live(i) /\ imp[i].client = c /\ ~Freeing(i)}

LEMMA ListsExactDef ==
  ListsExact <=> \A c \in Comps : Distinct(imports[c]) /\ Elements(imports[c]) = Held(c)
  BY DEF ListsExact, Distinct, Elements, Held

LEMMA FreeingTraces ==
  ASSUME NEW i
  PROVE  /\ Freeing(i) <=> \E t \in Traces(stack) : t.op = "free" /\ t.i = i
         /\ Freeing(i)' <=> \E t \in Traces(stack') : t.op = "free" /\ t.i = i
  BY TracesFree DEF Freeing

\* What names an import in a trace is a pointer of an activation.
LEMMA TracesPointed ==
  ASSUME NEW t \in Traces(stack)
  PROVE  t.i \in Pointed
  <1>1. PICK n \in DOMAIN stack : t \in Trace(stack[n])
    BY DEF Traces
  <1>2. t.i = stack[n].i
    BY <1>1 DEF Trace
  <1>3. t.i \in {stack[n].i, stack[n].j}
    BY <1>2
  <1>4. QED
    BY <1>3 DEF Pointed

\* A walk of component_close_imports over the imports of component c starts.
WalkTrace(t) == /\ t.op = "close_imports" /\ t.c \in Comps
                /\ t.i \in Elements(imports[t.c]) \cup {Nil}

LEMMA WalkStarts ==
  ASSUME ListsInv, imports' = imports, imp' = imp,
         NEW w, WalkTrace(w), Traces(stack') = {w} \cup Traces(stack)
  PROVE  ListsInv'
  <1>1. \A i : Freeing(i)' <=> Freeing(i)
    BY FreeingTraces DEF WalkTrace
  <1>2. ListsExact'
    BY <1>1 DEF ListsInv, ListsExact, Live
  <1>3. WalksOwn'
    <2> SUFFICES ASSUME NEW t \in Traces(stack'), t.op = "close_imports",
                        t.i \in ImportIds, Live(t.i)'
                 PROVE  imp'[t.i].client = t.c
      BY DEF WalksOwn
    <2>1. CASE t \in Traces(stack)
      BY <2>1 DEF ListsInv, WalksOwn, Live
    <2>2. CASE t = w
      <3>1. t.c \in Comps /\ t.i \in Elements(imports[t.c])
        BY <2>2, NilAssumption DEF WalkTrace
      <3>2. t.i \in Held(t.c)
        BY <3>1, ListsExactDef DEF ListsInv
      <3>3. QED
        BY <3>2 DEF Held
    <2>3. QED
      BY <2>1, <2>2
  <1>4. QED
    BY <1>2, <1>3 DEF ListsInv

\* An import leaves the list of its client and is handed to import_free.
LEMMA ListLeft ==
  ASSUME TypeOK, ListsInv, NEW i \in ImportIds, imp' = imp,
         imports' = [imports EXCEPT ![imp[i].client] = Without(@, i)],
         NEW W, \A t \in W : WalkTrace(t),
         NEW R, R \subseteq Traces(stack),
         \A t \in Traces(stack) : t.op = "free" => t \in R,
         NEW c, Traces(stack') = {[op |-> "free", c |-> c, i |-> i]} \cup W \cup R
  PROVE  ListsInv'
  <1>1. imp[i].client \in Comps /\ imports[imp[i].client] \in Seq(ImportIds)
    BY DEF TypeOK, Import
  <1>2. \A j : Freeing(j)' <=> Freeing(j) \/ j = i
    <2> SUFFICES ASSUME NEW j PROVE Freeing(j)' <=> Freeing(j) \/ j = i
      OBVIOUS
    <2>1. Freeing(j)' => Freeing(j) \/ j = i
      BY FreeingTraces DEF WalkTrace
    <2>2. Freeing(j) => Freeing(j)'
      BY FreeingTraces
    <2>3. j = i => Freeing(j)'
      <3>1. [op |-> "free", c |-> c, i |-> i] \in Traces(stack')
        OBVIOUS
      <3>2. QED
        BY <3>1, FreeingTraces
    <2>4. QED
      BY <2>1, <2>2, <2>3
  <1>3. \A d \in Comps : Held(d)' = Held(d) \ {i}
    BY <1>2 DEF Held, Live
  <1>4. ASSUME NEW d \in Comps
        PROVE  Distinct(imports'[d]) /\ Elements(imports'[d]) = Held(d)'
    <2>1. Distinct(imports[d]) /\ Elements(imports[d]) = Held(d)
      BY ListsExactDef DEF ListsInv
    <2>2. CASE d = imp[i].client
      <3>1. imports'[d] = Without(imports[d], i)
        BY <1>1, <2>2 DEF TypeOK
      <3>2. /\ Distinct(Without(imports[d], i))
            /\ Elements(Without(imports[d], i)) = Elements(imports[d]) \ {i}
        BY <1>1, <2>1, <2>2, WithoutElements
      <3>3. QED
        BY <1>3, <2>1, <3>1, <3>2
    <2>3. CASE d # imp[i].client
      <3>1. imports'[d] = imports[d]
        BY <1>1, <2>3 DEF TypeOK
      <3>2. i \notin Held(d)
        BY <2>3 DEF Held
      <3>3. QED
        BY <1>3, <2>1, <3>1, <3>2
    <2>4. QED
      BY <2>2, <2>3
  <1>5. ListsExact'
    BY <1>4 DEF ListsExact, Distinct, Elements, Held
  <1>6. WalksOwn'
    <2> SUFFICES ASSUME NEW t \in Traces(stack'), t.op = "close_imports",
                        t.i \in ImportIds, Live(t.i)'
                 PROVE  imp'[t.i].client = t.c
      BY DEF WalksOwn
    <2>1. CASE t \in R
      BY <2>1 DEF ListsInv, WalksOwn, Live
    <2>2. CASE t \in W
      <3>1. t.c \in Comps /\ t.i \in Elements(imports[t.c])
        BY <2>2, NilAssumption DEF WalkTrace
      <3>2. t.i \in Held(t.c)
        BY <3>1, ListsExactDef DEF ListsInv
      <3>3. QED
        BY <3>2 DEF Held
    <2>3. QED
      BY <2>1, <2>2
  <1>7. QED
    BY <1>5, <1>6 DEF ListsInv

LEMMA InitDoneLists ==
  ASSUME TypeOK, ListsInv, InitDone \/ DestroyStart
  PROVE  ListsInv'
  <1> DEFINE i == First(imports[Top.c])
             f == Enter("close_imports", "loop", Top.c, i, Nil)
             w == [op |-> "close_imports", c |-> Top.c, i |-> i]
  <1>0. /\ stack \in Seq(Activation) /\ stack # <<>> /\ Top.op \in {"init", "destroy"}
        /\ Top.c \in Comps /\ imports' = imports /\ imp' = imp
    <2>1. stack \in Seq(Activation) /\ stack # <<>> /\ Top.op \in {"init", "destroy"}
      BY DEF TypeOK, InitDone, DestroyStart, At
    <2>2. Top \in Activation
      BY <2>1, TopType
    <2>3. QED
      BY <2>1, <2>2 DEF Activation, InitDone, DestroyStart, objVars
  <1>1. SameImports
    BY <1>0 DEF SameImports, Live
  <1>2. WalkTrace(w)
    <2>1. imports[Top.c] \in Seq(ImportIds)
      BY <1>0 DEF TypeOK
    <2>2. i \in Elements(imports[Top.c]) \cup {Nil}
      BY <2>1, FirstElement
    <2> HIDE DEF i
    <2>3. QED
      BY <1>0, <2>2 DEF WalkTrace
  <1>3. Trace(f) = {w}
    BY EnterTrace DEF Watched
  <1>4. ASSUME NEW pc, Call(f, pc)
        PROVE  ListsInv'
    <2> HIDE DEF f, w
    <2>1. Traces(stack') = {w} \cup Traces(stack)
      BY <1>0, <1>3, <1>4, CallTraces
    <2>2. QED
      BY <1>0, <1>2, <2>1, WalkStarts
  <1>5. stack' = Rest => Quiet
    <2>1. Top.op \notin Watched
      BY <1>0 DEF Watched
    <2>2. QED
      BY <1>0, <1>1, <2>1, PopTraces DEF Quiet
  <1>6. Goto("unload") => Quiet
    BY <1>0, <1>1, GotoTraces DEF Quiet
  <1>7. \/ stack' = Rest \/ Goto("unload") \/ Call(f, "failed") \/ Call(f, "call")
    BY DEF InitDone, DestroyStart
  <1> HIDE DEF f
  <1>8. QED
    BY <1>4, <1>5, <1>6, <1>7, QuietKeeps

LEMMA CloseImportsLists ==
  ASSUME TypeOK, ListsInv, CloseImportsStep
  PROVE  ListsInv'
  <1> DEFINE i == Top.i
             c == Top.c
  <1>0. /\ stack \in Seq(Activation) /\ stack # <<>> /\ Top.op = "close_imports"
        /\ Top \in Activation /\ Rest \in Seq(Activation) /\ c \in Comps /\ i \in ImportPtr
    <2>1. stack \in Seq(Activation) /\ stack # <<>> /\ Top.op = "close_imports"
      BY DEF TypeOK, CloseImportsStep, At
    <2>2. Top \in Activation /\ Rest \in Seq(Activation)
      BY <2>1, TopType
    <2>3. QED
      BY <2>1, <2>2 DEF Activation
  <1>1. /\ Traces(stack) = {[op |-> "close_imports", c |-> c, i |-> i]} \cup Traces(Rest)
        /\ Trace(Top) = {[op |-> "close_imports", c |-> c, i |-> i]}
    <2>1. Trace(Top) = {[op |-> "close_imports", c |-> c, i |-> i]}
      BY <1>0 DEF Trace, Watched
    <2>2. QED
      BY <1>0, <2>1, TracesTop
  <1>2. CASE i = Nil
    <2>1. stack' = Rest /\ imports' = imports /\ imp' = imp
      BY <1>2 DEF CloseImportsStep, compVars, objVars
    <2>2. ASSUME NEW t \in Traces(stack), t.op = "free" PROVE t \in Traces(stack')
      BY <1>1, <2>1, <2>2
    <2>3. Traces(stack') \subseteq Traces(stack)
      BY <1>1, <2>1
    <2>4. \A j : Freeing(j)' <=> Freeing(j)
      BY <2>2, <2>3, FreeingTraces
    <2>5. ListsExact'
      BY <2>1, <2>4 DEF ListsInv, ListsExact, Live
    <2>6. WalksOwn'
      BY <2>1, <2>3 DEF ListsInv, WalksOwn, Live
    <2>7. QED
      BY <2>5, <2>6 DEF ListsInv
  <1>3. CASE i # Nil /\ ~(Live(i) /\ Listed(i))
    <2>1. Fault("dangling")
      BY <1>3 DEF CloseImportsStep
    <2>2. QED
      BY <2>1, FaultQuiet, QuietKeeps
  <1>4. CASE i # Nil /\ Live(i) /\ Listed(i)
    <2> DEFINE succ == After(imports[c], i)
               f == Enter("free", "start", imp[i].client, i, Nil)
               g == [Top EXCEPT !.i = succ]
               w == [op |-> "close_imports", c |-> c, i |-> succ]
               d == imp[i].client
               v == [op |-> "free", c |-> d, i |-> i]
    <2>1. i \in ImportIds /\ imports[c] \in Seq(ImportIds)
      BY <1>0, <1>4 DEF ImportPtr, TypeOK
    <2>2. imp[i].client = c
      <3> DEFINE t == [op |-> "close_imports", c |-> c, i |-> i]
      <3>1. t \in Traces(stack) /\ t.op = "close_imports" /\ t.c = c /\ t.i = i
        BY <1>1
      <3> HIDE DEF t
      <3>2. QED
        BY <1>4, <2>1, <3>1 DEF ListsInv, WalksOwn
    <2>3. /\ imports' = [imports EXCEPT ![c] = Without(@, i)] /\ imp' = imp
          /\ stack' = <<f, g>> \o Rest
      BY <1>4 DEF CloseImportsStep, objVars
    <2>4. succ \in Elements(imports[c]) \cup {Nil}
      BY <2>1, AfterElement
    <2>5. Trace(f) = {v}
      BY EnterTrace DEF Watched
    <2>6. Trace(g) = {w}
      BY <1>0 DEF Trace, Watched, Activation
    <2> HIDE DEF f, g, succ
    <2>7. WalkTrace(w)
      BY <1>0, <2>4 DEF WalkTrace
    <2>8. Traces(stack') = {v} \cup {w} \cup Traces(Rest)
      BY <1>0, <2>3, <2>5, <2>6, TracesPushTwo
    <2>9. /\ Traces(Rest) \subseteq Traces(stack)
          /\ \A t \in Traces(stack) : t.op = "free" => t \in Traces(Rest)
      BY <1>1
    <2>10. imports' = [imports EXCEPT ![imp[i].client] = Without(@, i)]
      BY <2>2, <2>3
    <2>11. \A t \in {w} : WalkTrace(t)
      BY <2>7
    <2> HIDE DEF w, i
    <2>12. QED
      BY <2>1, <2>3, <2>8, <2>9, <2>10, <2>11, ListLeft
  <1>5. QED
    BY <1>2, <1>3, <1>4

LEMMA CloseStartLists ==
  ASSUME TypeOK, ListsInv, CloseStart
  PROVE  ListsInv'
  <1> DEFINE i == Top.i
             c == imp[i].client
             f == Enter("free", "start", c, i, Nil)
             g == Enter("destroy", "start", c, Nil, Nil)
             v == [op |-> "free", c |-> c, i |-> i]
  <1>0. /\ stack \in Seq(Activation) /\ stack # <<>> /\ Top.op = "close"
        /\ Rest \in Seq(Activation) /\ i \in ImportIds
    <2>1. stack \in Seq(Activation) /\ stack # <<>> /\ Top.op = "close"
      BY DEF TypeOK, CloseStart, At
    <2>2. Top \in Activation /\ Rest \in Seq(Activation)
      BY <2>1, TopType
    <2>3. QED
      BY <2>1, <2>2 DEF Activation
  <1>1. CASE ~(Live(i) /\ Listed(i))
    <2>1. Fault("dangling")
      BY <1>1 DEF CloseStart
    <2>2. QED
      BY <2>1, FaultQuiet, QuietKeeps
  <1>2. CASE Live(i) /\ Listed(i)
    <2>1. /\ imports' = [imports EXCEPT ![c] = Without(@, i)] /\ imp' = imp
          /\ stack' = <<f>> \o Rest \/ stack' = <<g>> \o (<<f>> \o Rest)
      BY <1>2 DEF CloseStart, objVars
    <2>2. Trace(f) = {v} /\ Trace(g) = {}
      BY EnterTrace DEF Watched
    <2>3. Traces(Rest) = Traces(stack)
      BY <1>0, PopTraces DEF Watched
    <2> HIDE DEF f, g
    <2>4. Traces(<<f>> \o Rest) = {v} \cup Traces(Rest)
      BY <1>0, <2>2, TracesPush
    <2>5. Traces(<<g>> \o (<<f>> \o Rest)) = {v} \cup Traces(Rest)
      <3> DEFINE s == <<f>> \o Rest
      <3>1. s \in Seq(Activation \cup {f})
        <4>1. Rest \in Seq(Activation \cup {f})
          BY <1>0, SeqMonotonic
        <4>2. QED
          BY <4>1, PushType
      <3> HIDE DEF s
      <3>2. Traces(<<g>> \o s) = Trace(g) \cup Traces(s)
        BY <3>1, TracesPush
      <3>3. QED
        BY <2>2, <2>4, <3>2 DEF s
    <2>6. Traces(stack') = {v} \cup {} \cup Traces(stack)
      BY <2>1, <2>3, <2>4, <2>5
    <2> HIDE DEF i
    <2>7. QED
      BY <1>0, <2>1, <2>6, ListLeft
  <1>3. QED
    BY <1>1, <1>2

LEMMA FreeDoneLists ==
  ASSUME TypeOK, ListsInv, FreeDone
  PROVE  ListsInv'
  <1> DEFINE i == Top.i
             v == [op |-> "free", c |-> Top.c, i |-> i]
  <1>0. /\ stack \in Seq(Activation) /\ stack # <<>> /\ Top.op = "free"
        /\ i \in ImportIds /\ imp \in [ImportIds -> Import]
    <2>1. stack \in Seq(Activation) /\ stack # <<>> /\ Top.op = "free"
      BY DEF TypeOK, FreeDone, At
    <2>2. Top \in Activation
      BY <2>1, TopType
    <2>3. QED
      BY <2>1, <2>2 DEF Activation, TypeOK
  <1>1. Traces(stack) = {v} \cup Traces(Rest)
    <2>1. Trace(Top) = {v}
      BY <1>0 DEF Trace, Watched
    <2>2. QED
      BY <1>0, <2>1, TracesTop
  <1>2. stack' = Rest /\ imports' = imports
    BY DEF FreeDone, compVars
  <1>3. imp'[i].st = "free" /\ \A j \in ImportIds \ {i} : imp'[j] = imp[j]
    <2>1. imp' = [imp EXCEPT ![i] = NoImport]
      BY DEF FreeDone
    <2>2. NoImport.st = "free"
      BY DEF NoImport
    <2> HIDE DEF i
    <2>3. QED
      BY <1>0, <2>1, <2>2
  <1>4. Freeing(i) /\ \A j : j # i => (Freeing(j)' <=> Freeing(j))
    <2>1. v \in Traces(stack) /\ v.op = "free" /\ v.i = i
      BY <1>1
    <2> HIDE DEF v, i
    <2>2. Freeing(i)
      BY <2>1, FreeingTraces
    <2>3. ASSUME NEW j, j # i PROVE Freeing(j)' <=> Freeing(j)
      <3>1. Freeing(j)' <=> \E t \in Traces(Rest) : t.op = "free" /\ t.i = j
        BY <1>2, FreeingTraces
      <3>2. Freeing(j) <=> \E t \in Traces(stack) : t.op = "free" /\ t.i = j
        BY FreeingTraces
      <3>3. QED
        BY <1>1, <2>1, <2>3, <3>1, <3>2
    <2>4. QED
      BY <2>2, <2>3
  <1> HIDE DEF v, i
  <1>5. \A c \in Comps : Held(c)' = Held(c)
    <2> SUFFICES ASSUME NEW c \in Comps, NEW j \in ImportIds
                 PROVE  j \in Held(c)' <=> j \in Held(c)
      BY DEF Held
    <2>1. CASE j = i
      BY <1>3, <1>4, <2>1 DEF Held, Live
    <2>2. CASE j # i
      <3>1. (Live(j)' <=> Live(j)) /\ imp'[j].client = imp[j].client
        BY <1>3, <2>2 DEF Live
      <3>2. QED
        BY <1>4, <2>2, <3>1 DEF Held
    <2>3. QED
      BY <2>1, <2>2
  <1>6. ListsExact'
    BY <1>2, <1>5, ListsExactDef DEF ListsInv, ListsExact, Distinct, Elements, Held
  <1>7. WalksOwn'
    <2> SUFFICES ASSUME NEW t \in Traces(stack'), t.op = "close_imports",
                        t.i \in ImportIds, Live(t.i)'
                 PROVE  imp'[t.i].client = t.c
      BY DEF WalksOwn
    <2>1. t \in Traces(stack)
      BY <1>1, <1>2
    <2>2. t.i # i
      BY <1>3 DEF Live
    <2>3. imp'[t.i] = imp[t.i]
      BY <1>3, <2>2
    <2>4. QED
      BY <2>1, <2>3 DEF ListsInv, WalksOwn, Live
  <1>8. QED
    BY <1>6, <1>7 DEF ListsInv

\* query_new puts the imports it creates at the end of the client's list; the
\* memory it takes for them is named by no list, walk or activation.
LEMMA QueryNewLists ==
  ASSUME TypeOK, ListsInv, NEW c \in Comps, NEW iface \in Interfaces, NEW port, NEW user,
         NEW q, NEW s, QueryNew(c, iface, port, user, q, s), Traces(s) = Traces(stack)
  PROVE  ListsInv'
  <1> DEFINE provs == wiring.providers[iface]
             n == Len(provs)
  <1>1. n \in Nat
    BY LenProperties DEF TypeOK, Wiring
  <1>2. PICK ids \in [1..n -> ImportIds] :
          LET At1(k) == IF k \in 1..n THEN ids[k] ELSE Nil
              New(k) == [st |-> "queried", query |-> q, client |-> c,
                         server |-> provs[k], port |-> port,
                         next |-> At1(k + 1), prev |-> At1(k - 1),
                         srvReg |-> FALSE, cliReg |-> FALSE]
          IN /\ Fresh(ids, n)
             /\ imp' = [i \in ImportIds |->
                          IF \E k \in 1..n : ids[k] = i
                            THEN New(CHOOSE k \in 1..n : ids[k] = i) ELSE imp[i]]
             /\ imports' = [imports EXCEPT ![c] = @ \o ids]
    BY DEF QueryNew, import_new, Linked, component_add_import
  <1>3. Traces(stack') = Traces(stack)
    BY DEF QueryNew
  <1> DEFINE made == Elements(ids)
  <1>4. /\ \A i \in ImportIds \ made : imp'[i] = imp[i]
        /\ \A i \in made : i \in ImportIds /\ imp'[i].client = c /\ imp'[i].st = "queried"
    BY <1>2 DEF Elements
  <1>5. imports' = [imports EXCEPT ![c] = imports[c] \o ids] /\ imports[c] \in Seq(ImportIds)
    BY <1>2 DEF TypeOK
  <1>6. ids \in Seq(ImportIds) /\ DOMAIN ids = 1..n
    BY <1>1, IsASeq
  <1>7. \A i \in made : ~Live(i) /\ i \notin Pointed
    BY <1>2 DEF Fresh, Reusable, Elements
  <1>8. Distinct(ids)
    <2> HIDE DEF n
    <2>1. \A a, b \in 1..n : a < b => ids[a] < ids[b]
      BY <1>2 DEF Fresh
    <2>2. \A a \in 1..n : ids[a] \in Nat
      BY PoolAssumption
    <2>3. \A a, b \in 1..n : ids[a] = ids[b] => ~(a < b) /\ ~(b < a)
      BY <2>1, <2>2
    <2>4. QED
      BY <1>1, <1>6, <2>3 DEF Distinct
  <1> HIDE DEF provs, n, made
  <1>9. \A i : Freeing(i)' <=> Freeing(i)
    <2> SUFFICES ASSUME NEW i PROVE Freeing(i)' <=> Freeing(i)
      OBVIOUS
    <2>1. QED
      BY <1>3, FreeingTraces
  <1>10. \A i \in made : ~Freeing(i) /\ \A t \in Traces(stack) : t.i # i
    <2> SUFFICES ASSUME NEW i \in made
                 PROVE  ~Freeing(i) /\ \A t \in Traces(stack) : t.i # i
      OBVIOUS
    <2>1. \A t \in Traces(stack) : t.i # i
      BY <1>7, TracesPointed
    <2>2. QED
      BY <2>1, FreeingTraces
  <1>11. \A d \in Comps : Held(d)' = IF d = c THEN Held(d) \cup made ELSE Held(d)
    <2> SUFFICES ASSUME NEW d \in Comps, NEW i \in ImportIds
                 PROVE  i \in Held(d)' <=> i \in Held(d) \/ (d = c /\ i \in made)
      BY <1>4 DEF Held
    <2>1. CASE i \in made
      <3>1. i \in Held(d)' <=> d = c
        BY <1>4, <1>9, <1>10, <2>1 DEF Held, Live
      <3>2. i \notin Held(d)
        BY <1>7, <2>1 DEF Held
      <3>3. QED
        BY <2>1, <3>1, <3>2
    <2>2. CASE i \notin made
      BY <1>4, <1>9, <2>2 DEF Held, Live
    <2>3. QED
      BY <2>1, <2>2
  <1>12. ASSUME NEW d \in Comps
         PROVE  Distinct(imports'[d]) /\ Elements(imports'[d]) = Held(d)'
    <2>1. Distinct(imports[d]) /\ Elements(imports[d]) = Held(d)
      BY ListsExactDef DEF ListsInv
    <2>2. CASE d = c
      <3>1. imports'[d] = imports[d] \o ids
        BY <1>5, <2>2 DEF TypeOK
      <3>2. Elements(imports[d]) \cap made = {}
        BY <1>7, <2>1 DEF Held
      <3>3. Distinct(imports[d] \o ids) /\ Elements(imports[d] \o ids) = Held(d) \cup made
        BY <1>5, <1>6, <1>8, <2>1, <2>2, <3>2, ConcatElements DEF made
      <3>4. QED
        BY <1>11, <2>2, <3>1, <3>3
    <2>3. CASE d # c
      BY <1>5, <1>11, <2>1, <2>3 DEF TypeOK
    <2>4. QED
      BY <2>2, <2>3
  <1>13. ListsExact'
    BY <1>12 DEF ListsExact, Distinct, Elements, Held
  <1>14. WalksOwn'
    <2> SUFFICES ASSUME NEW t \in Traces(stack), t.op = "close_imports",
                        t.i \in ImportIds, Live(t.i)'
                 PROVE  imp'[t.i].client = t.c
      BY <1>3 DEF WalksOwn
    <2>1. imp'[t.i] = imp[t.i]
      BY <1>4, <1>10
    <2>2. QED
      BY <2>1 DEF ListsInv, WalksOwn, Live
  <1>15. QED
    BY <1>13, <1>14 DEF ListsInv

LEMMA InitQueryLists ==
  ASSUME TypeOK, ListsInv, InitQuery
  PROVE  ListsInv'
  <1>0. /\ stack \in Seq(Activation) /\ stack # <<>> /\ Top.op = "init"
        /\ Top \in Activation /\ Rest \in Seq(Activation) /\ Top.c \in Comps
    <2>1. stack \in Seq(Activation) /\ stack # <<>> /\ Top.op = "init"
      BY DEF TypeOK, InitQuery, At
    <2>2. Top \in Activation /\ Rest \in Seq(Activation)
      BY <2>1, TopType
    <2>3. QED
      BY <2>1, <2>2 DEF Activation
  <1>1. LoadtimePort.iface \in Interfaces
    <2>1. Top.k <= Len(wiring.loadtime[Top.c]) /\ Top.k \in Nat \ {0}
      BY <1>0 DEF InitQuery, Activation
    <2>2. wiring.loadtime[Top.c] \in Seq(Port)
      BY <1>0 DEF TypeOK, Wiring
    <2>3. Top.k \in 1..Len(wiring.loadtime[Top.c])
      BY <2>1, <2>2, LenProperties
    <2>4. LoadtimePort \in Port
      BY <2>2, <2>3, ElementOfSeq DEF LoadtimePort
    <2>5. QED
      BY <2>4 DEF Port
  <1> DEFINE f == [Resume("port_done") EXCEPT !.r = "error"]
             g(q) == [Resume("next") EXCEPT !.q = q, !.r = "ok"]
             s(q) == <<IF wiring.providers[LoadtimePort.iface] = <<>> THEN f ELSE g(q)>> \o Rest
  <1>2. PICK q \in QueryIds : QueryNew(Top.c, LoadtimePort.iface, TRUE, FALSE, q, s(q))
    BY DEF InitQuery
  <1>3. Traces(s(q)) = Traces(stack)
    <2>1. Trace(f) = {} /\ Trace(g(q)) = {}
      BY <1>0 DEF Trace, Watched, Resume, Activation
    <2>2. Traces(Rest) = Traces(stack)
      BY <1>0, PopTraces DEF Watched
    <2> DEFINE h == IF wiring.providers[LoadtimePort.iface] = <<>> THEN f ELSE g(q)
    <2> HIDE DEF f, g
    <2>3. Trace(h) = {}
      BY <2>1
    <2> HIDE DEF h
    <2>4. Traces(<<h>> \o Rest) = Trace(h) \cup Traces(Rest)
      BY <1>0, TracesPush
    <2>5. QED
      BY <2>2, <2>3, <2>4 DEF h
  <1> HIDE DEF s
  <1>4. QED
    BY <1>0, <1>1, <1>2, <1>3, QueryNewLists

LEMMA ListsInitially == Init => ListsInv
  <1> SUFFICES ASSUME Init PROVE ListsInv
    OBVIOUS
  <1>1. \A i \in ImportIds : ~Live(i)
    BY DEF Init, Live, NoImport
  <1>2. ListsExact
    BY <1>1 DEF Init, ListsExact
  <1>3. WalksOwn
    BY <1>1 DEF WalksOwn
  <1>4. QED
    BY <1>2, <1>3 DEF ListsInv

LEMMA ListsStep == TypeOK /\ ListsInv /\ [Next]_vars => ListsInv'
  <1> SUFFICES ASSUME TypeOK, ListsInv, [Next]_vars PROVE ListsInv'
    OBVIOUS
  <1>1. CASE ComponentStep
    BY <1>1, ComponentQuiet, QuietKeeps, InitQueryLists, InitDoneLists, CloseImportsLists
       DEF ComponentStep
  <1>2. CASE ImportStep
    BY <1>2, OpenQuiet, FreeQuiet, QuietKeeps, CloseStartLists, FreeDoneLists DEF ImportStep
  <1>3. CASE QueryStep
    BY <1>3, QueryStepQuiet, QuietKeeps
  <1>4. CASE MethodReturn
    BY <1>4, MethodReturnQuiet, QuietKeeps
  <1>5. CASE ApiCall
    <2>1. ASSUME NEW c \in Comps, NEW iface \in Interfaces,
                 xCOM_QueryInterface(c, iface) \/ xCOM_QueryPort(c, iface)
          PROVE  ListsInv'
      BY <2>1, QueryNewLists DEF xCOM_QueryInterface, xCOM_QueryPort
    <2>2. QED
      BY <1>5, <2>1, ApiQuiet, QuietKeeps DEF ApiCall
  <1>6. CASE UNCHANGED vars
    <2>1. Quiet
      BY <1>6 DEF vars, Quiet, SameImports, Live
    <2>2. QED
      BY <2>1, QuietKeeps
  <1>7. QED
    BY <1>1, <1>2, <1>3, <1>4, <1>5, <1>6 DEF Next, Step

\* Every import of a client is on its list exactly once unless import_free is
\* tearing it down, and nothing else is: whatever components do while
\* component_close_imports and import_close take imports off the list
\* (import_new, import_close, component_close_imports).
THEOREM ListsCorrect == Spec => []ListsExact
  <1>1. ListsInv => ListsExact
    BY DEF ListsInv
  <1>2. QED
    BY <1>1, ListsInitially, ListsStep, TypeCorrect, PTL DEF Spec

-----------------------------------------------------------------------------
(***************************************************************************)
(* The references of every component are counted exactly in every          *)
(* reachable state of Lifecycle, for every value of its constants, as long *)
(* as no undefined behaviour happened; and no query that component_init    *)
(* made outlives it where each loadtime interface has a provider.          *)
(*                                                                         *)
(* References are held by imports, by queries and by activations, and an   *)
(* activation drops what it or another one took: what matters of the call  *)
(* stack is how many of its activations hold, free or use what.  Each has  *)
(* a set of tags that says so, and the invariant is about the number of    *)
(* activations that have a tag.                                            *)
(***************************************************************************)

Tag(kind, a, b) == [kind |-> kind, a |-> a, b |-> b]

OwnOf(i, c)  == Tag("own", i, c)       \* opens, closes or frees import i of client c
FreeOf(i)    == Tag("free", i, Nil)    \* is import_free of i
FreedOf(i)   == Tag("freed", i, Nil)   \* has dropped the reference to the server of i
WaitOf(c)    == Tag("wait", c, Nil)    \* holds a reference to c around a method
UseOf(q, c)  == Tag("use", q, c)       \* finishes query q of c, or made it

Tags(f) ==
  (IF f.op \in {"open", "close", "free"} THEN {OwnOf(f.i, f.c)} ELSE {})
  \cup (IF f.op = "free" THEN {FreeOf(f.i)} ELSE {})
  \cup (IF f.op = "free" /\ f.pc = "freed" THEN {FreedOf(f.i)} ELSE {})
  \cup (IF f.op \in {"open", "free"} /\ f.pc = "client" THEN {WaitOf(f.c)} ELSE {})
  \cup (IF f.op = "finish" \/ (f.op = "init" /\ f.pc \in {"next", "imported"})
          THEN {UseOf(f.q, f.c)} ELSE {})

\* How many activations have tag t.
Having(s, t) == {n \in DOMAIN s : t \in Tags(s[n])}
Count(s, t) == Cardinality(Having(s, t))

\* The imports that hold a reference to c, and the queries.
Served(c) == {i \in ImportIds : Live(i) /\ imp[i].server = c /\ Count(stack, FreedOf(i)) = 0}
Asked(c) == {q \in QueryIds : qry[q].live /\ qry[q].client = c}

\* RefsExact, with what holds a reference around a method counted by tag.
Balanced == NoFault => \A c \in Comps :
  refs[c] = Cardinality(Served(c)) + Cardinality(Asked(c)) + Count(stack, WaitOf(c))

\* The memory in use is finite.
Finite == /\ IsFiniteSet({i \in ImportIds : Live(i)})
          /\ IsFiniteSet({q \in QueryIds : qry[q].live})

\* An activation that works on a live import knows the client it belongs to.
OwnersKnown == \A i \in ImportIds, c \in Comps :
  Count(stack, OwnOf(i, c)) > 0 /\ Live(i) => imp[i].client = c

\* No import is freed twice.
FreedOnce == \A i \in ImportIds : Count(stack, FreeOf(i)) <= 1

\* A query is finished, or used by component_init, once and while it is there.
UsedOnce == \A q \in QueryIds, c \in Comps :
  /\ Count(stack, UseOf(q, c)) <= 1
  /\ Count(stack, UseOf(q, c)) > 0 => qry[q].live /\ qry[q].client = c

\* Every interface that a component requires at load time is provided.
EachProvided(w) == \A c \in Comps : \A n \in DOMAIN w.loadtime[c] :
  w.providers[w.loadtime[c][n].iface] # <<>>

\* A query that component_init made is in use.
QueriesUsed == EachProvided(wiring) => \A q \in QueryIds :
  qry[q].live /\ ~qry[q].user => Count(stack, UseOf(q, qry[q].client)) > 0

RefsInv == Balanced /\ Finite /\ OwnersKnown /\ FreedOnce /\ UsedOnce /\ QueriesUsed

-----------------------------------------------------------------------------
(* Tags *)

LEMMA TagsApart ==
  /\ \A i, j, c, d : OwnOf(i, c) = OwnOf(j, d) <=> i = j /\ c = d
  /\ \A i, j : (FreeOf(i) = FreeOf(j) <=> i = j) /\ (FreedOf(i) = FreedOf(j) <=> i = j)
  /\ \A c, d : WaitOf(c) = WaitOf(d) <=> c = d
  /\ \A q, p, c, d : UseOf(q, c) = UseOf(p, d) <=> q = p /\ c = d
  /\ \A i, j, c : OwnOf(i, c) # FreeOf(j) /\ OwnOf(i, c) # FreedOf(j) /\ OwnOf(i, c) # WaitOf(j)
  /\ \A i, j, c, d : OwnOf(i, c) # UseOf(j, d)
  /\ \A i, j : FreeOf(i) # FreedOf(j) /\ FreeOf(i) # WaitOf(j) /\ FreedOf(i) # WaitOf(j)
  /\ \A i, j, d : FreeOf(i) # UseOf(j, d) /\ FreedOf(i) # UseOf(j, d) /\ WaitOf(i) # UseOf(j, d)
  BY DEF OwnOf, FreeOf, FreedOf, WaitOf, UseOf, Tag

\* The tags that an activation has at each point.
LEMMA TagsOf ==
  ASSUME NEW f
  PROVE  /\ \A i, c : OwnOf(i, c) \in Tags(f)
                        <=> f.op \in {"open", "close", "free"} /\ f.i = i /\ f.c = c
         /\ \A i : FreeOf(i) \in Tags(f) <=> f.op = "free" /\ f.i = i
         /\ \A i : FreedOf(i) \in Tags(f) <=> f.op = "free" /\ f.pc = "freed" /\ f.i = i
         /\ \A c : WaitOf(c) \in Tags(f)
                     <=> f.op \in {"open", "free"} /\ f.pc = "client" /\ f.c = c
         /\ \A q, c : UseOf(q, c) \in Tags(f)
                        <=> /\ f.op = "finish" \/ (f.op = "init" /\ f.pc \in {"next", "imported"})
                            /\ f.q = q /\ f.c = c
  <1>1. \A i, c : OwnOf(i, c) \in Tags(f)
                    <=> f.op \in {"open", "close", "free"} /\ f.i = i /\ f.c = c
    BY TagsApart DEF Tags
  <1>2. \A i : FreeOf(i) \in Tags(f) <=> f.op = "free" /\ f.i = i
    BY TagsApart DEF Tags
  <1>3. \A i : FreedOf(i) \in Tags(f) <=> f.op = "free" /\ f.pc = "freed" /\ f.i = i
    BY TagsApart DEF Tags
  <1>4. \A c : WaitOf(c) \in Tags(f)
                 <=> f.op \in {"open", "free"} /\ f.pc = "client" /\ f.c = c
    BY TagsApart DEF Tags
  <1>5. \A q, c : UseOf(q, c) \in Tags(f)
                    <=> /\ f.op = "finish" \/ (f.op = "init" /\ f.pc \in {"next", "imported"})
                        /\ f.q = q /\ f.c = c
    BY TagsApart DEF Tags
  <1>6. QED
    BY <1>1, <1>2, <1>3, <1>4, <1>5

-----------------------------------------------------------------------------
(* Counting activations *)

One(b) == IF b THEN 1 ELSE 0

LEMMA HavingFinite ==
  ASSUME NEW S, NEW s \in Seq(S), NEW t
  PROVE  IsFiniteSet(Having(s, t)) /\ Count(s, t) \in Nat
  <1>1. DOMAIN s = 1..Len(s) /\ Len(s) \in Nat
    BY LenProperties
  <1>2. IsFiniteSet(1..Len(s))
    BY <1>1, FS_Interval
  <1>3. Having(s, t) \in SUBSET (1..Len(s))
    BY <1>1 DEF Having
  <1>4. IsFiniteSet(Having(s, t))
    BY <1>2, <1>3, FS_Subset
  <1>5. QED
    BY <1>4, FS_CardinalityType DEF Count

LEMMA CountPositive ==
  ASSUME NEW S, NEW s \in Seq(S), NEW t
  PROVE  Count(s, t) > 0 <=> \E n \in DOMAIN s : t \in Tags(s[n])
  <1>1. IsFiniteSet(Having(s, t)) /\ Count(s, t) \in Nat
    BY HavingFinite
  <1>2. Count(s, t) = 0 <=> Having(s, t) = {}
    BY <1>1, FS_EmptySet DEF Count
  <1>3. Having(s, t) = {} <=> ~\E n \in DOMAIN s : t \in Tags(s[n])
    BY DEF Having
  <1>4. QED
    BY <1>1, <1>2, <1>3

LEMMA CountPush ==
  ASSUME NEW S, NEW f, NEW s \in Seq(S), NEW t
  PROVE  Count(<<f>> \o s, t) = Count(s, t) + One(t \in Tags(f))
  <1> DEFINE T == S \cup {f}
             p == <<f>> \o s
             M == Having(s, t)
             K == {n + 1 : n \in M}
  <1>1. s \in Seq(T) /\ <<f>> \in Seq(T)
    BY SeqMonotonic
  <1>2. /\ Len(p) = 1 + Len(s) /\ DOMAIN p = 1..1 + Len(s)
        /\ \A n \in 1..1 + Len(s) : p[n] = IF n <= 1 THEN f ELSE s[n - 1]
    BY <1>1, ConcatProperties, LenProperties
  <1>3. Len(s) \in Nat /\ DOMAIN s = 1..Len(s)
    BY LenProperties
  <1> HIDE DEF p
  <1>4. p[1] = f /\ 1 \in DOMAIN p
    BY <1>2, <1>3
  <1>5. \A n \in DOMAIN s : n + 1 \in DOMAIN p /\ p[n + 1] = s[n]
    BY <1>2, <1>3
  <1>6. \A n \in DOMAIN p : n # 1 => n - 1 \in DOMAIN s /\ p[n] = s[n - 1]
    BY <1>2, <1>3
  <1>7. M \subseteq DOMAIN s /\ IsFiniteSet(M) /\ Cardinality(M) = Count(s, t)
        /\ Count(s, t) \in Nat
    BY HavingFinite DEF Having, Count
  <1>8. IsFiniteSet(K) /\ Cardinality(K) = Cardinality(M)
    <2> DEFINE shift == [n \in M |-> n + 1]
    <2>1. M \subseteq Int
      BY <1>3, <1>7
    <2>2. shift \in Bijection(M, K)
      <3> HIDE DEF M
      <3>1. QED
        BY <2>1 DEF Bijection, Injection, Surjection, IsInjective
    <2>3. ExistsBijection(M, K)
      BY <2>2 DEF ExistsBijection
    <2>4. QED
      BY <1>7, <2>3, FS_Bijection
  <1>9. 1 \notin K
    BY <1>3, <1>7
  <1>10. Having(p, t) = IF t \in Tags(f) THEN K \cup {1} ELSE K
    <2>1. \A n \in DOMAIN s : n + 1 \in Having(p, t) <=> n \in M
      BY <1>5 DEF Having
    <2>2. 1 \in Having(p, t) <=> t \in Tags(f)
      BY <1>4 DEF Having
    <2>3. \A n \in Having(p, t) : n # 1 => n \in K
      <3> SUFFICES ASSUME NEW n \in Having(p, t), n # 1 PROVE n \in K
        OBVIOUS
      <3>1. n \in DOMAIN p
        BY DEF Having
      <3>2. n - 1 \in DOMAIN s /\ (n - 1) + 1 = n
        BY <1>2, <1>3, <1>6, <3>1
      <3>3. n - 1 \in M
        BY <2>1, <3>2
      <3>4. QED
        BY <3>2, <3>3
    <2>4. K \subseteq Having(p, t)
      BY <1>7, <2>1
    <2> HIDE DEF K
    <2>5. QED
      BY <1>9, <2>2, <2>3, <2>4
  <1> HIDE DEF K, M
  <1>11. CASE t \in Tags(f)
    <2>1. Cardinality(K \cup {1}) = Cardinality(K) + 1
      BY <1>8, <1>9, FS_AddElement
    <2>2. QED
      BY <1>7, <1>8, <1>10, <1>11, <2>1 DEF One, Count, p
  <1>12. CASE t \notin Tags(f)
    BY <1>7, <1>8, <1>10, <1>12 DEF One, Count, p
  <1>13. QED
    BY <1>11, <1>12

LEMMA PushTwo ==
  ASSUME NEW S, NEW f, NEW g, NEW s \in Seq(S)
  PROVE  <<f, g>> \o s = <<f>> \o (<<g>> \o s)
  <1> DEFINE T == S \cup {f, g}
             a == <<f>> \o <<g>>
             b == <<f, g>>
  <1>1. s \in Seq(T) /\ <<f>> \in Seq(T) /\ <<g>> \in Seq(T)
    BY SeqMonotonic
  <1>2. a = b
    <2>1. a \in Seq(T) /\ Len(a) = 2 /\ a[1] = f /\ a[2] = g
      BY <1>1, ConcatProperties
    <2>2. b \in Seq(T) /\ Len(b) = 2 /\ b[1] = f /\ b[2] = g
      OBVIOUS
    <2> HIDE DEF a, b
    <2>3. \A n \in 1..Len(a) : a[n] = b[n]
      BY <2>1, <2>2
    <2>4. QED
      BY <2>1, <2>2, <2>3, SeqEqual
  <1>3. a \o s = <<f>> \o (<<g>> \o s)
    BY <1>1, ConcatAssociative
  <1>4. QED
    BY <1>2, <1>3

LEMMA CountTop ==
  ASSUME stack \in Seq(Activation), stack # <<>>, NEW t
  PROVE  Count(stack, t) = Count(Rest, t) + One(t \in Tags(Top))
  <1>1. Top \in Activation /\ Rest \in Seq(Activation)
    BY TopType
  <1>2. stack = <<Top>> \o Rest
    BY HeadTailProperties DEF Top, Rest
  <1>3. QED
    BY <1>1, <1>2, CountPush
-----------------------------------------------------------------------------
(* How a step changes the tags *)

\* The activations lose the tags A and gain the tags D and E.
Became(A, D, E) == \A t :
  /\ Count(stack, t) \in Nat /\ Count(stack', t) \in Nat
  /\ Count(stack', t) + One(t \in A) = Count(stack, t) + One(t \in D) + One(t \in E)
  /\ t \in A => Count(stack, t) > 0

LEMMA CountRest ==
  ASSUME stack \in Seq(Activation), stack # <<>>, NEW t
  PROVE  /\ Count(stack, t) \in Nat /\ Count(Rest, t) \in Nat
         /\ Count(stack, t) = Count(Rest, t) + One(t \in Tags(Top))
         /\ t \in Tags(Top) => Count(stack, t) > 0
  <1>1. Count(stack, t) \in Nat /\ Count(Rest, t) \in Nat
    BY TopType, HavingFinite
  <1>2. Count(stack, t) = Count(Rest, t) + One(t \in Tags(Top))
    BY CountTop
  <1>3. QED
    BY <1>1, <1>2 DEF One

LEMMA Popped ==
  ASSUME stack \in Seq(Activation), stack # <<>>, stack' = Rest
  PROVE  Became(Tags(Top), {}, {})
  <1> SUFFICES ASSUME NEW t
               PROVE  /\ Count(stack, t) \in Nat /\ Count(stack', t) \in Nat
                      /\ Count(stack', t) + One(t \in Tags(Top))
                           = Count(stack, t) + One(t \in {}) + One(t \in {})
                      /\ t \in Tags(Top) => Count(stack, t) > 0
    BY DEF Became
  <1>1. Count(stack', t) = Count(Rest, t)
    OBVIOUS
  <1>2. One(t \in {}) = 0
    BY DEF One
  <1>3. QED
    BY <1>1, <1>2, CountRest

LEMMA Replaced ==
  ASSUME stack \in Seq(Activation), stack # <<>>, NEW f, stack' = <<f>> \o Rest
  PROVE  Became(Tags(Top), Tags(f), {})
  <1> SUFFICES ASSUME NEW t
               PROVE  /\ Count(stack, t) \in Nat /\ Count(stack', t) \in Nat
                      /\ Count(stack', t) + One(t \in Tags(Top))
                           = Count(stack, t) + One(t \in Tags(f)) + One(t \in {})
                      /\ t \in Tags(Top) => Count(stack, t) > 0
    BY DEF Became
  <1>1. Count(stack', t) = Count(Rest, t) + One(t \in Tags(f))
    BY TopType, CountPush
  <1>2. One(t \in {}) = 0 /\ One(t \in Tags(f)) \in Nat /\ One(t \in Tags(Top)) \in Nat
    BY DEF One
  <1>3. QED
    BY <1>1, <1>2, CountRest

LEMMA ReplacedTwo ==
  ASSUME stack \in Seq(Activation), stack # <<>>, NEW f, NEW g,
         stack' = <<f, g>> \o Rest \/ stack' = <<f>> \o (<<g>> \o Rest)
  PROVE  Became(Tags(Top), Tags(f), Tags(g))
  <1> SUFFICES ASSUME NEW t
               PROVE  /\ Count(stack, t) \in Nat /\ Count(stack', t) \in Nat
                      /\ Count(stack', t) + One(t \in Tags(Top))
                           = Count(stack, t) + One(t \in Tags(f)) + One(t \in Tags(g))
                      /\ t \in Tags(Top) => Count(stack, t) > 0
    BY DEF Became
  <1> DEFINE r == Rest
  <1>1. r \in Seq(Activation)
    BY TopType
  <1> HIDE DEF r
  <1> DEFINE h == <<g>> \o r
  <1>2. h \in Seq(Activation \cup {g}) /\ Count(h, t) = Count(r, t) + One(t \in Tags(g))
    BY <1>1, SeqMonotonic, PushType, CountPush
  <1>3. stack' = <<f>> \o h
    BY <1>1, PushTwo DEF r
  <1> HIDE DEF h
  <1>4. Count(stack', t) = Count(Rest, t) + One(t \in Tags(f)) + One(t \in Tags(g))
    <2>1. Count(<<f>> \o h, t) = Count(h, t) + One(t \in Tags(f))
      BY <1>2, CountPush
    <2>2. /\ Count(Rest, t) \in Nat /\ One(t \in Tags(f)) \in Nat
          /\ One(t \in Tags(g)) \in Nat
      BY CountRest DEF One
    <2>3. Count(stack', t) = (Count(r, t) + One(t \in Tags(g))) + One(t \in Tags(f))
      BY <1>2, <1>3, <2>1
    <2>4. QED
      BY <2>2, <2>3 DEF r
  <1>5. /\ One(t \in Tags(f)) \in Nat /\ One(t \in Tags(g)) \in Nat
        /\ One(t \in Tags(Top)) \in Nat
    BY DEF One
  <1>6. QED
    BY <1>4, <1>5, CountRest

LEMMA Pushed ==
  ASSUME stack \in Seq(Activation), NEW f, stack' = <<f>> \o stack
  PROVE  Became({}, Tags(f), {})
  <1> SUFFICES ASSUME NEW t
               PROVE  /\ Count(stack, t) \in Nat /\ Count(stack', t) \in Nat
                      /\ Count(stack', t) + One(t \in {})
                           = Count(stack, t) + One(t \in Tags(f)) + One(t \in {})
    BY DEF Became
  <1>1. Count(stack', t) = Count(stack, t) + One(t \in Tags(f))
    BY CountPush
  <1>2. Count(stack, t) \in Nat
    BY HavingFinite
  <1>3. One(t \in {}) = 0 /\ One(t \in Tags(f)) \in Nat
    BY DEF One
  <1>4. QED
    BY <1>1, <1>2, <1>3

LEMMA Stayed ==
  ASSUME stack \in Seq(Activation), stack' = stack
  PROVE  Became({}, {}, {})
  <1> SUFFICES ASSUME NEW t
               PROVE  /\ Count(stack, t) \in Nat /\ Count(stack', t) \in Nat
                      /\ Count(stack', t) + One(t \in {})
                           = Count(stack, t) + One(t \in {}) + One(t \in {})
    BY DEF Became
  <1>1. Count(stack, t) \in Nat /\ Count(stack', t) = Count(stack, t)
    BY HavingFinite
  <1>2. One(t \in {}) = 0
    BY DEF One
  <1>3. QED
    BY <1>1, <1>2

\* The tags of an activation, by what it does and where it is.
LEMMA TagsWhen ==
  ASSUME NEW f
  PROVE  /\ f.op \in {"method", "destroy", "close_imports"} => Tags(f) = {}
         /\ f.op = "init" => Tags(f) = IF f.pc \in {"next", "imported"}
                                         THEN {UseOf(f.q, f.c)} ELSE {}
         /\ f.op = "finish" => Tags(f) = {UseOf(f.q, f.c)}
         /\ f.op = "close" => Tags(f) = {OwnOf(f.i, f.c)}
         /\ f.op = "open" => Tags(f) = {OwnOf(f.i, f.c)}
                               \cup (IF f.pc = "client" THEN {WaitOf(f.c)} ELSE {})
         /\ f.op = "free" => Tags(f) = {OwnOf(f.i, f.c), FreeOf(f.i)}
                               \cup (IF f.pc = "client" THEN {WaitOf(f.c)} ELSE {})
                               \cup (IF f.pc = "freed" THEN {FreedOf(f.i)} ELSE {})
  BY DEF Tags

LEMMA EnterTags ==
  ASSUME NEW c, NEW i, NEW q
  PROVE  /\ \A op \in {"method", "destroy", "close_imports"} : \A pc :
              Tags(Enter(op, pc, c, i, q)) = {}
         /\ Tags(Enter("init", "start", c, i, q)) = {}
         /\ Tags(Enter("open", "start", c, i, q)) = {OwnOf(i, c)}
         /\ Tags(Enter("close", "start", c, i, q)) = {OwnOf(i, c)}
         /\ Tags(Enter("free", "start", c, i, q)) = {OwnOf(i, c), FreeOf(i)}
         /\ Tags(Enter("finish", "start", c, i, q)) = {UseOf(q, c)}
  BY DEF Tags, Enter

LEMMA ResumeFields ==
  ASSUME stack \in Seq(Activation), stack # <<>>, NEW pc
  PROVE  /\ Resume(pc).pc = pc /\ Resume(pc).op = Top.op
         /\ Resume(pc).i = Top.i /\ Resume(pc).c = Top.c /\ Resume(pc).q = Top.q
  BY TopType DEF Resume, Activation

\* The running activation goes on, calls f or a method, or drops a reference.
LEMMA GotoTags ==
  ASSUME stack \in Seq(Activation), stack # <<>>, NEW pc, Goto(pc)
  PROVE  Became(Tags(Top), {}, Tags(Resume(pc)))
  <1>1. Became(Tags(Top), Tags(Resume(pc)), {})
    BY Replaced DEF Goto
  <1>2. QED
    BY <1>1 DEF Became, One

LEMMA CallTags ==
  ASSUME stack \in Seq(Activation), stack # <<>>, NEW pc, NEW f, Call(f, pc)
  PROVE  Became(Tags(Top), Tags(f), Tags(Resume(pc)))
  BY ReplacedTwo DEF Call

LEMMA InvokeTags ==
  ASSUME stack \in Seq(Activation), stack # <<>>, NEW method, NEW c, NEW i, NEW pc,
         Invoke(method, c, i, <<Resume(pc)>> \o Rest)
  PROVE  Became(Tags(Top), {}, Tags(Resume(pc)))
  <1> DEFINE f == Enter("method", method, c, i, Nil)
             g == Resume(pc)
  <1>1. stack' = <<g>> \o Rest \/ stack' = <<f>> \o (<<g>> \o Rest)
    BY DEF Invoke
  <1>2. Tags(f) = {}
    BY EnterTags
  <1> HIDE DEF f, g
  <1>3. CASE stack' = <<g>> \o Rest
    <2>1. Became(Tags(Top), Tags(g), {})
      BY <1>3, Replaced
    <2>2. QED
      BY <2>1 DEF Became, One, g
  <1>4. CASE stack' = <<f>> \o (<<g>> \o Rest)
    <2>1. Became(Tags(Top), Tags(f), Tags(g))
      BY <1>4, ReplacedTwo
    <2>2. QED
      BY <1>2, <2>1 DEF g
  <1>5. QED
    BY <1>1, <1>3, <1>4

LEMMA UnrefTags ==
  ASSUME stack \in Seq(Activation), stack # <<>>, NEW c, NEW pc,
         Unref(c, <<Resume(pc)>> \o Rest)
  PROVE  Became(Tags(Top), {}, Tags(Resume(pc)))
  <1> DEFINE f == Enter("destroy", "start", c, Nil, Nil)
             g == Resume(pc)
  <1>1. stack' = <<g>> \o Rest \/ stack' = <<f>> \o (<<g>> \o Rest)
    BY DEF Unref
  <1>2. Tags(f) = {}
    BY EnterTags
  <1> HIDE DEF f, g
  <1>3. CASE stack' = <<g>> \o Rest
    <2>1. Became(Tags(Top), Tags(g), {})
      BY <1>3, Replaced
    <2>2. QED
      BY <2>1 DEF Became, One, g
  <1>4. CASE stack' = <<f>> \o (<<g>> \o Rest)
    <2>1. Became(Tags(Top), Tags(f), Tags(g))
      BY <1>4, ReplacedTwo
    <2>2. QED
      BY <1>2, <2>1 DEF g
  <1>5. QED
    BY <1>1, <1>3, <1>4

\* It keeps what it was told while the reference is dropped.
LEMMA UnrefAnsweredTags ==
  ASSUME stack \in Seq(Activation), stack # <<>>, NEW c, Unref(c, <<Answered>> \o Rest)
  PROVE  /\ Became(Tags(Top), {}, Tags(Answered))
         /\ Answered.pc = "client_done" /\ Answered.op = Top.op
         /\ Answered.i = Top.i /\ Answered.c = Top.c
  <1> DEFINE f == Enter("destroy", "start", c, Nil, Nil)
             g == Answered
  <1>1. stack' = <<g>> \o Rest \/ stack' = <<f>> \o (<<g>> \o Rest)
    BY DEF Unref
  <1>2. Tags(f) = {}
    BY EnterTags
  <1>3. g.pc = "client_done" /\ g.op = Top.op /\ g.i = Top.i /\ g.c = Top.c
    BY TopType DEF Answered, Resume, Activation
  <1> HIDE DEF f, g
  <1>4. CASE stack' = <<g>> \o Rest
    <2>1. Became(Tags(Top), Tags(g), {})
      BY <1>4, Replaced
    <2>2. Became(Tags(Top), {}, Tags(g))
      BY <2>1 DEF Became, One
    <2>3. QED
      BY <1>3, <2>2 DEF g
  <1>5. CASE stack' = <<f>> \o (<<g>> \o Rest)
    <2>1. Became(Tags(Top), Tags(f), Tags(g))
      BY <1>5, ReplacedTwo
    <2>2. QED
      BY <1>2, <1>3, <2>1 DEF g
  <1>6. QED
    BY <1>1, <1>4, <1>5

LEMMA UnrefPops ==
  ASSUME stack \in Seq(Activation), stack # <<>>, NEW c, Unref(c, Rest)
  PROVE  Became(Tags(Top), {}, {})
  <1> DEFINE f == Enter("destroy", "start", c, Nil, Nil)
  <1>1. stack' = Rest \/ stack' = <<f>> \o Rest
    BY DEF Unref
  <1>2. Tags(f) = {}
    BY EnterTags
  <1> HIDE DEF f
  <1>3. CASE stack' = <<f>> \o Rest
    <2>1. Became(Tags(Top), Tags(f), {})
      BY <1>3, Replaced
    <2>2. QED
      BY <1>2, <2>1
  <1>4. QED
    BY <1>1, <1>3, Popped

-----------------------------------------------------------------------------
(* What steps do to the invariant, by what they do to the tags *)

\* Tags other than those of owners: A less, D more.
Net(A, D) == \A t : t.kind # "own" =>
  /\ Count(stack, t) \in Nat /\ Count(stack', t) \in Nat
  /\ Count(stack', t) + One(t \in A) = Count(stack, t) + One(t \in D)

LEMMA NetParts ==
  ASSUME NEW A, NEW D, Net(A, D)
  PROVE  /\ \A i : /\ Count(stack, FreeOf(i)) \in Nat /\ Count(stack', FreeOf(i)) \in Nat
                   /\ Count(stack', FreeOf(i)) + One(FreeOf(i) \in A)
                        = Count(stack, FreeOf(i)) + One(FreeOf(i) \in D)
         /\ \A i : /\ Count(stack, FreedOf(i)) \in Nat /\ Count(stack', FreedOf(i)) \in Nat
                   /\ Count(stack', FreedOf(i)) + One(FreedOf(i) \in A)
                        = Count(stack, FreedOf(i)) + One(FreedOf(i) \in D)
         /\ \A c : /\ Count(stack, WaitOf(c)) \in Nat /\ Count(stack', WaitOf(c)) \in Nat
                   /\ Count(stack', WaitOf(c)) + One(WaitOf(c) \in A)
                        = Count(stack, WaitOf(c)) + One(WaitOf(c) \in D)
         /\ \A q, c : /\ Count(stack, UseOf(q, c)) \in Nat /\ Count(stack', UseOf(q, c)) \in Nat
                      /\ Count(stack', UseOf(q, c)) + One(UseOf(q, c) \in A)
                           = Count(stack, UseOf(q, c)) + One(UseOf(q, c) \in D)
  <1>1. /\ \A i : FreeOf(i).kind # "own" /\ FreedOf(i).kind # "own"
        /\ \A c : WaitOf(c).kind # "own"
        /\ \A q, c : UseOf(q, c).kind # "own"
    BY DEF FreeOf, FreedOf, WaitOf, UseOf, Tag
  <1>2. QED
    BY <1>1 DEF Net

\* What no step but a few changes of imports and queries.
SameHolders == \A i \in ImportIds :
  (Live(i)' <=> Live(i)) /\ imp'[i].server = imp[i].server /\ imp'[i].client = imp[i].client
SameQueries == \A q \in QueryIds :
  /\ qry'[q].live = qry[q].live /\ qry'[q].user = qry[q].user
  /\ qry'[q].client = qry[q].client

\* A reference to c is dropped (component_unref).
Drops(c) == /\ refs' = [refs EXCEPT ![c] = Dropped(@)]
            /\ fault' = IF refs[c] = 0 THEN "assertion" ELSE fault

LEMMA DropsOne ==
  ASSUME TypeOK, NEW c \in Comps, Drops(c), fault' = "none"
  PROVE  \A d \in Comps : /\ refs[d] \in Nat
                          /\ refs'[d] = IF d = c THEN refs[d] - 1 ELSE refs[d]
  BY DEF TypeOK, Drops, Dropped

LEMMA OwnersMeant ==
  ASSUME OwnersKnown, NEW A, NEW D, NEW E, Became(A, D, E),
         \A i \in ImportIds, c \in Comps :
           OwnOf(i, c) \in D \cup E /\ Live(i) => OwnOf(i, c) \in A \/ imp[i].client = c,
         \A i \in ImportIds : Live(i)' => Live(i) /\ imp'[i].client = imp[i].client
  PROVE  OwnersKnown'
  <1> SUFFICES ASSUME NEW i \in ImportIds, NEW c \in Comps,
                      Count(stack', OwnOf(i, c)) > 0, Live(i)'
               PROVE  imp'[i].client = c
    BY DEF OwnersKnown
  <1> DEFINE t == OwnOf(i, c)
  <1>1. /\ Count(stack, t) \in Nat /\ Count(stack', t) \in Nat
        /\ Count(stack', t) + One(t \in A) = Count(stack, t) + One(t \in D) + One(t \in E)
        /\ t \in A => Count(stack, t) > 0
    BY DEF Became
  <1>2. CASE t \in D \cup E
    BY <1>1, <1>2 DEF OwnersKnown
  <1>3. CASE t \notin D \cup E
    <2>1. Count(stack, t) > 0
      BY <1>1, <1>3 DEF One
    <2>2. QED
      BY <2>1 DEF OwnersKnown
  <1>4. QED
    BY <1>2, <1>3

\* Uses of queries stay as they are.
LEMMA UsesKept ==
  ASSUME UsedOnce, QueriesUsed, SameQueries, wiring' = wiring,
         \A q, c : Count(stack', UseOf(q, c)) = Count(stack, UseOf(q, c))
  PROVE  UsedOnce' /\ QueriesUsed'
  BY DEF UsedOnce, QueriesUsed, SameQueries

LEMMA FinitenessKept ==
  ASSUME Finite, SameHolders, SameQueries
  PROVE  Finite'
  <1>1. {i \in ImportIds : Live(i)}' = {i \in ImportIds : Live(i)}
    BY DEF SameHolders
  <1>2. {q \in QueryIds : qry[q].live}' = {q \in QueryIds : qry[q].live}
    BY DEF SameQueries
  <1>3. QED
    BY <1>1, <1>2 DEF Finite

LEMMA AskedKept ==
  ASSUME SameQueries
  PROVE  \A c \in Comps : Asked(c)' = Asked(c)
  BY DEF Asked, SameQueries

LEMMA ServedKept ==
  ASSUME SameHolders,
         \A i \in ImportIds : Count(stack', FreedOf(i)) = Count(stack, FreedOf(i))
  PROVE  \A c \in Comps : Served(c)' = Served(c)
  BY DEF Served, SameHolders

LEMMA HoldersFinite ==
  ASSUME Finite, NEW c
  PROVE  /\ IsFiniteSet(Served(c)) /\ Cardinality(Served(c)) \in Nat
         /\ IsFiniteSet(Asked(c)) /\ Cardinality(Asked(c)) \in Nat
  <1>1. Served(c) \in SUBSET {i \in ImportIds : Live(i)}
    BY DEF Served
  <1>2. Asked(c) \in SUBSET {q \in QueryIds : qry[q].live}
    BY DEF Asked
  <1>3. IsFiniteSet(Served(c)) /\ IsFiniteSet(Asked(c))
    BY <1>1, <1>2, FS_Subset DEF Finite
  <1>4. QED
    BY <1>3, FS_CardinalityType

\* No reference is taken or dropped; tags D are added.
LEMMA StepKeeps ==
  ASSUME RefsInv, SameHolders, SameQueries, wiring' = wiring, OwnersKnown',
         refs' = refs, NoFault, NEW D, Net({}, D),
         \A t \in D : \E i \in ImportIds : t = FreeOf(i) /\ Count(stack, t) = 0
  PROVE  RefsInv'
  <1>1. /\ \A i : FreedOf(i) \notin D
        /\ \A c : WaitOf(c) \notin D
        /\ \A q, c : UseOf(q, c) \notin D
    BY TagsApart
  <1>2. \A t : One(t \in {}) = 0 /\ (t \notin D => One(t \in D) = 0)
    BY DEF One
  <1>3. /\ \A i : Count(stack', FreedOf(i)) = Count(stack, FreedOf(i))
        /\ \A c : Count(stack', WaitOf(c)) = Count(stack, WaitOf(c))
        /\ \A q, c : Count(stack', UseOf(q, c)) = Count(stack, UseOf(q, c))
    BY <1>1, <1>2, NetParts
  <1>4. FreedOnce'
    <2> SUFFICES ASSUME NEW i \in ImportIds PROVE Count(stack', FreeOf(i)) <= 1
      BY DEF FreedOnce
    <2>1. /\ Count(stack, FreeOf(i)) \in Nat /\ Count(stack', FreeOf(i)) \in Nat
          /\ Count(stack', FreeOf(i)) + One(FreeOf(i) \in {})
               = Count(stack, FreeOf(i)) + One(FreeOf(i) \in D)
      BY NetParts
    <2>2. FreeOf(i) \in D => Count(stack, FreeOf(i)) = 0
      OBVIOUS
    <2>3. Count(stack, FreeOf(i)) <= 1
      BY DEF RefsInv, FreedOnce
    <2>4. QED
      BY <2>1, <2>2, <2>3 DEF One
  <1>5. UsedOnce' /\ QueriesUsed'
    BY <1>3, UsesKept DEF RefsInv
  <1>6. Balanced'
    <2>1. \A c \in Comps : Served(c)' = Served(c) /\ Asked(c)' = Asked(c)
      BY <1>3, AskedKept, ServedKept
    <2>2. QED
      BY <1>3, <2>1 DEF RefsInv, Balanced
  <1>7. QED
    BY <1>4, <1>5, <1>6, FinitenessKept DEF RefsInv

\* The library holds a reference to c while a method runs, and drops it.
LEMMA WaitStarts ==
  ASSUME TypeOK, RefsInv, SameHolders, SameQueries, wiring' = wiring, OwnersKnown',
         NoFault, NEW c \in Comps, refs' = [refs EXCEPT ![c] = @ + 1],
         Net({}, {WaitOf(c)})
  PROVE  RefsInv'
  <1>1. /\ \A i : FreeOf(i) \notin {WaitOf(c)} /\ FreedOf(i) \notin {WaitOf(c)}
        /\ \A d : WaitOf(d) \in {WaitOf(c)} <=> d = c
        /\ \A q, d : UseOf(q, d) \notin {WaitOf(c)}
    BY TagsApart
  <1>2. /\ \A i : /\ Count(stack', FreeOf(i)) = Count(stack, FreeOf(i))
                  /\ Count(stack', FreedOf(i)) = Count(stack, FreedOf(i))
        /\ \A q, d : Count(stack', UseOf(q, d)) = Count(stack, UseOf(q, d))
    BY <1>1, NetParts DEF One
  <1>3. \A d : /\ Count(stack, WaitOf(d)) \in Nat
               /\ Count(stack', WaitOf(d)) = Count(stack, WaitOf(d)) + One(d = c)
    BY <1>1, NetParts DEF One
  <1>4. FreedOnce' /\ UsedOnce' /\ QueriesUsed'
    BY <1>2, UsesKept DEF RefsInv, FreedOnce
  <1>5. Balanced'
    <2> SUFFICES ASSUME NEW d \in Comps
                 PROVE  refs'[d] = Cardinality(Served(d)') + Cardinality(Asked(d)')
                                     + Count(stack', WaitOf(d))
      BY DEF Balanced
    <2>1. Served(d)' = Served(d) /\ Asked(d)' = Asked(d)
      BY <1>2, AskedKept, ServedKept
    <2>2. refs[d] = Cardinality(Served(d)) + Cardinality(Asked(d)) + Count(stack, WaitOf(d))
      BY DEF RefsInv, Balanced
    <2>3. refs'[d] = refs[d] + One(d = c) /\ refs[d] \in Nat
      BY DEF TypeOK, One
    <2>4. Cardinality(Served(d)) \in Nat /\ Cardinality(Asked(d)) \in Nat
      BY HoldersFinite DEF RefsInv
    <2>5. One(d = c) \in Nat
      BY DEF One
    <2>6. Cardinality(Served(d)') = Cardinality(Served(d))
          /\ Cardinality(Asked(d)') = Cardinality(Asked(d))
      BY <2>1
    <2>7. QED
      BY <1>3, <2>2, <2>3, <2>4, <2>5, <2>6
  <1>6. QED
    BY <1>4, <1>5, FinitenessKept DEF RefsInv

LEMMA WaitEnds ==
  ASSUME TypeOK, RefsInv, SameHolders, SameQueries, wiring' = wiring, OwnersKnown',
         NoFault, NEW c \in Comps, Drops(c), Net({WaitOf(c)}, {})
  PROVE  RefsInv'
  <1>1. /\ \A i : FreeOf(i) \notin {WaitOf(c)} /\ FreedOf(i) \notin {WaitOf(c)}
        /\ \A d : WaitOf(d) \in {WaitOf(c)} <=> d = c
        /\ \A q, d : UseOf(q, d) \notin {WaitOf(c)}
    BY TagsApart
  <1>2. /\ \A i : /\ Count(stack', FreeOf(i)) = Count(stack, FreeOf(i))
                  /\ Count(stack', FreedOf(i)) = Count(stack, FreedOf(i))
        /\ \A q, d : Count(stack', UseOf(q, d)) = Count(stack, UseOf(q, d))
    BY <1>1, NetParts DEF One
  <1>3. \A d : /\ Count(stack, WaitOf(d)) \in Nat /\ Count(stack', WaitOf(d)) \in Nat
               /\ Count(stack', WaitOf(d)) + One(d = c) = Count(stack, WaitOf(d))
    BY <1>1, NetParts DEF One
  <1>4. FreedOnce' /\ UsedOnce' /\ QueriesUsed'
    BY <1>2, UsesKept DEF RefsInv, FreedOnce
  <1>5. Balanced'
    <2> SUFFICES ASSUME fault' = "none", NEW d \in Comps
                 PROVE  refs'[d] = Cardinality(Served(d)') + Cardinality(Asked(d)')
                                     + Count(stack', WaitOf(d))
      BY DEF Balanced, NoFault
    <2>1. Served(d)' = Served(d) /\ Asked(d)' = Asked(d)
      BY <1>2, AskedKept, ServedKept
    <2>2. refs[d] = Cardinality(Served(d)) + Cardinality(Asked(d)) + Count(stack, WaitOf(d))
      BY DEF RefsInv, Balanced
    <2>3. refs'[d] + One(d = c) = refs[d] /\ refs[d] \in Nat
      BY DropsOne DEF One
    <2>4. Cardinality(Served(d)) \in Nat /\ Cardinality(Asked(d)) \in Nat
      BY HoldersFinite DEF RefsInv
    <2>5. One(d = c) \in Nat
      BY DEF One
    <2>6. refs'[d] \in Int
      BY DropsOne
    <2>7. Cardinality(Served(d)') = Cardinality(Served(d))
          /\ Cardinality(Asked(d)') = Cardinality(Asked(d))
      BY <2>1
    <2>8. QED
      BY <1>3, <2>2, <2>3, <2>4, <2>5, <2>6, <2>7
  <1>6. QED
    BY <1>4, <1>5, FinitenessKept DEF RefsInv

\* import_free drops the reference to the server.
LEMMA ServerReleased ==
  ASSUME TypeOK, RefsInv, SameHolders, SameQueries, wiring' = wiring, OwnersKnown',
         NoFault, NEW i \in ImportIds, Live(i), Count(stack, FreedOf(i)) = 0,
         Drops(imp[i].server), Net({}, {FreedOf(i)})
  PROVE  RefsInv'
  <1>0. PICK c \in Comps : c = imp[i].server
    BY DEF TypeOK, Import
  <1>1. /\ \A j : FreeOf(j) \notin {FreedOf(i)} /\ (FreedOf(j) \in {FreedOf(i)} <=> j = i)
        /\ \A d : WaitOf(d) \notin {FreedOf(i)}
        /\ \A q, d : UseOf(q, d) \notin {FreedOf(i)}
    BY TagsApart
  <1>2. /\ \A j : Count(stack', FreeOf(j)) = Count(stack, FreeOf(j))
        /\ \A d : /\ Count(stack, WaitOf(d)) \in Nat
                  /\ Count(stack', WaitOf(d)) = Count(stack, WaitOf(d))
        /\ \A q, d : Count(stack', UseOf(q, d)) = Count(stack, UseOf(q, d))
    BY <1>1, NetParts DEF One
  <1>3. /\ \A j : j # i => Count(stack', FreedOf(j)) = Count(stack, FreedOf(j))
        /\ Count(stack', FreedOf(i)) = 1
    BY <1>1, NetParts DEF One
  <1>4. FreedOnce' /\ UsedOnce' /\ QueriesUsed'
    BY <1>2, UsesKept DEF RefsInv, FreedOnce
  <1>5. /\ \A d \in Comps \ {c} : Served(d)' = Served(d)
        /\ Served(c)' = Served(c) \ {i} /\ i \in Served(c)
    BY <1>0, <1>3 DEF Served, SameHolders
  <1>6. Balanced'
    <2> SUFFICES ASSUME fault' = "none", NEW d \in Comps
                 PROVE  refs'[d] = Cardinality(Served(d)') + Cardinality(Asked(d)')
                                     + Count(stack', WaitOf(d))
      BY DEF Balanced, NoFault
    <2>1. Asked(d)' = Asked(d)
      BY AskedKept
    <2>2. refs[d] = Cardinality(Served(d)) + Cardinality(Asked(d)) + Count(stack, WaitOf(d))
      BY DEF RefsInv, Balanced
    <2>3. refs'[d] = (IF d = c THEN refs[d] - 1 ELSE refs[d]) /\ refs[d] \in Nat
      BY <1>0, DropsOne
    <2>4. /\ Cardinality(Served(d)) \in Nat /\ Cardinality(Asked(d)) \in Nat
          /\ IsFiniteSet(Served(d))
      BY HoldersFinite DEF RefsInv
    <2>5. Cardinality(Served(d)')
            = IF d = c THEN Cardinality(Served(d)) - 1 ELSE Cardinality(Served(d))
      <3>1. CASE d = c
        <4>1. Cardinality(Served(d) \ {i}) = Cardinality(Served(d)) - 1
          BY <1>5, <2>4, <3>1, FS_RemoveElement
        <4>2. QED
          BY <1>5, <3>1, <4>1
      <3>2. CASE d # c
        BY <1>5, <3>2
      <3>3. QED
        BY <3>1, <3>2
    <2>6. QED
      BY <1>2, <2>1, <2>2, <2>3, <2>4, <2>5
  <1>7. QED
    BY <1>4, <1>6, FinitenessKept DEF RefsInv

\* import_free ends, and the import is gone.
LEMMA ImportGone ==
  ASSUME TypeOK, RefsInv, SameQueries, wiring' = wiring, refs' = refs, OwnersKnown',
         NoFault, NEW i \in ImportIds, ~Live(i)',
         \A j \in ImportIds \ {i} : imp'[j] = imp[j],
         Count(stack, FreedOf(i)) > 0, Net({FreeOf(i), FreedOf(i)}, {})
  PROVE  RefsInv'
  <1>1. /\ \A j : (FreeOf(j) \in {FreeOf(i), FreedOf(i)} <=> j = i)
                  /\ (FreedOf(j) \in {FreeOf(i), FreedOf(i)} <=> j = i)
        /\ \A d : WaitOf(d) \notin {FreeOf(i), FreedOf(i)}
        /\ \A q, d : UseOf(q, d) \notin {FreeOf(i), FreedOf(i)}
    BY TagsApart
  <1>2. /\ \A d : Count(stack', WaitOf(d)) = Count(stack, WaitOf(d))
        /\ \A q, d : Count(stack', UseOf(q, d)) = Count(stack, UseOf(q, d))
        /\ \A j : j # i => Count(stack', FreedOf(j)) = Count(stack, FreedOf(j))
    BY <1>1, NetParts DEF One
  <1>3. FreedOnce'
    <2> SUFFICES ASSUME NEW j \in ImportIds PROVE Count(stack', FreeOf(j)) <= 1
      BY DEF FreedOnce
    <2>1. /\ Count(stack, FreeOf(j)) \in Nat /\ Count(stack', FreeOf(j)) \in Nat
          /\ Count(stack', FreeOf(j)) <= Count(stack, FreeOf(j))
      BY NetParts DEF One
    <2>2. Count(stack, FreeOf(j)) <= 1
      BY DEF RefsInv, FreedOnce
    <2>3. QED
      BY <2>1, <2>2
  <1>4. UsedOnce' /\ QueriesUsed'
    BY <1>2, UsesKept DEF RefsInv
  <1>5. \A d \in Comps : Served(d)' = Served(d)
    <2>1. \A j \in ImportIds \ {i} : (Live(j)' <=> Live(j)) /\ imp'[j].server = imp[j].server
      BY DEF Live
    <2>2. QED
      BY <1>2, <2>1 DEF Served
  <1>6. Balanced'
    BY <1>2, <1>5, AskedKept DEF RefsInv, Balanced
  <1>7. Finite'
    <2>1. {j \in ImportIds : Live(j)}' \in SUBSET {j \in ImportIds : Live(j)}
      BY DEF Live
    <2>2. {q \in QueryIds : qry[q].live}' = {q \in QueryIds : qry[q].live}
      BY DEF SameQueries
    <2>3. IsFiniteSet({j \in ImportIds : Live(j)}')
      BY <2>1, FS_Subset DEF RefsInv, Finite
    <2>4. QED
      BY <2>2, <2>3 DEF RefsInv, Finite
  <1>8. QED
    BY <1>3, <1>4, <1>6, <1>7 DEF RefsInv

\* A query starts to be finished.
LEMMA FinishStarts ==
  ASSUME RefsInv, SameHolders, SameQueries, wiring' = wiring, OwnersKnown',
         refs' = refs, NoFault, NEW q \in QueryIds, qry[q].live,
         \A d : Count(stack, UseOf(q, d)) = 0, Net({}, {UseOf(q, qry[q].client)})
  PROVE  RefsInv'
  <1> DEFINE t == UseOf(q, qry[q].client)
  <1>1. /\ \A j : FreeOf(j) \notin {t} /\ FreedOf(j) \notin {t}
        /\ \A d : WaitOf(d) \notin {t}
        /\ \A p, d : UseOf(p, d) \in {t} <=> p = q /\ d = qry[q].client
    BY TagsApart
  <1>2. /\ \A j : /\ Count(stack', FreeOf(j)) = Count(stack, FreeOf(j))
                  /\ Count(stack', FreedOf(j)) = Count(stack, FreedOf(j))
        /\ \A d : Count(stack', WaitOf(d)) = Count(stack, WaitOf(d))
        /\ \A p, d : /\ Count(stack, UseOf(p, d)) \in Nat
                     /\ Count(stack', UseOf(p, d)) = Count(stack, UseOf(p, d))
                          + (IF p = q /\ d = qry[q].client THEN 1 ELSE 0)
    BY <1>1, NetParts DEF One
  <1>3. FreedOnce'
    BY <1>2 DEF RefsInv, FreedOnce
  <1>4. UsedOnce' /\ QueriesUsed'
    <2>1. UsedOnce'
      BY <1>2 DEF RefsInv, UsedOnce, SameQueries
    <2>2. ASSUME EachProvided(wiring), NEW p \in QueryIds, qry[p].live, ~qry[p].user
          PROVE  Count(stack', UseOf(p, qry[p].client)) > 0
      <3>1. Count(stack, UseOf(p, qry[p].client)) > 0
        BY <2>2 DEF RefsInv, QueriesUsed
      <3>2. QED
        BY <1>2, <3>1
    <2>3. QueriesUsed'
      BY <2>2 DEF QueriesUsed, SameQueries, EachProvided
    <2>4. QED
      BY <2>1, <2>3
  <1>5. Balanced'
    BY <1>2, AskedKept, ServedKept DEF RefsInv, Balanced
  <1>6. QED
    BY <1>3, <1>4, <1>5, FinitenessKept DEF RefsInv

\* A query is finished: it is gone, and drops the reference to its client.
LEMMA QueryGone ==
  ASSUME TypeOK, RefsInv, SameHolders, wiring' = wiring, OwnersKnown', NoFault,
         NEW q \in QueryIds, NEW c \in Comps, Count(stack, UseOf(q, c)) > 0,
         qry' = [qry EXCEPT ![q] = NoQuery], Drops(c), Net({UseOf(q, c)}, {})
  PROVE  RefsInv'
  <1> DEFINE t == UseOf(q, c)
  <1>0. qry[q].live /\ qry[q].client = c /\ Count(stack, UseOf(q, c)) <= 1
    BY DEF RefsInv, UsedOnce
  <1>1. /\ \A j : FreeOf(j) \notin {t} /\ FreedOf(j) \notin {t}
        /\ \A d : WaitOf(d) \notin {t}
        /\ \A p, d : UseOf(p, d) \in {t} <=> p = q /\ d = c
    BY TagsApart
  <1>2. /\ \A j : /\ Count(stack', FreeOf(j)) = Count(stack, FreeOf(j))
                  /\ Count(stack', FreedOf(j)) = Count(stack, FreedOf(j))
        /\ \A d : /\ Count(stack, WaitOf(d)) \in Nat
                  /\ Count(stack', WaitOf(d)) = Count(stack, WaitOf(d))
        /\ \A p, d : /\ Count(stack, UseOf(p, d)) \in Nat /\ Count(stack', UseOf(p, d)) \in Nat
                     /\ Count(stack', UseOf(p, d)) = Count(stack, UseOf(p, d))
                          - (IF p = q /\ d = c THEN 1 ELSE 0)
    BY <1>1, NetParts DEF One
  <1> HIDE DEF t
  <1>3. FreedOnce'
    BY <1>2 DEF RefsInv, FreedOnce
  <1>4. /\ ~qry'[q].live /\ \A p \in QueryIds \ {q} : qry'[p] = qry[p]
    BY DEF TypeOK, NoQuery
  <1>5. UsedOnce'
    <2> SUFFICES ASSUME NEW p \in QueryIds, NEW d \in Comps
                 PROVE  /\ Count(stack', UseOf(p, d)) <= 1
                        /\ Count(stack', UseOf(p, d)) > 0 => qry'[p].live /\ qry'[p].client = d
      BY DEF UsedOnce
    <2>1. /\ Count(stack, UseOf(p, d)) <= 1
          /\ Count(stack, UseOf(p, d)) > 0 => qry[p].live /\ qry[p].client = d
      BY DEF RefsInv, UsedOnce
    <2>2. CASE p # q
      BY <1>2, <1>4, <2>1, <2>2
    <2>3. CASE p = q
      BY <1>0, <1>2, <2>1, <2>3
    <2>4. QED
      BY <2>2, <2>3
  <1>6. QueriesUsed'
    <2>1. ASSUME EachProvided(wiring), NEW p \in QueryIds, qry'[p].live, ~qry'[p].user
          PROVE  Count(stack', UseOf(p, qry'[p].client)) > 0
      <3>1. p # q /\ qry'[p] = qry[p]
        BY <1>4, <2>1
      <3>2. Count(stack, UseOf(p, qry[p].client)) > 0
        BY <2>1, <3>1 DEF RefsInv, QueriesUsed
      <3>3. QED
        BY <1>2, <3>1, <3>2
    <2>2. QED
      BY <2>1 DEF QueriesUsed, EachProvided
  <1>7. /\ \A d \in Comps \ {c} : Asked(d)' = Asked(d)
        /\ Asked(c)' = Asked(c) \ {q} /\ q \in Asked(c)
    BY <1>0, <1>4 DEF Asked
  <1>8. Balanced'
    <2> SUFFICES ASSUME fault' = "none", NEW d \in Comps
                 PROVE  refs'[d] = Cardinality(Served(d)') + Cardinality(Asked(d)')
                                     + Count(stack', WaitOf(d))
      BY DEF Balanced, NoFault
    <2>1. Served(d)' = Served(d)
      BY <1>2, ServedKept
    <2>2. refs[d] = Cardinality(Served(d)) + Cardinality(Asked(d)) + Count(stack, WaitOf(d))
      BY DEF RefsInv, Balanced
    <2>3. refs'[d] = (IF d = c THEN refs[d] - 1 ELSE refs[d]) /\ refs[d] \in Nat
      BY DropsOne
    <2>4. /\ Cardinality(Served(d)) \in Nat /\ Cardinality(Asked(d)) \in Nat
          /\ IsFiniteSet(Asked(d))
      BY HoldersFinite DEF RefsInv
    <2>5. Cardinality(Asked(d)')
            = IF d = c THEN Cardinality(Asked(d)) - 1 ELSE Cardinality(Asked(d))
      <3>1. CASE d = c
        <4>1. Cardinality(Asked(d) \ {q}) = Cardinality(Asked(d)) - 1
          BY <1>7, <2>4, <3>1, FS_RemoveElement
        <4>2. QED
          BY <1>7, <3>1, <4>1
      <3>2. CASE d # c
        BY <1>7, <3>2
      <3>3. QED
        BY <3>1, <3>2
    <2>6. QED
      BY <1>2, <2>1, <2>2, <2>3, <2>4, <2>5
  <1>9. Finite'
    <2>1. {j \in ImportIds : Live(j)}' = {j \in ImportIds : Live(j)}
      BY DEF SameHolders
    <2>2. {p \in QueryIds : qry[p].live}' \in SUBSET {p \in QueryIds : qry[p].live}
      BY <1>4
    <2>3. IsFiniteSet({p \in QueryIds : qry[p].live}')
      BY <2>2, FS_Subset DEF RefsInv, Finite
    <2>4. QED
      BY <2>1, <2>3 DEF RefsInv, Finite
  <1>10. QED
    BY <1>3, <1>5, <1>6, <1>8, <1>9 DEF RefsInv

\* The import that an activation works on is named by a pointer.
LEMMA TagsPointed ==
  ASSUME stack \in Seq(Activation), NEW i
  PROVE  /\ \A c : Count(stack, OwnOf(i, c)) > 0 => i \in Pointed
         /\ Count(stack, FreedOf(i)) > 0 => i \in Pointed
  <1>1. ASSUME NEW n \in DOMAIN stack, stack[n].i = i PROVE i \in Pointed
    <2>1. i \in {stack[n].i, stack[n].j}
      BY <1>1
    <2>2. QED
      BY <2>1 DEF Pointed
  <1>2. ASSUME NEW c, Count(stack, OwnOf(i, c)) > 0 PROVE i \in Pointed
    <2>1. PICK n \in DOMAIN stack : OwnOf(i, c) \in Tags(stack[n])
      BY <1>2, CountPositive
    <2>2. QED
      BY <1>1, <2>1, TagsOf
  <1>3. ASSUME Count(stack, FreedOf(i)) > 0 PROVE i \in Pointed
    <2>1. PICK n \in DOMAIN stack : FreedOf(i) \in Tags(stack[n])
      BY <1>3, CountPositive
    <2>2. QED
      BY <1>1, <2>1, TagsOf
  <1>4. QED
    BY <1>2, <1>3

\* As many imports of a server as it provides ports that match.
LEMMA MadeCount ==
  ASSUME NEW P, IsFiniteSet(P), NEW ids, NEW T,
         \A a, b \in P : ids[a] = ids[b] => a = b,
         \A k \in P : ids[k] \in T, \A i \in T : \E k \in P : i = ids[k]
  PROVE  IsFiniteSet(T) /\ Cardinality(T) = Cardinality(P)
  <1> DEFINE F == [k \in P |-> ids[k]]
  <1>1. F \in Bijection(P, T)
    BY DEF Bijection, Injection, Surjection, IsInjective
  <1>2. ExistsBijection(P, T)
    BY <1>1 DEF ExistsBijection
  <1>3. QED
    BY <1>2, FS_Bijection

LEMMA ImportMade ==
  ASSUME NEW q, NEW c, NEW port, NEW server, NEW next, NEW prev
  PROVE  /\ import_new(q, c, port, server, next, prev).st = "queried"
         /\ import_new(q, c, port, server, next, prev).client = c
         /\ import_new(q, c, port, server, next, prev).server = server
  BY DEF import_new

\* query_new references the client and the server of each import it creates.
LEMMA QueryMade ==
  ASSUME TypeOK, RefsInv, NoFault, NEW c \in Comps, NEW iface \in Interfaces,
         NEW port, NEW user \in BOOLEAN, NEW q \in QueryIds, NEW s,
         QueryNew(c, iface, port, user, q, s),
         \A i, d : Count(stack', OwnOf(i, d)) = Count(stack, OwnOf(i, d)),
         NEW D, D \subseteq {UseOf(q, c)}, Net({}, D),
         ~user /\ EachProvided(wiring) => UseOf(q, c) \in D
  PROVE  RefsInv'
  <1> DEFINE provs == wiring.providers[iface]
             n == Len(provs)
  <1>1. n \in Nat
    BY LenProperties DEF TypeOK, Wiring
  <1>2. PICK ids \in [1..n -> ImportIds] :
          /\ Fresh(ids, n)
          /\ LET New(k) == import_new(q, c, port, provs[k],
                                     Linked(ids, n, k + 1), Linked(ids, n, k - 1))
             IN /\ imp' = [i \in ImportIds |->
                             IF \E k \in 1..n : ids[k] = i
                               THEN New(CHOOSE k \in 1..n : ids[k] = i) ELSE imp[i]]
                /\ qry' = [qry EXCEPT ![q] =
                             [live |-> TRUE, user |-> user, client |-> c,
                              first |-> Linked(ids, n, 1), last |-> Linked(ids, n, n),
                              cursor |-> Linked(ids, n, 1)]]
                /\ refs' = [x \in Comps |-> refs[x] + (IF x = c THEN 1 ELSE 0)
                                          + Cardinality({k \in 1..n : provs[k] = x})]
    BY DEF QueryNew
  <1> HIDE DEF provs, n
  <1>3. ~qry[q].live /\ wiring' = wiring
    BY DEF QueryNew
  <1> DEFINE made == {ids[k] : k \in 1..n}
  <1>4. \A a, b \in 1..n : ids[a] = ids[b] => a = b
    <2>1. \A a, b \in 1..n : a < b => ids[a] < ids[b]
      BY <1>2 DEF Fresh
    <2>2. \A a \in 1..n : ids[a] \in Nat
      BY PoolAssumption
    <2>3. \A a, b \in 1..n : ids[a] = ids[b] => ~(a < b) /\ ~(b < a)
      BY <2>1, <2>2
    <2>4. QED
      BY <1>1, <2>3
  <1>5. /\ \A i \in ImportIds \ made : imp'[i] = imp[i]
        /\ \A k \in 1..n : /\ imp'[ids[k]].st = "queried"
                           /\ imp'[ids[k]].client = c /\ imp'[ids[k]].server = provs[k]
    <2>1. \A i \in ImportIds \ made : imp'[i] = imp[i]
      BY <1>2
    <2>2. ASSUME NEW k \in 1..n
          PROVE  imp'[ids[k]] = import_new(q, c, port, provs[k],
                                           Linked(ids, n, k + 1), Linked(ids, n, k - 1))
      <3>1. (CHOOSE x \in 1..n : ids[x] = ids[k]) = k
        BY <1>4
      <3>2. QED
        BY <1>2, <3>1
    <2>3. ASSUME NEW k \in 1..n
          PROVE  /\ imp'[ids[k]].st = "queried"
                 /\ imp'[ids[k]].client = c /\ imp'[ids[k]].server = provs[k]
      BY <2>2, ImportMade
    <2>4. QED
      BY <2>1, <2>3
  <1>6. \A i \in made : i \in ImportIds /\ ~Live(i) /\ i \notin Pointed
    BY <1>2 DEF Fresh, Reusable
  <1>7. /\ \A i, d : i \in made => ~(Count(stack, OwnOf(i, d)) > 0)
        /\ \A i : i \in made => Count(stack, FreedOf(i)) = 0
    <2>1. \A i : Count(stack, FreedOf(i)) \in Nat
      BY NetParts
    <2>2. stack \in Seq(Activation)
      BY DEF TypeOK
    <2>3. QED
      BY <1>6, <2>1, <2>2, TagsPointed
  <1>8. /\ \A j : FreeOf(j) \notin D /\ FreedOf(j) \notin D
        /\ \A d : WaitOf(d) \notin D
        /\ \A p, d : UseOf(p, d) \in D => p = q /\ d = c
    BY TagsApart
  <1>9. /\ \A j : /\ Count(stack', FreeOf(j)) = Count(stack, FreeOf(j))
                  /\ Count(stack', FreedOf(j)) = Count(stack, FreedOf(j))
        /\ \A d : /\ Count(stack, WaitOf(d)) \in Nat
                  /\ Count(stack', WaitOf(d)) = Count(stack, WaitOf(d))
        /\ \A p, d : /\ Count(stack, UseOf(p, d)) \in Nat
                     /\ Count(stack', UseOf(p, d)) = Count(stack, UseOf(p, d))
                          + One(UseOf(p, d) \in D)
    BY <1>8, NetParts DEF One
  <1>10. /\ qry'[q].live /\ qry'[q].client = c /\ qry'[q].user = user
         /\ \A p \in QueryIds \ {q} : qry'[p] = qry[p]
    BY <1>2 DEF TypeOK
  <1> HIDE DEF made
  <1>11. OwnersKnown'
    <2> SUFFICES ASSUME NEW i \in ImportIds, NEW d \in Comps,
                        Count(stack', OwnOf(i, d)) > 0, Live(i)'
                 PROVE  imp'[i].client = d
      BY DEF OwnersKnown
    <2>1. Count(stack, OwnOf(i, d)) > 0
      OBVIOUS
    <2>2. imp'[i] = imp[i]
      BY <1>5, <1>7, <2>1
    <2>3. QED
      BY <2>1, <2>2 DEF RefsInv, OwnersKnown, Live
  <1>12. FreedOnce'
    BY <1>9 DEF RefsInv, FreedOnce
  <1>13. \A d \in Comps : Count(stack, UseOf(q, d)) = 0
    BY <1>3, <1>9 DEF RefsInv, UsedOnce
  <1>14. UsedOnce'
    <2> SUFFICES ASSUME NEW p \in QueryIds, NEW d \in Comps
                 PROVE  /\ Count(stack', UseOf(p, d)) <= 1
                        /\ Count(stack', UseOf(p, d)) > 0 => qry'[p].live /\ qry'[p].client = d
      BY DEF UsedOnce
    <2>1. CASE p = q
      <3>1. Count(stack', UseOf(p, d)) = One(UseOf(p, d) \in D)
        BY <1>9, <1>13, <2>1 DEF One
      <3>2. QED
        BY <1>8, <1>10, <2>1, <3>1 DEF One
    <2>2. CASE p # q
      <3>1. Count(stack', UseOf(p, d)) = Count(stack, UseOf(p, d))
        BY <1>8, <1>9, <2>2 DEF One
      <3>2. QED
        BY <1>10, <2>2, <3>1 DEF RefsInv, UsedOnce
    <2>3. QED
      BY <2>1, <2>2
  <1>15. QueriesUsed'
    <2> SUFFICES ASSUME EachProvided(wiring), NEW p \in QueryIds, qry'[p].live, ~qry'[p].user
                 PROVE  Count(stack', UseOf(p, qry'[p].client)) > 0
      BY <1>3 DEF QueriesUsed
    <2>1. CASE p = q
      <3>1. One(UseOf(q, c) \in D) = 1
        BY <1>10, <2>1 DEF One
      <3>2. QED
        BY <1>9, <1>10, <1>13, <2>1, <3>1
    <2>2. CASE p # q
      <3>1. Count(stack, UseOf(p, qry[p].client)) > 0 /\ qry'[p] = qry[p]
        BY <1>10, <2>2 DEF RefsInv, QueriesUsed
      <3>2. QED
        BY <1>9, <3>1 DEF One
    <2>3. QED
      BY <2>1, <2>2
  <1>16. ASSUME NEW d \in Comps
         PROVE  /\ IsFiniteSet(Served(d)')
                /\ Cardinality(Served(d)')
                     = Cardinality(Served(d)) + Cardinality({k \in 1..n : provs[k] = d})
                /\ Cardinality({k \in 1..n : provs[k] = d}) \in Nat
    <2> DEFINE P == {k \in 1..n : provs[k] = d}
               T == {ids[k] : k \in P}
    <2>0. P \in SUBSET (1..n) /\ (\A k \in P : ids[k] \in T)
          /\ \A i \in T : \E k \in P : i = ids[k]
      OBVIOUS
    <2> HIDE DEF P, T
    <2>9. \A a, b \in P : ids[a] = ids[b] => a = b
      BY <1>4, <2>0
    <2>10. IsFiniteSet(1..n)
      BY <1>1, FS_Interval
    <2>11. IsFiniteSet(P) /\ Cardinality(P) \in Nat
      BY <2>0, <2>10, FS_Subset, FS_CardinalityType
    <2>1. /\ IsFiniteSet(T) /\ Cardinality(T) = Cardinality(P) /\ Cardinality(P) \in Nat
      BY <2>0, <2>9, <2>11, MadeCount
    <2> USE DEF P, T
    <2>2. T \subseteq made
      BY DEF made
    <2>3. Served(d)' = Served(d) \cup T
      <3> SUFFICES ASSUME NEW i \in ImportIds
                   PROVE  i \in Served(d)' <=> i \in Served(d) \cup T
        BY <1>6, <2>2 DEF Served
      <3>1. CASE i \in made
        <4>1. PICK k \in 1..n : i = ids[k]
          BY <3>1 DEF made
        <4>2. imp'[i].st = "queried" /\ imp'[i].server = provs[k] /\ Count(stack', FreedOf(i)) = 0
          BY <1>5, <1>7, <1>9, <3>1, <4>1
        <4>3. i \in T <=> provs[k] = d
          BY <1>4, <4>1
        <4>4. i \notin Served(d)
          BY <1>6, <3>1 DEF Served
        <4> HIDE DEF T
        <4>5. QED
          BY <4>2, <4>3, <4>4 DEF Served, Live
      <3>2. CASE i \notin made
        BY <1>5, <1>9, <2>2, <3>2 DEF Served, Live
      <3>3. QED
        BY <3>1, <3>2
    <2>4. Served(d) \cap T = {}
      BY <1>6, <2>2 DEF Served
    <2>5. IsFiniteSet(Served(d)) /\ Cardinality(Served(d)) \in Nat
      BY HoldersFinite DEF RefsInv
    <2> HIDE DEF T, P
    <2>6. /\ IsFiniteSet(Served(d) \cup T)
          /\ Cardinality(Served(d) \cup T)
               = Cardinality(Served(d)) + Cardinality(T) - Cardinality(Served(d) \cap T)
      BY <2>1, <2>5, FS_Union
    <2>7. Cardinality(Served(d) \cap T) = 0
      BY <2>4, FS_EmptySet
    <2>8. QED
      BY <2>1, <2>3, <2>5, <2>6, <2>7 DEF P
  <1>17. /\ \A d \in Comps \ {c} : Asked(d)' = Asked(d)
         /\ Asked(c)' = Asked(c) \cup {q} /\ q \notin Asked(c)
    BY <1>3, <1>10 DEF Asked
  <1>18. Balanced'
    <2> SUFFICES ASSUME NEW d \in Comps
                 PROVE  refs'[d] = Cardinality(Served(d)') + Cardinality(Asked(d)')
                                     + Count(stack', WaitOf(d))
      BY DEF Balanced
    <2>1. refs[d] = Cardinality(Served(d)) + Cardinality(Asked(d)) + Count(stack, WaitOf(d))
      BY DEF RefsInv, Balanced
    <2>2. refs'[d] = refs[d] + One(d = c) + Cardinality({k \in 1..n : provs[k] = d})
      BY <1>2 DEF One
    <2>3. /\ Cardinality(Served(d)) \in Nat /\ Cardinality(Asked(d)) \in Nat
          /\ IsFiniteSet(Asked(d))
      BY HoldersFinite DEF RefsInv
    <2>4. Cardinality(Asked(d)') = Cardinality(Asked(d)) + One(d = c)
      <3>1. CASE d = c
        <4>1. Cardinality(Asked(d) \cup {q}) = Cardinality(Asked(d)) + 1
          BY <1>17, <2>3, <3>1, FS_AddElement
        <4>2. QED
          BY <1>17, <3>1, <4>1 DEF One
      <3>2. CASE d # c
        BY <1>17, <2>3, <3>2 DEF One
      <3>3. QED
        BY <3>1, <3>2
    <2>5. One(d = c) \in Nat
      BY DEF One
    <2>6. QED
      BY <1>9, <1>16, <2>1, <2>2, <2>3, <2>4, <2>5
  <1>19. Finite'
    <2>1. {i \in ImportIds : Live(i)}' = {i \in ImportIds : Live(i)} \cup made
      <3>1. \A i \in ImportIds \ made : Live(i)' <=> Live(i)
        BY <1>5 DEF Live
      <3>2. \A i \in made : Live(i)' /\ i \in ImportIds
        BY <1>5, <1>6 DEF Live, made
      <3>3. QED
        BY <3>1, <3>2
    <2>2. IsFiniteSet(made)
      <3>1. (\A k \in 1..n : ids[k] \in made) /\ \A i \in made : \E k \in 1..n : i = ids[k]
        BY DEF made
      <3>2. IsFiniteSet(1..n)
        BY <1>1, FS_Interval
      <3>3. QED
        BY <1>4, <3>1, <3>2, MadeCount
    <2>3. IsFiniteSet({i \in ImportIds : Live(i)} \cup made)
      BY <2>2, FS_Union DEF RefsInv, Finite
    <2>4. {p \in QueryIds : qry[p].live}' = {p \in QueryIds : qry[p].live} \cup {q}
      BY <1>10
    <2>5. IsFiniteSet({p \in QueryIds : qry[p].live} \cup {q})
      BY FS_AddElement DEF RefsInv, Finite
    <2>6. QED
      BY <2>1, <2>3, <2>4, <2>5 DEF Finite
  <1>20. QED
    BY <1>11, <1>12, <1>14, <1>15, <1>18, <1>19 DEF RefsInv

-----------------------------------------------------------------------------
(* Steps that leave the references alone *)

LEMMA NetOf ==
  ASSUME NEW A, NEW D, NEW E, Became(A, D, E), NEW L, NEW M,
         \A t : t.kind # "own" => One(t \in M) + One(t \in A)
                                    = One(t \in L) + One(t \in D) + One(t \in E)
  PROVE  Net(L, M)
  <1> SUFFICES ASSUME NEW t, t.kind # "own"
               PROVE  /\ Count(stack, t) \in Nat /\ Count(stack', t) \in Nat
                      /\ Count(stack', t) + One(t \in L) = Count(stack, t) + One(t \in M)
    BY DEF Net
  <1>1. /\ Count(stack, t) \in Nat /\ Count(stack', t) \in Nat
        /\ Count(stack', t) + One(t \in A) = Count(stack, t) + One(t \in D) + One(t \in E)
    BY DEF Became
  <1>2. One(t \in M) + One(t \in A) = One(t \in L) + One(t \in D) + One(t \in E)
    OBVIOUS
  <1>3. /\ One(t \in A) \in Nat /\ One(t \in D) \in Nat /\ One(t \in E) \in Nat
        /\ One(t \in L) \in Nat /\ One(t \in M) \in Nat
    BY DEF One
  <1>4. QED
    BY <1>1, <1>2, <1>3

\* The memory, the references and the stack stay, or there is a fault.
LEMMA Unmoved ==
  ASSUME RefsInv, UNCHANGED <<wiring, refs, imp, qry, stack>>,
         fault' = fault \/ fault' # "none"
  PROVE  RefsInv'
  <1>1. (\A i : Live(i)' <=> Live(i)) /\ \A t : Count(stack', t) = Count(stack, t)
    BY DEF Live
  <1>2. \A c : Served(c)' = Served(c) /\ Asked(c)' = Asked(c)
    BY <1>1 DEF Served, Asked
  <1>3. Balanced'
    BY <1>1, <1>2 DEF RefsInv, Balanced, NoFault
  <1>4. Finite' /\ OwnersKnown' /\ FreedOnce' /\ UsedOnce' /\ QueriesUsed'
    BY <1>1 DEF RefsInv, Finite, OwnersKnown, FreedOnce, UsedOnce, QueriesUsed, EachProvided
  <1>5. QED
    BY <1>3, <1>4 DEF RefsInv

LEMMA FaultKeeps ==
  ASSUME RefsInv, NEW kind, kind # "none", Fault(kind)
  PROVE  RefsInv'
  BY Unmoved DEF Fault, compVars, objVars

LEMMA SameAll ==
  /\ imp' = imp => SameHolders
  /\ qry' = qry => SameQueries
  BY DEF SameHolders, SameQueries, Live

\* The activations exchange owner tags at most, and only meant ones.
LEMMA Idle ==
  ASSUME RefsInv, NoFault, SameHolders, SameQueries, wiring' = wiring, refs' = refs,
         NEW A, NEW D, NEW E, Became(A, D, E),
         \A t : t.kind # "own" => One(t \in A) = One(t \in D) + One(t \in E),
         \A i \in ImportIds, c \in Comps :
           OwnOf(i, c) \in D \cup E /\ Live(i) => OwnOf(i, c) \in A \/ imp[i].client = c
  PROVE  RefsInv'
  <1>1. \A i \in ImportIds : Live(i)' => Live(i) /\ imp'[i].client = imp[i].client
    BY DEF SameHolders
  <1>2. OwnersKnown'
    BY <1>1, OwnersMeant DEF RefsInv
  <1>3. \A t : t.kind # "own" => One(t \in {}) + One(t \in A)
                                   = One(t \in {}) + One(t \in D) + One(t \in E)
    BY DEF One
  <1>4. Net({}, {})
    BY <1>3, NetOf
  <1>5. QED
    BY <1>2, <1>4, StepKeeps

\* Activations without tags start, go on and end.
LEMMA Tagless ==
  ASSUME RefsInv, NoFault, SameHolders, SameQueries, wiring' = wiring, refs' = refs,
         stack \in Seq(Activation), stack # <<>>, Tags(Top) = {},
         NEW f, NEW g, Tags(f) = {}, Tags(g) = {},
         \/ stack' = Rest \/ stack' = <<f>> \o Rest \/ stack' = <<f, g>> \o Rest
  PROVE  RefsInv'
  <1>1. Became({}, {}, {})
    BY Popped, Replaced, ReplacedTwo
  <1>2. One(FALSE) = 0 + 0
    BY DEF One
  <1>3. QED
    BY <1>1, Idle DEF One

\* The tags of the running activation as it goes on.
LEMMA ResumeTags ==
  ASSUME stack \in Seq(Activation), stack # <<>>, NEW pc
  PROVE  /\ Top.op \in {"method", "destroy", "close_imports"} => Tags(Resume(pc)) = {}
         /\ Top.op = "init" => Tags(Resume(pc)) = IF pc \in {"next", "imported"}
                                                    THEN {UseOf(Top.q, Top.c)} ELSE {}
         /\ Top.op = "finish" => Tags(Resume(pc)) = {UseOf(Top.q, Top.c)}
         /\ Top.op = "open" => Tags(Resume(pc)) = {OwnOf(Top.i, Top.c)}
                                 \cup (IF pc = "client" THEN {WaitOf(Top.c)} ELSE {})
         /\ Top.op = "free" => Tags(Resume(pc)) = {OwnOf(Top.i, Top.c), FreeOf(Top.i)}
                                 \cup (IF pc = "client" THEN {WaitOf(Top.c)} ELSE {})
                                 \cup (IF pc = "freed" THEN {FreedOf(Top.i)} ELSE {})
  <1> DEFINE f == Resume(pc)
  <1>1. f.pc = pc /\ f.op = Top.op /\ f.i = Top.i /\ f.c = Top.c /\ f.q = Top.q
    BY ResumeFields
  <1> HIDE DEF f
  <1>2. QED
    BY <1>1, TagsWhen DEF f

LEMMA ComponentKeeps ==
  ASSUME TypeOK, RefsInv,
         \/ InitLoad \/ InitAlready \/ InitPortDone \/ InitCall \/ InitDone \/ InitFailed
         \/ DestroyStart \/ DestroyCall \/ DestroyUnload
  PROVE  RefsInv'
  <1>0. /\ stack \in Seq(Activation) /\ stack # <<>> /\ NoFault
        /\ Top.op \in {"init", "destroy"} /\ Top \in Activation
        /\ Top.pc \notin {"next", "imported"}
    <2>1. /\ stack \in Seq(Activation) /\ stack # <<>> /\ NoFault
          /\ Top.op \in {"init", "destroy"} /\ Top.pc \notin {"next", "imported"}
      BY DEF TypeOK, NoFault, InitLoad, InitAlready, InitPortDone, InitCall, InitDone,
        InitFailed, DestroyStart, DestroyCall, DestroyUnload, At
    <2>2. QED
      BY <2>1, TopType
  <1>1. Tags(Top) = {}
    BY <1>0, TagsWhen
  <1>2. \A pc \in Points \ {"next", "imported"} : Tags(Resume(pc)) = {}
    BY <1>0, ResumeTags
  <1>3. \A c : /\ Tags(Enter("method", "init", c, Nil, Nil)) = {}
               /\ Tags(Enter("method", "destroy", c, Nil, Nil)) = {}
               /\ \A i : Tags(Enter("close_imports", "loop", c, i, Nil)) = {}
    BY EnterTags
  <1>4. ASSUME NEW kind, kind # "none", Fault(kind) PROVE RefsInv'
    BY <1>4, FaultKeeps
  <1>5. ASSUME UNCHANGED <<wiring, refs, imp, qry>>, NEW f, NEW g, Tags(f) = {}, Tags(g) = {},
               stack' = Rest \/ stack' = <<f>> \o Rest \/ stack' = <<f, g>> \o Rest
        PROVE  RefsInv'
    <2>1. SameHolders /\ SameQueries
      BY <1>5, SameAll
    <2>2. QED
      BY <1>0, <1>1, <1>5, <2>1, Tagless
  <1>6. ASSUME UNCHANGED <<wiring, refs, imp, qry>>, NEW f, Tags(f) = {},
               NEW pc \in Points \ {"next", "imported"},
               Goto(pc) \/ Call(f, pc) \/ stack' = Rest
        PROVE  RefsInv'
    <2>1. Tags(Resume(pc)) = {}
      BY <1>2
    <2> DEFINE g == Resume(pc)
    <2>2. stack' = <<g>> \o Rest \/ stack' = <<f, g>> \o Rest \/ stack' = Rest
      BY <1>6 DEF Goto, Call
    <2>3. Tags(g) = {}
      BY <2>1
    <2> HIDE DEF g
    <2>4. QED
      BY <1>5, <1>6, <2>2, <2>3
  <1>7. {"start", "ports", "called", "failed", "call", "unload"}
          \subseteq Points \ {"next", "imported"}
    BY DEF Points, Methods, PortMethods
  <1>8. CASE InitLoad
    BY <1>3, <1>6, <1>7, <1>8 DEF InitLoad, objVars
  <1>9. CASE InitAlready
    BY <1>3, <1>6, <1>7, <1>9 DEF InitAlready, objVars
  <1>10. CASE InitPortDone
    <2> DEFINE f == [Resume("ports") EXCEPT !.k = @ + 1, !.q = Nil,
                                            !.r = PortResult(LoadtimePort, @)]
    <2>1. f.op = Top.op /\ f.pc = "ports"
      BY <1>0 DEF Resume, Activation
    <2>2. stack' = <<f>> \o Rest /\ UNCHANGED <<wiring, refs, imp, qry>>
      BY <1>10 DEF InitPortDone, compVars, objVars
    <2> HIDE DEF f
    <2>3. Tags(f) = {}
      BY <1>0, <2>1, TagsWhen
    <2>4. QED
      BY <1>5, <2>2, <2>3
  <1>11. CASE InitCall
    BY <1>3, <1>4, <1>6, <1>7, <1>11 DEF InitCall, compVars, objVars
  <1>12. CASE InitDone
    BY <1>3, <1>6, <1>7, <1>12 DEF InitDone, objVars
  <1>13. CASE InitFailed
    BY <1>3, <1>6, <1>7, <1>13 DEF InitFailed, compVars, objVars
  <1>14. CASE DestroyStart
    BY <1>3, <1>6, <1>7, <1>14 DEF DestroyStart, objVars
  <1>15. CASE DestroyCall
    BY <1>3, <1>4, <1>6, <1>7, <1>15 DEF DestroyCall, compVars, objVars
  <1>16. CASE DestroyUnload
    BY <1>3, <1>6, <1>7, <1>16 DEF DestroyUnload, objVars
  <1>17. QED
    BY <1>8, <1>9, <1>10, <1>11, <1>12, <1>13, <1>14, <1>15, <1>16

\* The match that component_init takes next is opened; there is none left.
LEMMA InitNextKeeps ==
  ASSUME TypeOK, RefsInv, InitNext
  PROVE  RefsInv'
  <1> DEFINE q == Top.q
             i == qry[q].cursor
             t == UseOf(q, Top.c)
  <1>0. /\ stack \in Seq(Activation) /\ stack # <<>> /\ NoFault
        /\ Top.op = "init" /\ Top.pc = "next" /\ q \in QueryIds /\ Top.c \in Comps
    <2>1. stack \in Seq(Activation) /\ stack # <<>> /\ NoFault /\ Top.op = "init" /\ Top.pc = "next"
      BY DEF TypeOK, NoFault, InitNext, At
    <2>2. QED
      BY <2>1, TopType DEF Activation
  <1>1. Tags(Top) = {t}
    BY <1>0, TagsWhen
  <1>2. Count(stack, t) > 0
    BY <1>0, <1>1, CountRest
  <1>3. qry[q].live /\ qry[q].client = Top.c
    BY <1>0, <1>2 DEF RefsInv, UsedOnce
  <1>4. CASE i = Nil
    <2> DEFINE f == Enter("finish", "start", qry[q].client, qry[q].first, q)
    <2>1. Tags(f) = {t}
      BY <1>3, EnterTags
    <2>2. Tags(Resume("port_done")) = {}
      BY <1>0, ResumeTags
    <2>3. Call(f, "port_done") /\ UNCHANGED <<wiring, refs, imp, qry>>
      BY <1>4 DEF InitNext, compVars, objVars
    <2> HIDE DEF f, t
    <2>4. Became({t}, {t}, {})
      BY <1>0, <1>1, <2>1, <2>2, <2>3, CallTags
    <2>5. SameHolders /\ SameQueries
      BY <2>3, SameAll
    <2>6. \A x : x.kind # "own" => One(x \in {t}) = One(x \in {t}) + One(x \in {})
      BY DEF One
    <2>7. \A j \in ImportIds, d \in Comps : OwnOf(j, d) \in {t} \cup {} /\ Live(j)
            => OwnOf(j, d) \in {t} \/ imp[j].client = d
      OBVIOUS
    <2>8. QED
      BY <1>0, <2>3, <2>4, <2>5, <2>6, <2>7, Idle
  <1>5. CASE i # Nil /\ ~Live(i)
    BY <1>5, FaultKeeps DEF InitNext
  <1>6. CASE i # Nil /\ Live(i)
    <2> DEFINE f == Enter("open", "start", imp[i].client, i, Nil)
               g == [Resume("imported") EXCEPT !.i = i]
               o == OwnOf(i, imp[i].client)
    <2>1. Tags(f) = {o}
      BY EnterTags
    <2>2. g.op = Top.op /\ g.pc = "imported" /\ g.q = q /\ g.c = Top.c
      BY <1>0, TopType DEF Resume, Activation
    <2>3. /\ stack' = <<f, g>> \o Rest /\ qry' = [qry EXCEPT ![q].cursor = imp[i].next]
          /\ UNCHANGED <<wiring, refs, imp>>
      BY <1>6 DEF InitNext, compVars
    <2> HIDE DEF f, g
    <2>4. Tags(g) = {t}
      BY <1>0, <2>2, TagsWhen
    <2>5. SameHolders /\ SameQueries
      BY <2>3, SameAll DEF SameQueries, TypeOK, Query
    <2> DEFINE A == {t}
               D == {o}
    <2>6. Tags(Top) = A /\ Tags(f) = D /\ Tags(g) = A
      BY <1>1, <2>1, <2>4
    <2>7. \A x : x.kind # "own" => x \notin D
      BY DEF o, OwnOf, Tag
    <2>8. \A j \in ImportIds, d \in Comps : OwnOf(j, d) \in D \cup A /\ Live(j)
            => OwnOf(j, d) \in A \/ imp[j].client = d
      BY TagsApart DEF t, o
    <2> HIDE DEF A, D
    <2>9. Became(A, D, A)
      BY <1>0, <2>3, <2>6, ReplacedTwo
    <2>10. \A x : x.kind # "own" => One(x \in A) = One(x \in D) + One(x \in A)
      BY <2>7 DEF One
    <2>11. QED
      BY <1>0, <2>3, <2>5, <2>8, <2>9, <2>10, Idle
  <1>7. QED
    BY <1>4, <1>5, <1>6

\* The running activation hands its tags A on to another, or keeps them.
LEMMA Handed ==
  ASSUME RefsInv, NoFault, SameHolders, SameQueries, wiring' = wiring, refs' = refs,
         NEW A, Became(A, A, {}) \/ Became(A, {}, A)
  PROVE  RefsInv'
  <1>1. Became(A, A, {})
    BY DEF Became, One
  <1>2. \A t : t.kind # "own" => One(t \in A) = One(t \in A) + One(t \in {})
    BY DEF One
  <1>3. \A i \in ImportIds, c \in Comps :
          OwnOf(i, c) \in A \cup {} /\ Live(i) => OwnOf(i, c) \in A \/ imp[i].client = c
    OBVIOUS
  <1>4. QED
    BY <1>1, <1>2, <1>3, Idle

LEMMA InitImportedKeeps ==
  ASSUME TypeOK, RefsInv, InitImported
  PROVE  RefsInv'
  <1> DEFINE q == Top.q
             A == {UseOf(q, Top.c)}
             f == Enter("finish", "start", qry[q].client, qry[q].first, q)
             g == [Resume("port_done") EXCEPT !.i = Nil, !.r = ret]
             h == [Resume("next") EXCEPT !.i = Nil, !.r = ret]
  <1>0. /\ stack \in Seq(Activation) /\ stack # <<>> /\ NoFault
        /\ Top.op = "init" /\ Top.pc = "imported" /\ q \in QueryIds /\ Top.c \in Comps
    <2>1. /\ stack \in Seq(Activation) /\ stack # <<>> /\ NoFault
          /\ Top.op = "init" /\ Top.pc = "imported"
      BY DEF TypeOK, NoFault, InitImported, At
    <2>2. QED
      BY <2>1, TopType DEF Activation
  <1>1. Tags(Top) = A
    BY <1>0, TagsWhen
  <1>2. Count(stack, UseOf(q, Top.c)) > 0
    BY <1>0, <1>1, CountRest
  <1>3. qry[q].live /\ qry[q].client = Top.c
    BY <1>0, <1>2 DEF RefsInv, UsedOnce
  <1>4. Tags(f) = A
    BY <1>3, EnterTags
  <1>5. /\ g.op = "init" /\ g.pc = "port_done"
        /\ h.op = "init" /\ h.pc = "next" /\ h.q = q /\ h.c = Top.c
    BY <1>0, TopType DEF Resume, Activation
  <1>6. /\ stack' = <<f, g>> \o Rest \/ stack' = <<h>> \o Rest
        /\ UNCHANGED <<wiring, refs, imp, qry>>
    BY DEF InitImported, compVars
  <1> HIDE DEF f, g, h
  <1>7. Tags(g) = {} /\ Tags(h) = A
    BY <1>5, TagsWhen
  <1> HIDE DEF A
  <1>8. Became(A, A, {})
    BY <1>0, <1>1, <1>4, <1>6, <1>7, Replaced, ReplacedTwo
  <1>9. SameHolders /\ SameQueries
    BY <1>6, SameAll
  <1>10. QED
    BY <1>0, <1>6, <1>8, <1>9, Handed

\* A query that component_init makes is used by it, if it has a match.
LEMMA InitQueryKeeps ==
  ASSUME TypeOK, RefsInv, InitQuery
  PROVE  RefsInv'
  <1> DEFINE c == Top.c
             provs == wiring.providers[LoadtimePort.iface]
  <1>0. /\ stack \in Seq(Activation) /\ stack # <<>> /\ NoFault /\ wiring \in Wiring
        /\ Top \in Activation /\ Top.op = "init" /\ Top.pc = "ports" /\ c \in Comps
    <2>1. /\ stack \in Seq(Activation) /\ stack # <<>> /\ NoFault /\ wiring \in Wiring
          /\ Top.op = "init" /\ Top.pc = "ports"
      BY DEF TypeOK, NoFault, InitQuery, At
    <2>2. QED
      BY <2>1, TopType DEF Activation
  <1>1. Top.k \in DOMAIN wiring.loadtime[c] /\ LoadtimePort.iface \in Interfaces
    <2>1. Top.k \in Nat \ {0} /\ Top.k <= Len(wiring.loadtime[c])
      BY <1>0 DEF Activation, InitQuery
    <2>2. wiring.loadtime[c] \in Seq(Port)
      BY <1>0 DEF Wiring
    <2>3. Top.k \in DOMAIN wiring.loadtime[c]
      BY <2>1, <2>2, LenProperties
    <2>4. wiring.loadtime[c][Top.k] \in Port
      BY <2>2, <2>3, ElementOfSeq
    <2>5. LoadtimePort.iface \in Interfaces
      BY <2>4 DEF Port, LoadtimePort
    <2>6. QED
      BY <2>3, <2>5
  <1> DEFINE e == [Resume("port_done") EXCEPT !.r = "error"]
             g(q) == [Resume("next") EXCEPT !.q = q, !.r = "ok"]
             s(q) == <<IF wiring.providers[LoadtimePort.iface] = <<>> THEN e ELSE g(q)>> \o Rest
  <1>2. PICK q \in QueryIds : QueryNew(Top.c, LoadtimePort.iface, TRUE, FALSE, q, s(q))
    BY DEF InitQuery
  <1> DEFINE f == IF provs = <<>> THEN e ELSE g(q)
             D == IF provs = <<>> THEN {} ELSE {UseOf(q, c)}
  <1>3. stack' = s(q)
    BY <1>2 DEF QueryNew
  <1>4. stack' = <<f>> \o Rest
    BY <1>3
  <1>5. /\ f.op = "init" /\ f.c = c
        /\ IF provs = <<>> THEN f.pc = "port_done" ELSE f.pc = "next" /\ f.q = q
    BY <1>0 DEF Resume, Activation
  <1>6. D \subseteq {UseOf(q, c)}
    OBVIOUS
  <1>7. EachProvided(wiring) => UseOf(q, c) \in D
    BY <1>0, <1>1 DEF EachProvided, LoadtimePort
  <1> HIDE DEF f
  <1>8. Tags(f) = D
    <2>1. CASE provs = <<>>
      BY <1>5, <2>1, TagsWhen
    <2>2. CASE provs # <<>>
      BY <1>5, <2>2, TagsWhen
    <2>3. QED
      BY <2>1, <2>2
  <1>9. Tags(Top) = {}
    BY <1>0, TagsWhen
  <1>16. Top.c \in Comps /\ LoadtimePort.iface \in Interfaces /\ FALSE \in BOOLEAN
    BY <1>0, <1>1
  <1> HIDE DEF s, D
  <1>10. Became({}, D, {})
    BY <1>0, <1>4, <1>8, <1>9, Replaced
  <1>11. \A i, d : OwnOf(i, d) \notin D
    BY <1>6, TagsApart
  <1>12. \A i, d : Count(stack', OwnOf(i, d)) = Count(stack, OwnOf(i, d))
    BY <1>10, <1>11 DEF Became, One
  <1>13. \A t : t.kind # "own" => One(t \in D) + One(t \in {})
                                    = One(t \in {}) + One(t \in D) + One(t \in {})
    BY DEF One
  <1>14. Net({}, D)
    BY <1>10, <1>13, NetOf
  <1>15. ~FALSE /\ EachProvided(wiring) => UseOf(q, c) \in D
    BY <1>7
  <1>17. QED
    BY <1>0, <1>2, <1>6, <1>12, <1>14, <1>15, <1>16, QueryMade

\* import_free starts on an import that is on its client's list.
LEMMA FreeStarts ==
  ASSUME RefsInv, ListsExact, NoFault, TypeOK, NEW i \in ImportIds, Live(i), Listed(i),
         UNCHANGED <<wiring, refs, imp, qry>>, NEW A, \A t \in A : t.kind = "own",
         NEW D, D = {OwnOf(i, imp[i].client), FreeOf(i)},
         Became(A, D, {}) \/ Became(A, {}, D)
  PROVE  RefsInv'
  <1>0. Became(A, D, {})
    BY DEF Became, One
  <1>1. SameHolders /\ SameQueries
    BY SameAll
  <1>2. \A j \in ImportIds, c \in Comps :
          OwnOf(j, c) \in D \cup {} /\ Live(j) => OwnOf(j, c) \in A \/ imp[j].client = c
    BY TagsApart
  <1>3. \A j \in ImportIds : Live(j)' => Live(j) /\ imp'[j].client = imp[j].client
    BY <1>1 DEF SameHolders
  <1>4. OwnersKnown'
    BY <1>0, <1>2, <1>3, OwnersMeant DEF RefsInv
  <1> DEFINE M == {FreeOf(i)}
  <1>5. \A t : t.kind # "own" => (t \in M <=> t \in D) /\ t \notin A
    BY DEF OwnOf, Tag
  <1>6. \A t \in M : \E j \in ImportIds : t = FreeOf(j) /\ Count(stack, t) = 0
    <2>1. ~Freeing(i)
      <3>1. imp[i].client \in Comps
        BY DEF TypeOK, Import
      <3>2. i \in {imports[imp[i].client][n] : n \in DOMAIN imports[imp[i].client]}
        BY DEF Listed
      <3>3. QED
        BY <3>1, <3>2 DEF ListsExact
    <2>2. Count(stack, FreeOf(i)) \in Nat /\ stack \in Seq(Activation)
      BY HavingFinite DEF TypeOK
    <2>3. ~(Count(stack, FreeOf(i)) > 0)
      BY <2>1, <2>2, CountPositive, TagsOf DEF Freeing
    <2>4. QED
      BY <2>2, <2>3
  <1> HIDE DEF M
  <1>7. \A t : t.kind # "own" => One(t \in M) + One(t \in A)
                                   = One(t \in {}) + One(t \in D) + One(t \in {})
    BY <1>5 DEF One
  <1>8. Net({}, M)
    BY <1>0, <1>7, NetOf
  <1>9. wiring' = wiring /\ refs' = refs
    OBVIOUS
  <1>10. QED
    BY <1>1, <1>4, <1>6, <1>8, <1>9, StepKeeps

LEMMA CloseImportsKeeps ==
  ASSUME TypeOK, RefsInv, ListsExact, CloseImportsStep
  PROVE  RefsInv'
  <1> DEFINE i == Top.i
  <1>0. /\ stack \in Seq(Activation) /\ stack # <<>> /\ NoFault /\ Top \in Activation
        /\ Top.op = "close_imports" /\ i \in ImportIds \cup {Nil}
    <2>1. stack \in Seq(Activation) /\ stack # <<>> /\ NoFault /\ Top.op = "close_imports"
      BY DEF TypeOK, NoFault, CloseImportsStep, At
    <2>2. QED
      BY <2>1, TopType DEF Activation, ImportPtr
  <1>1. Tags(Top) = {}
    BY <1>0, TagsWhen
  <1>2. CASE i = Nil
    <2>1. stack' = Rest /\ UNCHANGED <<wiring, refs, imp, qry>>
      BY <1>2 DEF CloseImportsStep, compVars, objVars
    <2>2. QED
      BY <1>0, <1>1, <2>1, SameAll, Tagless
  <1>3. CASE i # Nil /\ ~(Live(i) /\ Listed(i))
    BY <1>3, FaultKeeps DEF CloseImportsStep
  <1>4. CASE i # Nil /\ Live(i) /\ Listed(i)
    <2> DEFINE f == Enter("free", "start", imp[i].client, i, Nil)
               g == [Top EXCEPT !.i = After(imports[Top.c], i)]
               D == {OwnOf(i, imp[i].client), FreeOf(i)}
    <2>1. stack' = <<f, g>> \o Rest /\ UNCHANGED <<wiring, refs, imp, qry>>
      BY <1>4 DEF CloseImportsStep, objVars
    <2>2. Tags(f) = D
      BY EnterTags
    <2>3. g.op = "close_imports"
      BY <1>0 DEF Activation
    <2> HIDE DEF f, g
    <2>4. Tags(g) = {}
      BY <2>3, TagsWhen
    <2>5. D = {OwnOf(i, imp[i].client), FreeOf(i)}
      OBVIOUS
    <2> HIDE DEF D
    <2>6. Became({}, D, {})
      BY <1>0, <1>1, <2>1, <2>2, <2>4, ReplacedTwo
    <2> HIDE DEF i
    <2>7. \A t \in {} : t.kind = "own"
      OBVIOUS
    <2>8. i \in ImportIds /\ Live(i) /\ Listed(i)
      BY <1>0, <1>4
    <2>9. QED
      BY <1>0, <2>1, <2>5, <2>6, <2>7, <2>8, FreeStarts
  <1>5. QED
    BY <1>2, <1>3, <1>4

-----------------------------------------------------------------------------
(* Opening imports *)

\* An import that was not freed moves to another state.
LEMMA StateHolders ==
  ASSUME imp \in [ImportIds -> Import], NEW i \in ImportIds, Live(i),
         NEW st \in ImportStates, imp' = [imp EXCEPT ![i].st = st]
  PROVE  SameHolders
  <1>1. st # "free"
    BY DEF ImportStates
  <1>2. QED
    BY <1>1 DEF SameHolders, Live, Import

\* An activation with owner tags only ends, or calls another with the same tags.
LEMMA OwnerEnds ==
  ASSUME RefsInv, NoFault, SameHolders, SameQueries, wiring' = wiring, refs' = refs,
         NEW A, \A t \in A : t.kind = "own", Became(A, {}, {}) \/ Became(A, A, A)
  PROVE  RefsInv'
  <1>1. \A t : t.kind # "own" => One(t \in A) = One(t \in {}) + One(t \in {})
    BY DEF One
  <1>2. \A t : t.kind # "own" => One(t \in A) = One(t \in A) + One(t \in A)
    BY DEF One
  <1>3. \A i \in ImportIds, c \in Comps :
          /\ OwnOf(i, c) \in {} \cup {} /\ Live(i) => OwnOf(i, c) \in A \/ imp[i].client = c
          /\ OwnOf(i, c) \in A \cup A /\ Live(i) => OwnOf(i, c) \in A \/ imp[i].client = c
    OBVIOUS
  <1>4. CASE Became(A, {}, {})
    BY <1>1, <1>3, <1>4, Idle
  <1>5. CASE Became(A, A, A)
    BY <1>2, <1>3, <1>5, Idle
  <1>6. QED
    BY <1>4, <1>5

\* An activation with tags A starts to open or to close import i.
LEMMA OwnerStarts ==
  ASSUME RefsInv, NoFault, SameHolders, SameQueries, wiring' = wiring, refs' = refs,
         NEW i, NEW A, NEW D, D = {OwnOf(i, imp[i].client)}, Became(A, D, A)
  PROVE  RefsInv'
  <1>1. \A t : t.kind # "own" => One(t \in A) = One(t \in D) + One(t \in A)
    BY DEF One, OwnOf, Tag
  <1>2. \A j \in ImportIds, c \in Comps :
          OwnOf(j, c) \in D \cup A /\ Live(j) => OwnOf(j, c) \in A \/ imp[j].client = c
    BY TagsApart
  <1>3. QED
    BY <1>1, <1>2, Idle

LEMMA UnlinkSame ==
  ASSUME qry \in [QueryIds -> Query], NEW i, qry' = Unlink(i) \/ qry' = qry
  PROVE  SameQueries
  BY DEF Unlink, SameQueries, Query

LEMMA OpenKeeps ==
  ASSUME TypeOK, RefsInv,
         \/ OpenStart \/ OpenInited \/ OpenServer \/ OpenClient \/ OpenClientDone
         \/ OpenSwitch \/ OpenFailed \/ OpenFailedDone
  PROVE  RefsInv'
  <1> DEFINE i == Top.i
             own == OwnOf(i, Top.c)
             wait == WaitOf(Top.c)
             A == {own}
             W == {own, wait}
  <1>0. /\ stack \in Seq(Activation) /\ stack # <<>> /\ NoFault /\ Top \in Activation
        /\ Top.op = "open" /\ i \in ImportIds /\ Top.c \in Comps
        /\ imp \in [ImportIds -> Import] /\ qry \in [QueryIds -> Query]
    <2>1. stack \in Seq(Activation) /\ stack # <<>> /\ NoFault /\ Top.op = "open"
      BY DEF TypeOK, NoFault, OpenStart, OpenInited, OpenServer, OpenClient, OpenClientDone,
        OpenSwitch, OpenFailed, OpenFailedDone, At
    <2>2. Top \in Activation
      BY <2>1, TopType
    <2>3. QED
      BY <2>1, <2>2 DEF Activation, TypeOK
  <1>1. /\ Top.pc # "client" => Tags(Top) = A
        /\ Top.pc = "client" => Tags(Top) = W
    BY <1>0, TagsWhen
  <1>2. /\ \A pc : pc # "client" => Tags(Resume(pc)) = A
        /\ Tags(Resume("client")) = W
    BY <1>0, ResumeTags
  <1>3. imp[i].client \in Comps /\ imp[i].server \in Comps
    BY <1>0 DEF Import
  <1>4. Live(i) => imp[i].client = Top.c
    <2>1. own \in Tags(Top)
      BY <1>1
    <2>2. Count(stack, own) > 0
      BY <1>0, <2>1, CountRest
    <2>3. QED
      BY <1>0, <2>2 DEF RefsInv, OwnersKnown
  <1>5. {"unregistered", "registered_to_server", "registered_to_client", "opened"}
          \subseteq ImportStates
    BY DEF ImportStates
  <1>6. \A t \in A : t.kind = "own"
    BY DEF OwnOf, Tag
  <1>7. ASSUME NEW kind, kind # "none", Fault(kind) PROVE RefsInv'
    BY <1>7, FaultKeeps
  <1>8. ASSUME NEW st \in ImportStates, Live(i),
               imp' = [imp EXCEPT ![i].st = st] \/ imp' = imp
        PROVE  SameHolders
    BY <1>0, <1>8, StateHolders, SameAll
  <1>9. \A t : t.kind # "own" => (t \in W <=> t \in {wait})
    BY DEF OwnOf, Tag
  <1>10. \A j \in ImportIds, c \in Comps : OwnOf(j, c) \in W => OwnOf(j, c) \in A
    BY TagsApart
  <1> HIDE DEF A, W, wait, own
  <1>11. CASE OpenStart
    <2>1. Tags(Top) = A /\ wiring' = wiring /\ refs' = refs
      BY <1>1, <1>11 DEF OpenStart, At, compVars
    <2>2. CASE Openable(i)
      <3> DEFINE f == Enter("init", "start", imp[i].server, Nil, Nil)
      <3>1. Call(f, "inited")
        BY <1>11, <2>2 DEF OpenStart
      <3>2. Tags(f) = {}
        BY EnterTags
      <3> HIDE DEF f
      <3>3. Became(A, {}, A)
        BY <1>0, <1>2, <2>1, <3>1, <3>2, CallTags
      <3>4. SameQueries
        BY <1>0, <1>11, <2>2, UnlinkSame DEF OpenStart
      <3>5. SameHolders
        <4>1. imp' = [imp EXCEPT ![i].st = "unregistered", ![i].query = Nil]
          BY <1>11, <2>2 DEF OpenStart
        <4>2. QED
          BY <1>0, <2>2, <4>1 DEF SameHolders, Live, Import, Openable
      <3>6. QED
        BY <1>0, <2>1, <3>3, <3>4, <3>5, Handed
    <2>3. CASE ~Openable(i)
      <3>1. stack' = Rest /\ imp' = imp /\ qry' = qry
        BY <1>11, <2>3 DEF OpenStart
      <3>2. Became(A, {}, {})
        BY <1>0, <2>1, <3>1, Popped
      <3>3. SameHolders /\ SameQueries
        BY <3>1, SameAll
      <3>4. QED
        BY <1>0, <1>6, <2>1, <3>2, <3>3, OwnerEnds
    <2>4. QED
      BY <2>2, <2>3
  <1>12. ASSUME Tags(Top) = A, Became(A, {}, A), UNCHANGED <<wiring, refs, qry>>, SameHolders
         PROVE  RefsInv'
    BY <1>0, <1>12, SameAll, Handed
  <1>13. ASSUME Tags(Top) = A, UNCHANGED <<wiring, refs, imp, qry>>,
                Goto("failed")
         PROVE  RefsInv'
    <2>1. Became(A, {}, A)
      BY <1>0, <1>2, <1>13, GotoTags
    <2>2. QED
      BY <1>12, <1>13, <2>1, SameAll
  <1>14. CASE OpenInited
    <2>1. Tags(Top) = A
      BY <1>1, <1>14 DEF OpenInited, At
    <2>2. CASE Refused(ret)
      BY <1>13, <1>14, <2>1, <2>2 DEF OpenInited, compVars, objVars
    <2>3. CASE ~Refused(ret) /\ (~Live(i) \/ imp[i].st # "unregistered")
      BY <1>7, <1>14, <2>3 DEF OpenInited
    <2>4. CASE ~Refused(ret) /\ Live(i) /\ imp[i].st = "unregistered"
      <3>1. /\ Invoke("register_server", imp[i].server, i, <<Resume("server")>> \o Rest)
            /\ UNCHANGED <<wiring, refs, imp, qry>>
        BY <1>14, <2>4 DEF OpenInited, compVars
      <3>2. Became(A, {}, A)
        BY <1>0, <1>2, <2>1, <3>1, InvokeTags
      <3>3. QED
        BY <1>12, <2>1, <3>1, <3>2, SameAll
    <2>5. QED
      BY <2>2, <2>3, <2>4
  <1>15. CASE OpenServer
    <2>1. Tags(Top) = A
      BY <1>1, <1>15 DEF OpenServer, At
    <2>2. CASE Refused(ret)
      BY <1>13, <1>15, <2>1, <2>2 DEF OpenServer, compVars, objVars
    <2>3. CASE ~Refused(ret) /\ ~Live(i)
      BY <1>7, <1>15, <2>3 DEF OpenServer
    <2>4. CASE ~Refused(ret) /\ Live(i) /\ imp[i].port
      <3> DEFINE c == imp[i].client
                 f == Enter("method", "register_client", c, i, Nil)
      <3>1. /\ imp' = [imp EXCEPT ![i].st = "registered_to_server"] /\ qry' = qry
            /\ Ref(c) /\ wiring' = wiring /\ (Goto("client") \/ Call(f, "client"))
        BY <1>15, <2>4 DEF OpenServer
      <3>2. Tags(f) = {}
        BY EnterTags
      <3> HIDE DEF f
      <3>3. Became(A, {}, W)
        BY <1>0, <1>2, <2>1, <3>1, <3>2, GotoTags, CallTags
      <3>4. SameHolders /\ SameQueries
        BY <1>5, <1>8, <2>4, <3>1, SameAll
      <3>5. OwnersKnown'
        <4>1. \A j \in ImportIds : Live(j)' => Live(j) /\ imp'[j].client = imp[j].client
          BY <3>4 DEF SameHolders
        <4>2. \A j \in ImportIds, d \in Comps :
                OwnOf(j, d) \in {} \cup W /\ Live(j) => OwnOf(j, d) \in A \/ imp[j].client = d
          BY <1>10
        <4>3. QED
          BY <3>3, <4>1, <4>2, OwnersMeant DEF RefsInv
      <3>6. Net({}, {wait})
        <4>1. \A t : t.kind # "own" => One(t \in {wait}) + One(t \in A)
                                         = One(t \in {}) + One(t \in {}) + One(t \in W)
          BY <1>6, <1>9 DEF One
        <4>2. QED
          BY <3>3, <4>1, NetOf
      <3>7. refs' = [refs EXCEPT ![Top.c] = @ + 1]
        BY <1>4, <2>4, <3>1 DEF Ref
      <3>8. QED
        BY <1>0, <3>1, <3>4, <3>5, <3>6, <3>7, WaitStarts DEF wait
    <2>5. CASE ~Refused(ret) /\ Live(i) /\ ~imp[i].port
      <3>1. /\ imp' = [imp EXCEPT ![i].st = "registered_to_client"]
            /\ Goto("switch") /\ UNCHANGED <<wiring, refs, qry>>
        BY <1>15, <2>5 DEF OpenServer, compVars
      <3>2. Became(A, {}, A)
        BY <1>0, <1>2, <2>1, <3>1, GotoTags
      <3>3. SameHolders
        BY <1>5, <1>8, <2>5, <3>1
      <3>4. QED
        BY <1>12, <2>1, <3>1, <3>2, <3>3
    <2>6. QED
      BY <2>2, <2>3, <2>4, <2>5
  <1>16. CASE OpenClient
    <2>1. Tags(Top) = W
      BY <1>1, <1>16 DEF OpenClient, At
    <2>2. CASE ~Live(i)
      BY <1>7, <1>16, <2>2 DEF OpenClient
    <2>3. CASE Live(i)
      <3>1. /\ Unref(imp[i].client, <<Answered>> \o Rest)
            /\ imp' = imp /\ qry' = qry /\ wiring' = wiring
        BY <1>16, <2>3 DEF OpenClient, objVars
      <3>2. Tags(Answered) = A
        BY <1>0, <3>1, UnrefAnsweredTags, TagsWhen DEF A, own
      <3>3. Became(W, {}, A)
        BY <1>0, <2>1, <3>1, <3>2, UnrefAnsweredTags
      <3>4. SameHolders /\ SameQueries
        BY <1>5, <1>8, <2>3, <3>1, SameAll
      <3>5. OwnersKnown'
        <4>1. \A j \in ImportIds : Live(j)' => Live(j) /\ imp'[j].client = imp[j].client
          BY <3>4 DEF SameHolders
        <4>2. \A j \in ImportIds, d \in Comps :
                OwnOf(j, d) \in {} \cup A /\ Live(j) => OwnOf(j, d) \in W \/ imp[j].client = d
          BY DEF A, W
        <4>3. QED
          BY <3>3, <4>1, <4>2, OwnersMeant DEF RefsInv
      <3>6. Net({wait}, {})
        <4>1. \A t : t.kind # "own" => One(t \in {}) + One(t \in W)
                                         = One(t \in {wait}) + One(t \in {}) + One(t \in A)
          BY <1>6, <1>9 DEF One
        <4>2. QED
          BY <3>3, <4>1, NetOf
      <3>7. Drops(Top.c)
        BY <1>4, <2>3, <3>1 DEF Unref, Drops
      <3>8. QED
        BY <1>0, <3>1, <3>4, <3>5, <3>6, <3>7, WaitEnds DEF wait
    <2>4. QED
      BY <2>2, <2>3
  <1>20. CASE OpenClientDone
    <2>1. Tags(Top) = A
      BY <1>1, <1>20 DEF OpenClientDone, At
    <2>2. CASE Refused(Top.r)
      BY <1>13, <1>20, <2>1, <2>2 DEF OpenClientDone, compVars, objVars
    <2>3. CASE ~Refused(Top.r) /\ ~Live(i)
      BY <1>7, <1>20, <2>3 DEF OpenClientDone
    <2>4. CASE ~Refused(Top.r) /\ Live(i)
      <3>1. /\ imp' = [imp EXCEPT ![i].st = "registered_to_client"]
            /\ Goto("switch") /\ UNCHANGED <<wiring, refs, qry>>
        BY <1>20, <2>4 DEF OpenClientDone, compVars
      <3>2. Became(A, {}, A)
        BY <1>0, <1>2, <2>1, <3>1, GotoTags
      <3>3. SameHolders
        BY <1>5, <1>8, <2>4, <3>1
      <3>4. QED
        BY <1>12, <2>1, <3>1, <3>2, <3>3
    <2>5. QED
      BY <2>2, <2>3, <2>4
  <1>17. CASE OpenSwitch
    <2>1. Tags(Top) = A
      BY <1>1, <1>17 DEF OpenSwitch, At
    <2>2. CASE ~Live(i) \/ entry[imp[i].server] # "set"
      BY <1>7, <1>17, <2>2 DEF OpenSwitch
    <2>3. CASE Live(i) /\ entry[imp[i].server] = "set"
      <3>1. /\ imp' = [imp EXCEPT ![i].st = "opened"] /\ stack' = Rest
            /\ UNCHANGED <<wiring, refs, qry>>
        BY <1>17, <2>3 DEF OpenSwitch, compVars
      <3>2. Became(A, {}, {})
        BY <1>0, <2>1, <3>1, Popped
      <3>3. SameHolders /\ SameQueries
        BY <1>5, <1>8, <2>3, <3>1, SameAll
      <3>4. QED
        BY <1>0, <1>6, <3>1, <3>2, <3>3, OwnerEnds
    <2>4. QED
      BY <2>2, <2>3
  <1>18. CASE OpenFailed \/ OpenFailedDone
    <2> DEFINE f == Enter("close", "start", Top.c, Top.i, Nil)
    <2>1. /\ Tags(Top) = A /\ UNCHANGED <<wiring, refs, imp, qry>>
          /\ Call(f, "release") \/ stack' = Rest
      BY <1>1, <1>18 DEF OpenFailed, OpenFailedDone, At, compVars, objVars
    <2>2. Tags(f) = A
      BY EnterTags DEF A, own
    <2> HIDE DEF f
    <2>3. Became(A, {}, {}) \/ Became(A, A, A)
      BY <1>0, <1>2, <2>1, <2>2, Popped, CallTags
    <2>4. SameHolders /\ SameQueries
      BY <2>1, SameAll
    <2>5. QED
      BY <1>0, <1>6, <2>1, <2>3, <2>4, OwnerEnds
  <1>19. QED
    BY <1>11, <1>14, <1>15, <1>16, <1>17, <1>18, <1>20

-----------------------------------------------------------------------------
(* Closing imports *)

LEMMA CloseStartKeeps ==
  ASSUME TypeOK, RefsInv, ListsExact, CloseStart
  PROVE  RefsInv'
  <1> DEFINE i == Top.i
             A == {OwnOf(i, Top.c)}
             D == {OwnOf(i, imp[i].client), FreeOf(i)}
  <1>0. /\ stack \in Seq(Activation) /\ stack # <<>> /\ NoFault
        /\ Top.op = "close" /\ i \in ImportIds
    <2>1. stack \in Seq(Activation) /\ stack # <<>> /\ NoFault /\ Top.op = "close"
      BY DEF TypeOK, NoFault, CloseStart, At
    <2>2. QED
      BY <2>1, TopType DEF Activation
  <1>1. Tags(Top) = A
    BY <1>0, TagsWhen
  <1>2. CASE ~(Live(i) /\ Listed(i))
    BY <1>2, FaultKeeps DEF CloseStart
  <1>3. CASE Live(i) /\ Listed(i)
    <2> DEFINE c == imp[i].client
               f == Enter("free", "start", c, i, Nil)
               g == Enter("destroy", "start", c, Nil, Nil)
    <2>1. /\ stack' = <<f>> \o Rest \/ stack' = <<g>> \o (<<f>> \o Rest)
          /\ UNCHANGED <<wiring, refs, imp, qry>>
      BY <1>3 DEF CloseStart, objVars
    <2>2. Tags(f) = D /\ Tags(g) = {}
      BY EnterTags
    <2>3. /\ D = {OwnOf(i, imp[i].client), FreeOf(i)}
          /\ \A t \in A : t.kind = "own"
      BY DEF OwnOf, Tag
    <2> HIDE DEF f, g, A, D
    <2>4. Became(A, D, {}) \/ Became(A, {}, D)
      BY <1>0, <1>1, <2>1, <2>2, Replaced, ReplacedTwo
    <2> HIDE DEF i
    <2>5. QED
      BY <1>0, <1>3, <2>1, <2>3, <2>4, FreeStarts
  <1>4. QED
    BY <1>2, <1>3

LEMMA FreeKeeps ==
  ASSUME TypeOK, RefsInv,
         \/ FreeStart \/ FreeClient \/ FreeClientDone \/ FreeServer
         \/ FreeRelease \/ FreeDone
  PROVE  RefsInv'
  <1> DEFINE i == Top.i
             own == OwnOf(i, Top.c)
             free == FreeOf(i)
             freed == FreedOf(i)
             wait == WaitOf(Top.c)
             A == {own, free}
             W == {own, free, wait}
             F == {own, free, freed}
  <1>0. /\ stack \in Seq(Activation) /\ stack # <<>> /\ NoFault /\ Top \in Activation
        /\ Top.op = "free" /\ i \in ImportIds /\ Top.c \in Comps
        /\ imp \in [ImportIds -> Import]
    <2>1. stack \in Seq(Activation) /\ stack # <<>> /\ NoFault /\ Top.op = "free"
      BY DEF TypeOK, NoFault, FreeStart, FreeClient, FreeClientDone, FreeServer,
        FreeRelease, FreeDone, At
    <2>2. Top \in Activation
      BY <2>1, TopType
    <2>3. QED
      BY <2>1, <2>2 DEF Activation, TypeOK
  <1>1. /\ Top.pc \notin {"client", "freed"} => Tags(Top) = A
        /\ Top.pc = "client" => Tags(Top) = W
        /\ Top.pc = "freed" => Tags(Top) = F
    BY <1>0, TagsWhen
  <1>2. /\ \A pc : pc \notin {"client", "freed"} => Tags(Resume(pc)) = A
        /\ Tags(Resume("client")) = W
        /\ Tags(Resume("freed")) = F
    BY <1>0, ResumeTags
  <1>3. imp[i].client \in Comps /\ imp[i].server \in Comps
    BY <1>0 DEF Import
  <1>4. Live(i) => imp[i].client = Top.c
    <2>1. own \in Tags(Top)
      BY <1>1
    <2>2. Count(stack, own) > 0
      BY <1>0, <2>1, CountRest
    <2>3. QED
      BY <1>0, <2>2 DEF RefsInv, OwnersKnown
  <1>5. {"unregistered", "registered_to_server", "registered_to_client", "opened"}
          \subseteq ImportStates
    BY DEF ImportStates
  <1>6. /\ \A t : t.kind # "own" => (t \in A <=> t \in {free})
        /\ \A t : t.kind # "own" => (t \in W <=> t \in {free} \/ t \in {wait})
        /\ \A t : t.kind # "own" => (t \in F <=> t \in {free} \/ t \in {freed})
        /\ \A t : t \in {free} => t \notin {wait} /\ t \notin {freed}
    BY TagsApart DEF OwnOf, Tag
  <1>7. ASSUME NEW kind, kind # "none", Fault(kind) PROVE RefsInv'
    BY <1>7, FaultKeeps
  <1>8. ASSUME NEW st \in ImportStates, Live(i),
               imp' = [imp EXCEPT ![i].st = st] \/ imp' = imp
        PROVE  SameHolders
    BY <1>0, <1>8, StateHolders, SameAll
  <1>9. /\ \A j \in ImportIds, c \in Comps : OwnOf(j, c) \in W => OwnOf(j, c) \in A
        /\ \A j \in ImportIds, c \in Comps : OwnOf(j, c) \in F => OwnOf(j, c) \in A
        /\ A \subseteq W /\ A \subseteq F
    BY TagsApart
  <1> HIDE DEF A, W, F, own, wait, free, freed
  <1>10. ASSUME Tags(Top) = A, Became(A, {}, A), UNCHANGED <<wiring, refs, qry>>, SameHolders
         PROVE  RefsInv'
    BY <1>0, <1>10, SameAll, Handed
  <1>11. CASE FreeStart
    <2>1. Tags(Top) = A
      BY <1>1, <1>11 DEF FreeStart, At
    <2>2. CASE ~Live(i)
      BY <1>7, <1>11, <2>2 DEF FreeStart
    <2>3. CASE Live(i) /\ Registered(i) /\ imp[i].port
      <3>1. /\ imp' = [imp EXCEPT ![i].st = "registered_to_client"] /\ qry' = qry
            /\ Ref(imp[i].client) /\ wiring' = wiring
            /\ Invoke("unregister_client", imp[i].client, i, <<Resume("client")>> \o Rest)
        BY <1>11, <2>3 DEF FreeStart
      <3>2. Became(A, {}, W)
        BY <1>0, <1>2, <2>1, <3>1, InvokeTags
      <3>3. SameHolders /\ SameQueries
        BY <1>5, <1>8, <2>3, <3>1, SameAll
      <3>4. OwnersKnown'
        <4>1. \A j \in ImportIds : Live(j)' => Live(j) /\ imp'[j].client = imp[j].client
          BY <3>3 DEF SameHolders
        <4>2. \A j \in ImportIds, d \in Comps :
                OwnOf(j, d) \in {} \cup W /\ Live(j) => OwnOf(j, d) \in A \/ imp[j].client = d
          BY <1>9
        <4>3. QED
          BY <3>2, <4>1, <4>2, OwnersMeant DEF RefsInv
      <3>5. Net({}, {wait})
        <4>1. \A t : t.kind # "own" => One(t \in {wait}) + One(t \in A)
                                         = One(t \in {}) + One(t \in {}) + One(t \in W)
          BY <1>6 DEF One
        <4>2. QED
          BY <3>2, <4>1, NetOf
      <3>6. refs' = [refs EXCEPT ![Top.c] = @ + 1]
        BY <1>4, <2>3, <3>1 DEF Ref
      <3>7. QED
        BY <1>0, <3>1, <3>3, <3>4, <3>5, <3>6, WaitStarts DEF wait
    <2>4. CASE Live(i) /\ ~(Registered(i) /\ imp[i].port)
      <3>1. /\ imp' = [imp EXCEPT ![i].st = "registered_to_server"] \/ imp' = imp
            /\ Goto("server") /\ UNCHANGED <<wiring, refs, qry>>
        BY <1>11, <2>4 DEF FreeStart, compVars
      <3>2. Became(A, {}, A)
        BY <1>0, <1>2, <2>1, <3>1, GotoTags
      <3>3. SameHolders
        BY <1>5, <1>8, <2>4, <3>1
      <3>4. QED
        BY <1>10, <2>1, <3>1, <3>2, <3>3
    <2>5. QED
      BY <2>2, <2>3, <2>4
  <1>12. CASE FreeClient
    <2>1. Tags(Top) = W
      BY <1>1, <1>12 DEF FreeClient, At
    <2>2. CASE ~Live(i)
      BY <1>7, <1>12, <2>2 DEF FreeClient
    <2>3. CASE Live(i)
      <3>1. /\ Unref(imp[i].client, <<Answered>> \o Rest)
            /\ imp' = imp /\ qry' = qry /\ wiring' = wiring
        BY <1>12, <2>3 DEF FreeClient, objVars
      <3>8. Tags(Answered) = A
        BY <1>0, <3>1, UnrefAnsweredTags, TagsWhen DEF A, own, free
      <3>2. Became(W, {}, A)
        BY <1>0, <2>1, <3>1, <3>8, UnrefAnsweredTags
      <3>3. SameHolders /\ SameQueries
        BY <1>5, <1>8, <2>3, <3>1, SameAll
      <3>4. OwnersKnown'
        <4>1. \A j \in ImportIds : Live(j)' => Live(j) /\ imp'[j].client = imp[j].client
          BY <3>3 DEF SameHolders
        <4>2. \A j \in ImportIds, d \in Comps :
                OwnOf(j, d) \in {} \cup A /\ Live(j) => OwnOf(j, d) \in W \/ imp[j].client = d
          BY <1>9
        <4>3. QED
          BY <3>2, <4>1, <4>2, OwnersMeant DEF RefsInv
      <3>5. Net({wait}, {})
        <4>1. \A t : t.kind # "own" => One(t \in {}) + One(t \in W)
                                         = One(t \in {wait}) + One(t \in {}) + One(t \in A)
          BY <1>6 DEF One
        <4>2. QED
          BY <3>2, <4>1, NetOf
      <3>6. Drops(Top.c)
        BY <1>4, <2>3, <3>1 DEF Unref, Drops
      <3>7. QED
        BY <1>0, <3>1, <3>3, <3>4, <3>5, <3>6, WaitEnds DEF wait
    <2>4. QED
      BY <2>2, <2>3
  <1>17. CASE FreeClientDone
    <2>1. Tags(Top) = A
      BY <1>1, <1>17 DEF FreeClientDone, At
    <2>2. CASE Top.r # "error" /\ ~Live(i)
      BY <1>7, <1>17, <2>2 DEF FreeClientDone
    <2>3. CASE Top.r = "error" \/ Live(i)
      <3>1. /\ imp' = imp \/ (Live(i) /\ imp' = [imp EXCEPT ![i].st = "registered_to_server"])
            /\ Goto("server") /\ UNCHANGED <<wiring, refs, qry>>
        BY <1>17, <2>3 DEF FreeClientDone, compVars, objVars
      <3>2. Became(A, {}, A)
        BY <1>0, <1>2, <2>1, <3>1, GotoTags
      <3>3. SameHolders
        BY <1>5, <1>8, <3>1, SameAll
      <3>4. QED
        BY <1>10, <2>1, <3>1, <3>2, <3>3
    <2>4. QED
      BY <2>2, <2>3
  <1>13. CASE FreeServer
    <2>1. Tags(Top) = A
      BY <1>1, <1>13 DEF FreeServer, At
    <2>2. /\ UNCHANGED <<wiring, refs, imp, qry>>
          /\ \/ Invoke("unregister_server", imp[i].server, i, <<Resume("release")>> \o Rest)
             \/ Goto("release")
      BY <1>13 DEF FreeServer, compVars, objVars
    <2>3. Became(A, {}, A)
      BY <1>0, <1>2, <2>1, <2>2, GotoTags, InvokeTags
    <2>4. QED
      BY <1>10, <2>1, <2>2, <2>3, SameAll
  <1>14. CASE FreeRelease
    <2>1. Tags(Top) = A
      BY <1>1, <1>14 DEF FreeRelease, At
    <2>2. CASE ~Live(i)
      BY <1>7, <1>14, <2>2 DEF FreeRelease
    <2>3. CASE Live(i)
      <3>1. /\ imp' = [imp EXCEPT ![i].st = "unregistered"] \/ imp' = imp
            /\ Unref(imp[i].server, <<Resume("freed")>> \o Rest) /\ qry' = qry
            /\ wiring' = wiring
        BY <1>14, <2>3 DEF FreeRelease
      <3>2. Became(A, {}, F)
        BY <1>0, <1>2, <2>1, <3>1, UnrefTags
      <3>3. SameHolders /\ SameQueries
        BY <1>5, <1>8, <2>3, <3>1, SameAll
      <3>4. OwnersKnown'
        <4>1. \A j \in ImportIds : Live(j)' => Live(j) /\ imp'[j].client = imp[j].client
          BY <3>3 DEF SameHolders
        <4>2. \A j \in ImportIds, d \in Comps :
                OwnOf(j, d) \in {} \cup F /\ Live(j) => OwnOf(j, d) \in A \/ imp[j].client = d
          BY <1>9
        <4>3. QED
          BY <3>2, <4>1, <4>2, OwnersMeant DEF RefsInv
      <3>5. Net({}, {freed})
        <4>1. \A t : t.kind # "own" => One(t \in {freed}) + One(t \in A)
                                         = One(t \in {}) + One(t \in {}) + One(t \in F)
          BY <1>6 DEF One
        <4>2. QED
          BY <3>2, <4>1, NetOf
      <3>6. Drops(imp[i].server)
        BY <3>1 DEF Unref, Drops
      <3>7. Count(stack, freed) = 0
        <4>1. free \in Tags(Top) /\ freed \notin Tags(Top)
          BY <2>1, TagsApart DEF A, own, free, freed
        <4>2. /\ Count(stack, free) = Count(Rest, free) + 1
              /\ Count(stack, freed) = Count(Rest, freed)
              /\ Count(Rest, free) \in Nat /\ Count(Rest, freed) \in Nat
          BY <1>0, <4>1, CountRest DEF One
        <4>3. Count(stack, free) <= 1
          BY <1>0 DEF RefsInv, FreedOnce, free
        <4>4. ~(Count(Rest, free) > 0)
          BY <4>2, <4>3
        <4>5. Rest \in Seq(Activation)
          BY <1>0, TopType
        <4>6. ~(Count(Rest, freed) > 0)
          BY <4>4, <4>5, CountPositive, TagsOf DEF free, freed
        <4>7. QED
          BY <4>2, <4>6
      <3>8. QED
        BY <1>0, <2>3, <3>1, <3>3, <3>4, <3>5, <3>6, <3>7, ServerReleased DEF freed
    <2>4. QED
      BY <2>2, <2>3
  <1>15. CASE FreeDone
    <2>1. Tags(Top) = F
      BY <1>1, <1>15 DEF FreeDone, At
    <2>2. /\ stack' = Rest /\ UNCHANGED <<wiring, refs, qry>>
          /\ imp' = [imp EXCEPT ![i] = NoImport]
      BY <1>15 DEF FreeDone, compVars
    <2>3. PICK x \in ImportIds : x = i
      BY <1>0
    <2>10. ~Live(x)' /\ \A j \in ImportIds \ {x} : imp'[j] = imp[j]
      <3> DEFINE gone == NoImport
      <3>1. gone.st = "free"
        BY DEF NoImport
      <3>2. imp' = [imp EXCEPT ![x] = gone]
        BY <2>2, <2>3
      <3> HIDE DEF gone, i
      <3>3. imp'[x] = gone
        BY <1>0, <3>2
      <3>4. imp'[x].st = "free" /\ \A j \in ImportIds \ {x} : imp'[j] = imp[j]
        BY <1>0, <3>1, <3>2, <3>3
      <3>5. QED
        BY <3>4 DEF Live
    <2>4. Became(F, {}, {})
      BY <1>0, <2>1, <2>2, Popped
    <2>5. OwnersKnown'
      <3>1. \A j \in ImportIds : Live(j)' => Live(j) /\ imp'[j].client = imp[j].client
        BY <2>10 DEF Live
      <3>2. \A j \in ImportIds, d \in Comps :
              OwnOf(j, d) \in {} \cup {} /\ Live(j) => OwnOf(j, d) \in F \/ imp[j].client = d
        OBVIOUS
      <3>3. QED
        BY <2>4, <3>1, <3>2, OwnersMeant DEF RefsInv
    <2>6. Net({free, freed}, {})
      <3>1. \A t : t.kind # "own" => One(t \in {}) + One(t \in F)
                                   = One(t \in {free, freed}) + One(t \in {}) + One(t \in {})
        BY <1>6 DEF One
      <3>2. QED
        BY <2>4, <3>1, NetOf
    <2>7. Count(stack, freed) > 0
      <3>1. freed \in Tags(Top)
        BY <2>1 DEF F
      <3>2. QED
        BY <1>0, <3>1, CountRest
    <2>8. SameQueries
      BY <2>2, SameAll
    <2> HIDE DEF i
    <2>9. QED
      BY <1>0, <2>2, <2>3, <2>5, <2>6, <2>7, <2>8, <2>10, ImportGone DEF free, freed
  <1>16. QED
    BY <1>11, <1>12, <1>13, <1>14, <1>15, <1>17

-----------------------------------------------------------------------------
(* Finishing queries, methods and the calls of clients *)

LEMMA QueryStepKeeps ==
  ASSUME TypeOK, RefsInv, QueryStep
  PROVE  RefsInv'
  <1> DEFINE q == Top.q
             i == Top.i
             A == {UseOf(q, Top.c)}
  <1>0. /\ stack \in Seq(Activation) /\ stack # <<>> /\ NoFault /\ Top \in Activation
        /\ Top.op = "finish" /\ q \in QueryIds /\ Top.c \in Comps
    <2>1. stack \in Seq(Activation) /\ stack # <<>> /\ NoFault /\ Top.op = "finish"
      BY DEF TypeOK, NoFault, QueryStep, FinishStart, FinishBack, FinishForward, FinishDone, At
    <2>2. Top \in Activation
      BY <2>1, TopType
    <2>3. QED
      BY <2>1, <2>2 DEF Activation
  <1>1. Tags(Top) = A
    BY <1>0, TagsWhen
  <1>2. ASSUME NEW kind, kind # "none", Fault(kind) PROVE RefsInv'
    BY <1>2, FaultKeeps
  <1>3. ASSUME NEW f, f.op = "finish", f.q = q, f.c = Top.c, stack' = <<f>> \o Rest,
               UNCHANGED <<wiring, refs, imp, qry>>
        PROVE  RefsInv'
    <2>1. Tags(f) = A
      BY <1>3, TagsWhen
    <2> HIDE DEF A
    <2>2. Became(A, A, {})
      BY <1>0, <1>1, <1>3, <2>1, Replaced
    <2>3. QED
      BY <1>0, <1>3, <2>2, SameAll, Handed
  <1>4. ASSUME NEW pc, Goto(pc), UNCHANGED <<wiring, refs, imp, qry>> PROVE RefsInv'
    <2> DEFINE f == Resume(pc)
    <2>1. f.op = "finish" /\ f.q = q /\ f.c = Top.c /\ stack' = <<f>> \o Rest
      BY <1>0, <1>4, ResumeFields DEF Goto
    <2> HIDE DEF f
    <2>2. QED
      BY <1>3, <1>4, <2>1
  <1>5. ASSUME NEW succ, FinishVisit(i, succ) PROVE RefsInv'
    <2> DEFINE f == [Top EXCEPT !.i = succ]
               g == Enter("close", "start", imp[i].client, i, Nil)
               D == {OwnOf(i, imp[i].client)}
    <2>1. /\ stack' = <<f>> \o Rest \/ stack' = <<g>> \o (<<f>> \o Rest)
          /\ UNCHANGED <<wiring, refs, imp, qry>>
      BY <1>5 DEF FinishVisit, compVars, objVars
    <2>2. f.op = "finish" /\ f.q = q /\ f.c = Top.c
      BY <1>0 DEF Activation
    <2>3. Tags(g) = D /\ D = {OwnOf(i, imp[i].client)}
      BY EnterTags
    <2> HIDE DEF f, g, D
    <2>4. Tags(f) = A
      BY <2>2, TagsWhen
    <2>5. CASE stack' = <<f>> \o Rest
      BY <1>3, <2>1, <2>2, <2>5
    <2> HIDE DEF A, i
    <2>6. CASE stack' = <<g>> \o (<<f>> \o Rest)
      <3>1. Became(A, D, A)
        BY <1>0, <1>1, <2>3, <2>4, <2>6, ReplacedTwo
      <3>2. QED
        BY <1>0, <2>1, <2>3, <3>1, SameAll, OwnerStarts
    <2>7. QED
      BY <2>1, <2>5, <2>6
  <1>6. CASE FinishStart
    <2> DEFINE f == [Resume("back") EXCEPT !.i = imp[i].prev, !.j = i]
    <2>1. CASE stack' = <<f>> \o Rest /\ UNCHANGED <<wiring, refs, imp, qry>>
      <3>1. f.op = "finish" /\ f.q = q /\ f.c = Top.c
        BY <1>0 DEF Resume, Activation
      <3> HIDE DEF f
      <3>2. QED
        BY <1>3, <2>1, <3>1
    <2>2. QED
      BY <1>2, <1>4, <1>6, <2>1 DEF FinishStart, compVars, objVars
  <1>7. CASE FinishBack
    <2> DEFINE f == [Resume("forward") EXCEPT !.i = Top.j, !.j = Nil]
    <2>1. CASE stack' = <<f>> \o Rest /\ UNCHANGED <<wiring, refs, imp, qry>>
      <3>1. f.op = "finish" /\ f.q = q /\ f.c = Top.c
        BY <1>0 DEF Resume, Activation
      <3> HIDE DEF f
      <3>2. QED
        BY <1>3, <2>1, <3>1
    <2>2. QED
      BY <1>2, <1>5, <1>7, <2>1 DEF FinishBack, compVars, objVars
  <1>8. CASE FinishForward
    BY <1>2, <1>4, <1>5, <1>8 DEF FinishForward, compVars, objVars
  <1>9. CASE FinishDone
    <2>1. PICK p \in QueryIds, c \in Comps : p = q /\ c = Top.c
      BY <1>0
    <2>2. /\ qry' = [qry EXCEPT ![p] = NoQuery] /\ UNCHANGED <<wiring, imp>>
          /\ Unref(c, Rest)
      BY <1>9, <2>1 DEF FinishDone, QueryRemoved
    <2>3. Drops(c)
      BY <2>2 DEF Unref, Drops
    <2>4. A = {UseOf(p, c)}
      BY <2>1
    <2>5. Count(stack, UseOf(p, c)) > 0
      BY <1>0, <1>1, <2>4, CountRest
    <2> HIDE DEF A
    <2>6. Became(A, {}, {})
      BY <1>0, <1>1, <2>2, UnrefPops
    <2>7. \A t : t.kind # "own" => One(t \in {}) + One(t \in A)
                                     = One(t \in A) + One(t \in {}) + One(t \in {})
      BY DEF One
    <2>8. Net({UseOf(p, c)}, {})
      BY <2>4, <2>6, <2>7, NetOf
    <2>9. SameHolders
      BY <2>2, SameAll
    <2>10. OwnersKnown'
      <3>1. \A j \in ImportIds : Live(j)' => Live(j) /\ imp'[j].client = imp[j].client
        BY <2>9 DEF SameHolders
      <3>2. \A j \in ImportIds, d \in Comps :
              OwnOf(j, d) \in {} \cup {} /\ Live(j) => OwnOf(j, d) \in A \/ imp[j].client = d
        OBVIOUS
      <3>3. QED
        BY <2>6, <3>1, <3>2, OwnersMeant DEF RefsInv
    <2>11. QED
      BY <1>0, <2>2, <2>3, <2>5, <2>8, <2>9, <2>10, QueryGone
  <1>10. QED
    BY <1>6, <1>7, <1>8, <1>9 DEF QueryStep

LEMMA MethodReturnKeeps ==
  ASSUME TypeOK, RefsInv, MethodReturn
  PROVE  RefsInv'
  <1>0. /\ stack \in Seq(Activation) /\ stack # <<>> /\ NoFault /\ Top.op = "method"
        /\ imp \in [ImportIds -> Import]
    BY DEF TypeOK, NoFault, MethodReturn
  <1>1. Tags(Top) = {}
    BY <1>0, TagsWhen
  <1>2. SameHolders
    <2>1. \/ imp' = [imp EXCEPT ![Top.i].srvReg = ret' = "ok"]
          \/ imp' = [imp EXCEPT ![Top.i].cliReg = ret' = "ok"]
          \/ imp' = [imp EXCEPT ![Top.i].srvReg = FALSE]
          \/ imp' = [imp EXCEPT ![Top.i].cliReg = FALSE]
          \/ imp' = imp
      BY DEF MethodReturn
    <2> DEFINE b == ret' = "ok"
    <2>2. \A i \in ImportIds : /\ imp'[i].st = imp[i].st /\ imp'[i].server = imp[i].server
                               /\ imp'[i].client = imp[i].client
      <3>1. CASE imp' = [imp EXCEPT ![Top.i].srvReg = b]
        <4> HIDE DEF b
        <4>1. QED
          BY <1>0, <3>1 DEF Import
      <3>2. CASE imp' = [imp EXCEPT ![Top.i].cliReg = b]
        <4> HIDE DEF b
        <4>1. QED
          BY <1>0, <3>2 DEF Import
      <3>3. CASE imp' = [imp EXCEPT ![Top.i].srvReg = FALSE]
        BY <1>0, <3>3 DEF Import
      <3>4. CASE imp' = [imp EXCEPT ![Top.i].cliReg = FALSE]
        BY <1>0, <3>4 DEF Import
      <3>5. QED
        BY <2>1, <3>1, <3>2, <3>3, <3>4
    <2>3. QED
      BY <2>2 DEF SameHolders, Live
  <1>3. stack' = Rest /\ UNCHANGED <<wiring, refs, qry>>
    BY DEF MethodReturn
  <1>4. QED
    BY <1>0, <1>1, <1>2, <1>3, SameAll, Tagless

LEMMA StackKept ==
  ASSUME TypeOK, RefsInv, NoFault, SameHolders, SameQueries,
         UNCHANGED <<wiring, refs, stack>>
  PROVE  RefsInv'
  BY Stayed, Handed DEF TypeOK

LEMMA ClientQueries ==
  ASSUME TypeOK, RefsInv, NEW c \in Comps, NEW iface \in Interfaces,
         xCOM_QueryInterface(c, iface) \/ xCOM_QueryPort(c, iface)
  PROVE  RefsInv'
  <1>1. PICK port \in BOOLEAN, q \in QueryIds : QueryNew(c, iface, port, TRUE, q, stack)
    BY DEF xCOM_QueryInterface, xCOM_QueryPort
  <1>2. stack' = stack /\ NoFault
    BY <1>1 DEF QueryNew, xCOM_QueryInterface, xCOM_QueryPort, MayCall, NoFault
  <1>3. Became({}, {}, {})
    BY <1>2, Stayed DEF TypeOK
  <1>4. \A t : t.kind # "own" => One(t \in {}) + One(t \in {})
                                   = One(t \in {}) + One(t \in {}) + One(t \in {})
    BY DEF One
  <1>5. Net({}, {})
    BY <1>3, <1>4, NetOf
  <1>6. \A i, d : Count(stack', OwnOf(i, d)) = Count(stack, OwnOf(i, d))
    BY <1>2
  <1>7. {} \subseteq {UseOf(q, c)} /\ TRUE \in BOOLEAN
        /\ (~TRUE /\ EachProvided(wiring) => UseOf(q, c) \in {})
    OBVIOUS
  <1>8. QED
    BY <1>1, <1>2, <1>5, <1>6, <1>7, QueryMade

LEMMA ClientFinishes ==
  ASSUME TypeOK, RefsInv, NEW q \in QueryIds, xCOM_QueryFinish(q)
  PROVE  RefsInv'
  <1> DEFINE f == Enter("finish", "start", qry[q].client, qry[q].first, q)
             D == {UseOf(q, qry[q].client)}
  <1>0. stack \in Seq(Activation) /\ NoFault /\ qry[q].live
    BY DEF TypeOK, NoFault, xCOM_QueryFinish, MayUse, MayCall
  <1>1. stack' = <<f>> \o stack /\ UNCHANGED <<wiring, refs, imp, qry>>
    BY DEF xCOM_QueryFinish, compVars, objVars
  <1>2. Tags(f) = D
    BY EnterTags
  <1> HIDE DEF f
  <1>3. \A d : Count(stack, UseOf(q, d)) = 0
    <2> SUFFICES ASSUME NEW d PROVE Count(stack, UseOf(q, d)) = 0
      OBVIOUS
    <2>1. Count(stack, UseOf(q, d)) \in Nat
      BY <1>0, HavingFinite
    <2>2. \A n \in DOMAIN stack : stack[n].q # q
      BY DEF xCOM_QueryFinish, MayUse
    <2>3. ~(Count(stack, UseOf(q, d)) > 0)
      BY <1>0, <2>2, CountPositive, TagsOf
    <2>4. QED
      BY <2>1, <2>3
  <1>4. SameHolders /\ SameQueries
    BY <1>1, SameAll
  <1> HIDE DEF D
  <1>5. Became({}, D, {})
    BY <1>0, <1>1, <1>2, Pushed
  <1>6. \A t : t.kind # "own" => One(t \in D) + One(t \in {})
                                   = One(t \in {}) + One(t \in D) + One(t \in {})
    BY DEF One
  <1>7. Net({}, D)
    BY <1>5, <1>6, NetOf
  <1>8. OwnersKnown'
    <2>1. \A j \in ImportIds : Live(j)' => Live(j) /\ imp'[j].client = imp[j].client
      BY <1>4 DEF SameHolders
    <2>2. \A j \in ImportIds, d \in Comps :
            OwnOf(j, d) \in D \cup {} /\ Live(j) => OwnOf(j, d) \in {} \/ imp[j].client = d
      BY TagsApart DEF D
    <2>3. QED
      BY <1>5, <2>1, <2>2, OwnersMeant DEF RefsInv
  <1>9. QED
    BY <1>0, <1>1, <1>3, <1>4, <1>7, <1>8, FinishStarts DEF D

\* The other calls of clients.
LEMMA ClientKeeps ==
  ASSUME TypeOK, RefsInv,
         \/ \E q \in QueryIds : xCOM_QueryNext(q)
         \/ \E i \in ImportIds : \/ xCOM_Import(i) \/ xCOM_UnImport(i)
                                 \/ ImportAccessor(i) \/ xCOM_GetNextImport(i)
         \/ \E c \in Comps : ComponentAccessor(c)
  PROVE  RefsInv'
  <1>0. stack \in Seq(Activation) /\ imp \in [ImportIds -> Import] /\ NoFault
    BY DEF TypeOK, NoFault, xCOM_QueryNext, xCOM_Import, xCOM_UnImport, ImportAccessor,
      xCOM_GetNextImport, ComponentAccessor, MayUse, MayCall
  <1>1. ASSUME NEW q \in QueryIds, xCOM_QueryNext(q) PROVE RefsInv'
    <2> DEFINE i == qry[q].cursor
    <2>1. CASE ~Live(i)
      BY <1>1, <2>1, FaultKeeps DEF xCOM_QueryNext
    <2>2. CASE Live(i)
      <3>1. /\ qry' = [qry EXCEPT ![q].cursor = imp[i].next]
            /\ UNCHANGED <<wiring, refs, imp, stack>>
        BY <1>1, <2>2 DEF xCOM_QueryNext, compVars
      <3>2. SameHolders /\ SameQueries
        BY <3>1, SameAll DEF SameQueries, TypeOK, Query
      <3>3. QED
        BY <1>0, <3>1, <3>2, StackKept
    <2>3. QED
      BY <2>1, <2>2
  <1>2. ASSUME NEW i \in ImportIds, xCOM_Import(i) \/ xCOM_UnImport(i) PROVE RefsInv'
    <2> DEFINE f == Enter("open", "start", imp[i].client, i, Nil)
               g == Enter("close", "start", imp[i].client, i, Nil)
               D == {OwnOf(i, imp[i].client)}
    <2>1. /\ stack' = <<f>> \o stack \/ stack' = <<g>> \o stack
          /\ UNCHANGED <<wiring, refs, imp, qry>>
      BY <1>2 DEF xCOM_Import, xCOM_UnImport, compVars, objVars
    <2>2. Tags(f) = D /\ Tags(g) = D /\ D = {OwnOf(i, imp[i].client)}
      BY EnterTags
    <2> HIDE DEF f, g, D
    <2>3. Became({}, D, {})
      BY <1>0, <2>1, <2>2, Pushed
    <2>4. QED
      BY <1>0, <2>1, <2>2, <2>3, SameAll, OwnerStarts
  <1>3. ASSUME NEW i \in ImportIds, ImportAccessor(i) \/ xCOM_GetNextImport(i) PROVE RefsInv'
    <2>1. CASE Fault("dangling")
      BY <2>1, FaultKeeps
    <2>2. CASE Access(i) /\ UNCHANGED <<compVars, qry, stack>>
      <3>1. Live(i) /\ "opened" \in ImportStates
        BY <1>3 DEF ImportAccessor, xCOM_GetNextImport, Valid, ImportStates
      <3>2. SameHolders
        BY <1>0, <2>2, <3>1, StateHolders DEF Access
      <3>3. QED
        BY <1>0, <2>2, <3>2, SameAll, StackKept DEF compVars
    <2>3. QED
      BY <1>3, <2>1, <2>2 DEF ImportAccessor, xCOM_GetNextImport
  <1>4. ASSUME NEW c \in Comps, ComponentAccessor(c) PROVE RefsInv'
    <2> DEFINE f == Enter("destroy", "start", c, Nil, Nil)
    <2>1. stack' = <<f>> \o stack /\ UNCHANGED <<wiring, refs, imp, qry>>
      BY <1>4 DEF ComponentAccessor, compVars, objVars
    <2>2. Tags(f) = {}
      BY EnterTags
    <2> HIDE DEF f
    <2>3. Became({}, {}, {})
      BY <1>0, <2>1, <2>2, Pushed
    <2>4. QED
      BY <1>0, <2>1, <2>3, SameAll, Handed
  <1>5. QED
    BY <1>1, <1>2, <1>3, <1>4

-----------------------------------------------------------------------------
(* The invariant *)

LEMMA RefsInitially == Init => RefsInv
  <1> SUFFICES ASSUME Init PROVE RefsInv
    OBVIOUS
  <1>1. /\ \A i \in ImportIds : ~Live(i)
        /\ \A q \in QueryIds : ~qry[q].live
    BY DEF Init, Live, NoImport, NoQuery
  <1>2. stack = <<>> /\ stack \in Seq(Activation) /\ DOMAIN stack = {}
    BY DEF Init
  <1>3. \A t : Count(stack, t) = 0
    BY <1>2, FS_EmptySet DEF Count, Having
  <1>4. Cardinality({}) = 0 /\ IsFiniteSet({})
    BY FS_EmptySet
  <1>5. \A c : Served(c) = {} /\ Asked(c) = {}
    BY <1>1 DEF Served, Asked
  <1>6. Balanced
    <2> SUFFICES ASSUME NEW c \in Comps
                 PROVE  refs[c] = Cardinality(Served(c)) + Cardinality(Asked(c))
                                    + Count(stack, WaitOf(c))
      BY DEF Balanced
    <2>1. refs[c] = 0
      BY DEF Init
    <2>2. Cardinality(Served(c)) = 0 /\ Cardinality(Asked(c)) = 0
      BY <1>4, <1>5
    <2>3. QED
      BY <1>3, <2>1, <2>2
  <1>7. Finite
    <2>1. {i \in ImportIds : Live(i)} = {} /\ {q \in QueryIds : qry[q].live} = {}
      BY <1>1
    <2>2. QED
      BY <1>4, <2>1 DEF Finite
  <1>8. OwnersKnown /\ FreedOnce /\ UsedOnce /\ QueriesUsed
    BY <1>1, <1>3 DEF OwnersKnown, FreedOnce, UsedOnce, QueriesUsed
  <1>9. QED
    BY <1>6, <1>7, <1>8 DEF RefsInv

LEMMA RefsStep == TypeOK /\ ListsExact /\ RefsInv /\ [Next]_vars => RefsInv'
  <1> SUFFICES ASSUME TypeOK, ListsExact, RefsInv, [Next]_vars PROVE RefsInv'
    OBVIOUS
  <1>1. CASE ComponentStep
    BY <1>1, ComponentKeeps, InitQueryKeeps, InitNextKeeps, InitImportedKeeps,
       CloseImportsKeeps DEF ComponentStep
  <1>2. CASE ImportStep
    BY <1>2, OpenKeeps, CloseStartKeeps, FreeKeeps DEF ImportStep
  <1>3. CASE QueryStep
    BY <1>3, QueryStepKeeps
  <1>4. CASE MethodReturn
    BY <1>4, MethodReturnKeeps
  <1>5. CASE ApiCall
    BY <1>5, ClientQueries, ClientFinishes, ClientKeeps DEF ApiCall
  <1>6. CASE UNCHANGED vars
    BY <1>6, Unmoved DEF vars
  <1>7. QED
    BY <1>1, <1>2, <1>3, <1>4, <1>5, <1>6 DEF Next, Step

LEMMA WiringStays == [Next]_vars => wiring' = wiring
  <1>1. ASSUME NEW c, NEW iface, NEW port, NEW user, NEW q, NEW s,
               QueryNew(c, iface, port, user, q, s)
        PROVE  wiring' = wiring
    BY <1>1 DEF QueryNew
  <1>2. InitQuery => wiring' = wiring
    BY <1>1, Zenon DEF InitQuery
  <1>3. ComponentStep => wiring' = wiring
    BY <1>2 DEF ComponentStep, compVars, Fault, InitLoad, InitAlready, InitNext, InitImported,
      InitPortDone, InitCall, InitDone, InitFailed, DestroyStart, DestroyCall, DestroyUnload,
      CloseImportsStep
  <1>4. OpenStart \/ OpenInited \/ OpenServer \/ OpenClient \/ OpenClientDone
          \/ OpenSwitch \/ OpenFailed \/ OpenFailedDone => wiring' = wiring
    BY DEF compVars, Fault, OpenStart, OpenInited, OpenServer, OpenClient, OpenClientDone,
      OpenSwitch, OpenFailed, OpenFailedDone
  <1>5. CloseStart \/ FreeStart \/ FreeClient \/ FreeClientDone \/ FreeServer \/ FreeRelease
          \/ FreeDone => wiring' = wiring
    BY DEF compVars, Fault, CloseStart, FreeStart, FreeClient, FreeClientDone, FreeServer,
      FreeRelease, FreeDone
  <1>6. QueryStep \/ MethodReturn => wiring' = wiring
    BY DEF compVars, Fault, QueryStep, FinishStart, FinishBack, FinishForward, FinishVisit,
      FinishDone, MethodReturn
  <1>7. \A c, iface : xCOM_QueryInterface(c, iface) \/ xCOM_QueryPort(c, iface)
                        => wiring' = wiring
    BY <1>1 DEF xCOM_QueryInterface, xCOM_QueryPort
  <1>8. ApiCall => wiring' = wiring
    BY <1>7 DEF compVars, Fault, ApiCall, xCOM_QueryNext, xCOM_QueryFinish, xCOM_Import,
      xCOM_UnImport, ImportAccessor, xCOM_GetNextImport, ComponentAccessor
  <1>9. QED
    BY <1>3, <1>4, <1>5, <1>6, <1>8 DEF Next, Step, ImportStep, vars

\* The tags count what Holders does.
LEMMA BalancedExact == TypeOK /\ RefsInv => RefsExact
  <1> SUFFICES ASSUME TypeOK, RefsInv, NoFault, NEW c \in Comps PROVE refs[c] = Holders(c)
    BY DEF RefsExact
  <1>1. stack \in Seq(Activation)
    BY DEF TypeOK
  <1>2. \A i : Count(stack, FreedOf(i)) = 0 <=> ~Released(i)
    <2> SUFFICES ASSUME NEW i PROVE Count(stack, FreedOf(i)) = 0 <=> ~Released(i)
      OBVIOUS
    <2>1. Count(stack, FreedOf(i)) \in Nat
      BY <1>1, HavingFinite
    <2>2. Count(stack, FreedOf(i)) > 0 <=> \E n \in DOMAIN stack : FreedOf(i) \in Tags(stack[n])
      BY <1>1, CountPositive
    <2>3. (\E n \in DOMAIN stack : FreedOf(i) \in Tags(stack[n])) <=> Released(i)
      BY TagsOf DEF Released
    <2>4. QED
      BY <2>1, <2>2, <2>3
  <1>3. Served(c) = {i \in ImportIds : Live(i) /\ imp[i].server = c /\ ~Released(i)}
    BY <1>2 DEF Served
  <1>4. Having(stack, WaitOf(c)) = {n \in DOMAIN stack : /\ stack[n].op \in {"open", "free"}
                                                         /\ stack[n].pc = "client"
                                                         /\ stack[n].c = c}
    BY TagsOf DEF Having
  <1>5. refs[c] = Cardinality(Served(c)) + Cardinality(Asked(c)) + Count(stack, WaitOf(c))
    BY DEF RefsInv, Balanced
  <1>6. QED
    BY <1>3, <1>4, <1>5 DEF Holders, Asked, Count

\* component_t.references is the number of imports that the component serves,
\* of queries that it issued and of activations that keep it for a method,
\* whatever fails and whoever calls what from where, until undefined behaviour
\* happens (component_ref, component_unref, import_new, import_free, query_new,
\* query_free, import_register_to_client, import_unregister_from_client).
THEOREM RefsCorrect == Spec => []RefsExact
  <1>1. Spec => []RefsInv
    BY RefsInitially, RefsStep, TypeCorrect, ListsCorrect, PTL DEF Spec
  <1>2. QED
    BY <1>1, BalancedExact, TypeCorrect, PTL

\* Where every interface required at load time has a provider, no query that
\* component_loadtime_import made is left once the library is idle, whether the
\* imports succeeded or not (component_loadtime_import, xCOM_QueryFinish).
THEOREM NoQueryLeftCorrect ==
  ASSUME \A w \in Wirings : EachProvided(w)
  PROVE  Spec => []NoQueryLeft
  <1> DEFINE Inv == RefsInv /\ EachProvided(wiring)
  <1>1. Init => Inv
    BY RefsInitially DEF Init
  <1>2. TypeOK /\ ListsExact /\ Inv /\ [Next]_vars => Inv'
    <2>1. [Next]_vars => wiring' = wiring
      BY WiringStays
    <2>2. QED
      BY <2>1, RefsStep DEF EachProvided
  <1>3. TypeOK /\ Inv => NoQueryLeft
    <2> SUFFICES ASSUME TypeOK, Inv, stack = <<>>, NEW q \in QueryIds, qry[q].live,
                        ~qry[q].user
                 PROVE  FALSE
      BY DEF NoQueryLeft
    <2>1. Count(stack, UseOf(q, qry[q].client)) > 0
      BY DEF RefsInv, QueriesUsed
    <2>2. \E n \in DOMAIN stack : UseOf(q, qry[q].client) \in Tags(stack[n])
      BY <2>1, CountPositive DEF TypeOK
    <2>3. QED
      BY <2>2
  <1> HIDE DEF Inv
  <1>4. QED
    BY <1>1, <1>2, <1>3, TypeCorrect, ListsCorrect, PTL DEF Spec
=============================================================================
