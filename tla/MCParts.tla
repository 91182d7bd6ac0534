------------------------------- MODULE MCParts ------------------------------
(***************************************************************************)
(* Three parts that share nothing, for TLC: the directories of handles, the *)
(* hash table and the Python bridge.  A behaviour is one of one part, and   *)
(* the others rest.                                                         *)
(***************************************************************************)
EXTENDS HandleDir, HashTable, Bridge

CONSTANTS k1, k2, k3

\* Two keys with the same hash code, and one that shares their index in an
\* array of three but not in one of five.
Codes == k1 :> 1 @@ k2 :> 1 @@ k3 :> 4

\* Growing from 1 takes three entries, shrinking from 5 one.
SmallPrimes == <<1, 3, 5>>

VARIABLE part  \* the one under test

vars == <<handleDirVars, hashTableVars, bridgeVars, part>>

Init ==
  /\ HandleDirInit /\ HashTableInit /\ BridgeInit
  /\ part \in {"handles", "names", "python"}

Next ==
  \/ /\ part = "handles"
     /\ HandleDirNext
     /\ UNCHANGED <<hashTableVars, bridgeVars, part>>
  \/ /\ part = "names"
     /\ HashTableNext
     /\ UNCHANGED <<handleDirVars, bridgeVars, part>>
  \/ /\ part = "python"
     /\ BridgeNext
     /\ UNCHANGED <<handleDirVars, hashTableVars, part>>

Spec == Init /\ [][Next]_vars
=============================================================================
