------------------------------- MODULE KeyMap -------------------------------
(***************************************************************************)
(* What users of a hash table rely on: a partial map from keys to values.  *)
(* Inserting fails when the key is there or memory runs out, and then      *)
(* changes nothing.                                                        *)
(***************************************************************************)
CONSTANTS
  Keys,       \* the keys
  Values,     \* what is stored
  NoValue     \* the value of an absent key

VARIABLES
  map,        \* the value of each key
  reply       \* what the last call returned

mapVars == <<map, reply>>

Nothing == [k \in Keys |-> NoValue]

MapInit == map = Nothing /\ reply = "ok"

MapInsert(k, v) ==
  \/ /\ map[k] = NoValue
     /\ map' = [map EXCEPT ![k] = v]
     /\ reply' = "ok"
  \/ /\ map[k] # NoValue
     /\ reply' = "exists"
     /\ UNCHANGED map
  \/ /\ map[k] = NoValue
     /\ reply' = "no_memory"
     /\ UNCHANGED map

MapRemove(k) ==
  /\ map' = [map EXCEPT ![k] = NoValue]
  /\ reply' = IF map[k] = NoValue THEN "no_entry" ELSE "ok"

MapLookup(k) ==
  /\ reply' = IF map[k] = NoValue THEN "no_entry" ELSE map[k]
  /\ UNCHANGED map

MapClear == map' = Nothing /\ reply' = "ok"

MapNext ==
  \/ \E k \in Keys : MapRemove(k) \/ MapLookup(k) \/ \E v \in Values : MapInsert(k, v)
  \/ MapClear

MapSpec == MapInit /\ [][MapNext]_mapVars
=============================================================================
