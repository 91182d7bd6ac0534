------------------------------ MODULE HandleMap ------------------------------
(***************************************************************************)
(* What handledir.h promises: a directory is a partial map from handles to *)
(* objects.  Pushing an object gives a handle that names nothing yet, or 0 *)
(* when there is no room; removing one forgets it and no other.            *)
(***************************************************************************)
EXTENDS Naturals

CONSTANTS
  Objects,    \* what is pushed
  NoObject,   \* the NULL pointer
  Handles     \* every value of an xc_handle_t

VARIABLES
  map,        \* the object each handle names
  answer      \* what the last call returned

mapVars == <<map, answer>>

Nothing == [h \in Handles |-> NoObject]

MapInit == map = Nothing /\ answer = 0

MapPush(o) ==
  \/ /\ answer' = 0
     /\ UNCHANGED map
  \/ \E h \in Handles \ {0} :
       /\ map[h] = NoObject
       /\ map' = [map EXCEPT ![h] = o]
       /\ answer' = h

MapRemove(h) ==
  /\ map' = [map EXCEPT ![h] = NoObject]
  /\ answer' = 0

MapGet(h) ==
  /\ answer' = map[h]
  /\ UNCHANGED map

MapClear ==
  /\ map' = Nothing
  /\ answer' = 0

MapNext ==
  \/ \E o \in Objects : MapPush(o)
  \/ \E h \in Handles : MapRemove(h) \/ MapGet(h)
  \/ MapClear

MapSpec == MapInit /\ [][MapNext]_mapVars
=============================================================================
