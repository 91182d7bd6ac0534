----------------------------- MODULE MCRegistry -----------------------------
(* A bundle of two libraries for TLC.  Both provide an interface, one of      *)
(* them twice, under two ports; its second version has no port at all.        *)
EXTENDS Registry

CONSTANTS l1, l2, b1, iA, p1, p2

Provides(n, minor, port) ==
  [iface |-> n, major |-> 1, minor |-> minor, provided |-> TRUE, port |-> port]

Tables == l1 :> <<<<Provides(iA, 0, NoPort)>>>>
       @@ l2 :> <<<<Provides(iA, 1, p1), Provides(iA, 0, p2)>>, <<>>>>

TheFiles == b1 :> {l1, l2}

Asked ==
  {[iface |-> iA, major |-> 1, minor |-> 1, server |-> NoLibrary, port |-> NoPort],
   [iface |-> iA, major |-> 1, minor |-> 0, server |-> l2, port |-> p2]}
=============================================================================
