------------------------------ MODULE MCSpawn ------------------------------
(* Two services, three applications and a test for TLC. *)
EXTENDS Spawn

CONSTANTS s1, s2, a1, a2, a3, t1

TwoServices == <<s1, s2>>
ThreeApplications == <<a1, a2, a3>>
OneTest == <<t1>>

Once == <<"answer">>
Twice == <<"answer", "answer">>
WorksFirst == <<"work", "answer">>
WorksOn == <<"answer", "work">>

AllOnce == [c \in Components |-> Once]

Installed(glib, services, applications, habit) ==
  [glib |-> glib, services |-> services, applications |-> applications, habit |-> habit]

TheSettings == {
  \* every component answers once: the driver as application, in both builds
  Installed(FALSE, 2, 1, [AllOnce EXCEPT ![s2] = WorksFirst, ![a1] = WorksFirst]),
  Installed(TRUE, 1, 1, AllOnce),
  Installed(TRUE, 0, 0, AllOnce),
  \* three applications
  Installed(FALSE, 0, 3, AllOnce),
  \* a service that answers twice, and two applications
  Installed(FALSE, 2, 2, [AllOnce EXCEPT ![s1] = Twice, ![a1] = WorksFirst]),
  \* a service that goes on while the driver runs a test that answers twice
  Installed(FALSE, 1, 1, [AllOnce EXCEPT ![s1] = WorksOn, ![a1] = WorksFirst, ![t1] = Twice]),
  \* an application that goes on after its answer
  Installed(FALSE, 1, 1, [AllOnce EXCEPT ![a1] = WorksOn])
}
=============================================================================
