------------------------------- MODULE Rollout -------------------------------
(***************************************************************************)
(* What a blue/green deployment promises its users: at every moment one    *)
(* image answers all requests, traffic moves to another image only when    *)
(* tasks of that image run, and the tasks that answer are never stopped.   *)
(***************************************************************************)
CONSTANTS Images, FirstImage

VARIABLES
  serving,   \* the images that answer requests
  running    \* the images with running tasks

Init == serving = {FirstImage} /\ running = {FirstImage}

Start(i) == running' = running \cup {i} /\ UNCHANGED serving

Switch(i) ==
  /\ i \in running
  /\ serving' = {i}
  /\ UNCHANGED running

Stop(i) ==
  /\ i \notin serving
  /\ running' = running \ {i}
  /\ UNCHANGED serving

Next == \E i \in Images : Start(i) \/ Switch(i) \/ Stop(i)

Spec == Init /\ [][Next]_<< serving, running >>
=============================================================================
