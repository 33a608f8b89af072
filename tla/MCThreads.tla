----------------------------- MODULE MCThreads -----------------------------
(* A bounded instance of Threads for TLC.  Every behaviour is of one scene: *)
(* the main thread asked by two requesters, a thread born and detached     *)
(* while one requester asks and the runtime shuts down, or two threads     *)
(* suspended by two requesters at once.                                    *)
EXTENDS Threads

VARIABLE scene

Scenes == {"asked", "born", "suspended"}
MCInit == Init /\ scene \in Scenes
MCNext ==
  /\ Next
  /\ UNCHANGED scene
  /\ scene # "born" => shutdown' = "up"
  /\ scene # "asked" => \A r \in Requesters : rq'[r].left > 0
  /\ scene = "asked" => Registered' \subseteq {Main} /\ births' = 0
  /\ scene = "born" => \A r \in Requesters \ {"gc"} : rq'[r].op = NULL
  /\ scene = "suspended" => \A r \in Requesters : rq'[r].op \in {NULL, "suspend"}
MCSpec == MCInit /\ [][MCNext]_<<vars, scene>> /\ Fairness
=============================================================================
