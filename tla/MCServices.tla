----------------------------- MODULE MCServices -----------------------------
(* Bounded instances of Services for TLC: a critical service whose         *)
(* onrestart restarts the other, which the rc file disables.  The bound is *)
(* on the requests made of init and on the orphans it inherits.            *)
EXTENDS Services, TLC

CONSTANT MaxRequests, MaxOrphans
VARIABLES requests, orphans

MCNames == {"a", "b"}
MCTemps == {"exec 1"}
MCOrder == <<"a", "b">>
MCInitFlags == [s \in MCNames |-> IF s = "a" THEN {"CRITICAL"} ELSE {"DISABLED", "RC_DISABLED"}]
MCOnRestart == [s \in MCNames |-> IF s = "a" THEN <<[op |-> "restart", svc |-> "b"]>> ELSE <<>>]

Request ==
  \/ \E s \in Names :
       \/ \E op \in CommandOps : Command(op, s)
       \/ \E op \in ControlOps : ControlMessage(op, s)
  \/ \E t \in Temps : ExecCommand(t)
  \/ \E op \in ClassOps : ClassCommand(op)
Orphan == \E p \in Pids : OrphanExits(p)
Own ==
  \/ \E s \in Names : RestartIfNeeded(s) \/ FiveSeconds(s) \/ FourMinutes(s)
  \/ WorkStep \/ HandleSignal \/ SIGCHLD_handler \/ Reaping
  \/ \E p \in Pids : Exit(p)

MCInit == Init /\ requests = 0 /\ orphans = 0
MCNext ==
  /\ status = "up"
  /\ \/ Request /\ requests < MaxRequests /\ requests' = requests + 1 /\ UNCHANGED orphans
     \/ Orphan /\ orphans < MaxOrphans /\ orphans' = orphans + 1 /\ UNCHANGED requests
     \/ Own /\ UNCHANGED <<requests, orphans>>
MCSpec == MCInit /\ [][MCNext]_<<vars, requests, orphans>>

Symmetry == Permutations(Pids)
=============================================================================
