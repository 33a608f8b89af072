----------------------------- MODULE MCPropTrie -----------------------------
(* A bounded instance of PropTrie for TLC: names that share tokens and     *)
(* contexts, areas too small for all of them.                              *)
EXTENDS PropTrie

CONSTANT MaxCalls   \* calls of each reader, and adds of init
VARIABLE calls

MCNames == {<<2>>, <<2, 1>>, <<1>>, <<3, 2>>, <<2, 0>>, <<3, 1>>}
MCLines == <<[prefix |-> "2", len |-> 1, context |-> "c1"],
             [prefix |-> "*", len |-> 1, context |-> "c1"],
             [prefix |-> "ctl.", len |-> 4, context |-> "c1"],
             [prefix |-> "3.", len |-> 2, context |-> "c1"],
             [prefix |-> "3.1", len |-> 3, context |-> "c2"]>>
MCMatches == [p \in {"2", "*", "ctl.", "3.", "3.1"} |->
  CASE p = "2" -> {<<2>>, <<2, 1>>, <<2, 0>>}
    [] p = "*" -> MCNames
    [] p = "ctl." -> {}
    [] p = "3." -> {<<3, 2>>, <<3, 1>>}
    [] p = "3.1" -> {<<3, 1>>}]

MCInit == Init /\ calls = [t \in Threads |-> 0]
Counted(t, A) == A /\ calls[t] < MaxCalls[t] /\ calls' = [calls EXCEPT ![t] = @ + 1]
MCNext ==
  \/ ReadLine /\ UNCHANGED calls
  \/ InitStep /\ UNCHANGED calls
  \/ \E r \in Readers : ReaderStep(r) /\ UNCHANGED calls
  \/ \E n \in Names, t \in Threads : Counted(t, Begin(t, n))
  \/ \E r \in Readers : Counted(r, BeginForeach(r))
MCSpec == MCInit /\ [][MCNext]_<<vars, calls>> /\ Fairness
MCMaxCalls == [t \in Threads |-> IF t = Init_ THEN 4 ELSE 1]
=============================================================================
