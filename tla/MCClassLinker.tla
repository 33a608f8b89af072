---------------------------- MODULE MCClassLinker ----------------------------
(* A bounded instance of ClassLinker for TLC.  S is a boot class; C of the *)
(* application extends it and implements I, as E does, and the <clinit> of *)
(* I uses C; that of P uses its subclass Q; A and B extend each other, X   *)
(* and the interface J themselves.  Each thread makes one call; what the   *)
(* threads ask for has something in common.                                *)
EXTENDS ClassLinker

CONSTANT Asks       \* lists of what threads ask for together
VARIABLE asks       \* each thread: what it still asks for

MCDescs == {"S", "S[]", "C", "E", "I", "K", "P", "Q", "D", "A", "B", "X", "J"}
MCPath == [l \in Loaders |-> IF l = Boot THEN {"S"} ELSE MCDescs \ {"S[]"}]
MCSupers == [d \in MCDescs |->
  CASE d = "S[]" -> <<"S">> [] d = "C" -> <<"S", "I">> [] d = "E" -> <<"I">> [] d = "I" -> <<"K">> [] d = "Q" -> <<"P", "D">>
    [] d = "A" -> <<"B">> [] d = "B" -> <<"A">> [] d \in {"X", "J"} -> <<d>> [] OTHER -> <<>>]
MCUses == [d \in MCDescs |-> CASE d \in {"C", "I"} -> "C" [] d = "P" -> "Q" [] OTHER -> NULL]
MCAsks == {<<<<"S", Boot>>, <<"S[]", Boot>>, <<"S[]", App>>>>, <<<<"S", Boot>>, <<"C", App>>, <<"I", App>>>>,
           <<<<"I", App>>, <<"E", App>>>>, <<<<"P", App>>, <<"Q", App>>>>, <<<<"A", App>>, <<"B", App>>>>,
           <<<<"X", App>>, <<"C", Boot>>>>, <<<<"J", App>>>>}

(* The threads are alike: the second asks for the same, or for something later. *)
MCInit ==
  /\ Init
  /\ \E g \in Asks : \E i, j \in DOMAIN g :
       i <= j /\ asks = [t \in Threads |-> IF t = "t1" THEN <<g[i]>> ELSE <<g[j]>>]
MCNext ==
  \E t \in Threads :
    \/ Step(t) /\ UNCHANGED asks
    \/ aborted = NULL /\ Spurious(t) /\ UNCHANGED asks
    \/ /\ aborted = NULL /\ asks[t] # <<>>
       /\ Begin(t, Head(asks[t])[1], Head(asks[t])[2])
       /\ asks' = [asks EXCEPT ![t] = Tail(@)]
MCSpec == MCInit /\ [][MCNext]_<<vars, asks>> /\ Fairness
=============================================================================
