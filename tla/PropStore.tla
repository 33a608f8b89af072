------------------------------ MODULE PropStore ------------------------------
(***************************************************************************)
(* What the property trie promises: a set of names that only grows, and    *)
(* look-ups that take effect at one instant between call and return.       *)
(***************************************************************************)
CONSTANTS Names, Readers

VARIABLES props,   \* the names that have a prop_info
          lookup   \* each reader: the name it looks up, or the answer

TypeOK ==
  /\ props \subseteq Names
  /\ lookup \in [Readers -> {<<"idle">>} \cup ({"asked", "present", "absent"} \X Names)]

Init == props = {} /\ lookup = [r \in Readers |-> <<"idle">>]

Add(n) == props' = props \cup {n} /\ UNCHANGED lookup

Ask(r, n) ==
  /\ lookup[r][1] # "asked"
  /\ lookup' = [lookup EXCEPT ![r] = <<"asked", n>>]
  /\ UNCHANGED props

Answer(r) ==
  /\ lookup[r][1] = "asked"
  /\ LET n == lookup[r][2]
     IN lookup' = [lookup EXCEPT ![r] = <<IF n \in props THEN "present" ELSE "absent", n>>]
  /\ UNCHANGED props

Forget(r) ==
  /\ lookup[r][1] # "asked"
  /\ lookup' = [lookup EXCEPT ![r] = <<"idle">>]
  /\ UNCHANGED props

Next ==
  \/ \E n \in Names : Add(n)
  \/ \E r \in Readers : Answer(r) \/ Forget(r) \/ \E n \in Names : Ask(r, n)

Spec == Init /\ [][Next]_<<props, lookup>>
=============================================================================
