-------------------------- MODULE MCPropertyService --------------------------
(* Bounded instances of PropertyService for TLC: a property of every kind, *)
(* a default and a factory file for the persistent one, and its name as a  *)
(* value that a client of the old protocol asks for.  Calls bound the      *)
(* clients, crashes and loads are counted.                                 *)
EXTENDS PropertyService, TLC

CONSTANT MaxCrashes, MaxLoads
VARIABLES crashes, loads

MCNames == {"ro.a", "persist.a", "ctl.start", "a..b"}
MCValues == {"x", "y", "persist.a", "default", "override", "factory", "long"}
MCAsked ==
  {[by |-> c, name |-> "persist.a", value |-> "x"] : c \in Old} \cup
  {[by |-> c, name |-> n, value |-> "y"] :
     c \in Clients \ Old, n \in {"persist.a", "ro.a", "ctl.start", "a..b"}} \cup
  {[by |-> c, name |-> "ro.a", value |-> "persist.a"] : c \in Old}
MCFewAsked == [by : Clients, name : {"persist.a"}, value : {"x"}]
MCDefaults == <<[name |-> "ro.a", value |-> "long"], [name |-> "ro.a", value |-> "default"],
                [name |-> "persist.a", value |-> "default"]>>
MCOverrides == <<[name |-> "persist.a", value |-> "override"]>>
MCFactory == [n \in {"persist.a"} |-> "factory"]
MCAllowed == (Clients \X {"ro.a", "persist.a"}) \cup ((Clients \ Old) \X {"y"})
MCControls == Clients \X {"y"}

(* Bound: the property area fills up only after boot. *)
BootHasRoom == ~ listening /\ pc = "run" /\ todo' # todo => mem' # mem \/ Head(todo).value \in Long

MCInit == Init /\ crashes = 0 /\ loads = 0
MCNext ==
  \/ Crash /\ crashes < MaxCrashes /\ crashes' = crashes + 1 /\ UNCHANGED loads
  \/ LoadPersistProps /\ loads < MaxLoads /\ loads' = loads + 1 /\ UNCHANGED crashes
  \/ /\ \/ Set \/ Handle
        \/ \E n \in Persist : Writeback(n)
        \/ \E k \in Calls :
             \/ ClientStep(k)
             \/ \E r \in Asked : Connect(k, r)
     /\ BootHasRoom
     /\ UNCHANGED <<crashes, loads>>
MCSpec == MCInit /\ [][MCNext]_<<vars, crashes, loads>>
MCFairSpec == MCSpec /\ Fairness

Symmetry == Permutations(Calls)
=============================================================================
