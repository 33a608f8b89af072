------------------------------ MODULE MCActions ------------------------------
(* A bounded instance of Actions: boot actions that wait, exec, import and *)
(* trigger, and actions on one property, on two and on any value.          *)
EXTENDS Actions, TLC

CONSTANT MaxEvents    \* property sets by clients, service starts and exits
VARIABLE events

MCActs == {"boot", "late", "on p", "on p and q", "on svc", "on q", "boot too", "on mount"}
MCEvents == {"late-init", "late", "encrypt", "defaultcrypto", "nonencrypted"}
MCEvent == [a \in MCActs |-> CASE a \in {"boot", "boot too"} -> "late-init"
                               [] a = "late" -> "nonencrypted"
                               [] OTHER -> ""]
MCConds == ("boot" :> NoCond) @@ ("late" :> ("p" :> "1")) @@ ("on p" :> ("p" :> "1"))
           @@ ("on p and q" :> ("p" :> "1" @@ "q" :> "1"))
           @@ ("on svc" :> ("svc" :> "*")) @@ ("on q" :> ("q" :> "*"))
           @@ ("boot too" :> NoCond) @@ ("on mount" :> (MountTime :> "*"))
MCScript ==
     ("boot" :> <<[op |-> "trigger", name |-> "late"],
                  [op |-> "mount_all", import |-> "on q", early |-> TRUE],
                  [op |-> "mount_all", import |-> "boot too", early |-> FALSE]>>)
  @@ ("boot too" :> <<[op |-> "wait_for_prop", name |-> "p", value |-> "1"]>>)
  @@ ("late" :> <<[op |-> "exec"]>>)
  @@ ("on p" :> <<[op |-> "setprop", name |-> "q", value |-> "1"]>>)
  @@ ("on p and q" :> <<[op |-> "other"], [op |-> "setprop", name |-> "p", value |-> "0"]>>)
  @@ ("on svc" :> <<[op |-> "other"]>>)
  @@ ("on q" :> <<[op |-> "other"]>>) @@ ("on mount" :> <<[op |-> "other"]>>)
MCLoaded == <<"boot", "late", "on p", "on p and q", "on svc", "on mount">>
MCBoot == <<"late-init">>
MCNames == {"p", "q", "svc", MountTime, CryptoState, CryptoType}
MCValues == {"", "0", "1", "running", "stopped",
             "encrypted", "unencrypted", "unsupported", "block", "file"}

(* Select is SelectSeq. *)
ASSUME SelectAssumption ==
  \A n \in 0 .. 3 : \A s \in [1 .. n -> 1 .. 3] : \A S \in SUBSET (1 .. 3) :
    Select(s, S) = SelectSeq(s, LAMBDA x : x \in S)

Counted(A) == A /\ events < MaxEvents /\ events' = events + 1
Starts == \E n \in SvcProps : props[n] # "running" /\ props'[n] = "running"
MCInit == Init /\ events = 0
MCNext ==
  \/ Loop /\ ~ Starts /\ UNCHANGED events
  \/ Counted(RestartStep /\ Starts)
  \/ ExecEnds /\ UNCHANGED events
  \/ \E n \in SvcProps : Counted(ServiceExits(n))
  \/ \E n \in {"p", "q"}, v \in {"0", "1"} : Counted(PropertyEvent(n, v))
MCSpec == MCInit /\ [][MCNext]_<<vars, events>> /\ WF_<<vars, events>>(Loop /\ ~ Starts /\ UNCHANGED events)
=============================================================================
