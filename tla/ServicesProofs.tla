--------------------------- MODULE ServicesProofs ---------------------------
(***************************************************************************)
(* Proofs about Services for every set of services, every onrestart        *)
(* script, every number of processes and every capacity of the socket.     *)
(***************************************************************************)
EXTENDS Services, SequenceTheorems, TLAPS

(* The type of what a call on a service can change. *)
CallType ==
  /\ flags \in [All -> SUBSET Flags]
  /\ pid \in [All -> Pids \cup {NoPid}]
  /\ proc \in [Pids -> Procs]
  /\ svcprop \in [Names -> {"", "running", "stopping", "stopped", "restarting"}]
  /\ throttled \in [Names -> BOOLEAN]
  /\ request \in [Names -> {"none", "start", "stop", "restart", "failed"}]
  /\ waiter \in BOOLEAN
  /\ execing \in SUBSET All

(* The type of the rest. *)
LoopType ==
  /\ window \in [Names -> BOOLEAN]
  /\ crashes \in [Names -> 0 .. CrashLimit + 1]
  /\ status # "panic" => \A s \in Names : crashes[s] <= CrashLimit
  /\ reaping \in BOOLEAN /\ sigchld \in BOOLEAN
  /\ work \in Seq(Calls)
  /\ sock \in 0 .. SockCap
  /\ status \in {"up", "panic", "segv"}

(* PidsAreOwn without its condition. *)
Own ==
  /\ \A p \in Pids : proc[p].svc # NoSvc => pid[proc[p].svc] = p
  /\ \A s \in All : pid[s] # NoPid => proc[pid[s]].svc = s
  /\ \A s \in All : "RUNNING" \in flags[s] <=> pid[s] # NoPid

(* init.svc.<name> says whether the service has a process. *)
Agrees(s) == svcprop[s] \in {"running", "stopping"} <=> pid[s] # NoPid

(* While onrestart commands run, the service they were given for is the    *)
(* last entry of work and has no process, and none of them is for it.      *)
WorkInv ==
  \A i \in 1 .. Len(work) : work[i].op = "restarted" =>
    /\ i = Len(work)
    /\ pid[work[i].svc] = NoPid
    /\ \A j \in 1 .. Len(work) : j # i => work[j].svc # work[i].svc

(* No service has an onrestart command for itself. *)
OnRestartOthers ==
  \A s \in Names : \A i \in 1 .. Len(OnRestart[s]) : OnRestart[s][i].svc # s

IInv == TypeOK /\ PidsAreOwn /\ SigchldNotLost /\ StopSticks

(* What a call on s leaves true of every service. *)
CallKeeps(s) ==
  /\ CallType' /\ Own' /\ StopSticks'
  /\ Zombies' \subseteq Zombies
  /\ \A x \in Names : Agrees(x) => Agrees(x)'
  /\ \A x \in All : x # s => pid'[x] = pid[x]

-----------------------------------------------------------------------------
USE NamesAssumption, PidsAssumption DEF All

(* The type invariant in two parts: what calls of Service change, and the loop around them. *)
LEMMA TypeParts == TypeOK <=> CallType /\ LoopType
  BY DEF TypeOK, CallType, LoopType

(* Start never forks for a service that is running, and says so.           *)
LEMMA StartFacts ==
  ASSUME NEW f \in SUBSET Flags, NEW r \in StartResults(f)
  PROVE  /\ r.ok \in BOOLEAN /\ r.flags \in SUBSET Flags
         /\ r.ok => "RUNNING" \notin f /\ "RUNNING" \in r.flags
         /\ ~ r.ok => ("RUNNING" \in r.flags <=> "RUNNING" \in f)
  <1>. DEFINE g == f \ {"DISABLED", "RESTARTING", "RESET", "RESTART", "DISABLED_START"}
  <1>1. g \in SUBSET Flags /\ ("RUNNING" \in g <=> "RUNNING" \in f)
    OBVIOUS
  <1>2. g \cup {"DISABLED"} \in SUBSET Flags /\ g \cup {"RUNNING"} \in SUBSET Flags
    BY <1>1 DEF Flags, ConfigFlags
  <1>. HIDE DEF g
  <1>3. CASE "RUNNING" \in g
    <2>1. r = [ok |-> FALSE, flags |-> g]
      BY <1>3 DEF StartResults, g
    <2>. QED BY <1>1, <1>3, <2>1
  <1>4. CASE "RUNNING" \notin g
    <2>1. \/ r = [ok |-> FALSE, flags |-> g \cup {"DISABLED"}]
          \/ r = [ok |-> FALSE, flags |-> g]
          \/ r = [ok |-> TRUE, flags |-> g \cup {"RUNNING"}]
      BY <1>4 DEF StartResults, g
    <2>2. CASE r = [ok |-> FALSE, flags |-> g \cup {"DISABLED"}]
      BY <1>1, <1>2, <1>4, <2>2
    <2>3. CASE r = [ok |-> FALSE, flags |-> g]
      BY <1>1, <1>4, <2>3
    <2>4. CASE r = [ok |-> TRUE, flags |-> g \cup {"RUNNING"}]
      BY <1>1, <1>2, <1>4, <2>4
    <2>. QED BY <2>1, <2>2, <2>3, <2>4
  <1>. QED BY <1>3, <1>4

(* The fields of a child's entry. *)
LEMMA ProcFacts ==
  /\ Free.st = "free" /\ Free.svc = NoSvc
  /\ \A x \in Procs : /\ x.st \in {"free", "run", "dying", "zombie"}
                      /\ x.svc \in All \cup {NoSvc}
                      /\ x.st = "free" => x = Free
  /\ \A st \in {"run", "dying", "zombie"}, s \in All \cup {NoSvc} :
       [st |-> st, svc |-> s] \in Procs
  BY DEF Free, Procs

(* Recording the outcome of Start on s, with or without a new process.     *)
LEMMA ApplyStartKeeps ==
  ASSUME CallType, Own, StopSticks, NEW s \in All, NEW f \in SUBSET Flags,
         "RUNNING" \in f <=> "RUNNING" \in flags[s],
         NEW r \in StartResults(f), ApplyStart(s, r),
         waiter' \in BOOLEAN, execing' \in SUBSET All
  PROVE  CallKeeps(s)
  <1>1. /\ r.ok \in BOOLEAN /\ r.flags \in SUBSET Flags
        /\ r.ok => "RUNNING" \notin flags[s] /\ "RUNNING" \in r.flags
        /\ ~ r.ok => ("RUNNING" \in r.flags <=> "RUNNING" \in flags[s])
    BY StartFacts
  <1>2. flags' = [flags EXCEPT ![s] = r.flags]
    BY DEF ApplyStart
  <1>3. request' \in [Names -> {"none", "start", "stop", "restart", "failed"}]
        /\ \A x \in Names : request'[x] = "stop" => x # s /\ request[x] = "stop"
    BY DEF ApplyStart, CallType
  <1>4. CASE ~ r.ok
    <2>1. UNCHANGED <<pid, proc, throttled, svcprop>>
      BY <1>4 DEF ApplyStart
    <2>2. CallType'
      BY <1>1, <1>2, <1>3, <2>1 DEF CallType
    <2>3. Own'
      BY <1>1, <1>2, <1>4, <2>1 DEF CallType, Own
    <2>4. StopSticks'
      BY <1>2, <1>3, <2>1 DEF CallType, StopSticks
    <2>. QED BY <2>1, <2>2, <2>3, <2>4 DEF CallKeeps, Zombies, Agrees
  <1>5. CASE r.ok
    <2>1. PICK p \in Pids : /\ proc[p] = Free
                            /\ proc' = [proc EXCEPT ![p] = [st |-> "run", svc |-> s]]
                            /\ pid' = [pid EXCEPT ![s] = p]
      BY <1>5 DEF ApplyStart, Fork
    <2>2. /\ s \in Temps => UNCHANGED <<throttled, svcprop>>
          /\ s \in Names => /\ throttled' = [throttled EXCEPT ![s] = TRUE]
                            /\ svcprop' = [svcprop EXCEPT ![s] = "running"]
      BY <1>5 DEF ApplyStart
    <2>3. pid[s] = NoPid
      BY <1>1, <1>5 DEF Own
    <2>4. proc' \in [Pids -> Procs]
      BY <2>1 DEF CallType, Procs
    <2>5. CallType'
      BY <1>1, <1>2, <1>3, <2>1, <2>2, <2>4 DEF CallType
    <2>6. \A x \in All : pid[x] # NoPid => pid[x] # p /\ pid[x] \in Pids
      <3>1. proc[p].svc = NoSvc
        BY <2>1, ProcFacts
      <3>2. \A x \in All : pid[x] # NoPid => pid[x] \in Pids
        BY DEF CallType
      <3>3. \A x \in All : pid[x] # NoPid => proc[pid[x]].svc = x /\ x # NoSvc
        BY DEF Own
      <3>. QED BY <3>1, <3>2, <3>3
    <2>7. \A q \in Pids : proc[q].svc # s
      BY <2>3 DEF Own
    <2>8. \A q \in Pids : proc'[q] = IF q = p THEN [st |-> "run", svc |-> s] ELSE proc[q]
      BY <2>1 DEF CallType
    <2>9. \A x \in All : pid'[x] = IF x = s THEN p ELSE pid[x]
      BY <2>1 DEF CallType
    <2>10. Own'
      <3>1. \A q \in Pids : proc'[q].svc # NoSvc => pid'[proc'[q].svc] = q
        <4>. SUFFICES ASSUME NEW q \in Pids, proc'[q].svc # NoSvc
                      PROVE  pid'[proc'[q].svc] = q
          OBVIOUS
        <4>1. CASE q = p
          BY <4>1, <2>8, <2>9
        <4>2. CASE q # p
          <5>1. proc'[q] = proc[q] /\ proc[q].svc \in All /\ proc[q].svc # s
            BY <4>2, <2>7, <2>8, ProcFacts DEF CallType
          <5>. QED BY <5>1, <2>9 DEF Own
        <4>. QED BY <4>1, <4>2
      <3>2. \A x \in All : pid'[x] # NoPid => proc'[pid'[x]].svc = x
        BY <2>6, <2>8, <2>9 DEF Own
      <3>3. \A x \in All : "RUNNING" \in flags'[x] <=> pid'[x] # NoPid
        <4>1. "RUNNING" \in r.flags
          BY <1>1, <1>5
        <4>2. \A x \in All : flags'[x] = IF x = s THEN r.flags ELSE flags[x]
          BY <1>2 DEF CallType
        <4>. QED BY <4>1, <4>2, <2>9 DEF Own
      <3>. QED BY <3>1, <3>2, <3>3 DEF Own
    <2>11. StopSticks'
      BY <1>2, <1>3, <2>6, <2>8, <2>9, ZenonT(40) DEF CallType, StopSticks
    <2>12. Zombies' \subseteq Zombies
      BY <2>8 DEF Zombies
    <2>13. \A x \in Names : Agrees(x) => Agrees(x)'
      BY <2>2, <2>9 DEF Agrees, CallType
    <2>. QED BY <2>5, <2>9, <2>10, <2>11, <2>12, <2>13 DEF CallKeeps
  <1>. QED BY <1>1, <1>4, <1>5

(* A child changes state and stays the child it was. *)
LEMMA ChildMoves ==
  ASSUME proc \in [Pids -> Procs], NEW p \in Pids, proc[p].st # "free",
         NEW st \in {"run", "dying", "zombie"}, proc' = [proc EXCEPT ![p].st = st]
  PROVE  /\ proc' \in [Pids -> Procs]
         /\ \A q \in Pids : /\ proc'[q].svc = proc[q].svc
                            /\ proc'[q].st = IF q = p THEN st ELSE proc[q].st
  <1>1. proc[p] \in [st : {"run", "dying", "zombie"}, svc : All \cup {NoSvc}]
    BY DEF Procs, Free
  <1>2. PICK y \in All \cup {NoSvc} : y = proc[p].svc
    BY <1>1
  <1>3. [proc[p] EXCEPT !.st = st] = [st |-> st, svc |-> y]
    BY <1>1, <1>2
  <1>4. proc' = [proc EXCEPT ![p] = [st |-> st, svc |-> y]]
    BY <1>3
  <1>5. [st |-> st, svc |-> y] \in Procs
    BY ProcFacts
  <1>6. \A q \in Pids : proc'[q] = IF q = p THEN [st |-> st, svc |-> y] ELSE proc[q]
    BY <1>4
  <1>7. proc' \in [Pids -> Procs]
    BY <1>4, <1>5
  <1>8. ASSUME NEW q \in Pids
        PROVE  proc'[q].svc = proc[q].svc /\ proc'[q].st = IF q = p THEN st ELSE proc[q].st
    BY <1>6, <1>2
  <1>. QED BY <1>7, <1>8

(* A stop, reset or restart kills the service's process and leaves pid_    *)
(* to Reap.                                                                *)
LEMMA StopOrResetKeeps ==
  ASSUME CallType, Own, StopSticks, NEW s \in Names,
         NEW how \in {"DISABLED", "RESET", "RESTART"}, StopOrReset(s, how),
         UNCHANGED <<waiter, execing>>
  PROVE  CallKeeps(s)
  <1>. DEFINE f == flags[s] \ {"RESTARTING", "DISABLED_START"}
              flag == IF how = "RESET" /\ "RC_DISABLED" \in f THEN "DISABLED" ELSE how
  <1>1. /\ flags' = [flags EXCEPT ![s] = f \cup {flag}]
        /\ request' = [request EXCEPT ![s] = IF how = "RESTART" THEN "restart" ELSE "stop"]
        /\ UNCHANGED <<pid, throttled>>
    BY DEF StopOrReset
  <1>2. /\ f \cup {flag} \in SUBSET Flags
        /\ "RUNNING" \in f \cup {flag} <=> "RUNNING" \in flags[s]
        /\ "RESTARTING" \notin f \cup {flag}
        /\ how # "RESTART" => (f \cup {flag}) \cap {"DISABLED", "RESET"} # {}
    BY DEF CallType, Flags, ConfigFlags
  <1>. HIDE DEF f, flag
  <1>3. \A x \in All : flags'[x] = IF x = s THEN f \cup {flag} ELSE flags[x]
    BY <1>1 DEF CallType
  <1>4. /\ proc' \in [Pids -> Procs]
        /\ \A q \in Pids : /\ proc'[q].svc = proc[q].svc
                           /\ proc'[q].st = proc[q].st \/ proc'[q].st = "dying"
        /\ pid[s] # NoPid => proc'[pid[s]].st # "run"
    <2>1. CASE pid[s] # NoPid /\ proc[pid[s]].st = "run"
      <3>1. PICK p \in Pids : p = pid[s]
        BY <2>1 DEF CallType
      <3>2. proc' = [proc EXCEPT ![p].st = "dying"] /\ proc[p].st # "free"
        BY <2>1, <3>1 DEF StopOrReset, Kill
      <3>3. proc \in [Pids -> Procs]
        BY DEF CallType
      <3>4. /\ proc' \in [Pids -> Procs]
            /\ \A q \in Pids : /\ proc'[q].svc = proc[q].svc
                               /\ proc'[q].st = IF q = p THEN "dying" ELSE proc[q].st
        BY <3>2, <3>3, ChildMoves
      <3>. QED BY <3>1, <3>4
    <2>2. CASE ~ (pid[s] # NoPid /\ proc[pid[s]].st = "run")
      <3>1. proc' = proc
        BY <2>2 DEF StopOrReset, Kill
      <3>. QED BY <2>2, <3>1 DEF CallType
    <2>. QED BY <2>1, <2>2
  <1>5. svcprop' = [svcprop EXCEPT ![s] = IF pid[s] # NoPid THEN "stopping" ELSE "stopped"]
    BY DEF StopOrReset
  <1>6. CallType'
    BY <1>1, <1>2, <1>4, <1>5 DEF CallType
  <1>7. Own'
    <2>1. \A q \in Pids : proc'[q].svc # NoSvc => pid'[proc'[q].svc] = q
      BY <1>1, <1>4 DEF Own
    <2>2. \A x \in All : pid'[x] # NoPid => proc'[pid'[x]].svc = x
      <3>1. \A x \in All : pid[x] # NoPid => pid[x] \in Pids
        BY DEF CallType
      <3>2. \A x \in All : pid[x] # NoPid => proc[pid[x]].svc = x
        BY DEF Own
      <3>3. \A x \in All : pid'[x] = pid[x]
        BY <1>1
      <3>. QED BY <1>4, <3>1, <3>2, <3>3
    <2>3. \A x \in All : "RUNNING" \in flags'[x] <=> pid'[x] # NoPid
      BY <1>1, <1>2, <1>3 DEF Own
    <2>. QED BY <2>1, <2>2, <2>3 DEF Own
  <1>8. StopSticks'
    <2>. SUFFICES ASSUME NEW x \in Names, request'[x] = "stop"
                  PROVE  /\ "RESTARTING" \notin flags'[x]
                         /\ flags'[x] \cap {"DISABLED", "RESET"} # {}
                         /\ pid'[x] # NoPid => proc'[pid'[x]].st # "run"
      BY DEF StopSticks
    <2>1. CASE x = s
      <3>1. how # "RESTART"
        BY <1>1, <2>1 DEF CallType
      <3>. QED BY <2>1, <3>1, <1>1, <1>2, <1>3, <1>4
    <2>2. CASE x # s
      <3>1. request[x] = "stop" /\ flags'[x] = flags[x] /\ pid'[x] = pid[x]
        BY <1>1, <1>3, <2>2 DEF CallType
      <3>2. pid[x] # NoPid => pid[x] \in Pids /\ proc[pid[x]].st # "run"
        BY <3>1 DEF StopSticks, CallType
      <3>. QED BY <3>1, <3>2, <1>4 DEF StopSticks
    <2>. QED BY <2>1, <2>2
  <1>9. Zombies' \subseteq Zombies
    BY <1>4 DEF Zombies
  <1>10. \A x \in Names : Agrees(x) => Agrees(x)'
    BY <1>1, <1>5 DEF Agrees, CallType
  <1>. QED BY <1>1, <1>6, <1>7, <1>8, <1>9, <1>10 DEF CallKeeps

(* Start, on flags that differ from the service's in other bits than       *)
(* SVC_RUNNING.                                                            *)
LEMMA StartKeeps ==
  ASSUME CallType, Own, StopSticks, NEW s \in Names, NEW f \in SUBSET Flags,
         "RUNNING" \in f <=> "RUNNING" \in flags[s],
         Start(s, f), UNCHANGED <<waiter, execing>>
  PROVE  CallKeeps(s)
  <1>1. PICK r \in StartResults(f) : ApplyStart(s, r)
    BY DEF Start
  <1>2. waiter' \in BOOLEAN /\ execing' \in SUBSET All
    BY DEF CallType
  <1>. QED BY <1>1, <1>2, ApplyStartKeeps

(* Every call on a service, by a command, a control message or a handler. *)
LEMMA CallKeepsAll ==
  ASSUME CallType, Own, StopSticks, NEW s \in Names, NEW op, Call(op, s)
  PROVE  CallKeeps(s)
  <1>. flags[s] \in SUBSET Flags
    BY DEF CallType
  <1>1. CASE op = "exec_start" /\ ExecStart(s)
    <2>. DEFINE f == flags[s] \cup {"EXEC", "ONESHOT"}
    <2>1. PICK r \in StartResults(f) :
            /\ ApplyStart(s, r)
            /\ waiter' = r.ok
            /\ execing' = IF r.ok THEN execing \cup {s} ELSE execing
      BY <1>1 DEF ExecStart
    <2>2. f \in SUBSET Flags /\ ("RUNNING" \in f <=> "RUNNING" \in flags[s])
      BY DEF Flags, ConfigFlags
    <2>. HIDE DEF f
    <2>3. waiter' \in BOOLEAN /\ execing' \in SUBSET All
      <3>1. r.ok \in BOOLEAN
        BY <2>2, StartFacts
      <3>. QED BY <2>1, <3>1 DEF CallType
    <2>. QED BY <2>1, <2>2, <2>3, ApplyStartKeeps
  <1>2. CASE UNCHANGED <<waiter, execing>> /\ Start(s, flags[s])
    BY <1>2, StartKeeps
  <1>3. CASE UNCHANGED <<waiter, execing>>
             /\ \E how \in {"DISABLED", "RESET", "RESTART"} : StopOrReset(s, how)
    BY <1>3, StopOrResetKeeps
  <1>4. CASE UNCHANGED <<waiter, execing, svcVars>>
    BY <1>4 DEF CallKeeps, svcVars, CallType, Own, StopSticks, Zombies, Agrees
  <1>5. CASE UNCHANGED <<waiter, execing>> /\ op = "class_start" /\ StartIfNotDisabled(s)
    <2>1. CASE Start(s, flags[s])
      BY <1>5, <2>1, StartKeeps
    <2>2. CASE /\ flags' = [flags EXCEPT ![s] = @ \cup {"DISABLED_START"}]
               /\ UNCHANGED <<pid, proc, svcprop, throttled, request>>
      <3>1. flags[s] \cup {"DISABLED_START"} \in SUBSET Flags
        BY DEF Flags
      <3>2. \A x \in All : flags'[x] = IF x = s THEN flags[s] \cup {"DISABLED_START"}
                                                ELSE flags[x]
        BY <2>2 DEF CallType
      <3>3. CallType'
        BY <1>5, <2>2, <3>1 DEF CallType
      <3>4. Own'
        BY <2>2, <3>2 DEF Own
      <3>5. StopSticks'
        BY <2>2, <3>2 DEF StopSticks
      <3>. QED BY <2>2, <3>3, <3>4, <3>5 DEF CallKeeps, Zombies, Agrees
    <2>. QED BY <1>5, <2>1, <2>2 DEF StartIfNotDisabled
  <1>6. CASE UNCHANGED <<waiter, execing>> /\ op = "enable" /\ Enable(s)
    <2>. DEFINE f == flags[s] \ {"DISABLED", "RC_DISABLED"}
    <2>0. f \in SUBSET Flags /\ ("RUNNING" \in f <=> "RUNNING" \in flags[s])
      OBVIOUS
    <2>1. CASE Start(s, f)
      BY <1>6, <2>0, <2>1, StartKeeps
    <2>2. CASE /\ flags' = [flags EXCEPT ![s] = f]
               /\ request' = [request EXCEPT ![s] = "none"]
               /\ UNCHANGED <<pid, proc, svcprop, throttled>>
      <3>2. \A x \in All : flags'[x] = IF x = s THEN f ELSE flags[x]
        BY <2>2 DEF CallType
      <3>3. CallType'
        BY <1>6, <2>2, <2>0 DEF CallType
      <3>4. Own'
        BY <2>2, <2>0, <3>2 DEF Own
      <3>5. StopSticks'
        BY <2>2, <3>2 DEF StopSticks, CallType
      <3>. QED BY <2>2, <3>3, <3>4, <3>5 DEF CallKeeps, Zombies, Agrees
    <2>. QED BY <1>6, <2>1, <2>2 DEF Enable
  <1>. QED BY <1>1, <1>2, <1>3, <1>4, <1>5, <1>6 DEF Call, Restart

(* An exec command: a temporary service, or nothing. *)
LEMMA ExecKeeps ==
  ASSUME CallType, Own, StopSticks, NEW t \in Temps, Exec(t)
  PROVE  CallKeeps(t)
  <1>. DEFINE f == {"EXEC", "ONESHOT", "TEMPORARY"}
  <1>1. PICK r \in StartResults(f) :
          /\ IF r.ok THEN ApplyStart(t, r) ELSE UNCHANGED svcVars
          /\ waiter' = r.ok
          /\ execing' = IF r.ok THEN execing \cup {t} ELSE execing
    BY DEF Exec
  <1>2. f \in SUBSET Flags /\ ("RUNNING" \in f <=> "RUNNING" \in flags[t])
    BY DEF Exec, Flags, ConfigFlags
  <1>. HIDE DEF f
  <1>3. r.ok \in BOOLEAN
    BY <1>2, StartFacts
  <1>4. waiter' \in BOOLEAN /\ execing' \in SUBSET All
    BY <1>1, <1>3 DEF CallType
  <1>5. CASE r.ok
    BY <1>1, <1>2, <1>4, <1>5, ApplyStartKeeps
  <1>6. CASE ~ r.ok
    <2>1. UNCHANGED svcVars
      BY <1>1, <1>6
    <2>. QED BY <2>1, <1>4 DEF CallKeeps, svcVars, CallType, Own, StopSticks, Zombies, Agrees
  <1>. QED BY <1>3, <1>5, <1>6

-----------------------------------------------------------------------------
(* A service whose process has been waited for has no pid_ left, and no    *)
(* other service had the process.                                          *)
LEMMA ReapOwn ==
  ASSUME CallType, Own, NEW p \in Pids, NEW s \in All, pid[s] = p,
         NEW f \in SUBSET Flags, "RUNNING" \notin f,
         proc' = [proc EXCEPT ![p] = Free], pid' = [pid EXCEPT ![s] = NoPid],
         flags' = [flags EXCEPT ![s] = f]
  PROVE  Own'
  <1>1. \A q \in Pids : proc'[q] = IF q = p THEN Free ELSE proc[q]
    BY DEF CallType
  <1>2. \A x \in All : pid'[x] = IF x = s THEN NoPid ELSE pid[x]
    BY DEF CallType
  <1>3. \A x \in All : flags'[x] = IF x = s THEN f ELSE flags[x]
    BY DEF CallType
  <1>4. proc[p].svc = s
    BY DEF Own
  <1>5. \A q \in Pids : proc'[q].svc # NoSvc => pid'[proc'[q].svc] = q
    <2>. SUFFICES ASSUME NEW q \in Pids, proc'[q].svc # NoSvc
                  PROVE  pid'[proc'[q].svc] = q
      OBVIOUS
    <2>1. q # p /\ proc'[q] = proc[q]
      BY <1>1, ProcFacts
    <2>2. proc[q].svc \in All /\ pid[proc[q].svc] = q
      BY <2>1, ProcFacts DEF CallType, Own
    <2>. QED BY <2>1, <2>2, <1>2
  <1>6. \A x \in All : pid'[x] # NoPid => proc'[pid'[x]].svc = x
    <2>. SUFFICES ASSUME NEW x \in All, pid'[x] # NoPid
                  PROVE  proc'[pid'[x]].svc = x
      OBVIOUS
    <2>1. x # s /\ pid'[x] = pid[x]
      BY <1>2
    <2>2. pid[x] \in Pids /\ proc[pid[x]].svc = x
      <3>1. pid[x] \in Pids
        BY <2>1 DEF CallType
      <3>. QED BY <2>1, <3>1 DEF Own
    <2>3. pid[x] # p
      BY <1>4, <2>1, <2>2
    <2>. QED BY <1>1, <2>1, <2>2, <2>3
  <1>7. \A x \in All : "RUNNING" \in flags'[x] <=> pid'[x] # NoPid
    BY <1>2, <1>3 DEF Own
  <1>. QED BY <1>5, <1>6, <1>7 DEF Own

(* The crash count stays within its bound until init gives up. *)
LEMMA CountCrashType ==
  ASSUME LoopType, status = "up", NEW s \in Names, NEW f, CountCrash(s, f)
  PROVE  /\ window' \in [Names -> BOOLEAN]
         /\ crashes' \in [Names -> 0 .. CrashLimit + 1]
         /\ status' # "panic" => \A x \in Names : crashes'[x] <= CrashLimit
         /\ status' \in {"up", "panic", "segv"}
  <1>1. CrashLimit \in Nat \ {0}
    BY BoundsAssumption
  <1>2. \A x \in Names : crashes[x] \in 0 .. CrashLimit
    BY <1>1 DEF LoopType
  <1>3. CASE "CRITICAL" \in f /\ "RESTART" \notin f
    <2>1. /\ crashes' = [crashes EXCEPT ![s] = IF window[s] THEN @ + 1 ELSE 1]
          /\ window' = [window EXCEPT ![s] = TRUE]
          /\ status' = IF window[s] /\ crashes[s] + 1 > CrashLimit THEN "panic" ELSE status
      BY <1>3 DEF CountCrash
    <2>2. window' \in [Names -> BOOLEAN] /\ status' \in {"up", "panic", "segv"}
      BY <2>1 DEF LoopType
    <2>3. \A x \in Names : crashes'[x] = IF x = s THEN IF window[s] THEN crashes[s] + 1 ELSE 1
                                                  ELSE crashes[x]
      BY <2>1 DEF LoopType
    <2>4. crashes' \in [Names -> 0 .. CrashLimit + 1]
      BY <1>1, <1>2, <2>1 DEF LoopType
    <2>5. status' # "panic" => \A x \in Names : crashes'[x] <= CrashLimit
      BY <1>1, <1>2, <2>1, <2>3
    <2>. QED BY <2>2, <2>4, <2>5
  <1>4. CASE ~ ("CRITICAL" \in f /\ "RESTART" \notin f)
    BY <1>4 DEF CountCrash, LoopType
  <1>. QED BY <1>3, <1>4

(* Service::Reap of a service from the rc files. *)
LEMMA ReapKeeps ==
  ASSUME TypeOK, Own, StopSticks, status = "up", NEW p \in Pids, NEW s \in Names,
         pid[s] = p, proc' = [proc EXCEPT ![p] = Free], Reap(s),
         execing' = execing \ {s}, UNCHANGED <<throttled, request, sigVars>>
  PROVE  TypeOK' /\ Own' /\ StopSticks'
  <1>. DEFINE f == flags[s] \ {"RUNNING"}
              g == IF "ONESHOT" \in f /\ "RESTART" \notin f THEN f \cup {"DISABLED"} ELSE f
  <1>0. CallType /\ LoopType
    BY TypeParts
  <1>1. /\ g \in SUBSET Flags /\ "RUNNING" \notin g
        /\ g \cap {"DISABLED", "RESET"} = {} =>
             flags[s] \cap {"DISABLED", "RESET"} = {}
        /\ "RESTARTING" \in g => "RESTARTING" \in flags[s]
    BY <1>0 DEF CallType, Flags, ConfigFlags
  <1>2. (g \ {"RESTART"}) \cup {"RESTARTING"} \in SUBSET Flags
    BY <1>1 DEF Flags
  <1>3. pid' = [pid EXCEPT ![s] = NoPid]
    BY DEF Reap
  <1>4. /\ proc' \in [Pids -> Procs] /\ pid' \in [All -> Pids \cup {NoPid}]
        /\ \A q \in Pids : proc'[q].st = "run" => proc[q].st = "run"
    <2>1. Free \in Procs /\ Free.st # "run"
      BY DEF Procs, Free
    <2>. QED BY <1>0, <1>3, <2>1 DEF CallType
  <1>5. CASE g \cap {"DISABLED", "RESET"} # {}
    <2>1. /\ flags' = [flags EXCEPT ![s] = g]
          /\ svcprop' = [svcprop EXCEPT ![s] = "stopped"]
          /\ waiter' = (waiter /\ "EXEC" \notin g)
          /\ UNCHANGED <<crashVars, status, work>>
      BY <1>5 DEF Reap
    <2>. HIDE DEF g
    <2>2. TypeOK'
      <3>1. CallType'
        BY <1>0, <1>1, <1>4, <2>1 DEF CallType
      <3>2. LoopType'
        BY <1>0, <2>1 DEF LoopType, sigVars, crashVars
      <3>. QED BY <3>1, <3>2 DEF TypeOK, CallType, LoopType
    <2>3. Own'
      BY <1>0, <1>1, <1>3, <2>1, ReapOwn
    <2>4. StopSticks'
      BY <1>0, <1>1, <1>3, <1>4, <1>5, <2>1 DEF StopSticks, CallType
    <2>. QED BY <2>2, <2>3, <2>4
  <1>6. CASE g \cap {"DISABLED", "RESET"} = {}
    <2>1. /\ CountCrash(s, g)
          /\ flags' = [flags EXCEPT ![s] = (g \ {"RESTART"}) \cup {"RESTARTING"}]
          /\ work' = OnRestart[s] \o <<[op |-> "restarted", svc |-> s]>>
          /\ UNCHANGED <<svcprop, waiter>>
      BY <1>6 DEF Reap
    <2>0. request[s] # "stop"
      BY <1>1, <1>6 DEF StopSticks
    <2>. HIDE DEF g
    <2>2. TypeOK'
      <3>1. CallType'
        BY <1>0, <1>2, <1>4, <2>1 DEF CallType
      <3>2. work' \in Seq(Calls)
        <4>1. OnRestart[s] \in Seq(Calls)
          <5>1. [op : Ops \ {"restarted"}, svc : Names] \subseteq Calls
            BY DEF Calls
          <5>. QED BY <5>1, OnRestartAssumption, SeqMonotonic
        <4>2. <<[op |-> "restarted", svc |-> s]>> \in Seq(Calls)
          BY DEF Calls, Ops
        <4>. QED BY <2>1, <4>1, <4>2
      <3>3. LoopType'
        BY <1>0, <2>1, <3>2, CountCrashType DEF LoopType, sigVars
      <3>. QED BY <3>1, <3>3 DEF TypeOK, CallType, LoopType
    <2>3. Own'
      BY <1>0, <1>1, <1>2, <1>3, <2>1, ReapOwn
    <2>4. StopSticks'
      BY <1>0, <1>3, <1>4, <2>0, <2>1 DEF StopSticks, CallType
    <2>. QED BY <2>2, <2>3, <2>4
  <1>. QED BY <1>5, <1>6

(* ReapOneProcess, whoever the child was.  Own may end with init itself. *)
LEMMA ReapOneProcessKeeps ==
  ASSUME TypeOK, Own, StopSticks, status = "up", NEW p \in Pids, ReapOneProcess(p)
  PROVE  /\ TypeOK' /\ StopSticks' /\ reaping'
         /\ status' = "up" => Own'
  <1>0. CallType /\ LoopType
    BY TypeParts
  <1>1. /\ proc' = [proc EXCEPT ![p] = Free]
        /\ UNCHANGED <<throttled, request, sigVars>> /\ reaping'
    BY DEF ReapOneProcess, sigVars
  <1>2. /\ proc' \in [Pids -> Procs]
        /\ \A q \in Pids : proc'[q] = IF q = p THEN Free ELSE proc[q]
        /\ \A q \in Pids : proc'[q].st = "run" => proc[q].st = "run"
    <2>1. Free \in Procs /\ Free.st # "run"
      BY DEF Procs, Free
    <2>. QED BY <1>0, <1>1, <2>1 DEF CallType
  <1>3. CASE /\ Owner(p) = {}
             /\ UNCHANGED <<flags, pid, svcprop, crashVars, waiter, work, status, execing>>
    <2>1. CallType' /\ LoopType'
      BY <1>0, <1>1, <1>2, <1>3 DEF CallType, LoopType, sigVars, crashVars
    <2>2. StopSticks'
      BY <1>0, <1>1, <1>2, <1>3 DEF StopSticks, CallType
    <2>3. Own'
      <3>1. \A x \in All : pid[x] # p
        BY <1>3 DEF Owner
      <3>2. \A q \in Pids : proc'[q].svc # NoSvc => pid'[proc'[q].svc] = q
        <4>. SUFFICES ASSUME NEW q \in Pids, proc'[q].svc # NoSvc
                      PROVE  pid'[proc'[q].svc] = q
          OBVIOUS
        <4>1. proc'[q] = proc[q]
          BY <1>2, ProcFacts
        <4>. QED BY <1>3, <4>1 DEF Own
      <3>3. \A x \in All : pid'[x] # NoPid => proc'[pid'[x]].svc = x
        <4>. SUFFICES ASSUME NEW x \in All, pid[x] # NoPid
                      PROVE  proc'[pid[x]].svc = x
          BY <1>3
        <4>1. pid[x] \in Pids /\ pid[x] # p
          BY <1>0, <3>1 DEF CallType
        <4>2. proc'[pid[x]] = proc[pid[x]]
          BY <1>2, <4>1
        <4>. QED BY <4>2 DEF Own
      <3>. QED BY <1>3, <3>2, <3>3 DEF Own
    <2>. QED BY <1>1, <2>1, <2>2, <2>3 DEF TypeOK, CallType, LoopType
  <1>4. ASSUME NEW s \in Owner(p),
               status' = "segv",
               UNCHANGED <<flags, pid, svcprop, crashVars, waiter, work, execing>>
        PROVE  TypeOK' /\ StopSticks' /\ status' # "up"
    <2>1. CallType' /\ LoopType'
      BY <1>0, <1>1, <1>2, <1>4 DEF CallType, LoopType, sigVars, crashVars
    <2>2. StopSticks'
      BY <1>0, <1>1, <1>2, <1>4 DEF StopSticks, CallType
    <2>. QED BY <1>4, <2>1, <2>2 DEF TypeOK, CallType, LoopType
  <1>5. ASSUME NEW s \in Owner(p), s \in Temps, ReapTemporary(s), execing' = execing \ {s}
        PROVE  TypeOK' /\ StopSticks' /\ Own'
    <2>0. s \in All /\ s \notin Names /\ pid[s] = p
      BY <1>5 DEF Owner
    <2>1. /\ pid' = [pid EXCEPT ![s] = NoPid]
          /\ flags' = [flags EXCEPT ![s] = {}]
          /\ waiter' = FALSE
          /\ UNCHANGED <<svcprop, crashVars, status, work>>
      BY <1>5 DEF ReapTemporary
    <2>2. CallType' /\ LoopType'
      BY <1>0, <1>1, <1>2, <1>5, <2>1 DEF CallType, LoopType, sigVars, crashVars
    <2>3. StopSticks'
      <3>1. \A x \in Names : flags'[x] = flags[x] /\ pid'[x] = pid[x]
        BY <1>0, <2>0, <2>1 DEF CallType
      <3>2. \A x \in Names : pid[x] # NoPid => pid[x] \in Pids
        BY <1>0 DEF CallType
      <3>. QED BY <1>1, <1>2, <3>1, <3>2 DEF StopSticks
    <2>4. Own'
      <3>1. {} \in SUBSET Flags /\ "RUNNING" \notin {}
        OBVIOUS
      <3>. QED BY <1>0, <1>1, <2>0, <2>1, <3>1, ReapOwn
    <2>. QED BY <2>2, <2>3, <2>4 DEF TypeOK, CallType, LoopType
  <1>6. ASSUME NEW s \in Owner(p), s \in Names, Reap(s), execing' = execing \ {s}
        PROVE  TypeOK' /\ StopSticks' /\ Own'
    <2>1. pid[s] = p
      BY DEF Owner
    <2>. QED BY <1>1, <1>6, <2>1, ReapKeeps
  <1>7. CASE Owner(p) # {}
    <2>1. PICK s \in Owner(p) :
            IF "EXEC" \in flags[s] /\ ~ waiter
              THEN /\ status' = "segv"
                   /\ UNCHANGED <<flags, pid, svcprop, crashVars, waiter, work, execing>>
              ELSE /\ execing' = execing \ {s}
                   /\ IF s \in Temps THEN ReapTemporary(s) ELSE Reap(s)
      BY <1>7 DEF ReapOneProcess
    <2>2. s \in Temps \/ s \in Names
      BY DEF Owner
    <2>. QED BY <1>1, <1>4, <1>5, <1>6, <2>1, <2>2
  <1>8. CASE Owner(p) = {}
    BY <1>1, <1>3, <1>8 DEF ReapOneProcess, TypeOK, CallType, LoopType
  <1>. QED BY <1>7, <1>8

(* A child's exit, of a service or an orphan, always leaves SIGCHLD        *)
(* pending.                                                                *)
LEMMA KernelKeeps ==
  ASSUME TypeOK, Own, StopSticks, NEW p \in Pids, Kernel(p)
  PROVE  TypeOK' /\ Own' /\ StopSticks' /\ sigchld'
  <1>0. CallType /\ LoopType
    BY TypeParts
  <1>1. /\ UNCHANGED <<flags, pid, svcprop, throttled, request, crashVars, sock, reaping,
                       waiter, work, status, execing>>
        /\ sigchld' = TRUE
    BY DEF Kernel, Exit, OrphanExits
  <1>2. /\ proc' \in [Pids -> Procs]
        /\ \A q \in Pids : proc'[q].svc = proc[q].svc
        /\ \A q \in Pids : proc'[q].st = "run" => proc[q].st = "run"
    <2>1. CASE Exit(p)
      <3>1. proc \in [Pids -> Procs] /\ proc[p].st # "free"
            /\ proc' = [proc EXCEPT ![p].st = "zombie"]
        BY <1>0, <2>1 DEF Exit, CallType
      <3>2. /\ proc' \in [Pids -> Procs]
            /\ \A q \in Pids : /\ proc'[q].svc = proc[q].svc
                               /\ proc'[q].st = IF q = p THEN "zombie" ELSE proc[q].st
        BY <3>1, ChildMoves
      <3>. QED BY <3>2
    <2>2. CASE OrphanExits(p)
      <3>1. /\ proc[p] = Free
            /\ proc' = [proc EXCEPT ![p] = [st |-> "zombie", svc |-> NoSvc]]
        BY <2>2 DEF OrphanExits
      <3>2. [st |-> "zombie", svc |-> NoSvc] \in Procs
        BY ProcFacts
      <3>3. \A q \in Pids : proc'[q] = IF q = p THEN [st |-> "zombie", svc |-> NoSvc]
                                                ELSE proc[q]
        BY <1>0, <3>1 DEF CallType
      <3>4. proc' \in [Pids -> Procs]
        BY <1>0, <3>1, <3>2 DEF CallType
      <3>5. proc[p].svc = NoSvc
        BY <3>1, ProcFacts
      <3>. QED BY <3>3, <3>4, <3>5
    <2>. QED BY <2>1, <2>2 DEF Kernel
  <1>3. CallType' /\ LoopType'
    BY <1>0, <1>1, <1>2 DEF CallType, LoopType, crashVars
  <1>4. Own'
    <2>1. \A x \in All : pid[x] # NoPid => pid[x] \in Pids
      BY <1>0 DEF CallType
    <2>. QED BY <1>1, <1>2, <2>1 DEF Own
  <1>5. StopSticks'
    BY <1>0, <1>1, <1>2 DEF StopSticks, CallType
  <1>. QED BY <1>1, <1>3, <1>4, <1>5 DEF TypeOK, CallType, LoopType

-----------------------------------------------------------------------------
(* No service runs and no signal is pending at the start. *)
LEMMA InitIInv == Init => IInv
  <1>. SUFFICES ASSUME Init PROVE IInv
    OBVIOUS
  <1>1. CallType
    <2>1. flags \in [All -> SUBSET Flags]
      BY FlagsAssumption DEF Init, Flags
    <2>2. proc \in [Pids -> Procs]
      BY DEF Init, Procs
    <2>. QED BY <2>1, <2>2 DEF Init, CallType
  <1>2. LoopType
    <2>1. CrashLimit \in Nat /\ SockCap \in Nat
      BY BoundsAssumption
    <2>2. crashes = [s \in Names |-> 0]
      BY DEF Init
    <2>3. crashes \in [Names -> 0 .. CrashLimit + 1] /\ \A s \in Names : crashes[s] <= CrashLimit
      BY <2>1, <2>2
    <2>4. work \in Seq(Calls) /\ sock \in 0 .. SockCap
      <3>1. work = <<>> /\ sock = 0
        BY DEF Init
      <3>2. <<>> \in Seq(Calls)
        BY EmptySeq
      <3>. QED BY <2>1, <3>1, <3>2
    <2>5. window \in [Names -> BOOLEAN]
      BY DEF Init
    <2>6. reaping \in BOOLEAN /\ sigchld \in BOOLEAN /\ status \in {"up", "panic", "segv"}
      BY DEF Init
    <2>. QED BY <2>3, <2>4, <2>5, <2>6 DEF LoopType
  <1>3. Own
    <2>1. \A s \in All : "RUNNING" \notin flags[s]
      <3>1. flags = [s \in All |-> IF s \in Names THEN InitFlags[s] ELSE {}]
        BY DEF Init
      <3>2. \A s \in Names : InitFlags[s] \subseteq ConfigFlags
        BY FlagsAssumption
      <3>3. "RUNNING" \notin ConfigFlags
        BY DEF ConfigFlags
      <3>. QED BY <3>1, <3>2, <3>3
    <2>. QED BY <2>1, ProcFacts DEF Init, Own
  <1>4. SigchldNotLost /\ StopSticks
    BY DEF Init, SigchldNotLost, StopSticks
  <1>. QED BY <1>1, <1>2, <1>3, <1>4 DEF IInv, TypeOK, CallType, LoopType, PidsAreOwn, Own

(* A call in the course of a handler, the loop's own state aside. *)
LEMMA HandlerKeeps ==
  ASSUME IInv, status = "up", NEW s, CallKeeps(s), LoopType', UNCHANGED <<sigVars, status>>
  PROVE  IInv'
  <1>1. TypeOK' /\ PidsAreOwn' /\ StopSticks'
    BY DEF CallKeeps, TypeOK, CallType, LoopType, PidsAreOwn, Own
  <1>2. SigchldNotLost'
    BY DEF IInv, SigchldNotLost, CallKeeps, sigVars
  <1>. QED BY <1>1, <1>2 DEF IInv

(* Every step keeps the invariant: one case for each way into init, the kernel and time. *)
LEMMA NextIInv ==
  ASSUME IInv, [Next]_vars
  PROVE  IInv'
  <1>0. CASE UNCHANGED vars
    BY <1>0, ZenonT(40) DEF vars, svcVars, crashVars, sigVars, IInv, TypeOK, PidsAreOwn,
                SigchldNotLost, StopSticks, Zombies
  <1>. SUFFICES ASSUME Next PROVE IInv'
    BY <1>0
  <1>1. /\ status = "up" /\ CallType /\ LoopType /\ Own /\ StopSticks
        /\ TypeOK /\ SigchldNotLost
    BY TypeParts DEF Next, IInv, PidsAreOwn, Own
  <1>2. ASSUME NEW s \in Names, NEW op, Call(op, s),
               UNCHANGED <<crashVars, sigVars, work, status>>
        PROVE  IInv'
    <2>1. CallKeeps(s)
      BY <1>1, <1>2, CallKeepsAll
    <2>2. LoopType'
      BY <1>1, <1>2 DEF LoopType, crashVars, sigVars
    <2>. QED BY <1>1, <1>2, <2>1, <2>2, HandlerKeeps
  <1>3. ASSUME NEW s \in Names, NEW op \in CommandOps, Command(op, s) PROVE IInv'
    BY <1>2, <1>3 DEF Command
  <1>4. ASSUME NEW s \in Names, NEW op \in ControlOps, ControlMessage(op, s) PROVE IInv'
    BY <1>2, <1>4 DEF ControlMessage
  <1>5. ASSUME NEW s \in Names, RestartIfNeeded(s) PROVE IInv'
    <2>1. Call("start", s)
      BY <1>5 DEF RestartIfNeeded, Call
    <2>. QED BY <1>2, <1>5, <2>1 DEF RestartIfNeeded
  <1>6. ASSUME NEW t \in Temps, ExecCommand(t) PROVE IInv'
    <2>1. CallKeeps(t)
      BY <1>1, <1>6, ExecKeeps DEF ExecCommand
    <2>2. LoopType'
      BY <1>1, <1>6 DEF ExecCommand, LoopType, crashVars, sigVars
    <2>. QED BY <1>1, <1>6, <2>1, <2>2, HandlerKeeps DEF ExecCommand
  <1>7. ASSUME UNCHANGED <<svcVars, waiter, execing, status, crashes>>,
               window' \in [Names -> BOOLEAN], work' \in Seq(Calls),
               sigchld' \in BOOLEAN, reaping' \in BOOLEAN, sock' \in 0 .. SockCap,
               SigchldNotLost'
        PROVE  IInv'
    BY <1>1, <1>7 DEF IInv, TypeOK, LoopType, PidsAreOwn, StopSticks, svcVars
  <1>8. ASSUME NEW op \in ClassOps, ClassCommand(op) PROVE IInv'
    <2>1. work' = [i \in 1 .. Len(Order) |-> [op |-> op, svc |-> Order[i]]]
      BY <1>8 DEF ClassCommand
    <2>2. \A i \in 1 .. Len(Order) : [op |-> op, svc |-> Order[i]] \in Calls
      BY OrderAssumption DEF Calls, Ops, ClassOps
    <2>3. work' \in [1 .. Len(Order) -> Calls] /\ Len(Order) \in Nat
      BY <2>1, <2>2, OrderAssumption
    <2>4. work' \in Seq(Calls)
      BY <2>3, SeqDef
    <2>. QED BY <1>1, <1>7, <1>8, <2>4 DEF ClassCommand, LoopType, SigchldNotLost,
                svcVars, crashVars, sigVars, Zombies
  <1>9. ASSUME WorkStep PROVE IInv'
    <2>1. work # <<>> /\ work' = Tail(work) /\ UNCHANGED <<crashVars, sigVars, status>>
      BY <1>9 DEF WorkStep
    <2>2. Head(work) \in Calls /\ work' \in Seq(Calls)
      BY <1>1, <2>1, HeadTailProperties DEF LoopType
    <2>3. PICK s \in Names : s = Head(work).svc
      BY <2>2 DEF Calls
    <2>4. LoopType'
      BY <1>1, <2>1, <2>2 DEF LoopType, crashVars, sigVars
    <2>5. CASE Head(work).op = "restarted"
      <3>1. /\ svcprop' = [svcprop EXCEPT ![s] = "restarting"]
            /\ waiter' = (waiter /\ "EXEC" \notin flags[s])
            /\ UNCHANGED <<flags, pid, proc, throttled, request, execing>>
        BY <1>9, <2>3, <2>5 DEF WorkStep
      <3>2. CallType' /\ Own' /\ StopSticks' /\ SigchldNotLost'
        BY <1>1, <2>1, <3>1, ZenonT(40) DEF CallType, Own, StopSticks, SigchldNotLost, Zombies, sigVars
      <3>. QED BY <2>4, <3>2 DEF IInv, TypeOK, CallType, LoopType, PidsAreOwn, Own
    <2>6. CASE Head(work).op # "restarted"
      <3>1. Call(Head(work).op, s)
        BY <1>9, <2>3, <2>6 DEF WorkStep
      <3>2. CallKeeps(s)
        BY <1>1, <3>1, CallKeepsAll
      <3>. QED BY <1>1, <2>1, <2>4, <3>2, HandlerKeeps
    <2>. QED BY <2>5, <2>6
  <1>10. ASSUME HandleSignal PROVE IInv'
    BY <1>1, <1>7, <1>10, BoundsAssumption
       DEF HandleSignal, LoopType, SigchldNotLost, svcVars, crashVars
  <1>11. ASSUME SIGCHLD_handler PROVE IInv'
    <2>1. SockCap \in Nat \ {0} /\ sock \in 0 .. SockCap
      BY <1>1, BoundsAssumption DEF LoopType
    <2>2. sock' \in 0 .. SockCap /\ sock' > 0
      BY <1>11, <2>1 DEF SIGCHLD_handler
    <2>3. SigchldNotLost' /\ sigchld' \in BOOLEAN
      BY <1>11, <2>2 DEF SIGCHLD_handler, SigchldNotLost
    <2>4. UNCHANGED <<svcVars, crashVars, reaping, waiter, work, status, execing>>
      BY <1>11 DEF SIGCHLD_handler
    <2>. QED BY <1>1, <1>7, <2>2, <2>3, <2>4 DEF LoopType, crashVars
  <1>12. ASSUME ReapDone PROVE IInv'
    BY <1>1, <1>7, <1>12 DEF ReapDone, LoopType, SigchldNotLost, Zombies, svcVars, crashVars
  <1>13. ASSUME NEW p \in Pids, ReapOneProcess(p) PROVE IInv'
    <2>1. /\ TypeOK' /\ StopSticks' /\ reaping'
          /\ status' = "up" => Own'
      BY <1>1, <1>13, ReapOneProcessKeeps
    <2>. QED BY <2>1 DEF IInv, PidsAreOwn, Own, SigchldNotLost
  <1>14. ASSUME NEW p \in Pids, Kernel(p) PROVE IInv'
    <2>1. TypeOK' /\ Own' /\ StopSticks' /\ sigchld'
      BY <1>1, <1>14, KernelKeeps
    <2>. QED BY <2>1 DEF IInv, PidsAreOwn, Own, SigchldNotLost
  <1>15. ASSUME NEW s \in Names, FiveSeconds(s) PROVE IInv'
    <2>1. /\ throttled' = [throttled EXCEPT ![s] = FALSE]
          /\ UNCHANGED <<flags, pid, proc, svcprop, request, crashVars, sigVars,
                         waiter, work, status, execing>>
      BY <1>15 DEF FiveSeconds
    <2>2. CallType' /\ LoopType' /\ Own' /\ StopSticks' /\ SigchldNotLost'
      BY <1>1, <2>1, ZenonT(40) DEF CallType, LoopType, Own, StopSticks, SigchldNotLost, Zombies,
                        crashVars, sigVars
    <2>. QED BY <2>2 DEF IInv, TypeOK, CallType, LoopType, PidsAreOwn, Own
  <1>16. ASSUME NEW s \in Names, FourMinutes(s) PROVE IInv'
    <2>1. /\ window' = [window EXCEPT ![s] = FALSE]
          /\ UNCHANGED <<svcVars, crashes, sigVars, waiter, work, status, execing>>
      BY <1>16 DEF FourMinutes
    <2>2. window' \in [Names -> BOOLEAN]
      BY <1>1, <2>1 DEF LoopType
    <2>3. SigchldNotLost'
      BY <1>1, <2>1 DEF SigchldNotLost, Zombies, svcVars, sigVars
    <2>. QED BY <1>1, <1>7, <2>1, <2>2, <2>3 DEF LoopType, sigVars
  <1>. QED BY <1>3, <1>4, <1>5, <1>6, <1>8, <1>9, <1>10, <1>11, <1>12, <1>13, <1>14, <1>15,
              <1>16 DEF Next, Reaping

(* Every behaviour of init keeps the four invariants. *)
THEOREM Inductive == Spec => []IInv
  BY InitIInv, NextIInv, PTL DEF Spec

(* flags_, pid_, the crash counter (at most CrashLimit while init is up),  *)
(* the socket and the list of pending calls keep their types.              *)
THEOREM TypeCorrect == Spec => []TypeOK
  BY Inductive, PTL DEF IInv

(* pid_ and SVC_RUNNING are the truth about the service's process, however *)
(* starts, stops, exits and reaps interleave.                              *)
THEOREM PidsAreAlwaysOwn == Spec => []PidsAreOwn
  BY Inductive, PTL DEF IInv

(* No exited child is forgotten, whatever the capacity of the socket and   *)
(* wherever the handler interrupts init.                                   *)
THEOREM SigchldIsNeverLost == Spec => []SigchldNotLost
  BY Inductive, PTL DEF IInv

(* A stop or reset holds until the next request. *)
THEOREM StopAlwaysSticks == Spec => []StopSticks
  BY Inductive, PTL DEF IInv

-----------------------------------------------------------------------------
AgreeInv == WorkInv /\ SvcPropertyAgrees

(* Nothing SvcPropertyAgrees looks at has changed. *)
LEMMA AgreeUnchanged ==
  ASSUME AgreeInv, UNCHANGED <<work, status>>,
         \A s \in Names : pid'[s] = pid[s] /\ svcprop'[s] = svcprop[s],
         work \in Seq(Calls)
  PROVE  AgreeInv'
  <1>1. \A i \in 1 .. Len(work) : work[i].svc \in Names
    <2>1. \A i \in 1 .. Len(work) : work[i] \in Calls
      BY ElementOfSeq
    <2>. QED BY <2>1 DEF Calls
  <1>2. WorkInv'
    BY <1>1 DEF AgreeInv, WorkInv
  <1>3. SvcPropertyAgrees'
    BY DEF AgreeInv, SvcPropertyAgrees, BeingReaped
  <1>. QED BY <1>2, <1>3 DEF AgreeInv

(* A call while init has no list of calls to make. *)
LEMMA AgreeIdle ==
  ASSUME AgreeInv, work = <<>>, work' = <<>>, UNCHANGED status,
         \A s \in Names : Agrees(s) => Agrees(s)'
  PROVE  AgreeInv'
  BY DEF AgreeInv, WorkInv, SvcPropertyAgrees, BeingReaped, Agrees

(* The next call of a handler: the service being reaped is not called, and *)
(* after the last call init.svc.<name> is "restarting".                    *)
LEMMA AgreeWorkStep ==
  ASSUME IInv, AgreeInv, status = "up", WorkStep
  PROVE  AgreeInv'
  <1>1. CallType /\ LoopType /\ Own /\ StopSticks
    BY TypeParts DEF IInv, PidsAreOwn, Own
  <1>2. work # <<>> /\ work' = Tail(work) /\ UNCHANGED <<crashVars, sigVars, status>>
    BY DEF WorkStep
  <1>3. work \in Seq(Calls)
    BY <1>1 DEF LoopType
  <1>4. /\ Head(work) \in Calls /\ work' \in Seq(Calls)
        /\ Len(work') = Len(work) - 1 /\ Len(work) \in Nat \ {0}
        /\ \A i \in 1 .. Len(work') : work'[i] = work[i + 1]
        /\ Head(work) = work[1]
    BY <1>2, <1>3, HeadTailProperties, EmptySeq
  <1>5. PICK s \in Names : s = Head(work).svc
    BY <1>4 DEF Calls
  <1>6. CASE Head(work).op = "restarted"
    <2>1. svcprop' = [svcprop EXCEPT ![s] = "restarting"] /\ pid' = pid
      BY <1>5, <1>6 DEF WorkStep
    <2>2. Len(work) = 1 /\ pid[s] = NoPid
      <3>1. 1 \in 1 .. Len(work) /\ work[1].op = "restarted" /\ work[1].svc = s
        BY <1>4, <1>5, <1>6
      <3>. QED BY <3>1 DEF AgreeInv, WorkInv
    <2>3. Len(work') = 0
      BY <1>4, <2>2
    <2>4. \A x \in Names : x # s => ~ BeingReaped(x)
      <3>. SUFFICES ASSUME NEW x \in Names, BeingReaped(x)
                    PROVE  x = s
        OBVIOUS
      <3>1. PICK i \in 1 .. Len(work) : work[i] = [op |-> "restarted", svc |-> x]
        BY DEF BeingReaped
      <3>2. i = 1
        BY <2>2, <3>1
      <3>. QED BY <1>4, <1>5, <3>1, <3>2
    <2>5. \A x \in Names : svcprop'[x] = IF x = s THEN "restarting" ELSE svcprop[x]
      BY <1>1, <2>1 DEF CallType
    <2>6. SvcPropertyAgrees'
      BY <1>2, <2>1, <2>2, <2>4, <2>5 DEF AgreeInv, SvcPropertyAgrees
    <2>7. WorkInv'
      BY <2>3 DEF WorkInv
    <2>. QED BY <2>6, <2>7 DEF AgreeInv
  <1>7. CASE Head(work).op # "restarted"
    <2>1. Call(Head(work).op, s)
      BY <1>5, <1>7 DEF WorkStep
    <2>2. CallKeeps(s)
      BY <1>1, <2>1, CallKeepsAll
    <2>3. WorkInv'
      <3>. SUFFICES ASSUME NEW i \in 1 .. Len(work'), work'[i].op = "restarted"
                    PROVE  /\ i = Len(work')
                           /\ pid'[work'[i].svc] = NoPid
                           /\ \A j \in 1 .. Len(work') : j # i => work'[j].svc # work'[i].svc
        BY DEF WorkInv
      <3>1. /\ i + 1 \in 1 .. Len(work) /\ 1 \in 1 .. Len(work) /\ i + 1 # 1
            /\ work'[i] = work[i + 1]
        BY <1>4
      <3>2. /\ i + 1 = Len(work) /\ pid[work[i + 1].svc] = NoPid
            /\ \A j \in 1 .. Len(work) : j # i + 1 => work[j].svc # work[i + 1].svc
        BY <3>1 DEF AgreeInv, WorkInv
      <3>3. work[i + 1].svc # s /\ work[i + 1].svc \in All
        <4>1. work[1].svc # work[i + 1].svc
          BY <3>1, <3>2
        <4>2. work[i + 1] \in Calls
          BY <1>3, <3>1, ElementOfSeq
        <4>. QED BY <1>4, <1>5, <4>1, <4>2 DEF Calls
      <3>4. pid'[work'[i].svc] = NoPid
        BY <2>2, <3>1, <3>2, <3>3 DEF CallKeeps
      <3>5. ASSUME NEW j \in 1 .. Len(work'), j # i
            PROVE  work'[j].svc # work'[i].svc
        <4>1. j + 1 \in 1 .. Len(work) /\ j + 1 # i + 1 /\ work'[j] = work[j + 1]
          BY <1>4, <3>5
        <4>. QED BY <3>1, <3>2, <4>1
      <3>. QED BY <1>4, <3>2, <3>4, <3>5
    <2>4. ASSUME NEW x \in Names, BeingReaped(x)
          PROVE  BeingReaped(x)'
      <3>1. PICK i \in 1 .. Len(work) : work[i] = [op |-> "restarted", svc |-> x]
        BY <2>4 DEF BeingReaped
      <3>2. i # 1
        BY <1>4, <1>7, <3>1
      <3>3. i - 1 \in 1 .. Len(work') /\ (i - 1) + 1 = i
        BY <1>4, <3>2
      <3>4. work'[i - 1] = work[i]
        BY <1>4, <3>3
      <3>. QED BY <3>1, <3>3, <3>4 DEF BeingReaped
    <2>5. SvcPropertyAgrees'
      BY <1>2, <2>2, <2>4 DEF AgreeInv, SvcPropertyAgrees, CallKeeps, Agrees
    <2>. QED BY <2>3, <2>5 DEF AgreeInv
  <1>. QED BY <1>6, <1>7

(* ReapOneProcess: init.svc.<name> is "stopped" at once, or the calls that *)
(* end with "restarting" are queued.                                       *)
LEMMA AgreeReap ==
  ASSUME OnRestartOthers, IInv, AgreeInv, NEW p \in Pids, ReapOneProcess(p)
  PROVE  AgreeInv'
  <1>1. CallType /\ LoopType
    BY TypeParts DEF IInv
  <1>2. work = <<>> /\ work \in Seq(Calls)
    BY <1>1 DEF ReapOneProcess, LoopType
  <1>3. CASE UNCHANGED <<flags, pid, svcprop, crashVars, waiter, work, status, execing>>
    BY <1>2, <1>3, AgreeUnchanged
  <1>4. CASE status' = "segv" /\ UNCHANGED <<pid, work>>
    <2>1. WorkInv'
      BY <1>4 DEF AgreeInv, WorkInv
    <2>2. SvcPropertyAgrees'
      BY <1>4 DEF SvcPropertyAgrees
    <2>. QED BY <2>1, <2>2 DEF AgreeInv
  <1>5. ASSUME NEW s \in Temps, ReapTemporary(s)
        PROVE  AgreeInv'
    <2>1. \A x \in Names : pid'[x] = pid[x] /\ svcprop'[x] = svcprop[x]
      BY <1>1, <1>5 DEF ReapTemporary, CallType
    <2>. QED BY <1>2, <1>5, <2>1, AgreeUnchanged DEF ReapTemporary
  <1>6. ASSUME NEW s \in Names, Reap(s)
        PROVE  AgreeInv'
    <2>1. \A x \in Names : pid'[x] = IF x = s THEN NoPid ELSE pid[x]
      BY <1>1, <1>6 DEF Reap, CallType
    <2>2. CASE /\ svcprop' = [svcprop EXCEPT ![s] = "stopped"]
               /\ UNCHANGED <<status, work>>
      <3>1. \A x \in Names : svcprop'[x] = IF x = s THEN "stopped" ELSE svcprop[x]
        BY <1>1, <2>2 DEF CallType
      <3>2. \A x \in Names : Agrees(x) => Agrees(x)'
        BY <2>1, <3>1 DEF Agrees
      <3>. QED BY <1>2, <2>2, <3>2, AgreeIdle
    <2>3. CASE /\ work' = OnRestart[s] \o <<[op |-> "restarted", svc |-> s]>>
               /\ UNCHANGED svcprop /\ (status' = status \/ status' = "panic")
      <3>. DEFINE c == OnRestart[s]
                  last == [op |-> "restarted", svc |-> s]
      <3>1. c \in Seq(Calls) /\ Len(c) \in Nat /\ last \in Calls
        <4>1. [op : Ops \ {"restarted"}, svc : Names] \subseteq Calls
          BY DEF Calls
        <4>2. c \in Seq(Calls)
          BY <4>1, OnRestartAssumption, SeqMonotonic
        <4>. QED BY <4>2, LenProperties DEF Calls, Ops
      <3>2. \A i \in 1 .. Len(c) : c[i].op # "restarted" /\ c[i].svc # s
        <4>1. \A i \in 1 .. Len(c) : c[i] \in [op : Ops \ {"restarted"}, svc : Names]
          BY OnRestartAssumption, ElementOfSeq
        <4>2. \A i \in 1 .. Len(c) : c[i].op # "restarted"
          BY <4>1
        <4>. QED BY <4>2 DEF OnRestartOthers
      <3>. HIDE DEF c
      <3>3. /\ Len(work') = Len(c) + 1
            /\ \A i \in 1 .. Len(c) + 1 : work'[i] = IF i <= Len(c) THEN c[i] ELSE last
        <4>1. work' = c \o <<last>> /\ <<last>> \in Seq(Calls)
          BY <2>3, <3>1 DEF c
        <4>2. Len(<<last>>) = 1 /\ <<last>>[1] = last
          OBVIOUS
        <4>. HIDE DEF last
        <4>. QED BY <3>1, <4>1, <4>2, ConcatProperties
      <3>4. WorkInv'
        BY <2>1, <3>1, <3>2, <3>3 DEF WorkInv
      <3>5. BeingReaped(s)'
        BY <3>1, <3>3 DEF BeingReaped
      <3>6. SvcPropertyAgrees'
        <4>. SUFFICES ASSUME NEW x \in Names, status' = "up", ~ BeingReaped(x)'
                      PROVE  Agrees(x)'
          BY DEF SvcPropertyAgrees, Agrees
        <4>1. x # s /\ status = "up"
          BY <2>3, <3>5
        <4>2. ~ BeingReaped(x)
          BY <1>2 DEF BeingReaped
        <4>. QED BY <2>1, <2>3, <4>1, <4>2 DEF AgreeInv, SvcPropertyAgrees, Agrees
      <3>. QED BY <3>4, <3>6 DEF AgreeInv
    <2>. QED BY <1>6, <2>2, <2>3 DEF Reap, CountCrash
  <1>. QED BY <1>3, <1>4, <1>5, <1>6 DEF ReapOneProcess, Owner

(* No service has a property yet at the start. *)
LEMMA InitAgree == Init => AgreeInv
  <1>1. Init => WorkInv
    <2>. SUFFICES ASSUME work = <<>> PROVE WorkInv
      BY DEF Init
    <2>1. 1 .. Len(work) = {}
      OBVIOUS
    <2>. QED BY <2>1 DEF WorkInv
  <1>2. Init => SvcPropertyAgrees
    <2>. SUFFICES ASSUME pid = [s \in All |-> NoPid], svcprop = [s \in Names |-> ""]
                  PROVE  SvcPropertyAgrees
      BY DEF Init
    <2>1. \A s \in Names : pid[s] = NoPid /\ svcprop[s] = ""
      OBVIOUS
    <2>. QED BY <2>1 DEF SvcPropertyAgrees
  <1>. QED BY <1>1, <1>2 DEF AgreeInv

(* Every step keeps init.svc true, provided that no service's onrestart names the service itself. *)
LEMMA NextAgree ==
  ASSUME OnRestartOthers, IInv, AgreeInv, [Next]_vars
  PROVE  AgreeInv'
  <1>1. CallType /\ LoopType /\ StopSticks /\ (status = "up" => Own) /\ work \in Seq(Calls)
    BY TypeParts DEF IInv, LoopType, PidsAreOwn, Own
  <1>2. CASE /\ UNCHANGED <<work, status>>
             /\ \A s \in Names : pid'[s] = pid[s] /\ svcprop'[s] = svcprop[s]
    BY <1>1, <1>2, AgreeUnchanged
  <1>3. CASE UNCHANGED vars
    BY <1>2, <1>3 DEF vars, svcVars
  <1>. SUFFICES ASSUME Next, status = "up" PROVE AgreeInv'
    BY <1>3 DEF Next
  <1>4. ASSUME NEW s \in All, CallKeeps(s), work = <<>>, UNCHANGED <<work, status>>
        PROVE  AgreeInv'
    BY <1>4, AgreeIdle DEF CallKeeps
  <1>5. ASSUME NEW s \in Names, NEW op, Call(op, s), work = <<>>, UNCHANGED <<work, status>>
        PROVE  AgreeInv'
    BY <1>1, <1>4, <1>5, CallKeepsAll
  <1>6. ASSUME NEW s \in Names, NEW op, Command(op, s) PROVE AgreeInv'
    BY <1>5, <1>6 DEF Command, Idle
  <1>7. ASSUME NEW s \in Names, NEW op, ControlMessage(op, s) PROVE AgreeInv'
    BY <1>5, <1>7 DEF ControlMessage, Idle
  <1>8. ASSUME NEW s \in Names, RestartIfNeeded(s) PROVE AgreeInv'
    <2>1. Call("start", s)
      BY <1>8 DEF RestartIfNeeded, Call
    <2>. QED BY <1>5, <1>8, <2>1 DEF RestartIfNeeded, Idle
  <1>9. ASSUME NEW t \in Temps, ExecCommand(t) PROVE AgreeInv'
    BY <1>1, <1>4, <1>9, ExecKeeps DEF ExecCommand, Idle
  <1>10. ASSUME NEW op \in ClassOps, ClassCommand(op) PROVE AgreeInv'
    <2>1. /\ work = <<>> /\ UNCHANGED <<svcVars, status>>
          /\ work' = [i \in 1 .. Len(Order) |-> [op |-> op, svc |-> Order[i]]]
      BY <1>10 DEF ClassCommand, Idle
    <2>2. op # "restarted" /\ Len(Order) \in Nat
      BY OrderAssumption, LenProperties DEF ClassOps
    <2>3. Len(work') = Len(Order) /\ \A i \in 1 .. Len(work') : work'[i].op # "restarted"
      BY <2>1, <2>2
    <2>4. WorkInv'
      BY <2>3 DEF WorkInv
    <2>5. \A x \in Names : ~ BeingReaped(x)
      BY <2>1 DEF BeingReaped
    <2>6. SvcPropertyAgrees'
      BY <2>1, <2>5 DEF AgreeInv, SvcPropertyAgrees, svcVars
    <2>. QED BY <2>4, <2>6 DEF AgreeInv
  <1>11. ASSUME WorkStep PROVE AgreeInv'
    BY <1>11, AgreeWorkStep
  <1>12. ASSUME NEW p \in Pids, ReapOneProcess(p) PROVE AgreeInv'
    BY <1>12, AgreeReap
  <1>13. ASSUME HandleSignal \/ SIGCHLD_handler \/ ReapDone PROVE AgreeInv'
    BY <1>2, <1>13 DEF HandleSignal, SIGCHLD_handler, ReapDone, svcVars
  <1>14. ASSUME NEW p \in Pids, Kernel(p) PROVE AgreeInv'
    BY <1>2, <1>14 DEF Kernel, Exit, OrphanExits
  <1>15. ASSUME NEW s \in Names, FiveSeconds(s) \/ FourMinutes(s) PROVE AgreeInv'
    BY <1>2, <1>15 DEF FiveSeconds, FourMinutes, svcVars
  <1>. QED BY <1>6, <1>7, <1>8, <1>9, <1>10, <1>11, <1>12, <1>13, <1>14, <1>15
           DEF Next, Reaping

(* Unless a service has an onrestart command for itself, init.svc.<name>   *)
(* says whether it has a process.                                          *)
THEOREM SvcPropertyIsTrue ==
  ASSUME OnRestartOthers
  PROVE  Spec => []SvcPropertyAgrees
  <1>1. Init => AgreeInv
    BY InitAgree
  <1>2. IInv /\ AgreeInv /\ [Next]_vars => AgreeInv'
    BY NextAgree
  <1>3. AgreeInv => SvcPropertyAgrees
    BY DEF AgreeInv
  <1>. QED BY <1>1, <1>2, <1>3, Inductive, PTL DEF Spec

=============================================================================
