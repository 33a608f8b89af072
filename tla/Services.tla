------------------------------ MODULE Services ------------------------------
(***************************************************************************)
(* The service manager of init: Service and ServiceManager (service.cpp),  *)
(* the commands and control messages that act on services (builtins.cpp,   *)
(* init.cpp) and the SIGCHLD path by which init learns that a child died   *)
(* (signal_handler.cpp).                                                   *)
(*                                                                         *)
(* init is one thread.  Its steps are the calls it makes on one service at *)
(* a time; between them children exit and SIGCHLD is delivered.  A command *)
(* of several calls (a class command, the onrestart commands of a reaped   *)
(* service) is a list of calls in "work", and init starts nothing else     *)
(* until the list is empty.  Time is abstracted to the two questions the   *)
(* code asks of it: have 5 s passed since the last start, and is the       *)
(* four-minute crash window still open.                                    *)
(***************************************************************************)
EXTENDS Integers, Sequences, FiniteSets

CONSTANTS Names,        \* services defined in the rc files
          Temps,        \* names for the temporary services of "exec"
          Order,        \* Names in the order of services_, all in one class
          InitFlags,    \* flags the rc files give each service
          OnRestart,    \* the service's onrestart commands
          Pids,         \* process ids
          CrashLimit,   \* crashes allowed in one window, 4 in the code
          SockCap,      \* bytes the signal socket can hold
          ReadMax       \* bytes handle_signal reads at once, 32 in the code

CONSTANT NoPid          \* pid_ of a service without a process, 0 in the code

NoSvc == "no service"
All == Names \cup Temps

ConfigFlags == {"DISABLED", "RC_DISABLED", "ONESHOT", "CRITICAL"}
Flags == ConfigFlags \cup
  {"RUNNING", "RESTARTING", "RESET", "RESTART", "DISABLED_START", "EXEC", "TEMPORARY"}
Ops == {"start", "stop", "reset", "restart", "class_start", "enable",
        "exec_start", "restarted"}
Calls == [op : Ops, svc : Names]

ASSUME NamesAssumption == NoSvc \notin All /\ Names \cap Temps = {}
ASSUME OrderAssumption == Order \in Seq(Names)
ASSUME FlagsAssumption == InitFlags \in [Names -> SUBSET ConfigFlags]
ASSUME OnRestartAssumption ==
  \A s \in Names : OnRestart[s] \in Seq([op : Ops \ {"restarted"}, svc : Names])
ASSUME PidsAssumption == NoPid \notin Pids
ASSUME BoundsAssumption ==
  CrashLimit \in Nat \ {0} /\ SockCap \in Nat \ {0} /\ ReadMax \in Nat \ {0}

VARIABLES
  flags,      \* flags_
  pid,        \* pid_
  proc,       \* the kernel's children of init
  svcprop,    \* the property init.svc.<name>
  throttled,  \* less than 5 s since time_started_
  window,     \* now < time_crashed_ + 4min
  crashes,    \* crash_count_
  waiter,     \* exec_waiter_ is set
  work,       \* calls the handler in progress has still to make
  reaping,    \* init is in ReapAnyOutstandingChildren
  sigchld,    \* SIGCHLD is pending
  sock,       \* bytes in the signal socket
  status,     \* init is up, has rebooted the device, or has crashed
  request,    \* history: the last request made of a service
  execing     \* history: services started by exec or exec_start, not reaped

svcVars == <<flags, pid, proc, svcprop, throttled, request>>
crashVars == <<window, crashes>>
sigVars == <<sigchld, sock, reaping>>
vars == <<svcVars, crashVars, sigVars, waiter, work, status, execing>>

-----------------------------------------------------------------------------
Free == [st |-> "free", svc |-> NoSvc]
Procs == {Free} \cup [st : {"run", "dying", "zombie"}, svc : All \cup {NoSvc}]

TypeOK ==
  /\ flags \in [All -> SUBSET Flags]
  /\ pid \in [All -> Pids \cup {NoPid}]
  /\ proc \in [Pids -> Procs]
  /\ svcprop \in [Names -> {"", "running", "stopping", "stopped", "restarting"}]
  /\ throttled \in [Names -> BOOLEAN]
  /\ window \in [Names -> BOOLEAN]
  /\ crashes \in [Names -> 0 .. CrashLimit + 1]
  /\ status # "panic" => \A s \in Names : crashes[s] <= CrashLimit
  /\ waiter \in BOOLEAN /\ reaping \in BOOLEAN /\ sigchld \in BOOLEAN
  /\ work \in Seq(Calls)
  /\ sock \in 0 .. SockCap
  /\ status \in {"up", "panic", "segv"}
  /\ request \in [Names -> {"none", "start", "stop", "restart", "failed"}]
  /\ execing \in SUBSET All

(* A temporary service is in services_ while it has flags. *)
Init ==
  /\ flags = [s \in All |-> IF s \in Names THEN InitFlags[s] ELSE {}]
  /\ pid = [s \in All |-> NoPid]
  /\ proc = [p \in Pids |-> Free]
  /\ svcprop = [s \in Names |-> ""]
  /\ throttled = [s \in Names |-> FALSE]
  /\ window = [s \in Names |-> TRUE]
  /\ crashes = [s \in Names |-> 0]
  /\ waiter = FALSE /\ work = <<>> /\ reaping = TRUE
  /\ sigchld = FALSE /\ sock = 0 /\ status = "up"
  /\ request = [s \in Names |-> "none"] /\ execing = {}

-----------------------------------------------------------------------------
(* Mutant of StartResults: a running service is started again. *)
StartRunning(f) ==
  LET g == f \ {"DISABLED", "RESTARTING", "RESET", "RESTART", "DISABLED_START"} IN
  {[ok |-> FALSE, flags |-> g], [ok |-> TRUE, flags |-> g \cup {"RUNNING"}]}

(* Service::Start, on flags f: already running; the console or the program *)
(* is missing; no security context or no fork; or a new process.           *)
StartResults(f) ==
  LET g == f \ {"DISABLED", "RESTARTING", "RESET", "RESTART", "DISABLED_START"} IN
  IF "RUNNING" \in g THEN {[ok |-> FALSE, flags |-> g]}
  ELSE {[ok |-> FALSE, flags |-> g \cup {"DISABLED"}],
        [ok |-> FALSE, flags |-> g],
        [ok |-> TRUE,  flags |-> g \cup {"RUNNING"}]}

Fork(s) ==
  \E p \in Pids :
    /\ proc[p] = Free
    /\ proc' = [proc EXCEPT ![p] = [st |-> "run", svc |-> s]]
    /\ pid' = [pid EXCEPT ![s] = p]

ApplyStart(s, r) ==
  /\ flags' = [flags EXCEPT ![s] = r.flags]
  /\ request' = IF s \in Temps THEN request ELSE
       [request EXCEPT ![s] = IF "RUNNING" \in r.flags THEN "start" ELSE "failed"]
  /\ IF r.ok
       THEN /\ Fork(s)
            /\ IF s \in Temps THEN UNCHANGED <<throttled, svcprop>>
               ELSE /\ throttled' = [throttled EXCEPT ![s] = TRUE]
                    /\ svcprop' = [svcprop EXCEPT ![s] = "running"]
       ELSE UNCHANGED <<pid, proc, throttled, svcprop>>

Start(s, f) == \E r \in StartResults(f) : ApplyStart(s, r)

(* KillProcessGroup(SIGKILL): the service's process is as good as dead *)
Kill(s) ==
  proc' = IF proc[pid[s]].st = "run"
          THEN [proc EXCEPT ![pid[s]].st = "dying"] ELSE proc

(* Mutants of StopOrReset: a pending restart is not cancelled; the service *)
(* is reported stopped before its process has exited.                      *)
StopWith(s, how, cleared, told) ==
  /\ flags' = [flags EXCEPT ![s] = (@ \ cleared) \cup {how}]
  /\ IF pid[s] # NoPid
       THEN Kill(s) /\ svcprop' = [svcprop EXCEPT ![s] = told]
       ELSE UNCHANGED proc /\ svcprop' = [svcprop EXCEPT ![s] = "stopped"]
  /\ request' = [request EXCEPT ![s] = IF how = "RESTART" THEN "restart" ELSE "stop"]
  /\ UNCHANGED <<pid, throttled>>
StopKeepsRestarting(s, how) == StopWith(s, how, {"DISABLED_START"}, "stopping")
StopReportsEarly(s, how) ==
  StopWith(s, how, {"RESTARTING", "DISABLED_START"}, "stopped")

(* StopOrReset; how is "DISABLED", "RESET" or "RESTART" *)
StopOrReset(s, how) ==
  LET f == flags[s] \ {"RESTARTING", "DISABLED_START"}
      flag == IF how = "RESET" /\ "RC_DISABLED" \in f THEN "DISABLED" ELSE how
  IN /\ flags' = [flags EXCEPT ![s] = f \cup {flag}]
     /\ IF pid[s] # NoPid
          THEN Kill(s) /\ svcprop' = [svcprop EXCEPT ![s] = "stopping"]
          ELSE UNCHANGED proc /\ svcprop' = [svcprop EXCEPT ![s] = "stopped"]
     /\ request' = [request EXCEPT ![s] = IF how = "RESTART" THEN "restart" ELSE "stop"]
     /\ UNCHANGED <<pid, throttled>>

Restart(s) ==
  \/ "RUNNING" \in flags[s] /\ StopOrReset(s, "RESTART")
  \/ flags[s] \cap {"RUNNING", "RESTARTING"} = {} /\ Start(s, flags[s])
  \/ /\ "RUNNING" \notin flags[s] /\ "RESTARTING" \in flags[s]
     /\ UNCHANGED svcVars

(* class_start: a start of a disabled service is only remembered *)
StartIfNotDisabled(s) ==
  \/ "DISABLED" \notin flags[s] /\ Start(s, flags[s])
  \/ /\ "DISABLED" \in flags[s]
     /\ flags' = [flags EXCEPT ![s] = @ \cup {"DISABLED_START"}]
     /\ UNCHANGED <<pid, proc, svcprop, throttled, request>>

Enable(s) ==
  LET f == flags[s] \ {"DISABLED", "RC_DISABLED"} IN
  \/ "DISABLED_START" \in f /\ Start(s, f)
  \/ /\ "DISABLED_START" \notin f
     /\ flags' = [flags EXCEPT ![s] = f]
     /\ request' = [request EXCEPT ![s] = "none"]
     /\ UNCHANGED <<pid, proc, svcprop, throttled>>

(* Service::ExecStart: the waiter is set, and dropped if Start fails *)
ExecStart(s) ==
  \E r \in StartResults(flags[s] \cup {"EXEC", "ONESHOT"}) :
    /\ ApplyStart(s, r)
    /\ waiter' = r.ok
    /\ execing' = IF r.ok THEN execing \cup {s} ELSE execing

(* ServiceManager::Exec: a temporary service, removed if it cannot start *)
Exec(t) ==
  /\ flags[t] = {}
  /\ \E r \in StartResults({"EXEC", "ONESHOT", "TEMPORARY"}) :
       /\ IF r.ok THEN ApplyStart(t, r) ELSE UNCHANGED svcVars
       /\ waiter' = r.ok
       /\ execing' = IF r.ok THEN execing \cup {t} ELSE execing

(* One call on one service. *)
Call(op, s) ==
  \/ /\ \/ op = "start" /\ Start(s, flags[s])
        \/ op = "stop" /\ StopOrReset(s, "DISABLED")
        \/ op = "reset" /\ StopOrReset(s, "RESET")
        \/ op = "restart" /\ Restart(s)
        \/ op = "class_start" /\ StartIfNotDisabled(s)
        \/ op = "enable" /\ Enable(s)
     /\ UNCHANGED <<waiter, execing>>
  \/ op = "exec_start" /\ ExecStart(s)

-----------------------------------------------------------------------------
(* init between two handlers *)
Idle == work = <<>> /\ ~ reaping

(* ExecuteOneCommand, only while no exec is being waited for *)
Command(op, s) ==
  /\ Idle /\ ~ waiter
  /\ Call(op, s)
  /\ UNCHANGED <<crashVars, sigVars, work, status>>

ExecCommand(t) ==
  /\ Idle /\ ~ waiter
  /\ Exec(t)
  /\ UNCHANGED <<crashVars, sigVars, work, status>>

(* do_class_start, _stop, _reset and _restart *)
ClassCommand(op) ==
  /\ Idle /\ ~ waiter
  /\ work' = [i \in 1 .. Len(Order) |-> [op |-> op, svc |-> Order[i]]]
  /\ UNCHANGED <<svcVars, crashVars, sigVars, waiter, status, execing>>

(* handle_control_message: handled whether or not init waits for an exec *)
ControlMessage(op, s) ==
  /\ Idle
  /\ Call(op, s)
  /\ UNCHANGED <<crashVars, sigVars, work, status>>

(* The next call of the handler in progress; "restarted" is what follows   *)
(* the onrestart commands in Reap and ReapOneProcess.                      *)
WorkStep ==
  /\ work # <<>>
  /\ work' = Tail(work)
  /\ LET s == Head(work).svc IN
     IF Head(work).op = "restarted"
       THEN /\ svcprop' = [svcprop EXCEPT ![s] = "restarting"]
            /\ waiter' = (waiter /\ "EXEC" \notin flags[s])
            /\ UNCHANGED <<flags, pid, proc, throttled, request, execing>>
       ELSE Call(Head(work).op, s)
  /\ UNCHANGED <<crashVars, sigVars, status>>

(* Mutant of RestartIfNeeded: the five-second test is inverted. *)
RestartTooEarly(s) ==
  /\ Idle /\ ~ waiter
  /\ "RESTARTING" \in flags[s] /\ throttled[s]
  /\ Start(s, flags[s])
  /\ UNCHANGED <<crashVars, sigVars, waiter, work, status, execing>>

(* restart_processes and RestartIfNeeded; services do not affect each      *)
(* other here, so each is a step of its own.                               *)
RestartIfNeeded(s) ==
  /\ Idle /\ ~ waiter
  /\ "RESTARTING" \in flags[s] /\ ~ throttled[s]
  /\ Start(s, flags[s])
  /\ UNCHANGED <<crashVars, sigVars, waiter, work, status, execing>>

-----------------------------------------------------------------------------
(* SIGCHLD: the handler interrupts init anywhere; a full socket drops the  *)
(* byte.  handle_signal drains the socket, then reaps all there is.        *)
SIGCHLD_handler ==
  /\ sigchld
  /\ sigchld' = FALSE
  /\ sock' = IF sock < SockCap THEN sock + 1 ELSE sock
  /\ UNCHANGED <<svcVars, crashVars, reaping, waiter, work, status, execing>>

HandleSignal ==
  /\ Idle /\ sock > 0
  /\ sock' = IF sock > ReadMax THEN sock - ReadMax ELSE 0
  /\ reaping' = TRUE
  /\ UNCHANGED <<svcVars, crashVars, sigchld, waiter, work, status, execing>>

Zombies == {p \in Pids : proc[p].st = "zombie"}

(* Mutant of ReapDone: one child per signal. *)
ReapOnlyOne ==
  /\ reaping /\ work = <<>>
  /\ reaping' = FALSE
  /\ UNCHANGED <<svcVars, crashVars, sigchld, sock, waiter, work, status, execing>>

(* waitpid returned 0 *)
ReapDone ==
  /\ reaping /\ work = <<>> /\ Zombies = {}
  /\ reaping' = FALSE
  /\ UNCHANGED <<svcVars, crashVars, sigchld, sock, waiter, work, status, execing>>

(* Mutant of CountCrash: the count is incremented after the test. *)
CountCrashLate(s, f) ==
  IF "CRITICAL" \in f /\ "RESTART" \notin f
    THEN /\ crashes' = [crashes EXCEPT ![s] = IF window[s] THEN @ + 1 ELSE 1]
         /\ window' = [window EXCEPT ![s] = TRUE]
         /\ status' = IF window[s] /\ crashes[s] > CrashLimit THEN "panic" ELSE status
    ELSE UNCHANGED <<crashes, window, status>>

(* Reap's check of a critical service: the count of this window, or 1 in   *)
(* a new one.                                                              *)
CountCrash(s, f) ==
  IF "CRITICAL" \in f /\ "RESTART" \notin f
    THEN /\ crashes' = [crashes EXCEPT ![s] = IF window[s] THEN @ + 1 ELSE 1]
         /\ window' = [window EXCEPT ![s] = TRUE]
         /\ status' = IF window[s] /\ crashes[s] + 1 > CrashLimit THEN "panic" ELSE status
    ELSE UNCHANGED <<crashes, window, status>>

(* Service::Reap of a service from the rc files, with the end of           *)
(* ReapOneProcess                                                          *)
Reap(s) ==
  LET f == flags[s] \ {"RUNNING"}
      g == IF "ONESHOT" \in f /\ "RESTART" \notin f THEN f \cup {"DISABLED"} ELSE f
  IN /\ pid' = [pid EXCEPT ![s] = NoPid]
     /\ IF g \cap {"DISABLED", "RESET"} # {}
          THEN /\ flags' = [flags EXCEPT ![s] = g]
               /\ svcprop' = [svcprop EXCEPT ![s] = "stopped"]
               /\ waiter' = (waiter /\ "EXEC" \notin g)
               /\ UNCHANGED <<crashVars, status, work>>
          ELSE /\ CountCrash(s, g)
               /\ flags' = [flags EXCEPT ![s] = (g \ {"RESTART"}) \cup {"RESTARTING"}]
               /\ work' = OnRestart[s] \o <<[op |-> "restarted", svc |-> s]>>
               /\ UNCHANGED <<svcprop, waiter>>

(* A temporary service is removed, and its waiter reset. *)
ReapTemporary(t) ==
  /\ pid' = [pid EXCEPT ![t] = NoPid]
  /\ flags' = [flags EXCEPT ![t] = {}]
  /\ waiter' = FALSE
  /\ UNCHANGED <<svcprop, crashVars, status, work>>

Owner(p) == {s \in All : pid[s] = p}

(* ReapOneProcess: waitpid, FindServiceByPid, Reap.  Logging how long the  *)
(* exec took reads through exec_waiter_ without testing it: init, pid 1,   *)
(* is then killed by the null dereference.                                 *)
ReapOneProcess(p) ==
  /\ reaping /\ work = <<>> /\ proc[p].st = "zombie"
  /\ proc' = [proc EXCEPT ![p] = Free]
  /\ \/ /\ Owner(p) = {}
        /\ UNCHANGED <<flags, pid, svcprop, crashVars, waiter, work, status, execing>>
     \/ \E s \in Owner(p) :
          IF "EXEC" \in flags[s] /\ ~ waiter
            THEN /\ status' = "segv"
                 /\ UNCHANGED <<flags, pid, svcprop, crashVars, waiter, work, execing>>
            ELSE /\ execing' = execing \ {s}
                 /\ IF s \in Temps THEN ReapTemporary(s) ELSE Reap(s)
  /\ UNCHANGED <<throttled, request, sigVars>>

-----------------------------------------------------------------------------
(* Environment: children exit (a service's on its own or by SIGKILL; an    *)
(* orphan that the kernel gave to init), time passes (for the services     *)
(* whose timers the code is going to look at).                             *)
Exit(p) ==
  /\ proc[p].st \in {"run", "dying"}
  /\ proc' = [proc EXCEPT ![p].st = "zombie"]
  /\ sigchld' = TRUE
  /\ UNCHANGED <<flags, pid, svcprop, throttled, request, crashVars, sock, reaping,
                 waiter, work, status, execing>>

OrphanExits(p) ==
  /\ proc[p] = Free
  /\ proc' = [proc EXCEPT ![p] = [st |-> "zombie", svc |-> NoSvc]]
  /\ sigchld' = TRUE
  /\ UNCHANGED <<flags, pid, svcprop, throttled, request, crashVars, sock, reaping,
                 waiter, work, status, execing>>

FiveSeconds(s) ==
  /\ throttled[s] /\ "RESTARTING" \in flags[s]
  /\ throttled' = [throttled EXCEPT ![s] = FALSE]
  /\ UNCHANGED <<flags, pid, proc, svcprop, request, crashVars, sigVars,
                 waiter, work, status, execing>>

FourMinutes(s) ==
  /\ window[s] /\ "CRITICAL" \in flags[s]
  /\ window' = [window EXCEPT ![s] = FALSE]
  /\ UNCHANGED <<svcVars, crashes, sigVars, waiter, work, status, execing>>

-----------------------------------------------------------------------------
CommandOps == {"start", "stop", "restart", "enable", "exec_start"}
ClassOps == {"class_start", "stop", "reset", "restart"}
ControlOps == {"start", "stop", "restart"}

Kernel(p) == Exit(p) \/ OrphanExits(p)
Reaping == ReapDone \/ \E p \in Pids : ReapOneProcess(p)

Next ==
  /\ status = "up"
  /\ \/ \E s \in Names :
          \/ \E op \in CommandOps : Command(op, s)
          \/ \E op \in ControlOps : ControlMessage(op, s)
          \/ RestartIfNeeded(s)
          \/ FiveSeconds(s) \/ FourMinutes(s)
     \/ \E t \in Temps : ExecCommand(t)
     \/ \E op \in ClassOps : ClassCommand(op)
     \/ WorkStep \/ HandleSignal \/ SIGCHLD_handler \/ Reaping
     \/ \E p \in Pids : Kernel(p)

Spec == Init /\ [][Next]_vars

(* init's loop keeps running: a handler in progress goes on, epoll serves  *)
(* every ready descriptor in turn, waitpid takes the children in turn, and *)
(* restart_processes runs in every iteration that is not waiting for an    *)
(* exec.  A pending signal is delivered, and time passes.                  *)
Fairness ==
  /\ WF_vars(status = "up" /\ (WorkStep \/ ReapDone))
  /\ \A p \in Pids : SF_vars(status = "up" /\ ReapOneProcess(p))
  /\ SF_vars(status = "up" /\ HandleSignal)
  /\ WF_vars(status = "up" /\ SIGCHLD_handler)
  /\ \A s \in Names : /\ SF_vars(status = "up" /\ RestartIfNeeded(s))
                      /\ WF_vars(status = "up" /\ FiveSeconds(s))
FairSpec == Spec /\ Fairness

-----------------------------------------------------------------------------
(* pid_ is the truth: while init is up, every live or unreaped process     *)
(* forked for a service is the one its pid_ names (so a service never has  *)
(* two, and ReapOneProcess finds the service of every pid), a pid_ never   *)
(* outlives its process (so the signals of Stop, Reset and Restart go to   *)
(* that process and not to one that got its number), and SVC_RUNNING says  *)
(* the same as pid_.                                                       *)
PidsAreOwn ==
  status = "up" =>
    /\ \A p \in Pids : proc[p].svc # NoSvc => pid[proc[p].svc] = p
    /\ \A s \in All : pid[s] # NoPid => proc[pid[s]].svc = s
    /\ \A s \in All : "RUNNING" \in flags[s] <=> pid[s] # NoPid

(* An exited child is never forgotten, although SIGCHLD does not queue,    *)
(* the handler may interrupt init anywhere (between the read of the socket *)
(* and waitpid, say) and the socket may be full: an unreaped child implies *)
(* a pending signal, a byte in the socket or a reaping loop in progress.   *)
SigchldNotLost == Zombies # {} => sigchld \/ sock > 0 \/ reaping

(* A stop or reset sticks: until a later request, a service that was asked *)
(* to stop is not waiting to be restarted, stays disabled or reset, and    *)
(* its process, if init has not reaped it yet, has been killed.            *)
StopSticks ==
  \A s \in Names : request[s] = "stop" =>
    /\ "RESTARTING" \notin flags[s]
    /\ flags[s] \cap {"DISABLED", "RESET"} # {}
    /\ pid[s] # NoPid => proc[pid[s]].st # "run"

BeingReaped(s) == \E i \in 1 .. Len(work) : work[i] = [op |-> "restarted", svc |-> s]

(* init.svc.<name> tells other processes whether the service has a         *)
(* process, except during its own Reap.                                    *)
SvcPropertyAgrees ==
  \A s \in Names : status = "up" /\ ~ BeingReaped(s) =>
    (svcprop[s] \in {"running", "stopping"} <=> pid[s] # NoPid)

(* Every exited child is reaped in the end, unless init goes down. *)
ChildReaped ==
  \A p \in Pids : proc[p].st = "zombie" ~> (proc[p].st # "zombie" \/ status # "up")

(* A service that is to be restarted is started again (or the start fails, *)
(* or it is stopped), provided init does not wait for execs for ever and   *)
(* children do not exit faster than it can reap them.                      *)
Respawn ==
  <>[](~ waiter) /\ []<>Idle =>
    \A s \in Names : "RESTARTING" \in flags[s] ~>
      ("RESTARTING" \notin flags[s] \/ status # "up")

-----------------------------------------------------------------------------
(* README.md on exec and exec_start: "No other commands will be run until  *)
(* this one finishes", "halt processing of additional init commands until  *)
(* it returns".                                                            *)
ExecHalts == status = "up" /\ execing # {} => waiter

(* README.md on restart: "Stops and restarts a running service".           *)
RestartRestarts == \A s \in Names : request[s] = "restart" => svcprop[s] # "stopped"
=============================================================================
