------------------------------- MODULE Actions -------------------------------
(***************************************************************************)
(* init's action queue and main loop: ActionManager (action.cpp), the      *)
(* property triggers, wait_for_prop and the loop of main (init.cpp).       *)
(*                                                                         *)
(* Each iteration of the loop runs at most one command, restarts services  *)
(* that are due, computes how long epoll may sleep, and handles at most    *)
(* one event: a client sets a property, or a child exits.  Services are    *)
(* abstracted to what this part sees of them: they set their init.svc      *)
(* property, and the end of an exec lets init go on (see Services).        *)
(* ParseSection and EndSection give every action a trigger and at least    *)
(* one command before it reaches ActionManager.                            *)
(***************************************************************************)
EXTENDS Integers, Sequences, FiniteSets

CONSTANTS RcActs,    \* actions of the rc files
          Events,    \* names of event triggers
          Loaded,    \* those of them parsed before the loop starts, in order
          Event,     \* event_trigger_ of each, "" if none
          Conds,     \* property_triggers_ of each: a value, or "*", by name
          Script,    \* commands_ of each as parsed
          Boot,      \* event triggers main queues at boot, in order
          Names,     \* property names
          Values,    \* property values, with "" for unset or empty
          SvcProps   \* the init.svc properties that restarts and exits set

(* The properties mount_all sets *)
MountTime == "ro.boottime.init.mount_all"
CryptoState == "ro.crypto.state"
CryptoType == "ro.crypto.type"

Enabler == "enable_property_trigger"
Queuer == "queue_property_triggers"
Builtins == {Enabler, Queuer}
Acts == RcActs \cup Builtins

NoCond == [n \in {} |-> ""]
EventOf(a) == IF a \in Builtins THEN a ELSE Event[a]
CondsOf(a) == IF a \in Builtins THEN NoCond ELSE Conds[a]

(* The commands of rc files, as far as this part tells them apart; every   *)
(* other builtin function is "other".                                      *)
Cmds ==
  [op : {"setprop", "wait_for_prop"}, name : Names, value : Values]
    \cup [op : {"trigger"}, name : Events] \cup [op : {"exec", "other"}]
    \cup [op : {"mount_all"}, import : RcActs \cup {""}, early : BOOLEAN]

ASSUME ActsAssumption == RcActs \cap Builtins = {} /\ Loaded \in Seq(RcActs)
(* No rc file has a section on the name of an action that init itself      *)
(* queues.                                                                 *)
ASSUME TriggerAssumption ==
  /\ \A a \in RcActs : /\ DOMAIN Conds[a] \subseteq Names
                       /\ Event[a] \in (Events \cup {""}) \ Builtins
                       /\ Event[a] # "" \/ DOMAIN Conds[a] # {}
  /\ Boot \in Seq(Events) /\ {"encrypt", "defaultcrypto", "nonencrypted"} \subseteq Events
ASSUME ScriptAssumption == \A a \in RcActs : Script[a] \in Seq(Cmds) /\ Script[a] # <<>>
ASSUME NamesAssumption ==
  /\ "" \notin Names /\ SvcProps \subseteq Names
  /\ {MountTime, CryptoState, CryptoType} \subseteq Names
  /\ {"", "0", "running", "stopped", "encrypted", "unencrypted", "unsupported", "block", "file"}
       \subseteq Values

VARIABLES
  actions,    \* actions_: the actions that triggers are checked against
  commands,   \* commands_ of each action
  queue,      \* trigger_queue_
  executing,  \* current_executing_actions_
  current,    \* current_command_
  props,      \* the properties' values
  enabled,    \* property_triggers_enabled
  waitprop,   \* what wait_for_prop waits for, a set of at most one
  execwait,   \* IsWaitingForExec
  pc,         \* where the loop is
  timeout,    \* epoll_timeout_ms
  owed        \* history: property actions whose conditions have come true
              \* and that have not been started since

am == <<actions, commands, queue, executing, current>>
vars == <<am, props, enabled, waitprop, execwait, pc, timeout, owed>>

-----------------------------------------------------------------------------
EventTrigger(e) == [kind |-> "event", name |-> e, value |-> ""]
PropertyTrigger(n, v) == [kind |-> "property", name |-> n, value |-> v]
BuiltinTrigger(a) == [kind |-> "builtin", name |-> a, value |-> ""]
Trigger == [kind : {"event", "property", "builtin"},
            name : Events \cup Names \cup Builtins \cup {""}, value : Values]

Waiting == waitprop # {} \/ execwait
HasMoreCommands == executing # <<>> \/ queue # <<>>
PropActs == {a \in RcActs : Event[a] = ""}

(* All the conditions of a hold in P. *)
Holds(a, P) ==
  \A n \in DOMAIN CondsOf(a) : P[n] # "" /\ CondsOf(a)[n] \in {"*", P[n]}

(* CheckPropertyTriggers: the pair that was queued is not looked up again; *)
(* the other conditions are checked against the current values.            *)
CheckPropertyTriggers(a, name, value) ==
  \/ DOMAIN CondsOf(a) = {}
  \/ /\ name = "" \/ name \in DOMAIN CondsOf(a)
     /\ \A n \in DOMAIN CondsOf(a) :
          IF n = name THEN CondsOf(a)[n] \in {"*", value}
          ELSE props[n] # "" /\ CondsOf(a)[n] \in {"*", props[n]}

CheckTriggers(t, a) ==
  \/ /\ t.kind = "event" /\ EventOf(a) # "" /\ EventOf(a) = t.name
     /\ CheckPropertyTriggers(a, "", "")
  \/ t.kind = "property" /\ EventOf(a) = "" /\ CheckPropertyTriggers(a, t.name, t.value)
  \/ t.kind = "builtin" /\ t.name = a

(* The elements of s that are in S, in their order: SelectSeq for a set,   *)
(* without its recursion, which proofs cannot follow.                      *)
Select(s, S) ==
  LET at == {i \in 1 .. Len(s) : s[i] \in S}
  IN [k \in 1 .. Cardinality(at) |->
        s[CHOOSE i \in at : Cardinality({j \in at : j <= i}) = k]]

Matching(t) == Select(actions, {a \in Acts : CheckTriggers(t, a)})

(* The triggers main queues before the loop *)
Init ==
  /\ actions = Append(Loaded, Queuer)
  /\ commands = [a \in Acts |-> IF a \in Builtins THEN <<[op |-> a]>> ELSE Script[a]]
  /\ queue = Append([i \in 1 .. Len(Boot) |-> EventTrigger(Boot[i])], BuiltinTrigger(Queuer))
  /\ executing = <<>> /\ current = 0
  /\ props = [n \in Names |-> ""]
  /\ enabled = FALSE /\ waitprop = {} /\ execwait = FALSE
  /\ pc = "command" /\ timeout = "none" /\ owed = {}

-----------------------------------------------------------------------------
(* Mutant of SetProperty: the wait is not ended. *)
SetWithoutWake(n, v, q) ==
  /\ props' = [props EXCEPT ![n] = v]
  /\ queue' = IF enabled THEN Append(q, PropertyTrigger(n, v)) ELSE q
  /\ UNCHANGED waitprop

(* property_set and property_changed, with the queue as it stands at q *)
SetProperty(n, v, q) ==
  /\ props' = [props EXCEPT ![n] = v]
  /\ queue' = IF enabled THEN Append(q, PropertyTrigger(n, v)) ELSE q
  /\ waitprop' = waitprop \ {<<n, v>>}

(* Several sets by one command, in order, and the triggers it queues next; *)
(* a ro. property that has a value is not set again.                       *)
SetProperties(sets, q, triggers) ==
  \E done \in {Select(sets, {x \in Trigger : props[x.name] = ""})} :
    LET all == {done[i] : i \in 1 .. Len(done)} IN
    /\ props' = [n \in Names |-> IF \E x \in all : x.name = n
                                 THEN (CHOOSE x \in all : x.name = n).value ELSE props[n]]
    /\ queue' = (IF enabled THEN q \o done ELSE q) \o triggers
    /\ waitprop' = {w \in waitprop : \A x \in all : w # <<x.name, x.value>>}

(* The actions owed a run after ns were set: those whose conditions hold   *)
(* and that were owed one already or have a condition on one of ns.        *)
Owed(ns, done) ==
  {a \in PropActs : /\ \E i \in 1 .. Len(actions) : actions[i] = a
                    /\ Holds(a, props')
                    /\ a \in owed \ done \/ ns \cap DOMAIN Conds[a] # {}}

(* Mutant of AddAction: the commands are replaced, not appended. *)
ReplaceAction(acts, a) ==
  LET same == {i \in 1 .. Len(acts) : EventOf(acts[i]) = EventOf(a)
                                      /\ CondsOf(acts[i]) = CondsOf(a)}
  IN IF same = {} THEN actions' = Append(acts, a) /\ UNCHANGED commands
     ELSE /\ commands' = [commands EXCEPT ![acts[CHOOSE i \in same : TRUE]] = commands[a]]
          /\ UNCHANGED actions

(* AddAction of an action from an imported rc file *)
AddAction(acts, a) ==
  LET same == {i \in 1 .. Len(acts) : EventOf(acts[i]) = EventOf(a)
                                      /\ CondsOf(acts[i]) = CondsOf(a)}
  IN IF same = {} THEN actions' = Append(acts, a) /\ UNCHANGED commands
     ELSE \E i \in same : /\ \A j \in same : i <= j
                          /\ commands' = [commands EXCEPT ![acts[i]] = @ \o commands[a]]
                          /\ UNCHANGED actions

(* import_late of rc files with one action or none *)
Import(new) ==
  \/ new # "" /\ AddAction(actions, new)
  \/ new = "" /\ UNCHANGED <<actions, commands>>

(* queue_fs_event, by the result of fs_mgr_mount_all; a device that needs  *)
(* recovery reboots, or goes on as after an error when that fails.         *)
FsEvent(sets, event) == [sets |-> sets, triggers |-> <<EventTrigger(event)>>]
NoFsEvent == [sets |-> <<>>, triggers |-> <<>>]
Crypto(state) == PropertyTrigger(CryptoState, state)
FsEvents ==
  {NoFsEvent, FsEvent(<<>>, "encrypt"),
   FsEvent(<<Crypto("encrypted"), PropertyTrigger(CryptoType, "block")>>, "defaultcrypto"),
   FsEvent(<<Crypto("unencrypted")>>, "nonencrypted"),
   FsEvent(<<Crypto("unsupported")>>, "nonencrypted"),
   FsEvent(<<Crypto("encrypted"), PropertyTrigger(CryptoType, "file")>>, "nonencrypted")}

(* Mutant of QueueTriggers: triggers are enabled after the evaluation. *)
EvaluateThenEnable(q) == q \o <<PropertyTrigger("", ""), BuiltinTrigger(Enabler)>>

(* queue_property_triggers_action: enable property triggers, then evaluate *)
(* them all against the current values.                                    *)
QueueTriggers(q) == q \o <<BuiltinTrigger(Enabler), PropertyTrigger("", "")>>

(* What the builtin functions do to the queue, the properties and the      *)
(* waits.  started holds the action whose first command this is.           *)
do_setprop(cmd, q, started) ==
  /\ SetProperty(cmd.name, cmd.value, q)
  /\ owed' = Owed({cmd.name}, started)
  /\ UNCHANGED <<actions, commands, enabled, execwait>>

do_trigger(cmd, q, started) ==
  /\ queue' = Append(q, EventTrigger(cmd.name))
  /\ owed' = owed \ started
  /\ UNCHANGED <<actions, commands, props, enabled, waitprop, execwait>>

do_wait_for_prop(cmd, q, started) ==
  /\ waitprop' = IF props[cmd.name] # cmd.value THEN {<<cmd.name, cmd.value>>}
                 ELSE waitprop
  /\ queue' = q
  /\ owed' = owed \ started
  /\ UNCHANGED <<actions, commands, props, enabled, execwait>>

(* do_exec and do_exec_start; nothing to wait for when the start failed *)
do_exec(q, started) ==
  /\ execwait' \in BOOLEAN
  /\ queue' = q
  /\ owed' = owed \ started
  /\ UNCHANGED <<actions, commands, props, enabled, waitprop>>

do_mount_all(cmd, q, started) ==
  /\ Import(cmd.import)
  /\ \E fs \in IF cmd.early THEN {NoFsEvent} ELSE FsEvents :
       SetProperties(<<PropertyTrigger(MountTime, "0")>> \o fs.sets, q, fs.triggers)
  /\ owed' = Owed({n \in Names : props'[n] # props[n]}, started)
  /\ UNCHANGED <<enabled, execwait>>

queue_property_triggers_action(q) ==
  /\ actions' = Append(Select(actions, Acts \ {Queuer}), Enabler)
  /\ queue' = QueueTriggers(q)
  /\ UNCHANGED <<commands, props, enabled, waitprop, execwait, owed>>

property_enable_triggers_action(q) ==
  /\ actions' = Select(actions, Acts \ {Enabler})
  /\ enabled' = TRUE
  /\ queue' = q
  /\ UNCHANGED <<commands, props, waitprop, execwait, owed>>

(* Command::InvokeFunc of the command *)
Command(cmd, q, started) ==
  \/ cmd.op = "setprop" /\ do_setprop(cmd, q, started)
  \/ cmd.op = "trigger" /\ do_trigger(cmd, q, started)
  \/ cmd.op = "wait_for_prop" /\ do_wait_for_prop(cmd, q, started)
  \/ cmd.op = "exec" /\ do_exec(q, started)
  \/ cmd.op = "mount_all" /\ do_mount_all(cmd, q, started)
  \/ cmd.op = Queuer /\ queue_property_triggers_action(q)
  \/ cmd.op = Enabler /\ property_enable_triggers_action(q)
  \/ /\ cmd.op = "other"
     /\ queue' = q
     /\ owed' = owed \ started
     /\ UNCHANGED <<actions, commands, props, enabled, waitprop, execwait>>

(* Runs the next command of the action at the front of run.  An import may *)
(* have added commands to that very action, so the end is tested after the *)
(* command; the two builtin actions, oneshot, have removed themselves.     *)
Step(run, q) ==
  LET a == run[1] IN
  /\ Command(commands[a][current + 1], q, IF current = 0 THEN {a} ELSE {})
  /\ IF current + 1 = Len(commands'[a])
       THEN executing' = Tail(run) /\ current' = 0
       ELSE executing' = run /\ current' = current + 1

(* ActionManager::ExecuteOneCommand: triggers that match no action are     *)
(* dropped until one matches.                                              *)
ExecuteOneCommand ==
  \/ executing # <<>> /\ Step(executing, queue)
  \/ /\ executing = <<>>
     /\ LET hits == {k \in 1 .. Len(queue) :
                      \E i \in 1 .. Len(actions) : CheckTriggers(queue[k], actions[i])} IN
        IF hits = {}
          THEN /\ queue' = <<>>
               /\ UNCHANGED <<actions, commands, executing, current, props, enabled,
                              waitprop, execwait, owed>>
          ELSE \E k \in hits :
                 /\ \A j \in hits : k <= j
                 /\ \E run \in {Matching(queue[k])}, q \in {SubSeq(queue, k + 1, Len(queue))} :
                      Step(run, q)

-----------------------------------------------------------------------------
(* The loop of main *)

CommandStep ==
  /\ pc = "command"
  /\ \/ Waiting /\ UNCHANGED <<am, props, enabled, waitprop, execwait, owed>>
     \/ ~ Waiting /\ ExecuteOneCommand
  /\ pc' = "restart"
  /\ UNCHANGED timeout

(* Mutant of RestartStep: the timeout is computed first. *)
TimeoutThenRestart ==
  /\ pc = "restart"
  /\ pc' = "epoll"
  /\ \/ /\ Waiting
        /\ timeout' = "forever"
        /\ UNCHANGED <<am, props, waitprop, owed>>
     \/ /\ ~ Waiting
        /\ timeout' \in IF HasMoreCommands THEN {"none"} ELSE {"until", "forever"}
        /\ \/ \E n \in SvcProps : /\ props[n] # "running"
                                  /\ SetProperty(n, "running", queue)
                                  /\ owed' = Owed({n}, {})
           \/ UNCHANGED <<props, queue, waitprop, owed>>
        /\ UNCHANGED <<actions, commands, executing, current>>
  /\ UNCHANGED <<enabled, execwait>>

(* restart_processes may start a service; the timeout is computed after    *)
(* it: none when there is more to do, else until the next restart is due   *)
(* or for ever.                                                            *)
RestartStep ==
  /\ pc = "restart"
  /\ pc' = "epoll"
  /\ \/ /\ Waiting
        /\ timeout' = "forever"
        /\ UNCHANGED <<am, props, waitprop, owed>>
     \/ /\ ~ Waiting
        /\ \/ \E n \in SvcProps : /\ props[n] # "running"
                                  /\ SetProperty(n, "running", queue)
                                  /\ owed' = Owed({n}, {})
           \/ UNCHANGED <<props, queue, waitprop, owed>>
        /\ UNCHANGED <<actions, commands, executing, current>>
        /\ timeout' \in IF HasMoreCommands' THEN {"none"} ELSE {"until", "forever"}
  /\ UNCHANGED <<enabled, execwait>>

(* epoll_wait times out *)
Timeout ==
  /\ pc = "epoll" /\ timeout # "forever"
  /\ pc' = "command"
  /\ UNCHANGED <<am, props, enabled, waitprop, execwait, timeout, owed>>

(* handle_property_set_fd: a client sets a property *)
PropertyEvent(n, v) ==
  /\ pc = "epoll"
  /\ SetProperty(n, v, queue)
  /\ owed' = Owed({n}, {})
  /\ pc' = "command"
  /\ UNCHANGED <<actions, commands, executing, current, enabled, execwait, timeout>>

(* handle_signal: a service exits and its property is set, or the exec     *)
(* that init waits for is over.                                            *)
ServiceExits(n) ==
  /\ pc = "epoll"
  /\ props[n] = "running"
  /\ SetProperty(n, "stopped", queue)
  /\ owed' = Owed({n}, {})
  /\ pc' = "command"
  /\ UNCHANGED <<actions, commands, executing, current, enabled, execwait, timeout>>

ExecEnds ==
  /\ pc = "epoll" /\ execwait
  /\ execwait' = FALSE
  /\ pc' = "command"
  /\ UNCHANGED <<am, props, enabled, waitprop, timeout, owed>>

Loop == CommandStep \/ RestartStep \/ Timeout
Next ==
  \/ Loop \/ ExecEnds
  \/ \E n \in SvcProps : ServiceExits(n)
  \/ \E n \in Names \ SvcProps, v \in Values : PropertyEvent(n, v)

Spec == Init /\ [][Next]_vars

(* init's thread runs; nothing obliges a client to set a property or a     *)
(* command run by exec to end.                                             *)
FairSpec == Spec /\ WF_vars(Loop)

-----------------------------------------------------------------------------
TypeOK ==
  /\ actions \in Seq(Acts)
  /\ DOMAIN commands = Acts
  /\ queue \in Seq(Trigger)
  /\ executing \in Seq(Acts)
  /\ current \in Nat
  /\ executing # <<>> => current < Len(commands[executing[1]])
  /\ props \in [Names -> Values]
  /\ enabled \in BOOLEAN /\ execwait \in BOOLEAN
  /\ waitprop \in SUBSET (Names \X Values) /\ Cardinality(waitprop) <= 1
  /\ pc \in {"command", "restart", "epoll"}
  /\ timeout \in {"none", "until", "forever"}
  /\ owed \in SUBSET PropActs

(* init never goes to sleep with work to do: when epoll may block for      *)
(* ever, either a wait holds the queue up or there is nothing in it, even  *)
(* though restarting a service just before can queue a property trigger.   *)
NoSleepWithWork ==
  pc = "epoll" /\ timeout = "forever" => Waiting \/ ~ HasMoreCommands

(* No change of a property is missed, in particular not one made at boot   *)
(* around the moment property triggers are enabled: once they are and init *)
(* has run out of commands, every action on properties whose conditions    *)
(* came true and still hold has been started since they did.               *)
NoMissedProperty == enabled /\ ~ HasMoreCommands => owed = {}

(* init waits for a property only while it does not have the value; a set  *)
(* that happens before, after or while wait_for_prop runs ends the wait.   *)
WaitIsNeeded == \A w \in waitprop : props[w[1]] # w[2]

(* The queue drains: whatever is queued is run (or dropped), provided the  *)
(* waits end.                                                              *)
QueueDrains == []<>(~ Waiting) => (HasMoreCommands ~> ~ HasMoreCommands)
=============================================================================
