--------------------------- MODULE PropertyService ---------------------------
(***************************************************************************)
(* init's property service (property_service.cpp) and its clients          *)
(* (__system_property_set in bionic's system_properties.cpp): the two      *)
(* socket protocols and their timeouts, write-once properties, and the     *)
(* files of persistent properties, across crashes of the device.           *)
(*                                                                         *)
(* init is one thread.  A handler (boot, load_persist_props, a connection) *)
(* is a list of property_set calls in "todo"; a call that has to write a   *)
(* file takes a step for each thing a crash can separate.  The kernel may  *)
(* write a rename to the disk at any time after it was made.               *)
(***************************************************************************)
EXTENDS Integers, Sequences, FiniteSets

CONSTANTS Clients,    \* processes that set properties
          Calls,      \* calls of __system_property_set, by any thread of any client
          Old,        \* those of them with a libc that knows only protocol 1
          Names,      \* property names that clients use
          Values,     \* values; a message of protocol 1 turns one into a name,
                      \* which may be of any kind
          Asked,      \* what clients may ask for: [by, name, value]
          Ro,         \* the names that begin with "ro."
          Persist,    \* the names that begin with "persist."
          Ctl,        \* the names that begin with "ctl."
          Illegal,    \* names that is_legal_property_name refuses
          Long,       \* values of PROP_VALUE_MAX bytes and more
          Allowed,    \* <<client, name>> that the SELinux policy lets through
          Controls,   \* <<client, value>> it lets through for a ctl. name
          Defaults,   \* what the boot files set, in order
          Overrides,  \* what /data/local.prop sets, in order
          Factory,    \* the files in /data/property at the first boot
          Backlog     \* connections that may wait for accept, 8 in the code

Version == "ro.property_service.version"
Ready == "ro.persistent_properties.ready"
AllNames == Names \cup Values \cup {Version, Ready}
ReadOnly == Ro \cup {Version, Ready}
NoValue == "no value"                   \* no such property or file
Truncated == "truncated"                \* content of a file after a failed write
NoCall == "no call"
LoadFiles == [name |-> "load_persistent_properties"]    \* a call in todo

Sets == [name : AllNames, value : Values]
Results == {"SUCCESS", "INVALID_NAME", "INVALID_VALUE", "READ_ONLY", "SET_FAILED",
            "READ_CMD", "READ_DATA", "PERMISSION_DENIED", "CONTROL_FAILED"}

ASSUME NamesAssumption ==
  /\ Ro \cup Persist \cup Ctl \subseteq Names \cup Values
  /\ {Version, Ready} \cap (Persist \cup Ctl) = {}
  /\ {NoValue, Truncated} \cap Values = {}
  /\ Long \subseteq Values
  /\ Asked \subseteq [by : Clients, name : Names, value : Values]
ASSUME KindsAssumption == Ro \cap Persist = {} /\ Ctl \cap (Ro \cup Persist) = {}
ASSUME CallsAssumption == NoCall \notin Calls
ASSUME FilesAssumption ==
  /\ Defaults \in Seq(Sets) /\ Overrides \in Seq(Sets)
  /\ IsFiniteSet(Persist)
  /\ Factory \in [Persist -> (Values \ Long) \cup {NoValue}]
ASSUME BacklogAssumption == Backlog \in Nat \ {0}

VARIABLES
  mem,       \* the properties in shared memory
  listening, \* the socket exists
  loaded,    \* persistent_properties_loaded
  pc,        \* where init is
  todo,      \* property_set calls of the handler in progress
  serving,   \* the connection the handler is for
  queue,     \* connections waiting for accept
  temp,      \* content of the temporary file
  synced,    \* and whether it is on the disk
  file,      \* /data/property as processes see it
  unsafe,    \* the files whose content is not on the disk
  disk,      \* /data/property as a crash would leave it
  torn,      \* history: names whose file a write or an fsync has failed on
  spoilt,    \* history: names whose file could not be read, or not be written
             \* since the value was last set, in this boot
  again,     \* history: load_persist_props has run with the files loaded
  proto,     \* g_propservice_protocol_version of each client
  call,      \* each call: where it is and what it sets
  reply,     \* what init sent on the call's connection, or that it closed it,
             \* "cut" when it had not read all of the message
  applied    \* history: calls whose property_set took effect

store == <<temp, synced, file, unsafe, disk, torn, spoilt>>
server == <<mem, listening, loaded, pc, todo, serving>>
client == <<proto, call, reply, applied>>
vars == <<server, queue, store, again, client>>

NewCall == [at |-> "new"]
Requests == [at : {"connected", "sent", "ok", "error"}, by : Clients, proto : {1, 2},
             name : Names, value : Values]

TypeOK ==
  /\ mem \in [AllNames -> Values \cup {"2", "true", NoValue, Truncated}]
  /\ listening \in BOOLEAN /\ loaded \in BOOLEAN
  /\ pc \in {"run", "write", "fsync", "rename", "recv", "idle"}
  /\ serving \in Calls \cup {NoCall}
  /\ pc \in {"run", "write", "fsync", "rename"} => todo # <<>>
  /\ queue \in Seq(Calls) /\ Len(queue) <= Backlog
  /\ temp \in Values \cup {NoValue, Truncated}
  /\ file \in [Persist -> Values \cup {NoValue, Truncated}]
  /\ disk \in [Persist -> Values \cup {NoValue, Truncated}]
  /\ synced \in BOOLEAN /\ again \in BOOLEAN
  /\ unsafe \in SUBSET Persist /\ torn \in SUBSET Persist /\ spoilt \in SUBSET Persist
  /\ proto \in [Clients -> {0, 1, 2}]
  /\ call \in [Calls -> {NewCall} \cup Requests]
  /\ reply \in [Calls -> {"none", "closed", "cut"} \cup Results]
  /\ applied \in SUBSET Calls

(* main: property_init, the boot files, and then start_property_service,   *)
(* which sets the version before there is a socket.                        *)
FirstProto == [c \in Clients |-> IF c \in Old THEN 1 ELSE 0]
BootScript == Append(Defaults, [name |-> Version, value |-> "2"])
Boot ==
  /\ mem' = [n \in AllNames |-> NoValue]
  /\ listening' = FALSE /\ loaded' = FALSE
  /\ pc' = "run" /\ todo' = BootScript /\ serving' = NoCall /\ queue' = <<>>
  /\ temp' = NoValue /\ synced' = FALSE /\ unsafe' = {} /\ spoilt' = {}
  /\ proto' = FirstProto

Init ==
  /\ mem = [n \in AllNames |-> NoValue]
  /\ listening = FALSE /\ loaded = FALSE
  /\ pc = "run" /\ todo = BootScript /\ serving = NoCall /\ queue = <<>>
  /\ temp = NoValue /\ synced = FALSE
  /\ file = Factory /\ disk = Factory
  /\ unsafe = {} /\ torn = {} /\ spoilt = {} /\ again = FALSE
  /\ proto = FirstProto
  /\ call = [k \in Calls |-> NewCall]
  /\ reply = [k \in Calls |-> "none"]
  /\ applied = {}

-----------------------------------------------------------------------------
(* property_set *)

(* Mutant of AfterCall: the end of the list is noticed one call late. *)
AfterCallLate == IF todo = <<>> THEN "idle" ELSE "run"

(* Where init goes from the call at the head of todo *)
AfterCall == IF Tail(todo) = <<>> THEN "idle" ELSE "run"

(* The call at the head of todo returns r.  At the end of a connection's   *)
(* handler the result is sent (not with the old protocol) and the socket   *)
(* closed; at the end of boot the socket is created.                       *)
Return(r) ==
  /\ todo' = Tail(todo)
  /\ pc' = AfterCall
  /\ listening' = (listening \/ Tail(todo) = <<>>)
  /\ IF serving = NoCall THEN UNCHANGED <<serving, reply>>
     ELSE /\ serving' = NoCall
          /\ reply' = [reply EXCEPT ![serving] = IF call[serving].proto = 1 THEN "closed" ELSE r]

(* Mutant of Refused: a ro. property can be set again. *)
RefusedUnlessWritable(n, v) ==
  IF n \in Illegal THEN {"INVALID_NAME"}
  ELSE IF v \in Long THEN {"INVALID_VALUE"}
  ELSE IF mem[n] = NoValue THEN {"SET_FAILED"} ELSE {}

(* Why property_set may refuse; an add fails when the area is full. *)
Refused(n, v) ==
  IF n \in Illegal THEN {"INVALID_NAME"}
  ELSE IF v \in Long THEN {"INVALID_VALUE"}
  ELSE IF mem[n] # NoValue /\ n \in ReadOnly THEN {"READ_ONLY"}
  ELSE IF mem[n] = NoValue THEN {"SET_FAILED"} ELSE {}

PropertySetFails ==
  /\ pc = "run" /\ Head(todo) # LoadFiles
  /\ \E r \in Refused(Head(todo).name, Head(todo).value) : Return(r)
  /\ UNCHANGED <<mem, loaded, queue, store, again, proto, call, applied>>

(* Mutant of WritesFile: the test of the flag is the wrong way round. *)
WritesBeforeLoad(n) == ~ loaded /\ n \in Persist

(* No property is written to disk until all are loaded. *)
WritesFile(n) == loaded /\ n \in Persist

PropertySet ==
  LET n == Head(todo).name
      v == Head(todo).value
  IN /\ pc = "run" /\ Head(todo) # LoadFiles
     /\ Refused(n, v) \subseteq {"SET_FAILED"}
     /\ mem' = [mem EXCEPT ![n] = v]
     /\ applied' = IF serving # NoCall /\ [name |-> n, value |-> v] =
                        [name |-> call[serving].name, value |-> call[serving].value]
                   THEN applied \cup {serving} ELSE applied
     /\ IF WritesFile(n)
          THEN pc' = "write" /\ UNCHANGED <<listening, todo, serving, reply>>
          ELSE Return("SUCCESS")
     /\ UNCHANGED <<loaded, queue, store, again, proto, call>>

-----------------------------------------------------------------------------
(* write_persistent_property *)

(* mkstemp and write; neither a short write nor a failed one is noticed *)
WriteTemp ==
  /\ pc = "write"
  /\ \E content \in {Head(todo).value, Truncated} :
       LET short == IF content = Head(todo).value THEN {} ELSE {Head(todo).name} IN
       temp' = content /\ torn' = torn \cup short /\ spoilt' = spoilt \cup short
  /\ synced' = FALSE
  /\ pc' = "fsync"
  /\ UNCHANGED <<mem, listening, loaded, todo, serving, queue, file, unsafe, disk, again, client>>

MkstempFails ==
  /\ pc = "write"
  /\ spoilt' = spoilt \cup {Head(todo).name}
  /\ Return("SUCCESS")
  /\ UNCHANGED <<mem, loaded, queue, temp, synced, file, unsafe, disk, torn, again,
                 proto, call, applied>>

(* Mutant of Fsync: the file is not forced to the disk. *)
FsyncSkipped ==
  /\ pc = "fsync"
  /\ pc' = "rename"
  /\ UNCHANGED <<mem, listening, loaded, todo, serving, queue, store, again, client>>

(* fsync may fail; its result is not looked at *)
Fsync ==
  /\ pc = "fsync"
  /\ \/ synced' = TRUE /\ UNCHANGED torn
     \/ synced' = FALSE /\ torn' = torn \cup {Head(todo).name}
  /\ pc' = "rename"
  /\ UNCHANGED <<mem, listening, loaded, todo, serving, queue,
                 temp, file, unsafe, disk, spoilt, again, client>>

Rename ==
  LET n == Head(todo).name IN
  /\ pc = "rename"
  /\ \/ /\ file' = [file EXCEPT ![n] = temp]
        /\ unsafe' = IF synced THEN unsafe \ {n} ELSE unsafe \cup {n}
        /\ spoilt' = IF temp = Head(todo).value THEN spoilt \ {n} ELSE spoilt
     \/ spoilt' = spoilt \cup {n} /\ UNCHANGED <<file, unsafe>>
  /\ temp' = NoValue /\ synced' = FALSE
  /\ Return("SUCCESS")
  /\ UNCHANGED <<mem, loaded, queue, disk, torn, again, proto, call, applied>>

(* The file system writes a rename to the disk, and the file's content if  *)
(* that has been forced there; if not, perhaps only part of it.            *)
Writeback(n) ==
  /\ disk[n] # file[n]
  /\ \E content \in {file[n]} \cup (IF n \in unsafe THEN {Truncated} ELSE {}) :
       disk' = [disk EXCEPT ![n] = content]
  /\ UNCHANGED <<server, queue, temp, synced, file, unsafe, torn, spoilt, again, client>>

-----------------------------------------------------------------------------
(* load_persist_props, a command of the rc files or of vold *)
LoadPersistProps ==
  /\ pc = "idle"
  /\ todo' = Overrides \o <<LoadFiles, [name |-> Ready, value |-> "true"]>>
  /\ pc' = "run"
  /\ again' = (again \/ loaded)
  /\ UNCHANGED <<mem, listening, loaded, serving, queue, store, client>>

Files == {n \in Persist : file[n] # NoValue}

(* The files of P, each once, in the order of the directory *)
LoadOrders(P) ==
  {o \in [1 .. Cardinality(P) -> P] : \A n \in P : \E i \in DOMAIN o : o[i] = n}

(* load_persistent_properties: the flag is set first, so that what is read *)
(* is also written again.  A file that cannot be opened or read, or has    *)
(* the wrong owner or mode, is skipped; so are all without the directory.  *)
LoadPersistentProperties ==
  /\ pc = "run" /\ Head(todo) = LoadFiles
  /\ loaded' = TRUE
  /\ \E skipped \in SUBSET Files :
       /\ spoilt' = spoilt \cup skipped
       /\ \E o \in LoadOrders(Files \ skipped) :
            todo' = [i \in DOMAIN o |-> [name |-> o[i], value |-> file[o[i]]]] \o Tail(todo)
  /\ UNCHANGED <<mem, listening, pc, serving, queue, temp, synced, file, unsafe, disk, torn,
                 again, client>>

-----------------------------------------------------------------------------
(* handle_property_set_fd *)
Accept ==
  /\ pc = "idle" /\ queue # <<>>
  /\ serving' = Head(queue)
  /\ queue' = Tail(queue)
  /\ pc' = "recv"
  /\ UNCHANGED <<mem, listening, loaded, todo, store, again, client>>

(* Mutant of Refuse: the connection is left open. *)
RefuseSilently(r) ==
  /\ serving' = NoCall
  /\ pc' = "idle"
  /\ UNCHANGED <<mem, listening, loaded, todo, queue, store, again, client>>

(* init answers without setting anything *)
Refuse(r) ==
  /\ reply' = [reply EXCEPT ![serving] = r]
  /\ serving' = NoCall
  /\ pc' = "idle"
  /\ UNCHANGED <<mem, listening, loaded, todo, queue, store, again, proto, call, applied>>

(* The message is in the socket, even if the client has stopped waiting. *)
Arrived(k) == call[k].at \in {"sent", "ok"}

(* Nothing arrived within 2 s, or it arrived so late that the command used *)
(* up the time for the name and the value.                                 *)
ReceiveTimeout ==
  /\ pc = "recv"
  /\ \/ ~ Arrived(serving) /\ Refuse("READ_CMD")
     \/ /\ Arrived(serving)
        /\ Refuse(IF call[serving].proto = 1 THEN "cut" ELSE "READ_DATA")

(* Mutant of NameOf: so is it with the new protocol. *)
NameOfBoth(r) == r.value

(* handle_property_set is called with the value for the name when the      *)
(* message is of the old protocol.                                         *)
NameOf(r) == IF r.proto = 1 THEN r.value ELSE r.name

Receive ==
  LET r == call[serving]
      n == NameOf(r)
      allowed == <<r.by, n>> \in Allowed
      Answer(s) == IF r.proto = 1 THEN "closed" ELSE s
  IN /\ pc = "recv" /\ Arrived(serving)
     /\ \/ n \in Illegal /\ Refuse("INVALID_NAME")
        \/ /\ n \notin Illegal /\ n \in Ctl
           /\ Refuse(Answer(IF <<r.by, r.value>> \in Controls THEN "SUCCESS" ELSE "CONTROL_FAILED"))
        \/ n \notin Illegal \cup Ctl /\ ~ allowed /\ Refuse(Answer("PERMISSION_DENIED"))
        \/ /\ n \notin Illegal \cup Ctl /\ allowed
           /\ todo' = <<[name |-> n, value |-> r.value]>>
           /\ pc' = "run"
           /\ UNCHANGED <<mem, listening, loaded, serving, queue, store, again, client>>

-----------------------------------------------------------------------------
(* __system_property_set: the protocol version is detected once and kept;  *)
(* then connect, send, and wait for the answer.                            *)
Detect(c) == IF proto[c] # 0 THEN proto[c] ELSE IF mem[Version] = NoValue THEN 1 ELSE 2

Connect(k, r) ==
  /\ call[k] = NewCall
  /\ r.value \notin Long
  /\ proto' = [proto EXCEPT ![r.by] = Detect(r.by)]
  /\ LET Made(at) == call' = [call EXCEPT ![k] =
               [at |-> at, by |-> r.by, proto |-> Detect(r.by), name |-> r.name, value |-> r.value]]
     IN \/ ~ listening /\ Made("error") /\ UNCHANGED queue
        \/ /\ listening /\ Len(queue) < Backlog
           /\ Made("connected")
           /\ queue' = Append(queue, k)
  /\ UNCHANGED <<server, store, again, reply, applied>>

(* The peer may have given up and closed. *)
Send(k) ==
  /\ call[k].at = "connected"
  /\ call' = [call EXCEPT ![k].at = IF reply[k] = "none" THEN "sent" ELSE "error"]
  /\ UNCHANGED <<server, queue, store, again, proto, reply, applied>>

(* send_prop_msg: the old protocol reports success when the socket closes, *)
(* and also when it does not within 250 ms.                                *)
FinishLegacy(k) ==
  /\ call[k].at = "sent" /\ call[k].proto = 1
  /\ call' = [call EXCEPT ![k].at = "ok"]
  /\ UNCHANGED <<server, queue, store, again, proto, reply, applied>>

(* The new one waits for the result. *)
Finish(k) ==
  /\ call[k].at = "sent" /\ call[k].proto = 2
  /\ reply[k] # "none"
  /\ call' = [call EXCEPT ![k].at = IF reply[k] = "SUCCESS" THEN "ok" ELSE "error"]
  /\ UNCHANGED <<server, queue, store, again, proto, reply, applied>>

(* The device loses power or init dies, and boots again. *)
Crash ==
  /\ Boot
  /\ file' = disk
  /\ call' = [k \in Calls |-> IF call[k].at \in {"connected", "sent"}
                              THEN [call[k] EXCEPT !.at = "error"] ELSE call[k]]
  /\ UNCHANGED <<disk, torn, again, reply, applied>>

-----------------------------------------------------------------------------
Set == PropertySet \/ PropertySetFails \/ WriteTemp \/ MkstempFails \/ Fsync \/ Rename
       \/ LoadPersistentProperties
Handle == Accept \/ Receive \/ ReceiveTimeout
ClientStep(k) == Send(k) \/ Finish(k) \/ FinishLegacy(k)
Next ==
  \/ Set \/ Handle \/ LoadPersistProps \/ Crash
  \/ \E n \in Persist : Writeback(n)
  \/ \E k \in Calls :
       \/ ClientStep(k)
       \/ \E r \in Asked : Connect(k, r)

Spec == Init /\ [][Next]_vars

(* init runs a handler to its end, and epoll serves the socket in its turn *)
(* whatever else there is to do; a client whose answer has come takes it.  *)
(* No client has to send what it connected for.                            *)
Fairness ==
  /\ WF_vars(Set) /\ WF_vars(Handle) /\ SF_vars(Accept)
  /\ \A k \in Calls : WF_vars(Finish(k) \/ FinishLegacy(k))
FairSpec == Spec /\ Fairness

-----------------------------------------------------------------------------
(* What a client is told is what happened: with protocol 2, success means  *)
(* that its property was set to its value, and an error code sent by init, *)
(* a timeout of init's included, that its call changed nothing.            *)
ReplyIsTrue ==
  \A k \in Calls :
    /\ call[k] # NewCall
    /\ call[k].at \in {"ok", "error"} /\ call[k].proto = 2 /\ call[k].name \notin Ctl
    => IF call[k].at = "ok" THEN k \in applied
       ELSE reply[k] \in Results \ {"SUCCESS"} => k \notin applied

(* A ro. property never changes once it has a value, whoever sets it,      *)
(* until the device boots again.                                           *)
WriteOnce ==
  [][\A n \in ReadOnly : mem[n] # NoValue /\ mem'[n] # mem[n] => todo' = BootScript]_vars

(* The files survive crashes: whenever the power goes, the file of a       *)
(* persistent property holds what it held at first, or the value that a    *)
(* client asked for which the policy lets set this very name - it asked    *)
(* for the name, or for the name as a value, which is what a message of    *)
(* protocol 1 comes to.  It never holds a default of the boot files, a     *)
(* value of local.prop only if load_persist_props ran once more after the  *)
(* files were loaded, and part of a value only if the write or the fsync   *)
(* of that file had failed.                                                *)
FilesAreGenuine ==
  \A n \in Persist :
    \/ disk[n] = Factory[n]
    \/ \E r \in Asked : /\ disk[n] = r.value /\ n \in {r.name, r.value}
                       /\ <<r.by, n>> \in Allowed
    \/ again /\ \E i \in DOMAIN Overrides : Overrides[i] = [name |-> n, value |-> disk[n]]
    \/ disk[n] = Truncated /\ n \in torn

(* Once the persistent properties are loaded, memory and files agree       *)
(* between two handlers, except where a property could not be added, its   *)
(* file not be read, or the file not be written since its value was last   *)
(* set: a later write that succeeds, or a boot, makes them agree again.    *)
MemoryMatchesFiles ==
  loaded /\ pc \in {"idle", "recv"} =>
    \A n \in Persist \ spoilt :
      file[n] # NoValue /\ mem[n] # NoValue => mem[n] = file[n]

(* Every call that has sent its message returns, although protocol 2 waits *)
(* for the answer without a timeout and clients ahead of it in the queue   *)
(* may have connected and never send.                                      *)
CallReturns ==
  \A k \in Calls : call[k].at = "sent" ~> call[k].at \in {"ok", "error"}

-----------------------------------------------------------------------------
(* The comment in send_prop_msg: "callers who do read-after-write can      *)
(* reliably see what they've written": a call with protocol 1 whose        *)
(* message init has read and closed, on a property it may set that exists, *)
(* has set it.                                                             *)
LegacyCallSets ==
  \A k \in Calls :
    /\ call[k] # NewCall
    /\ call[k].proto = 1 /\ call[k].at = "ok" /\ reply[k] = "closed"
    /\ <<call[k].by, call[k].name>> \in Allowed
    /\ call[k].name \notin Illegal \cup Ctl \cup ReadOnly /\ mem[call[k].name] # NoValue
    => k \in applied
=============================================================================
