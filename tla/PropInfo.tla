------------------------------ MODULE PropInfo ------------------------------
(***************************************************************************)
(* One system property in shared memory: bionic's prop_info and the serial *)
(* of the property area.  init is the only writer; every other process     *)
(* maps the area read-only and synchronises through two 32-bit serials and *)
(* futexes, without a lock (system_properties.cpp).                        *)
(*                                                                         *)
(* A prop_info's serial packs the length of the value (top byte) and a     *)
(* 24-bit counter whose low bit is the dirty bit.  The counter wraps at    *)
(* SerialMod, the area's serial at AreaMod (2^24 and 2^32 in the code).    *)
(* A byte of the value buffer is represented by the version (the number of *)
(* the update) that wrote it: a read is torn when the bytes it returns     *)
(* come from different versions.  Bytes are copied one at a time and in    *)
(* any order on both sides, which is what the racing memcpy and strlcpy    *)
(* between the two fences may do.                                          *)
(***************************************************************************)
EXTENDS Integers, FiniteSets

CONSTANTS Clients,      \* threads that read the property or wait for it
          MaxLen,       \* longest value, PROP_VALUE_MAX - 1
          Half,         \* updates after which a prop_info's counter repeats
          AreaMod       \* values of the property area's serial

ASSUME ClientsAssumption == IsFiniteSet(Clients)
ASSUME LenAssumption == MaxLen \in Nat
ASSUME HalfAssumption == Half \in Nat \ {0}
ASSUME AreaAssumption == AreaMod \in Nat \ {0}

VARIABLES
  serial,   \* pi->serial: the length and the counter
  value,    \* pi->value: for each byte the version that wrote it
  area,     \* pa->serial()
  wpc,      \* where init is inside __system_property_update or _add
  wtodo,    \* bytes strlcpy has still to store
  wlen,     \* length of the value init is storing
  ver,      \* history: number of updates published so far
  bumps,    \* history: number of increments of the area's serial so far
  pc,       \* where each client is
  cserial,  \* each client's local copy of pi->serial
  todo,     \* bytes each client's memcpy has still to load
  buf,      \* each client's value buffer
  carea,    \* each client's local copy of the area's serial
  cver,     \* history: the version published when cserial was loaded
  cbumps    \* history: bumps when carea was loaded

shared == <<serial, value, area>>
writer == <<wpc, wtodo, wlen, ver, bumps>>
client == <<pc, cserial, todo, buf, carea, cver, cbumps>>
vars == <<shared, writer, client>>

-----------------------------------------------------------------------------
SerialMod == 2 * Half   \* the counter's range: the dirty bit is its low bit
Bytes == 0 .. MaxLen
Serials == [len : Bytes, ctr : 0 .. SerialMod - 1]

(* SERIAL_DIRTY: the low bit of the counter *)
Dirty(s) == s.ctr % 2 = 1

(* serial |= 1 *)
SetDirty(s) == IF Dirty(s) THEN s ELSE [s EXCEPT !.ctr = @ + 1]

(* Mutant of Publish: the counter is not masked. *)
PublishUnmasked(s, len) == [len |-> len, ctr |-> s.ctr + 1]

(* (len << 24) | ((serial + 1) & 0xffffff) *)
Publish(s, len) == [len |-> len, ctr |-> (s.ctr + 1) % SerialMod]

WriterPcs == {"idle", "copy", "wake", "bump", "wakearea"}

(* "load": the load of pi->serial in __system_property_serial;            *)
(* "dirty", "dirtysleep": about to call and asleep in its futex wait;     *)
(* "copy": the memcpy of the value, then the second load;                 *)
(* "done": the read returned, its results are in cserial and buf;         *)
(* "wait", "waitsleep", "waitload": __system_property_wait on the         *)
(* property; "any", "anysleep", "anyload": the same on the area's serial. *)
Pcs == {"idle", "load", "dirty", "dirtysleep", "copy", "done",
        "wait", "waitsleep", "waitload", "any", "anysleep", "anyload"}

TypeOK ==
  /\ serial \in Serials
  /\ value \in [Bytes -> Nat]
  /\ area \in 0 .. AreaMod - 1
  /\ wpc \in WriterPcs /\ wtodo \in SUBSET Bytes /\ wlen \in Bytes
  /\ ver \in Nat /\ bumps \in Nat
  /\ pc \in [Clients -> Pcs]
  /\ cserial \in [Clients -> Serials]
  /\ todo \in [Clients -> SUBSET Bytes]
  /\ buf \in [Clients -> [Bytes -> Nat]]
  /\ carea \in [Clients -> 0 .. AreaMod - 1]
  /\ cver \in [Clients -> Nat]
  /\ cbumps \in [Clients -> Nat]

(* The prop_info constructor leaves the property clean with the counter 0. *)
Init ==
  /\ serial \in [len : Bytes, ctr : {0}]
  /\ value = [i \in Bytes |-> 0]
  /\ area = 0
  /\ wpc = "idle" /\ wtodo = {} /\ wlen = serial.len
  /\ ver = 0 /\ bumps = 0
  /\ pc = [c \in Clients |-> "idle"]
  /\ cserial = [c \in Clients |-> serial]
  /\ todo = [c \in Clients |-> {}]
  /\ buf = [c \in Clients |-> [i \in Bytes |-> 0]]
  /\ carea = [c \in Clients |-> 0]
  /\ cver = [c \in Clients |-> 0]
  /\ cbumps = [c \in Clients |-> 0]

-----------------------------------------------------------------------------
(* init: __system_property_update                                          *)

(* Sets the dirty bit; a value that is too long is refused before this.    *)
UpdateBegin ==
  \E len \in Bytes :
    /\ wpc = "idle"
    /\ serial' = SetDirty(serial)
    /\ wpc' = "copy"
    /\ wtodo' = 0 .. len
    /\ wlen' = len
    /\ UNCHANGED <<value, area, ver, bumps, client>>

(* strlcpy(pi->value, value, len + 1), one byte *)
UpdateCopy ==
  \E i \in wtodo :
    /\ wpc = "copy"
    /\ value' = [value EXCEPT ![i] = ver + 1]
    /\ wtodo' = wtodo \ {i}
    /\ UNCHANGED <<serial, area, wpc, wlen, ver, bumps, client>>

UpdatePublish ==
  /\ wpc = "copy" /\ wtodo = {}
  /\ serial' = Publish(serial, wlen)
  /\ ver' = ver + 1
  /\ wpc' = "wake"
  /\ UNCHANGED <<value, area, wtodo, wlen, bumps, client>>

(* Mutants of UpdateWake: the threads in __system_property_wait, or those  *)
(* in __system_property_serial, are not woken; the area is forgotten.      *)
WakeOnly(asleep, awake, next) ==
  /\ wpc = "wake"
  /\ wpc' = next
  /\ pc' = [c \in Clients |-> IF pc[c] = asleep THEN awake ELSE pc[c]]
  /\ UNCHANGED <<shared, wtodo, wlen, ver, bumps,
                 cserial, todo, buf, carea, cver, cbumps>>
WakeReadersOnly == WakeOnly("dirtysleep", "load", "bump")
WakeWaitersOnly == WakeOnly("waitsleep", "waitload", "bump")
WakeWithoutBump == WakeOnly("dirtysleep", "load", "idle")

(* __futex_wake(&pi->serial, INT32_MAX): every sleeper returns to its loop *)
UpdateWake ==
  /\ wpc = "wake"
  /\ wpc' = "bump"
  /\ pc' = [c \in Clients |-> CASE pc[c] = "dirtysleep" -> "load"
                                [] pc[c] = "waitsleep" -> "waitload"
                                [] OTHER -> pc[c]]
  /\ UNCHANGED <<shared, wtodo, wlen, ver, bumps,
                 cserial, todo, buf, carea, cver, cbumps>>

(* The area's serial is incremented by an update and by an add alike. *)
BumpArea ==
  /\ wpc = "bump"
  /\ area' = (area + 1) % AreaMod
  /\ bumps' = bumps + 1
  /\ wpc' = "wakearea"
  /\ UNCHANGED <<serial, value, wtodo, wlen, ver, client>>

WakeArea ==
  /\ wpc = "wakearea"
  /\ wpc' = "idle"
  /\ pc' = [c \in Clients |-> IF pc[c] = "anysleep" THEN "anyload" ELSE pc[c]]
  /\ UNCHANGED <<shared, wtodo, wlen, ver, bumps,
                 cserial, todo, buf, carea, cver, cbumps>>

(* __system_property_add of another property: pa->add touches no byte of   *)
(* this one; what follows is the increment and the wake of the area.       *)
AddOther ==
  /\ wpc = "idle"
  /\ wpc' = "bump"
  /\ UNCHANGED <<shared, wtodo, wlen, ver, bumps, client>>

-----------------------------------------------------------------------------
(* A client.  It loads the area's serial (__system_property_area_serial),  *)
(* reads the property, and may then wait for a change of the property or   *)
(* of any property.                                                        *)

LoadArea(c) ==
  /\ pc[c] \in {"idle", "done"}
  /\ carea' = [carea EXCEPT ![c] = area]
  /\ cbumps' = [cbumps EXCEPT ![c] = bumps]
  /\ pc' = [pc EXCEPT ![c] = "load"]
  /\ UNCHANGED <<shared, writer, cserial, todo, buf, cver>>

(* __system_property_serial: the acquire load, and then either the futex   *)
(* wait or the memcpy.  The last byte to copy is the terminator in         *)
(* __system_property_read; __system_property_read_callback stores that one *)
(* itself, where the length it loaded says.                                *)
LoadSerial(c) ==
  \E last \in {serial.len - 1, serial.len} :
    /\ pc[c] = "load"
    /\ cserial' = [cserial EXCEPT ![c] = serial]
    /\ cver' = [cver EXCEPT ![c] = ver]
    /\ IF Dirty(serial)
         THEN /\ pc' = [pc EXCEPT ![c] = "dirty"]
              /\ UNCHANGED <<todo, buf>>
         ELSE /\ pc' = [pc EXCEPT ![c] = "copy"]
              /\ todo' = [todo EXCEPT ![c] = 0 .. last]
              /\ buf' = IF last = serial.len THEN buf
                         ELSE [buf EXCEPT ![c][serial.len] = ver]
    /\ UNCHANGED <<shared, writer, carea, cbumps>>

(* The futex system call compares and sleeps atomically: *)
FutexWait(c, word, old, asleep, awake) ==
  pc' = [pc EXCEPT ![c] = IF word = old THEN asleep ELSE awake]

DirtyWait(c) ==
  /\ pc[c] = "dirty"
  /\ FutexWait(c, serial, cserial[c], "dirtysleep", "load")
  /\ UNCHANGED <<shared, writer, cserial, todo, buf, carea, cver, cbumps>>

(* memcpy, one byte *)
CopyByte(c) ==
  \E i \in todo[c] :
    /\ pc[c] = "copy"
    /\ buf' = [buf EXCEPT ![c][i] = value[i]]
    /\ todo' = [todo EXCEPT ![c] = @ \ {i}]
    /\ UNCHANGED <<shared, writer, pc, cserial, carea, cver, cbumps>>

(* Mutant of CheckSerial: only the length is compared. *)
CheckLength(c) ==
  /\ pc[c] = "copy" /\ todo[c] = {}
  /\ pc' = [pc EXCEPT ![c] = IF cserial[c].len = serial.len THEN "done" ELSE "load"]
  /\ UNCHANGED <<shared, writer, cserial, todo, buf, carea, cver, cbumps>>

(* serial == load(pi->serial): return, or read again *)
CheckSerial(c) ==
  /\ pc[c] = "copy" /\ todo[c] = {}
  /\ pc' = [pc EXCEPT ![c] = IF cserial[c] = serial THEN "done" ELSE "load"]
  /\ UNCHANGED <<shared, writer, cserial, todo, buf, carea, cver, cbumps>>

(* The caller of __system_property_wait passes the serial of its read, the *)
(* caller of __system_property_wait_any the area's serial it loaded first. *)
BeginWait(c) ==
  /\ pc[c] = "done"
  /\ \E p \in {"wait", "any"} : pc' = [pc EXCEPT ![c] = p]
  /\ UNCHANGED <<shared, writer, cserial, todo, buf, carea, cver, cbumps>>

WaitFutex(c) ==
  /\ \/ /\ pc[c] = "wait"
        /\ FutexWait(c, serial, cserial[c], "waitsleep", "waitload")
     \/ /\ pc[c] = "any"
        /\ FutexWait(c, area, carea[c], "anysleep", "anyload")
  /\ UNCHANGED <<shared, writer, cserial, todo, buf, carea, cver, cbumps>>

(* while (new_serial == old_serial); the caller then reads again *)
WaitLoad(c) ==
  /\ \/ /\ pc[c] = "waitload"
        /\ pc' = [pc EXCEPT ![c] = IF serial = cserial[c] THEN "wait" ELSE "idle"]
     \/ /\ pc[c] = "anyload"
        /\ pc' = [pc EXCEPT ![c] = IF area = carea[c] THEN "any" ELSE "idle"]
  /\ UNCHANGED <<shared, writer, cserial, todo, buf, carea, cver, cbumps>>

(* The futex wait ends early: a signal (the loop goes on) or the relative  *)
(* timeout of __system_property_wait (it returns false).                   *)
Interrupted(c) ==
  /\ \/ pc[c] = "dirtysleep" /\ pc' = [pc EXCEPT ![c] = "load"]
     \/ pc[c] = "waitsleep" /\ pc' = [pc EXCEPT ![c] = "waitload"]
     \/ pc[c] = "anysleep" /\ pc' = [pc EXCEPT ![c] = "anyload"]
     \/ pc[c] \in {"waitsleep", "anysleep"} /\ pc' = [pc EXCEPT ![c] = "idle"]
  /\ UNCHANGED <<shared, writer, cserial, todo, buf, carea, cver, cbumps>>

-----------------------------------------------------------------------------
InUpdate == UpdateCopy \/ UpdatePublish \/ UpdateWake \/ BumpArea \/ WakeArea
WriterNext == UpdateBegin \/ AddOther \/ InUpdate
Running(c) == LoadSerial(c) \/ DirtyWait(c) \/ CopyByte(c) \/ CheckSerial(c)
              \/ WaitFutex(c) \/ WaitLoad(c)
ClientNext(c) == LoadArea(c) \/ BeginWait(c) \/ Interrupted(c) \/ Running(c)
Next == WriterNext \/ \E c \in Clients : ClientNext(c)

Spec == Init /\ [][Next]_vars

(* init runs to the end of an update it has begun (it is one thread, and   *)
(* the device reboots when it dies); a client that is not asleep runs.     *)
Fairness == WF_vars(InUpdate) /\ \A c \in Clients : WF_vars(Running(c))
FairSpec == Spec /\ Fairness

-----------------------------------------------------------------------------
(* A read never returns a mixture of two values, nor the bytes of one with *)
(* the length of another: all its bytes come from the version whose length *)
(* it loaded, although init may overwrite the buffer during the memcpy.    *)
(* The exception is the wrap of the 24-bit counter, 2^23 updates of this   *)
(* property between the two loads of one read.                             *)
NoTornRead ==
  \A c \in Clients :
    /\ pc[c] \in {"done", "wait", "waitsleep", "waitload"}
    /\ ver - cver[c] < Half
    => \A i \in Bytes : i <= cserial[c].len => buf[c][i] = cver[c]

(* No lost wake-up on a property: a thread asleep on pi->serial while the  *)
(* serial differs from the one it went to sleep for is one that init, past *)
(* the store and before its __futex_wake, is about to wake; a reader that  *)
(* found the property dirty is never left asleep on a clean one.           *)
NoLostWakeup ==
  \A c \in Clients :
    /\ pc[c] \in {"dirtysleep", "waitsleep"} /\ serial # cserial[c]
       => wpc \in {"copy", "wake"}
    /\ pc[c] = "dirtysleep" => wpc \in {"copy", "wake"}

(* The protocol of __system_property_wait_any: a thread that loads the     *)
(* area's serial, then reads the property, then sleeps until the area's    *)
(* serial moves, never sleeps on a value that has been replaced, except    *)
(* while init is between publishing and waking the area's waiters (or has  *)
(* wrapped the area's serial in the meantime).                             *)
NoMissedUpdate ==
  \A c \in Clients :
    /\ pc[c] = "anysleep"
    /\ bumps - cbumps[c] < AreaMod
    /\ cver[c] # ver
    => wpc \in {"wake", "bump", "wakearea"}

(* Reads are not blocked for ever: when init stops updating, every read    *)
(* that has begun returns.                                                 *)
ReadReturns ==
  <>[](wpc = "idle") =>
    \A c \in Clients : pc[c] = "load" ~> pc[c] = "done"

(* A wait for a change of the property ends once the property has changed  *)
(* (until its counter wraps).                                              *)
WaitReturns ==
  \A c \in Clients :
    (pc[c] \in {"wait", "waitsleep", "waitload"} /\ ver > cver[c])
      ~> (pc[c] \notin {"wait", "waitsleep", "waitload"} \/ ver - cver[c] >= Half)
=============================================================================
