--------------------------- MODULE PropInfoProofs ---------------------------
(***************************************************************************)
(* Proofs about PropInfo for every set of clients, every value length and  *)
(* every width of the two serials.                                         *)
(***************************************************************************)
EXTENDS PropInfo, TLAPS

(* Where a client's read of the property has a clean serial in cserial. *)
Reading == Pcs \ {"idle", "load", "dirty", "dirtysleep"}

(* x advanced d times around a counter of m values, for d < m. *)
Advance(x, d, m) == IF x + d < m THEN x + d ELSE x + d - m

(* The counter without its dirty bit. *)
Even(s) == IF Dirty(s) THEN s.ctr - 1 ELSE s.ctr

(* init: the dirty bit is set exactly while the buffer is being written;   *)
(* outside of that every byte up to the terminator is of the version       *)
(* published, and inside, every byte already stored is of the next one.    *)
WriterInv ==
  /\ Dirty(serial) <=> wpc = "copy"
  /\ wpc # "copy" => \A i \in Bytes : i <= serial.len => value[i] = ver
  /\ wpc = "copy" =>
       \A i \in Bytes : i <= wlen /\ i \notin wtodo => value[i] = ver + 1

(* How far the two serials have moved since client c loaded them. *)
CountInv(c) ==
  /\ cver[c] <= ver
  /\ cbumps[c] <= bumps
  /\ pc[c] \in Reading => ~ Dirty(cserial[c])
  /\ pc[c] \in Reading /\ ver - cver[c] < Half
       => Even(serial) = Advance(cserial[c].ctr, 2 * (ver - cver[c]), SerialMod)
  /\ bumps - cbumps[c] < AreaMod
       => area = Advance(carea[c], bumps - cbumps[c], AreaMod)

(* While no update has begun since the load, what is copied is right; and  *)
(* a read that returned without a wrap returned one version.               *)
ReadInv(c) ==
  /\ pc[c] = "copy" /\ ver = cver[c] /\ wpc # "copy"
       => /\ cserial[c] = serial
          /\ \A i \in Bytes : i <= cserial[c].len /\ i \notin todo[c]
                                => buf[c][i] = cver[c]
  /\ pc[c] \in {"done", "wait", "waitsleep", "waitload"} /\ ver - cver[c] < Half
       => \A i \in Bytes : i <= cserial[c].len => buf[c][i] = cver[c]

(* Sleepers on the property and on the area. *)
SleepInv(c) ==
  /\ pc[c] = "dirty" => Dirty(cserial[c])
  /\ pc[c] = "dirtysleep" => wpc \in {"copy", "wake"}
  /\ pc[c] = "waitsleep" /\ serial # cserial[c] => wpc \in {"copy", "wake"}
  /\ pc[c] \in Reading /\ bumps = cbumps[c]
       => cver[c] = ver \/ wpc \in {"wake", "bump"}
  /\ pc[c] = "anysleep"
       => \/ bumps = cbumps[c]
          \/ wpc = "wakearea"
          \/ bumps - cbumps[c] >= AreaMod

IInv ==
  /\ TypeOK
  /\ WriterInv
  /\ \A c \in Clients : CountInv(c) /\ ReadInv(c) /\ SleepInv(c)

-----------------------------------------------------------------------------
USE HalfAssumption, AreaAssumption, LenAssumption

(* One step around a counter of m values: the code's mask, without %. *)
LEMMA ModStep ==
  ASSUME NEW m \in Nat \ {0}, NEW x \in 0 .. m - 1
  PROVE  (x + 1) % m = IF x + 1 = m THEN 0 ELSE x + 1
  OBVIOUS

(* serial |= 1 on a clean serial sets the dirty bit and nothing else. *)
LEMMA SetDirtyFacts ==
  ASSUME NEW s \in Serials, ~ Dirty(s)
  PROVE  /\ SetDirty(s) \in Serials
         /\ Dirty(SetDirty(s))
         /\ SetDirty(s).len = s.len
         /\ Even(SetDirty(s)) = s.ctr
         /\ Even(s) = s.ctr
  BY DEF Serials, Dirty, SetDirty, Even, SerialMod

(* Publishing clears the dirty bit and advances the counter by one. *)
LEMMA PublishFacts ==
  ASSUME NEW s \in Serials, Dirty(s), NEW len \in Bytes
  PROVE  /\ Publish(s, len) \in Serials
         /\ ~ Dirty(Publish(s, len))
         /\ Publish(s, len).len = len
         /\ Publish(s, len).ctr = IF Even(s) + 2 = SerialMod THEN 0 ELSE Even(s) + 2
         /\ Even(Publish(s, len)) = Publish(s, len).ctr
  <1>1. s.ctr \in 0 .. SerialMod - 1 /\ SerialMod \in Nat \ {0}
    BY DEF Serials, SerialMod
  <1>2. (s.ctr + 1) % SerialMod = IF s.ctr + 1 = SerialMod THEN 0 ELSE s.ctr + 1
    BY <1>1, ModStep
  <1>. QED
    BY <1>1, <1>2 DEF Publish, Serials, Dirty, Even, SerialMod

(* The type of what a clean serial's counter can be. *)
LEMMA EvenType ==
  ASSUME NEW s \in Serials
  PROVE  /\ Even(s) \in 0 .. SerialMod - 2
         /\ Even(s) % 2 = 0
  BY DEF Serials, Dirty, Even, SerialMod

(* The published first value, nobody reading: the invariant holds at the start. *)
THEOREM InitIInv == Init => IInv
  <1>. SUFFICES ASSUME Init PROVE IInv
    OBVIOUS
  <1>1. serial \in Serials /\ serial.ctr = 0 /\ ~ Dirty(serial) /\ serial.len \in Bytes
    BY DEF Init, Serials, Dirty, SerialMod
  <1>2. TypeOK
    BY <1>1 DEF Init, TypeOK, WriterPcs, Pcs, Bytes
  <1>3. WriterInv
    BY <1>1 DEF Init, WriterInv
  <1>4. ASSUME NEW c \in Clients PROVE CountInv(c) /\ ReadInv(c) /\ SleepInv(c)
    <2>1. CountInv(c)
      BY <1>1 DEF Init, CountInv, Advance, Reading, SerialMod
    <2>2. ReadInv(c) /\ SleepInv(c)
      BY DEF Init, ReadInv, SleepInv, Reading
    <2>. QED BY <2>1, <2>2
  <1>. QED BY <1>2, <1>3, <1>4 DEF IInv

-----------------------------------------------------------------------------
(* init's steps *)

(* Update stores the dirty serial. *)
LEMMA UpdateBeginInv == IInv /\ UpdateBegin => IInv'
  <1>. SUFFICES ASSUME IInv, UpdateBegin PROVE IInv'
    OBVIOUS
  <1>. USE DEF IInv
  <1>1. PICK len \in Bytes : UpdateBegin!(len)
    BY DEF UpdateBegin
  <1>2. wpc = "idle" /\ serial \in Serials /\ ~ Dirty(serial)
    BY <1>1 DEF WriterInv, TypeOK
  <1>3. /\ serial' \in Serials /\ Dirty(serial')
        /\ Even(serial') = Even(serial)
    BY <1>1, <1>2, SetDirtyFacts
  <1>4. TypeOK'
    BY <1>1, <1>3 DEF TypeOK, client, WriterPcs, Bytes
  <1>5. WriterInv'
    BY <1>1, <1>3 DEF WriterInv, Bytes
  <1>6. ASSUME NEW c \in Clients PROVE (CountInv(c) /\ ReadInv(c) /\ SleepInv(c))'
    <2>1. CountInv(c)'
      BY <1>1, <1>3 DEF CountInv, client
    <2>2. ReadInv(c)'
      BY <1>1 DEF ReadInv, client
    <2>3. SleepInv(c)'
      BY <1>1, <1>2 DEF SleepInv, client
    <2>. QED BY <2>1, <2>2, <2>3
  <1>. QED BY <1>4, <1>5, <1>6

(* One byte of init's strlcpy: only readers of an older serial see it, and the dirty bit is set. *)
LEMMA UpdateCopyInv == IInv /\ UpdateCopy => IInv'
  <1>. SUFFICES ASSUME IInv, UpdateCopy PROVE IInv'
    OBVIOUS
  <1>. USE DEF IInv
  <1>1. PICK i \in wtodo : UpdateCopy!(i)
    BY DEF UpdateCopy
  <1>2. TypeOK'
    BY <1>1 DEF TypeOK, client
  <1>3. WriterInv'
    BY <1>1 DEF WriterInv, TypeOK
  <1>4. ASSUME NEW c \in Clients PROVE (CountInv(c) /\ ReadInv(c) /\ SleepInv(c))'
    BY <1>1 DEF CountInv, ReadInv, SleepInv, client
  <1>. QED BY <1>2, <1>3, <1>4

(* The store that clears the dirty bit, with the new length and counter. *)
LEMMA UpdatePublishInv == IInv /\ UpdatePublish => IInv'
  <1>. SUFFICES ASSUME IInv, UpdatePublish PROVE IInv'
    OBVIOUS
  <1>. USE DEF IInv
  <1>1. /\ Dirty(serial) /\ serial \in Serials /\ wlen \in Bytes
        /\ wpc = "copy" /\ wtodo = {} /\ wpc' = "wake"
        /\ ver' = ver + 1 /\ ver \in Nat
        /\ UNCHANGED <<value, area, wtodo, wlen, bumps, client>>
    BY DEF UpdatePublish, WriterInv, TypeOK
  <1>2. /\ serial' \in Serials /\ ~ Dirty(serial') /\ serial'.len = wlen
        /\ Even(serial') = IF Even(serial) + 2 = SerialMod THEN 0 ELSE Even(serial) + 2
    BY <1>1, PublishFacts DEF UpdatePublish
  <1>3. TypeOK'
    BY <1>1, <1>2 DEF TypeOK, client, WriterPcs
  <1>4. WriterInv'
    BY <1>1, <1>2 DEF WriterInv
  <1>5. ASSUME NEW c \in Clients PROVE (CountInv(c) /\ ReadInv(c) /\ SleepInv(c))'
    <2>1. cver[c] \in Nat /\ cbumps[c] \in Nat /\ cver[c] <= ver /\ cserial[c] \in Serials
      BY DEF TypeOK, CountInv
    <2>2. CountInv(c)'
      <3>1. ASSUME pc[c] \in Reading, ver' - cver[c] < Half
            PROVE Even(serial') = Advance(cserial[c].ctr, 2 * (ver' - cver[c]), SerialMod)
        <4>1. Even(serial) = Advance(cserial[c].ctr, 2 * (ver - cver[c]), SerialMod)
          BY <1>1, <2>1, <3>1 DEF CountInv
        <4>2. cserial[c].ctr \in 0 .. SerialMod - 2 /\ cserial[c].ctr % 2 = 0
          BY <2>1, <3>1, EvenType DEF CountInv, Even
        <4>. QED BY <1>1, <1>2, <2>1, <3>1, <4>1, <4>2, EvenType DEF Advance, SerialMod
      <3>. QED BY <1>1, <2>1, <3>1 DEF CountInv, client
    <2>3. ReadInv(c)'
      BY <1>1, <2>1 DEF ReadInv, client
    <2>4. SleepInv(c)'
      BY <1>1 DEF SleepInv, client
    <2>. QED BY <2>2, <2>3, <2>4
  <1>. QED BY <1>3, <1>4, <1>5

(* The futex wake of the property: whoever slept on it no longer does. *)
LEMMA UpdateWakeInv == IInv /\ UpdateWake => IInv'
  <1>. SUFFICES ASSUME IInv, UpdateWake PROVE IInv'
    OBVIOUS
  <1>. USE DEF IInv, UpdateWake, shared
  <1>1. TypeOK'
    BY DEF TypeOK, WriterPcs, Pcs
  <1>2. WriterInv'
    BY DEF WriterInv
  <1>3. ASSUME NEW c \in Clients PROVE (CountInv(c) /\ ReadInv(c) /\ SleepInv(c))'
    BY DEF CountInv, ReadInv, SleepInv, Reading, Pcs
  <1>. QED BY <1>1, <1>2, <1>3

(* The area's serial moves by one; CountInv counts it for every client. *)
LEMMA BumpAreaInv == IInv /\ BumpArea => IInv'
  <1>. SUFFICES ASSUME IInv, BumpArea PROVE IInv'
    OBVIOUS
  <1>. USE DEF IInv
  <1>1. area \in 0 .. AreaMod - 1 /\ bumps \in Nat
    BY DEF TypeOK
  <1>2. area' = IF area + 1 = AreaMod THEN 0 ELSE area + 1
    BY <1>1, ModStep DEF BumpArea
  <1>3. TypeOK'
    BY <1>1, <1>2 DEF TypeOK, BumpArea, client, WriterPcs
  <1>4. WriterInv'
    BY DEF WriterInv, BumpArea
  <1>5. ASSUME NEW c \in Clients PROVE (CountInv(c) /\ ReadInv(c) /\ SleepInv(c))'
    <2>1. cbumps[c] \in Nat /\ cbumps[c] <= bumps /\ carea[c] \in 0 .. AreaMod - 1
      BY DEF TypeOK, CountInv
    <2>2. CountInv(c)'
      BY <1>1, <1>2, <2>1 DEF CountInv, BumpArea, client, Advance
    <2>3. ReadInv(c)'
      BY DEF ReadInv, BumpArea, client
    <2>4. SleepInv(c)'
      BY <1>1, <2>1 DEF SleepInv, BumpArea, client
    <2>. QED BY <2>2, <2>3, <2>4
  <1>. QED BY <1>3, <1>4, <1>5

(* The futex wake of the area. *)
LEMMA WakeAreaInv == IInv /\ WakeArea => IInv'
  <1>. SUFFICES ASSUME IInv, WakeArea PROVE IInv'
    OBVIOUS
  <1>. USE DEF IInv, WakeArea, shared
  <1>1. TypeOK'
    BY DEF TypeOK, WriterPcs, Pcs
  <1>2. WriterInv'
    BY DEF WriterInv
  <1>3. ASSUME NEW c \in Clients PROVE (CountInv(c) /\ ReadInv(c) /\ SleepInv(c))'
    BY DEF CountInv, ReadInv, SleepInv, Reading, Pcs
  <1>. QED BY <1>1, <1>2, <1>3

(* A property added elsewhere leaves this one alone; the bump is still to come. *)
LEMMA AddOtherInv == IInv /\ AddOther => IInv'
  BY DEF IInv, AddOther, TypeOK, WriterInv, CountInv, ReadInv, SleepInv,
         shared, client, WriterPcs

-----------------------------------------------------------------------------
(* A client's steps leave the shared memory and init alone. *)

(* A client loads the serial of the area. *)
LEMMA LoadAreaInv ==
  ASSUME NEW c \in Clients, IInv, LoadArea(c) PROVE IInv'
  <1>. USE DEF IInv, LoadArea, shared, writer
  <1>1. TypeOK'
    BY DEF TypeOK, Pcs
  <1>2. WriterInv'
    BY DEF WriterInv
  <1>3. ASSUME NEW d \in Clients PROVE (CountInv(d) /\ ReadInv(d) /\ SleepInv(d))'
    BY DEF TypeOK, CountInv, ReadInv, SleepInv, Advance, Reading
  <1>. QED BY <1>1, <1>2, <1>3

(* A client takes the serial it will compare with: its counts start again. *)
LEMMA LoadSerialInv ==
  ASSUME NEW c \in Clients, IInv, LoadSerial(c) PROVE IInv'
  <1>. USE DEF IInv, shared, writer
  <1>1. PICK last \in {serial.len - 1, serial.len} : LoadSerial(c)!(last)
    BY DEF LoadSerial
  <1>2. serial \in Serials /\ serial.len \in Bytes /\ ver \in Nat
    BY DEF TypeOK, Serials
  <1>3. /\ cserial' = [cserial EXCEPT ![c] = serial]
        /\ cver' = [cver EXCEPT ![c] = ver]
        /\ UNCHANGED <<shared, writer, carea, cbumps>>
    BY <1>1
  <1>4. WriterInv'
    BY <1>3 DEF WriterInv
  <1>5. CASE Dirty(serial)
    <2>1. pc' = [pc EXCEPT ![c] = "dirty"] /\ UNCHANGED <<todo, buf>>
      BY <1>1, <1>5
    <2>2. TypeOK'
      BY <1>2, <1>3, <2>1 DEF TypeOK, Pcs
    <2>3. ASSUME NEW d \in Clients PROVE (CountInv(d) /\ ReadInv(d) /\ SleepInv(d))'
      BY <1>2, <1>3, <1>5, <2>1 DEF TypeOK, CountInv, ReadInv, SleepInv, Reading
    <2>. QED BY <1>4, <2>2, <2>3
  <1>6. CASE ~ Dirty(serial)
    <2>1. /\ pc' = [pc EXCEPT ![c] = "copy"]
          /\ todo' = [todo EXCEPT ![c] = 0 .. last]
          /\ buf' = IF last = serial.len THEN buf
                    ELSE [buf EXCEPT ![c][serial.len] = ver]
      BY <1>1, <1>6
    <2>2. 0 .. last \in SUBSET Bytes
      BY <1>2 DEF Bytes
    <2>3. buf' \in [Clients -> [Bytes -> Nat]]
      BY <1>2, <2>1 DEF TypeOK
    <2>4. TypeOK'
      BY <1>2, <1>3, <2>1, <2>2, <2>3 DEF TypeOK, Pcs
    <2>5. ASSUME NEW d \in Clients, d # c
          PROVE  (CountInv(d) /\ ReadInv(d) /\ SleepInv(d))'
      BY <1>3, <2>1, <2>5 DEF TypeOK, CountInv, ReadInv, SleepInv
    <2>6. CountInv(c)'
      <3>1. Even(serial) = Advance(serial.ctr, 2 * (ver - ver), SerialMod)
        BY <1>2, <1>6 DEF Advance, Even, SerialMod, Serials
      <3>. QED BY <1>2, <1>3, <1>6, <2>1, <3>1 DEF TypeOK, CountInv
    <2>7. ReadInv(c)'
      <3>1. \A i \in Bytes : i <= serial.len /\ i \notin 0 .. last
                               => i = serial.len /\ last # serial.len
        BY <1>2 DEF Bytes
      <3>2. last # serial.len => buf'[c][serial.len] = ver
        BY <1>2, <2>1 DEF TypeOK
      <3>3. cserial'[c] = serial /\ cver'[c] = ver /\ todo'[c] = 0 .. last /\ pc'[c] = "copy"
        BY <1>3, <2>1 DEF TypeOK
      <3>. QED BY <1>3, <3>1, <3>2, <3>3 DEF ReadInv
    <2>8. SleepInv(c)'
      BY <1>3, <2>1 DEF TypeOK, SleepInv
    <2>. QED BY <1>4, <2>4, <2>5, <2>6, <2>7, <2>8
  <1>. QED BY <1>5, <1>6

(* A client meets the dirty bit and waits for the serial to change. *)
LEMMA DirtyWaitInv ==
  ASSUME NEW c \in Clients, IInv, DirtyWait(c) PROVE IInv'
  <1>. USE DEF IInv, DirtyWait, FutexWait, shared, writer
  <1>1. TypeOK'
    BY DEF TypeOK, Pcs
  <1>2. WriterInv'
    BY DEF WriterInv
  <1>3. serial = cserial[c] => wpc = "copy"
    BY DEF WriterInv, SleepInv
  <1>4. ASSUME NEW d \in Clients PROVE (CountInv(d) /\ ReadInv(d) /\ SleepInv(d))'
    BY <1>3 DEF TypeOK, CountInv, ReadInv, SleepInv, Reading
  <1>. QED BY <1>1, <1>2, <1>4

(* A client copies one byte; it is of the version of its serial unless an update has begun. *)
LEMMA CopyByteInv ==
  ASSUME NEW c \in Clients, IInv, CopyByte(c) PROVE IInv'
  <1>. USE DEF IInv, shared, writer
  <1>1. PICK i \in todo[c] : CopyByte(c)!(i)
    BY DEF CopyByte
  <1>2. TypeOK'
    BY <1>1 DEF TypeOK
  <1>3. WriterInv'
    BY <1>1 DEF WriterInv
  <1>4. ASSUME NEW d \in Clients PROVE (CountInv(d) /\ ReadInv(d) /\ SleepInv(d))'
    BY <1>1 DEF TypeOK, WriterInv, CountInv, ReadInv, SleepInv
  <1>. QED BY <1>2, <1>3, <1>4

(* A counter that moved by less than its range and stands where it stood   *)
(* has not moved.                                                          *)
LEMMA AdvanceZero ==
  ASSUME NEW h \in Nat \ {0}, NEW d \in Nat, d < h, NEW x \in Int,
         x = Advance(x, 2 * d, 2 * h)
  PROVE  d = 0
  BY DEF Advance

(* The heart of the protocol: an equal serial means that nothing was       *)
(* written in between, or that the counter went all the way round.         *)
LEMMA EqualSerial ==
  ASSUME NEW c \in Clients, IInv, pc[c] \in Reading,
         cserial[c] = serial, ver - cver[c] < Half
  PROVE  ver = cver[c] /\ wpc # "copy"
  <1>1. ~ Dirty(serial) /\ wpc # "copy"
    BY DEF IInv, CountInv, WriterInv
  <1>2. /\ serial.ctr \in 0 .. SerialMod - 1
        /\ ver \in Nat /\ cver[c] \in Nat /\ cver[c] <= ver
    BY DEF IInv, TypeOK, Serials, CountInv
  <1>3. serial.ctr = Advance(serial.ctr, 2 * (ver - cver[c]), SerialMod)
    BY <1>1 DEF IInv, CountInv, Even
  <1>4. ver - cver[c] \in Nat /\ serial.ctr \in Int
    BY <1>2 DEF SerialMod
  <1>5. ver - cver[c] = 0
    BY <1>3, <1>4, AdvanceZero DEF SerialMod
  <1>. QED BY <1>1, <1>2, <1>5

(* The second load of the serial: equal serials mean that no update was published. *)
LEMMA CheckSerialInv ==
  ASSUME NEW c \in Clients, IInv, CheckSerial(c) PROVE IInv'
  <1>. USE DEF IInv, CheckSerial, shared, writer
  <1>1. TypeOK'
    BY DEF TypeOK, Pcs
  <1>2. WriterInv'
    BY DEF WriterInv
  <1>3. ASSUME NEW d \in Clients PROVE (CountInv(d) /\ ReadInv(d) /\ SleepInv(d))'
    <2>1. CASE d # c
      BY <2>1 DEF TypeOK, CountInv, ReadInv, SleepInv
    <2>2. CASE d = c
      <3>1. ReadInv(c)'
        <4>1. cserial[c] = serial /\ ver - cver[c] < Half => ver = cver[c] /\ wpc # "copy"
          BY EqualSerial DEF Reading, Pcs
        <4>. QED BY <4>1 DEF TypeOK, ReadInv
      <3>2. CountInv(c)' /\ SleepInv(c)'
        BY DEF TypeOK, CountInv, SleepInv, Reading, Pcs
      <3>. QED BY <2>2, <3>1, <3>2
    <2>. QED BY <2>1, <2>2
  <1>. QED BY <1>1, <1>2, <1>3

(* A client decides to wait, on the property or on the area. *)
LEMMA BeginWaitInv ==
  ASSUME NEW c \in Clients, IInv, BeginWait(c) PROVE IInv'
  <1>. USE DEF IInv, BeginWait, shared, writer
  <1>1. TypeOK'
    BY DEF TypeOK, Pcs
  <1>2. WriterInv'
    BY DEF WriterInv
  <1>3. ASSUME NEW d \in Clients PROVE (CountInv(d) /\ ReadInv(d) /\ SleepInv(d))'
    BY DEF TypeOK, CountInv, ReadInv, SleepInv, Reading, Pcs
  <1>. QED BY <1>1, <1>2, <1>3

(* The futex call compares the word again before it sleeps. *)
LEMMA WaitFutexInv ==
  ASSUME NEW c \in Clients, IInv, WaitFutex(c) PROVE IInv'
  <1>. USE DEF IInv, WaitFutex, FutexWait, shared, writer
  <1>1. TypeOK'
    BY DEF TypeOK, Pcs
  <1>2. WriterInv'
    BY DEF WriterInv
  <1>3. ASSUME NEW d \in Clients PROVE (CountInv(d) /\ ReadInv(d) /\ SleepInv(d))'
    <2>1. CountInv(d)' /\ ReadInv(d)'
      BY DEF TypeOK, CountInv, ReadInv, Reading, Pcs
    <2>2. area = carea[c] => bumps = cbumps[c] \/ bumps - cbumps[c] >= AreaMod
      <3>1. /\ area \in 0 .. AreaMod - 1 /\ carea[c] \in 0 .. AreaMod - 1
            /\ bumps \in Nat /\ cbumps[c] \in Nat /\ cbumps[c] <= bumps
        BY DEF TypeOK, CountInv
      <3>2. bumps - cbumps[c] < AreaMod
              => area = Advance(carea[c], bumps - cbumps[c], AreaMod)
        BY DEF CountInv
      <3>. QED BY <3>1, <3>2 DEF Advance
    <2>3. SleepInv(d)'
      BY <2>2 DEF TypeOK, SleepInv, Reading, Pcs
    <2>. QED BY <2>1, <2>3
  <1>. QED BY <1>1, <1>2, <1>3

(* After a wake-up the serial is loaded and compared again. *)
LEMMA WaitLoadInv ==
  ASSUME NEW c \in Clients, IInv, WaitLoad(c) PROVE IInv'
  <1>. USE DEF IInv, WaitLoad, shared, writer
  <1>1. TypeOK'
    BY DEF TypeOK, Pcs
  <1>2. WriterInv'
    BY DEF WriterInv
  <1>3. ASSUME NEW d \in Clients PROVE (CountInv(d) /\ ReadInv(d) /\ SleepInv(d))'
    BY DEF TypeOK, CountInv, ReadInv, SleepInv, Reading, Pcs
  <1>. QED BY <1>1, <1>2, <1>3

(* A futex call may return early; the loop around it looks again. *)
LEMMA InterruptedInv ==
  ASSUME NEW c \in Clients, IInv, Interrupted(c) PROVE IInv'
  <1>. USE DEF IInv, Interrupted, shared, writer
  <1>1. TypeOK'
    BY DEF TypeOK, Pcs
  <1>2. WriterInv'
    BY DEF WriterInv
  <1>3. ASSUME NEW d \in Clients PROVE (CountInv(d) /\ ReadInv(d) /\ SleepInv(d))'
    BY DEF TypeOK, CountInv, ReadInv, SleepInv, Reading, Pcs
  <1>. QED BY <1>1, <1>2, <1>3

-----------------------------------------------------------------------------
(* IInv is an inductive invariant of the protocol. *)
THEOREM Inductive == Spec => []IInv
  <1>1. IInv /\ [Next]_vars => IInv'
    <2>. SUFFICES ASSUME IInv, [Next]_vars PROVE IInv'
      OBVIOUS
    <2>1. CASE WriterNext
      BY <2>1, UpdateBeginInv, UpdateCopyInv, UpdatePublishInv, UpdateWakeInv,
         BumpAreaInv, WakeAreaInv, AddOtherInv DEF WriterNext, InUpdate
    <2>2. ASSUME NEW c \in Clients, ClientNext(c) PROVE IInv'
      BY <2>2, LoadAreaInv, LoadSerialInv, DirtyWaitInv, CopyByteInv, CheckSerialInv,
         BeginWaitInv, WaitFutexInv, WaitLoadInv, InterruptedInv
         DEF ClientNext, Running
    <2>3. CASE UNCHANGED vars
      BY <2>3 DEF vars, shared, writer, client, IInv, TypeOK, WriterInv, CountInv,
                  ReadInv, SleepInv
    <2>. QED BY <2>1, <2>2, <2>3 DEF Next
  <1>. QED BY <1>1, InitIInv, PTL DEF Spec

(* The variables keep their types, the two serials their widths. *)
THEOREM TypeCorrect == Spec => []TypeOK
  <1>1. IInv => TypeOK
    BY DEF IInv
  <1>. QED BY <1>1, Inductive, PTL

(* No read of a property is torn, whatever the number of readers and the   *)
(* lengths of the values, unless the counter wraps during it.              *)
THEOREM ReadsAreAtomic == Spec => []NoTornRead
  <1>1. IInv => NoTornRead
    BY DEF IInv, ReadInv, NoTornRead
  <1>. QED BY <1>1, Inductive, PTL

(* No thread sleeps on a property's serial that has changed, except when   *)
(* init is about to wake it.                                               *)
THEOREM WakeupsAreNotLost == Spec => []NoLostWakeup
  <1>1. IInv => NoLostWakeup
    BY DEF IInv, SleepInv, NoLostWakeup
  <1>. QED BY <1>1, Inductive, PTL

(* No thread in __system_property_wait_any sleeps through an update.       *)
THEOREM UpdatesAreNotMissed == Spec => []NoMissedUpdate
  <1>1. IInv => NoMissedUpdate
    BY DEF IInv, TypeOK, SleepInv, NoMissedUpdate, Reading, Pcs
  <1>. QED BY <1>1, Inductive, PTL
=============================================================================
