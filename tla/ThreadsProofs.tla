---------------------------- MODULE ThreadsProofs ----------------------------
(***************************************************************************)
(* Proofs about Threads for every finite set of threads and of requesters, *)
(* every number of barriers in a Thread and every number of requests: the  *)
(* word and the fields that the lock guards agree, no CHECK is reached,    *)
(* and requesters get what they rely on.                                   *)
(***************************************************************************)
EXTENDS Threads, FiniteSetTheorems, SequenceTheorems, TLAPS

-----------------------------------------------------------------------------
(* One Thread object *)

Unregistered == {"absent", "unborn", "starting", "dead"}
RunPcs == {"flip", "managed", "check", "checkpoint", "run", "runlast", "suspending"}
IdlePcs == {"native", "creating", "resuming", "asleep", "awake", "passing", "claim", "pass"}

ThreadRec ==
  [pc : Unregistered \cup RunPcs \cup IdlePcs, state : {"Native", "Runnable", "Suspended"},
   flags : SUBSET Flags, count : Nat, barriers : SUBSET Requesters,
   checkpoints : Seq(Requesters), flip : BOOLEAN, transitioning : BOOLEAN,
   back : {NULL, "resuming", "passing", "check", "suspending"}, after : {"native", "check"},
   closure : Requesters \cup {NULL}, claimed : SUBSET Requesters,
   child : Threads \cup {NULL}, exiting : BOOLEAN]

(* The flags say what the fields hold. *)
FlagsAgree(o) ==
  /\ "suspend" \in o.flags <=> o.count > 0
  /\ "barrier" \in o.flags <=> o.barriers # {}
  /\ "checkpoint" \in o.flags <=> o.checkpoints # <<>>

(* What a thread can have pending at each place in the code: checkpoints   *)
(* only while it is runnable, a flip function only on the way from its     *)
(* sleep to kRunnable.                                                     *)
PlaceAgrees(o) ==
  /\ o.state = "Runnable" <=> o.pc \in RunPcs
  /\ o.flags \cap Requested # {} => o.pc \in RunPcs
  /\ o.claimed # {} <=> o.pc = "pass"
  /\ o.barriers \cap o.claimed = {}
  /\ o.pc \in {"claim", "pass"} => o.back \in {"resuming", "passing"}
  /\ o.pc \in {"checkpoint", "run", "runlast"} => o.back \in {"check", "suspending"}
  /\ o.pc \in {"checkpoint", "run"} => o.checkpoints # <<>>
  /\ o.closure # NULL <=> o.pc \in {"run", "runlast"}
  /\ o.transitioning <=> o.pc \in {"asleep", "awake"}
  /\ o.flip => o.pc \in {"awake", "resuming", "flip"} /\ o.count = 0
  /\ o.pc \in Unregistered => o.count = 0 /\ o.barriers = {} /\ ~o.exiting

(* No closure is in the list twice, or in the list and being run. *)
ClosuresOnce(o) ==
  /\ \A i, j \in 1 .. Len(o.checkpoints) : o.checkpoints[i] = o.checkpoints[j] => i = j
  /\ \A i \in 1 .. Len(o.checkpoints) : o.checkpoints[i] # o.closure

HasClosure(o, r) ==
  o.closure = r \/ \E i \in 1 .. Len(o.checkpoints) : o.checkpoints[i] = r

ThreadOK(o) ==
  /\ o \in ThreadRec /\ Cardinality(o.barriers) <= MaxBarriers
  /\ FlagsAgree(o) /\ PlaceAgrees(o) /\ ClosuresOnce(o)

ThreadInv == th = [t \in Threads |-> th[t]] /\ \A t \in Threads : ThreadOK(th[t])

-----------------------------------------------------------------------------
(* One requester *)

AskPcs == {"loop", "try", "swap", "wait", "waiting"}
HoldPcs == {"spin", "running", "lower"}
SuspendPcs == {"raising", "clearing", "gathering", "paused"}

RequestRec ==
  [pc : {"idle", "raise", "holding"} \cup AskPcs \cup HoldPcs \cup SuspendPcs,
   op : {NULL, "checkpoint", "empty", "suspend"}, on : Threads \cup {NULL},
   todo : SUBSET Threads,
   seen : {NULL} \cup ({"Native", "Runnable", "Suspended"} \X SUBSET Flags),
   runs : {0, 1}, left : 0 .. MaxRequests]

RequestOK(q) ==
  /\ q \in RequestRec
  /\ q.pc \in AskPcs => q.op \in {"checkpoint", "empty"}
  /\ q.pc \in HoldPcs \cup {"raise", "holding"} => q.op = "checkpoint"
  /\ q.pc \in SuspendPcs => q.op = "suspend"
  /\ q.todo # {} => q.pc \in {"raising", "clearing"}
  /\ q.pc = "swap" => q.seen[1] = "Runnable"
  /\ q.op = "checkpoint" =>
       /\ q.pc \in {"idle", "lower"} => q.runs = 1
       /\ q.pc \in {"loop", "try", "swap", "raise", "holding", "spin", "running"} => q.runs = 0

RequestInv == rq = [r \in Requesters |-> rq[r]] /\ \A r \in Requesters : RequestOK(rq[r])

-----------------------------------------------------------------------------
(* Threads and requesters *)

(* The locks are held where the code holds them from one step to the next. *)
LockInv ==
  \A r \in Requesters :
    /\ suspend_count_lock = r <=> rq[r].pc \in {"swap", "clearing"}
    /\ thread_list_lock = r <=> rq[r].pc \in {"raising", "clearing", "holding"}

(* A thread that a request is about is registered and stays so. *)
TargetInv ==
  \A r \in Requesters :
    /\ rq[r].pc \in AskPcs \cup HoldPcs \cup {"raise", "holding"} =>
         rq[r].on \in Registered /\ ~th[rq[r].on].exiting
    /\ rq[r].todo \subseteq Registered

(* Those whose suspension includes t, and those who hold t in one way or   *)
(* the other: the suspend count counts them.                               *)
Suspends(r, t) ==
  /\ rq[r].pc \in SuspendPcs
  /\ t \in Registered
  /\ t \notin rq[r].todo
Holds(r, t) == Suspends(r, t) \/ (rq[r].pc \in HoldPcs /\ rq[r].on = t)
Holders(t) == {r \in Requesters : Holds(r, t)}
Suspenders == {r \in Requesters : rq[r].pc \in SuspendPcs}
CountInv ==
  /\ \A t \in Threads : th[t].count = Cardinality(Holders(t))
  /\ suspend_all_count = Cardinality(Suspenders)

(* The threads that have still to pass r's barrier: the barrier counts     *)
(* them.  A thread that runs although r suspends it has the barrier.       *)
Pending(r) == {t \in Threads : t \in rq[r].todo \/ r \in th[t].barriers \cup th[t].claimed}
BarrierInv ==
  \A r \in Requesters :
    /\ rq[r].pc \in {"raising", "clearing", "gathering"} => barrier[r] = Cardinality(Pending(r))
    /\ rq[r].pc \notin {"raising", "clearing", "gathering"} => Pending(r) = {}
    /\ rq[r].pc = "paused" \/ (rq[r].pc = "idle" /\ rq[r].op = "suspend") => barrier[r] = 0
    /\ \A t \in rq[r].todo : r \notin th[t].barriers \cup th[t].claimed
    /\ \A t \in Threads : Suspends(r, t) /\ Runnable(t) => r \in th[t].barriers
    /\ rq[r].pc \in {"running", "lower"} => ~Runnable(rq[r].on)

(* Between raising a thread's count and looking at its state a requester   *)
(* finds its barrier where it put it: no one claims it without the lock.   *)
ClearInv ==
  \A r \in Requesters :
    rq[r].pc = "clearing" => rq[r].on \in Registered /\ r \in th[rq[r].on].barriers

(* A closure in a thread's list, or being run by it, is of a request that  *)
(* waits for it; the barrier is one for a closure that has not run.        *)
ClosureInv ==
  \A r \in Requesters :
    /\ \A t \in Threads :
         HasClosure(th[t], r) =>
           /\ rq[r].op = "checkpoint" /\ rq[r].on = t /\ rq[r].pc \in {"wait", "waiting"}
           /\ rq[r].runs = 0
    /\ rq[r].op = "checkpoint" =>
         barrier[r] = IF rq[r].pc = "wait" THEN 0 - rq[r].runs
                      ELSE IF rq[r].pc = "waiting" THEN 1 - rq[r].runs ELSE 0

(* The same for the empty checkpoint, of which there is one at a time. *)
EmptyInv ==
  /\ \A r, s \in Requesters : InEmpty(r) /\ InEmpty(s) => r = s
  /\ \A t \in Threads : "empty" \in th[t].flags =>
       \E r \in Requesters : InEmpty(r) /\ rq[r].on = t /\ rq[r].pc \in {"wait", "waiting"}
  /\ \A r \in Requesters : rq[r].op = "empty" =>
       barrier[r] = IF rq[r].pc \notin {"wait", "waiting"} THEN 0
                    ELSE (IF rq[r].pc = "waiting" THEN 1 ELSE 0)
                           - (IF "empty" \in th[rq[r].on].flags THEN 0 ELSE 1)
  /\ \A r \in Requesters : rq[r].op = NULL => barrier[r] = 0

(* threads_being_born_ counts the threads being born, each of which has    *)
(* one parent at most, and there are none once the runtime is down.        *)
Unborn == {t \in Threads : th[t].pc \in {"unborn", "starting"}}
BirthInv ==
  /\ births = Cardinality(Unborn)
  /\ shutdown \in {"up", "asleep", "awake", "down"}
  /\ shutdown = "down" => births = 0
  /\ \A t \in Threads : th[t].pc = "creating" =>
       th[t].child \in Threads /\ th[th[t].child].pc = "unborn"
  /\ \A t, u \in Threads :
       th[t].pc = "creating" /\ th[u].pc = "creating" /\ th[t].child = th[u].child => t = u

BarrierType == barrier = [r \in Requesters |-> barrier[r]] /\ \A r \in Requesters : barrier[r] \in Int

IInv ==
  /\ ThreadInv /\ RequestInv /\ BarrierType
  /\ LockInv /\ TargetInv /\ CountInv /\ BarrierInv /\ ClosureInv /\ EmptyInv /\ BirthInv
  /\ aborted = NULL

-----------------------------------------------------------------------------
(* The initial state *)

USE ThreadsAssumption

(* A new Thread object is in order, wherever it is before it is registered. *)
LEMMA NewThreadOK ==
  ASSUME NEW pc \in Unregistered \cup {"native"}, NEW o,
         (o = NewThread /\ pc = "absent") \/ o = [NewThread EXCEPT !.pc = pc]
  PROVE  ThreadOK(o)
  <1>1. /\ o.pc = pc /\ o.state = "Native" /\ o.flags = {} /\ o.count = 0 /\ o.barriers = {}
        /\ o.checkpoints = <<>> /\ o.flip = FALSE /\ o.transitioning = FALSE /\ o.back = NULL
        /\ o.after = "native" /\ o.closure = NULL /\ o.claimed = {} /\ o.child = NULL
        /\ o.exiting = FALSE
    BY DEF NewThread
  <1>2. o \in ThreadRec
    <2>1. pc \in Unregistered \cup RunPcs \cup IdlePcs
      BY DEF IdlePcs
    <2>2. <<>> \in Seq(Requesters)
      OBVIOUS
    <2>3. CASE o = NewThread /\ pc = "absent"
      BY <2>1, <2>2, <2>3 DEF NewThread, ThreadRec
    <2>4. CASE o = [NewThread EXCEPT !.pc = pc]
      BY <2>1, <2>2, <2>4 DEF NewThread, ThreadRec
    <2>. QED BY <2>3, <2>4
  <1>3. Len(o.checkpoints) = 0 /\ Cardinality(o.barriers) = 0
    BY <1>1, FS_EmptySet
  <1>4. FlagsAgree(o)
    BY <1>1 DEF FlagsAgree
  <1>5. PlaceAgrees(o)
    BY <1>1 DEF PlaceAgrees, RunPcs, Unregistered
  <1>6. ClosuresOnce(o)
    BY <1>3 DEF ClosuresOnce
  <1>7. Cardinality(o.barriers) <= MaxBarriers
    BY <1>3
  <1>. QED BY <1>2, <1>4, <1>5, <1>6, <1>7 DEF ThreadOK

(* The main thread exists, and nobody has asked for anything. *)
LEMMA InitIInv == Init => IInv
  <1>. SUFFICES ASSUME Init PROVE IInv
    OBVIOUS
  <1>1. \A t \in Threads : th[t] = NewThread \/ th[t] = [NewThread EXCEPT !.pc = "native"]
    BY DEF Init
  <1>2. \A t \in Threads : ThreadOK(th[t])
    BY <1>1, NewThreadOK DEF Unregistered
  <1>3. \A t \in Threads :
          /\ th[t].pc \in {"absent", "native"} /\ th[t].flags = {} /\ th[t].count = 0
          /\ th[t].barriers = {} /\ th[t].claimed = {} /\ th[t].checkpoints = <<>>
          /\ th[t].closure = NULL
    BY <1>1 DEF NewThread
  <1>4. ThreadInv
    BY <1>2 DEF ThreadInv, Init
  <1>5. \A r \in Requesters :
          /\ rq[r].pc = "idle" /\ rq[r].op = NULL /\ rq[r].on = NULL /\ rq[r].todo = {}
          /\ rq[r].runs = 0 /\ rq[r].left = MaxRequests /\ rq[r].seen = NULL
          /\ barrier[r] = 0
    BY DEF Init
  <1>6. \A r \in Requesters : rq[r] \in RequestRec
    BY DEF Init, RequestRec
  <1>7. RequestInv
    <2>1. \A r \in Requesters : RequestOK(rq[r])
      BY <1>5, <1>6, NULLAssumption DEF RequestOK, AskPcs, HoldPcs, SuspendPcs
    <2>. QED BY <2>1 DEF RequestInv, Init
  <1>8. BarrierType
    BY DEF BarrierType, Init
  <1>9. LockInv
    BY <1>5 DEF LockInv, Init
  <1>10. TargetInv
    BY <1>5 DEF TargetInv, AskPcs, HoldPcs
  <1>11. CountInv
    <2>1. \A t \in Threads : Holders(t) = {}
      BY <1>5 DEF Holders, Holds, Suspends, HoldPcs, SuspendPcs
    <2>2. Suspenders = {}
      BY <1>5 DEF Suspenders, SuspendPcs
    <2>. QED BY <1>3, <2>1, <2>2, FS_EmptySet DEF CountInv, Init
  <1>12. BarrierInv
    <2>1. \A r \in Requesters : Pending(r) = {}
      BY <1>3, <1>5 DEF Pending
    <2>. QED BY <1>5, <2>1 DEF BarrierInv, Suspends, SuspendPcs
  <1>13. ClosureInv
    BY <1>3, <1>5, NULLAssumption DEF ClosureInv, HasClosure
  <1>14. EmptyInv
    BY <1>3, <1>5, NULLAssumption DEF EmptyInv, InEmpty
  <1>15. BirthInv
    <2>1. Unborn = {}
      BY <1>3 DEF Unborn
    <2>. QED BY <1>3, <2>1, FS_EmptySet DEF BirthInv, Init
  <1>16. aborted = NULL
    BY DEF Init
  <1>. QED BY <1>4, <1>7, <1>8, <1>9, <1>10, <1>11, <1>12, <1>13, <1>14, <1>15, <1>16 DEF IInv

-----------------------------------------------------------------------------
(* Steps of a thread that change only its own object *)

(* One Thread object changes, one requester changes *)
Moves(t, o) == th' = [u \in Threads |-> IF u = t THEN o ELSE th[u]]
Turns(r, q) == rq' = [s \in Requesters |-> IF s = r THEN q ELSE rq[s]]

(* What others know of a thread is the same after its step. *)
Same(x, o) ==
  /\ o.count = x.count
  /\ o.barriers \cup o.claimed = x.barriers \cup x.claimed
  /\ \A r \in Requesters : HasClosure(o, r) => HasClosure(x, r)
  /\ "empty" \in o.flags <=> "empty" \in x.flags
  /\ x.pc \notin Unregistered \cup {"creating"} /\ o.pc \notin Unregistered \cup {"creating"}
  /\ o.state = "Runnable" =>
       x.count = 0 \/ (x.state = "Runnable" /\ x.barriers \subseteq o.barriers)

(* Nothing is asked of the thread. *)
Unasked(t) == \A r \in Requesters : rq[r].on = t => rq[r].pc \in {"idle", "clearing"}

(* A thread that nobody holds is in no suspension. *)
LEMMA NotHeld ==
  ASSUME CountInv, NEW t \in Threads, th[t].count = 0, NEW r \in Requesters
  PROVE  ~ Holds(r, t)
  <1>1. IsFiniteSet(Holders(t))
    BY FS_Subset DEF Holders
  <1>2. Holders(t) = {}
    BY <1>1, FS_EmptySet DEF CountInv
  <1>. QED BY <1>2 DEF Holders

(* A thread with a barrier in its list is held by the requester. *)
LEMMA BarrierHeld ==
  ASSUME IInv, NEW t \in Threads, NEW r \in th[t].barriers
  PROVE  r \in Requesters /\ Holds(r, t) /\ th[t].count # 0
  <1>1. r \in Requesters /\ t \in Registered
    BY DEF IInv, ThreadInv, ThreadOK, ThreadRec, PlaceAgrees, Registered, Unregistered
  <1>2. rq[r].pc \in SuspendPcs /\ t \notin rq[r].todo
    BY <1>1 DEF IInv, BarrierInv, Pending, SuspendPcs
  <1>3. Holds(r, t)
    BY <1>1, <1>2 DEF Holds, Suspends
  <1>4. th[t].count # 0
    BY <1>1, <1>3, NotHeld DEF IInv
  <1>. QED BY <1>1, <1>3, <1>4

(* What every step of one thread keeps that is no birth and no death and   *)
(* leaves its suspend count alone: all that does not speak of barriers,    *)
(* closures and empty checkpoints.                                         *)
Own(x, o) ==
  /\ ThreadOK(o) /\ o.count = x.count
  /\ x.pc \notin Unregistered \cup {"creating"} /\ o.pc \notin Unregistered \cup {"creating"}

(* A requester is where it was, with the same threads. *)
AsBefore(p, q) == q.pc = p.pc /\ q.on = p.on /\ q.todo = p.todo

(* Those parts of the invariant are kept. *)
LEMMA OwnPartsAsked ==
  ASSUME IInv, NEW t \in Threads, NEW o, Moves(t, o), Own(th[t], o),
         o.exiting = th[t].exiting \/ Unasked(t), 
         \A r \in Requesters : AsBefore(rq[r], rq'[r]), UNCHANGED Rest
  PROVE  /\ th'[t] = o /\ \A u \in Threads : u # t => th'[u] = th[u]
         /\ ThreadInv' /\ LockInv' /\ TargetInv' /\ CountInv' /\ BirthInv'
         /\ aborted' = NULL /\ Registered' = Registered
         /\ \A r \in Requesters, u \in Threads : Suspends(r, u)' <=> Suspends(r, u)
  <1>1. /\ th'[t] = o /\ \A u \in Threads : u # t => th'[u] = th[u]
        /\ suspend_count_lock' = suspend_count_lock
        /\ thread_list_lock' = thread_list_lock /\ suspend_all_count' = suspend_all_count
        /\ births' = births /\ shutdown' = shutdown /\ aborted' = aborted
    BY DEF Moves, Rest, locks, runtime
  <1>2. ThreadInv'
    <2>1. \A u \in Threads : ThreadOK(th'[u])
      BY <1>1 DEF IInv, ThreadInv, Own
    <2>2. th' = [u \in Threads |-> th'[u]]
      BY DEF Moves
    <2>. QED BY <2>1, <2>2 DEF ThreadInv
  <1>0. \A r \in Requesters :
          rq'[r].pc = rq[r].pc /\ rq'[r].on = rq[r].on /\ rq'[r].todo = rq[r].todo
    BY DEF AsBefore
  <1>3. LockInv'
    BY <1>0, <1>1 DEF IInv, LockInv
  <1>4. Registered' = Registered
    BY <1>1 DEF Registered, Own, Unregistered
  <1>5. \A r \in Requesters, u \in Threads : Suspends(r, u)' <=> Suspends(r, u)
    BY <1>0, <1>4 DEF Suspends
  <1>6. TargetInv'
    <2>1. ASSUME NEW r \in Requesters PROVE rq[r].pc \in AskPcs \cup HoldPcs \cup {"raise", "holding"} =>
             rq[r].on \in Registered' /\ ~th'[rq[r].on].exiting
      BY <1>1, <1>4 DEF IInv, TargetInv, Unasked, AskPcs, HoldPcs, Registered
    <2>. QED BY <1>0, <1>1, <1>4, <2>1 DEF IInv, TargetInv
  <1>7. CountInv'
    <2>1. \A u \in Threads : Holders(u)' = Holders(u)
      BY <1>0, <1>5 DEF Holders, Holds
    <2>2. Suspenders' = Suspenders
      BY <1>0 DEF Suspenders
    <2>3. \A u \in Threads : th'[u].count = th[u].count
      BY <1>1 DEF Own
    <2>. QED BY <1>1, <2>1, <2>2, <2>3 DEF IInv, CountInv
  <1>8. BirthInv'
    <2>1. Unborn' = Unborn
      BY <1>1 DEF Unborn, Own, Unregistered
    <2>2. \A u \in Threads : th'[u].pc = "creating" => u # t /\ th'[u] = th[u]
      BY <1>1 DEF Own
    <2>3. \A u \in Threads : th[u].pc = "unborn" => u # t
      BY DEF Own, Unregistered
    <2>. QED BY <1>1, <2>1, <2>2, <2>3 DEF IInv, BirthInv
  <1>. QED BY <1>1, <1>2, <1>3, <1>4, <1>5, <1>6, <1>7, <1>8 DEF IInv

(* The same when no requester changes at all *)
LEMMA OwnParts ==
  ASSUME IInv, NEW t \in Threads, NEW o, Moves(t, o), Own(th[t], o),
         o.exiting = th[t].exiting \/ Unasked(t), UNCHANGED <<rq, Rest>>
  PROVE  /\ th'[t] = o /\ \A u \in Threads : u # t => th'[u] = th[u]
         /\ ThreadInv' /\ RequestInv' /\ LockInv' /\ TargetInv' /\ CountInv' /\ BirthInv'
         /\ aborted' = NULL /\ Registered' = Registered
         /\ \A r \in Requesters, u \in Threads : Suspends(r, u)' <=> Suspends(r, u)
  <1>1. (\A r \in Requesters : AsBefore(rq[r], rq'[r])) /\ UNCHANGED Rest
    BY DEF AsBefore
  <1>2. RequestInv'
    BY DEF IInv, RequestInv
  <1>. QED BY <1>1, <1>2, OwnPartsAsked

(* The invariant is kept by a step of a thread that changes only its own   *)
(* object, and in it nothing that others rely on.                          *)
LEMMA LocalStep ==
  ASSUME IInv, NEW t \in Threads, NEW o, Moves(t, o), ThreadOK(o), Same(th[t], o),
         o.exiting = th[t].exiting \/ Unasked(t),
         UNCHANGED <<rq, barrier, Rest>>
  PROVE  IInv'
  <1>0. Own(th[t], o)
    BY DEF Own, Same
  <1>1. /\ th'[t] = o /\ \A u \in Threads : u # t => th'[u] = th[u]
        /\ rq' = rq /\ barrier' = barrier /\ UNCHANGED <<rq, Rest>>
    BY DEF Moves
  <1>2. /\ ThreadInv' /\ RequestInv' /\ LockInv' /\ TargetInv' /\ CountInv' /\ BirthInv'
        /\ aborted' = NULL /\ Registered' = Registered
        /\ \A r \in Requesters, u \in Threads : Suspends(r, u)' <=> Suspends(r, u)
    BY <1>0, <1>1, OwnParts
  <1>3. BarrierType'
    BY <1>1 DEF IInv, BarrierType
  <1>4. BarrierInv'
    <2>1. ASSUME NEW r \in Requesters, NEW u \in Threads
          PROVE  r \in th'[u].barriers \cup th'[u].claimed <=> r \in th[u].barriers \cup th[u].claimed
      BY <1>1 DEF Same
    <2>2. \A r \in Requesters : Pending(r)' = Pending(r)
      BY <1>1, <2>1 DEF Pending
    <2>3. ASSUME NEW r \in Requesters, NEW u \in rq[r].todo
          PROVE  r \notin th'[u].barriers \cup th'[u].claimed
      <3>1. u \in Threads
        BY DEF IInv, TargetInv, Registered
      <3>. QED BY <2>1, <3>1 DEF IInv, BarrierInv
    <2>4. ASSUME NEW r \in Requesters, NEW u \in Threads, Suspends(r, u)', Runnable(u)'
          PROVE  r \in th'[u].barriers
      <3>1. Suspends(r, u)
        BY <1>2, <2>4
      <3>2. th[u].count # 0
        BY <3>1, NotHeld DEF IInv, Holds
      <3>3. Runnable(u) /\ th[u].barriers \subseteq th'[u].barriers
        BY <1>1, <2>4, <3>2 DEF Runnable, Same
      <3>. QED BY <3>1, <3>3 DEF IInv, BarrierInv
    <2>5. ASSUME NEW r \in Requesters, rq[r].pc \in {"running", "lower"}
          PROVE  ~ Runnable(rq[r].on)'
      <3>1. rq[r].on \in Threads /\ ~ Runnable(rq[r].on)
        BY <2>5 DEF IInv, BarrierInv, TargetInv, Registered, HoldPcs
      <3>2. th[rq[r].on].count # 0
        BY <2>5, <3>1, NotHeld DEF IInv, Holds, HoldPcs
      <3>. QED BY <1>1, <3>1, <3>2 DEF Runnable, Same
    <2>. QED BY <1>1, <2>2, <2>3, <2>4, <2>5 DEF IInv, BarrierInv
  <1>5. ClosureInv'
    <2>1. \A r \in Requesters, u \in Threads : HasClosure(th'[u], r) => HasClosure(th[u], r)
      BY <1>1 DEF Same
    <2>. QED BY <1>1, <2>1 DEF IInv, ClosureInv
  <1>6. EmptyInv'
    <2>1. \A u \in Threads : "empty" \in th'[u].flags <=> "empty" \in th[u].flags
      BY <1>1 DEF Same
    <2>2. \A r \in Requesters : InEmpty(r)' <=> InEmpty(r)
      BY <1>1 DEF InEmpty
    <2>3. \A r \in Requesters : InEmpty(r) => rq[r].on \in Threads
      BY DEF IInv, RequestInv, RequestOK, InEmpty, TargetInv, Registered, RequestRec, AskPcs, HoldPcs, SuspendPcs
    <2>. QED BY <1>1, <2>1, <2>2, <2>3 DEF IInv, EmptyInv, InEmpty
  <1>. QED BY <1>2, <1>3, <1>4, <1>5, <1>6 DEF IInv

(* The same for a step after which the word's flags and what they stand    *)
(* for are as before: only the place in the code must agree with them.     *)
Keeps(x, o) ==
  /\ o \in ThreadRec
  /\ o.flags = x.flags /\ o.count = x.count /\ o.barriers = x.barriers
  /\ o.checkpoints = x.checkpoints /\ o.closure = x.closure /\ o.claimed = x.claimed
  /\ x.pc \notin Unregistered \cup {"creating"} /\ o.pc \notin Unregistered \cup {"creating"}
  /\ o.state = "Runnable" => x.flags = {} \/ x.state = "Runnable"

(* Such a step keeps the invariant. *)
LEMMA PlaceStep ==
  ASSUME IInv, NEW t \in Threads, NEW o, Moves(t, o), Keeps(th[t], o), PlaceAgrees(o),
         o.exiting = th[t].exiting \/ Unasked(t),
         UNCHANGED <<rq, barrier, Rest>>
  PROVE  IInv'
  <1>1. PICK x : x = th[t]
    OBVIOUS
  <1>2. ThreadOK(x)
    BY <1>1 DEF IInv, ThreadInv
  <1>3. ThreadOK(o)
    <2>1. FlagsAgree(o)
      BY <1>1, <1>2 DEF ThreadOK, FlagsAgree, Keeps
    <2>2. ClosuresOnce(o)
      BY <1>1, <1>2 DEF ThreadOK, ClosuresOnce, Keeps
    <2>. QED BY <1>1, <1>2, <2>1, <2>2 DEF ThreadOK, Keeps
  <1>4. Same(x, o)
    <2>1. x.flags = {} => x.count = 0
      BY <1>2 DEF ThreadOK, FlagsAgree, ThreadRec
    <2>2. \A r \in Requesters : HasClosure(o, r) => HasClosure(x, r)
      BY <1>1 DEF HasClosure, Keeps
    <2>. QED BY <1>1, <2>1, <2>2 DEF Same, Keeps
  <1>. QED BY <1>1, <1>3, <1>4, LocalStep

(* What holds of the object of a thread that takes a step *)
LEMMA Before ==
  ASSUME IInv, NEW t \in Threads
  PROVE  /\ th = [u \in Threads |-> th[u]] /\ th[t] \in ThreadRec
         /\ ThreadOK(th[t]) /\ FlagsAgree(th[t]) /\ PlaceAgrees(th[t])
  BY DEF IInv, ThreadInv, ThreadOK

(* The swap to kRunnable *)
LEMMA BecomeRunnableKeeps ==
  ASSUME IInv, NEW t \in Threads, BecomeRunnable(t)
  PROVE  IInv'
  <1>1. PICK x, o : x = th[t] /\ o = [x EXCEPT !.state = "Runnable", !.pc = "flip"]
    OBVIOUS
  <1>2. x \in ThreadRec /\ PlaceAgrees(x) /\ FlagsAgree(x) /\ th = [u \in Threads |-> th[u]]
    BY <1>1, Before
  <1>3. Moves(t, o) /\ x.pc = "resuming" /\ x.flags = {} /\ UNCHANGED <<rq, barrier, Rest>>
    BY <1>1, <1>2 DEF BecomeRunnable, At, Moves
  <1>4. o \in ThreadRec
    BY <1>1, <1>2 DEF ThreadRec, RunPcs
  <1>5. Keeps(x, o) /\ o.exiting = x.exiting
    BY <1>1, <1>2, <1>3, <1>4 DEF Keeps, ThreadRec, Unregistered
  <1>6. PlaceAgrees(o)
    BY <1>1, <1>2, <1>3 DEF PlaceAgrees, FlagsAgree, ThreadRec, RunPcs, Unregistered
  <1>. QED BY <1>1, <1>3, <1>5, <1>6, PlaceStep

(* The sleep on resume_cond_ *)
LEMMA WaitToResumeKeeps ==
  ASSUME IInv, NEW t \in Threads, WaitToResume(t)
  PROVE  IInv'
  <1>1. PICK x, o : x = th[t] /\ o = [x EXCEPT !.transitioning = TRUE, !.pc = "asleep"]
    OBVIOUS
  <1>2. x \in ThreadRec /\ PlaceAgrees(x) /\ FlagsAgree(x) /\ th = [u \in Threads |-> th[u]]
    BY <1>1, Before
  <1>3. Moves(t, o) /\ x.pc \in {"resuming", "awake"} /\ "suspend" \in x.flags /\ UNCHANGED <<rq, barrier, Rest>>
    BY <1>1, <1>2 DEF WaitToResume, At, Moves
  <1>4. o \in ThreadRec
    BY <1>1, <1>2, <1>3, ZenonT(60) DEF ThreadRec, RunPcs, IdlePcs
  <1>5. Keeps(x, o) /\ o.exiting = x.exiting
    BY <1>1, <1>2, <1>3, <1>4 DEF Keeps, ThreadRec, Unregistered, PlaceAgrees, RunPcs
  <1>6. PlaceAgrees(o)
    BY <1>1, <1>2, <1>3 DEF PlaceAgrees, FlagsAgree, ThreadRec, RunPcs, Unregistered, Requested, Flags
  <1>. QED BY <1>1, <1>3, <1>5, <1>6, PlaceStep

(* The end of the sleep *)
LEMMA WakeKeeps ==
  ASSUME IInv, NEW t \in Threads, Wake(t)
  PROVE  IInv'
  <1>1. PICK x, o : x = th[t] /\ o = [x EXCEPT !.transitioning = FALSE, !.pc = "resuming"]
    OBVIOUS
  <1>2. x \in ThreadRec /\ PlaceAgrees(x) /\ FlagsAgree(x) /\ th = [u \in Threads |-> th[u]]
    BY <1>1, Before
  <1>3. Moves(t, o) /\ x.pc = "awake" /\ UNCHANGED <<rq, barrier, Rest>>
    BY <1>1, <1>2 DEF Wake, At, Moves
  <1>4. o \in ThreadRec
    BY <1>1, <1>2, <1>3, ZenonT(60) DEF ThreadRec, RunPcs, IdlePcs
  <1>5. Keeps(x, o) /\ o.exiting = x.exiting
    BY <1>1, <1>2, <1>3, <1>4 DEF Keeps, ThreadRec, Unregistered, PlaceAgrees, RunPcs
  <1>6. PlaceAgrees(o)
    BY <1>1, <1>2, <1>3 DEF PlaceAgrees, FlagsAgree, ThreadRec, RunPcs, Unregistered, Requested, Flags
  <1>. QED BY <1>1, <1>3, <1>5, <1>6, PlaceStep

(* A return from the wait that nobody asked for *)
LEMMA SpuriousWakeupKeeps ==
  ASSUME IInv, NEW t \in Threads, SpuriousWakeup(t)
  PROVE  IInv'
  <1>1. PICK x, o : x = th[t] /\ o = [x EXCEPT !.pc = "awake"]
    OBVIOUS
  <1>2. x \in ThreadRec /\ PlaceAgrees(x) /\ FlagsAgree(x) /\ th = [u \in Threads |-> th[u]]
    BY <1>1, Before
  <1>3. Moves(t, o) /\ x.pc = "asleep" /\ UNCHANGED <<rq, barrier, Rest>>
    BY <1>1, <1>2 DEF SpuriousWakeup, Goto, At, Moves
  <1>4. o \in ThreadRec
    BY <1>1, <1>2, <1>3 DEF ThreadRec, RunPcs, IdlePcs, PlaceAgrees
  <1>5. Keeps(x, o) /\ o.exiting = x.exiting
    BY <1>1, <1>2, <1>3, <1>4, ZenonT(60) DEF Keeps, ThreadRec, Unregistered, PlaceAgrees, RunPcs
  <1>6. PlaceAgrees(o)
    BY <1>1, <1>2, <1>3 DEF PlaceAgrees, FlagsAgree, ThreadRec, RunPcs, Unregistered, Requested, Flags
  <1>. QED BY <1>1, <1>3, <1>5, <1>6, PlaceStep

(* The flip function *)
LEMMA RunFlipKeeps ==
  ASSUME IInv, NEW t \in Threads, RunFlip(t)
  PROVE  IInv'
  <1>1. PICK x, o : x = th[t] /\ o = [x EXCEPT !.flip = FALSE, !.pc = IF x.after = "check" THEN "check" ELSE "managed",
                               !.after = "native"]
    OBVIOUS
  <1>2. x \in ThreadRec /\ PlaceAgrees(x) /\ FlagsAgree(x) /\ th = [u \in Threads |-> th[u]]
    BY <1>1, Before
  <1>3. Moves(t, o) /\ x.pc = "flip" /\ UNCHANGED <<rq, barrier, Rest>>
    BY <1>1, <1>2 DEF RunFlip, At, Moves
  <1>4. o \in ThreadRec
    BY <1>1, <1>2, <1>3, ZenonT(60) DEF ThreadRec, RunPcs, IdlePcs
  <1>5. Keeps(x, o) /\ o.exiting = x.exiting
    BY <1>1, <1>2, <1>3, <1>4 DEF Keeps, ThreadRec, Unregistered, PlaceAgrees, RunPcs
  <1>6. PlaceAgrees(o)
    BY <1>1, <1>2, <1>3 DEF PlaceAgrees, FlagsAgree, ThreadRec, RunPcs, Unregistered, Requested, Flags
  <1>. QED BY <1>1, <1>3, <1>5, <1>6, PlaceStep

(* The call of PassActiveSuspendBarriers *)
LEMMA SeeBarrierKeeps ==
  ASSUME IInv, NEW t \in Threads, SeeBarrier(t)
  PROVE  IInv'
  <1>1. PICK x, o : x = th[t] /\ o = [x EXCEPT !.pc = "claim", !.back = x.pc]
    OBVIOUS
  <1>2. x \in ThreadRec /\ PlaceAgrees(x) /\ FlagsAgree(x) /\ th = [u \in Threads |-> th[u]]
    BY <1>1, Before
  <1>3. Moves(t, o) /\ x.pc \in {"resuming", "passing"} /\ "barrier" \in x.flags /\ UNCHANGED <<rq, barrier, Rest>>
    BY <1>1, <1>2 DEF SeeBarrier, Call, At, Moves
  <1>. ~ x.flip
    <2>1. PICK r : r \in x.barriers
      BY <1>2, <1>3 DEF FlagsAgree
    <2>2. x.count # 0
      BY <1>1, <2>1, BarrierHeld
    <2>. QED BY <1>2, <2>2 DEF PlaceAgrees
  <1>4. o \in ThreadRec
    <2>1. PICK v : v = x.pc
      OBVIOUS
    <2>2. x \in ThreadRec /\ o = [x EXCEPT !.pc = "claim", !.back = v]
      BY <1>1, <1>2, <2>1
    <2>3. "claim" \in Unregistered \cup RunPcs \cup IdlePcs
      BY DEF RunPcs, IdlePcs
    <2>4. v \in {NULL, "resuming", "passing", "check", "suspending"}
      BY <1>3, <2>1
    <2>. QED BY ONLY <2>2, <2>3, <2>4 DEF ThreadRec
  <1>5. Keeps(x, o) /\ o.exiting = x.exiting
    BY <1>1, <1>2, <1>3, <1>4 DEF Keeps, ThreadRec, Unregistered, PlaceAgrees, RunPcs
  <1>6. PlaceAgrees(o)
    BY <1>1, <1>2, <1>3 DEF PlaceAgrees, FlagsAgree, ThreadRec, RunPcs, Unregistered, Requested, Flags
  <1>. QED BY <1>1, <1>3, <1>5, <1>6, PlaceStep

(* The poll of the flags in compiled code *)
LEMMA PollKeeps ==
  ASSUME IInv, NEW t \in Threads, Poll(t)
  PROVE  IInv'
  <1>1. PICK x, o : x = th[t] /\ o = [x EXCEPT !.pc = "check"]
    OBVIOUS
  <1>2. x \in ThreadRec /\ PlaceAgrees(x) /\ FlagsAgree(x) /\ th = [u \in Threads |-> th[u]]
    BY <1>1, Before
  <1>3. Moves(t, o) /\ x.pc = "managed" /\ UNCHANGED <<rq, barrier, Rest>>
    BY <1>1, <1>2 DEF Poll, Goto, At, Moves
  <1>4. o \in ThreadRec
    BY <1>1, <1>2, <1>3, SMTT(20) DEF ThreadRec, RunPcs, IdlePcs
  <1>5. Keeps(x, o) /\ o.exiting = x.exiting
    BY <1>1, <1>2, <1>3, <1>4, ZenonT(60) DEF Keeps, ThreadRec, Unregistered, PlaceAgrees, RunPcs
  <1>6. PlaceAgrees(o)
    BY <1>1, <1>2, <1>3 DEF PlaceAgrees, FlagsAgree, ThreadRec, RunPcs, Unregistered, Requested, Flags
  <1>. QED BY <1>1, <1>3, <1>5, <1>6, PlaceStep

(* The way out to native code *)
LEMMA LeaveKeeps ==
  ASSUME IInv, NEW t \in Threads, Leave(t)
  PROVE  IInv'
  <1>1. PICK x, o : x = th[t] /\ o = [x EXCEPT !.pc = "suspending"]
    OBVIOUS
  <1>2. x \in ThreadRec /\ PlaceAgrees(x) /\ FlagsAgree(x) /\ th = [u \in Threads |-> th[u]]
    BY <1>1, Before
  <1>3. Moves(t, o) /\ x.pc = "managed" /\ UNCHANGED <<rq, barrier, Rest>>
    BY <1>1, <1>2 DEF Leave, Goto, At, Moves
  <1>4. o \in ThreadRec
    BY <1>1, <1>2, <1>3, SMTT(20) DEF ThreadRec, RunPcs, IdlePcs
  <1>5. Keeps(x, o) /\ o.exiting = x.exiting
    BY <1>1, <1>2, <1>3, <1>4, ZenonT(60) DEF Keeps, ThreadRec, Unregistered, PlaceAgrees, RunPcs
  <1>6. PlaceAgrees(o)
    BY <1>1, <1>2, <1>3 DEF PlaceAgrees, FlagsAgree, ThreadRec, RunPcs, Unregistered, Requested, Flags
  <1>. QED BY <1>1, <1>3, <1>5, <1>6, PlaceStep

(* The end of the transition out of kRunnable *)
LEMMA PassedKeeps ==
  ASSUME IInv, NEW t \in Threads, Passed(t)
  PROVE  IInv'
  <1>1. PICK x, v, o : /\ x = th[t] /\ v = IF x.after = "check" THEN "resuming" ELSE "native"
                       /\ o = [x EXCEPT !.pc = v]
    OBVIOUS
  <1>. v \in {"resuming", "native"}
    BY <1>1
  <1>2. x \in ThreadRec /\ PlaceAgrees(x) /\ FlagsAgree(x) /\ th = [u \in Threads |-> th[u]]
    BY <1>1, Before
  <1>3. Moves(t, o) /\ x.pc = "passing" /\ "barrier" \notin x.flags /\ UNCHANGED <<rq, barrier, Rest>>
    BY <1>1, <1>2 DEF Passed, Goto, At, Moves
  <1>4. o \in ThreadRec
    BY <1>1, <1>2, <1>3 DEF ThreadRec, RunPcs, IdlePcs, PlaceAgrees
  <1>5. Keeps(x, o) /\ o.exiting = x.exiting
    BY <1>1, <1>2, <1>3, <1>4 DEF Keeps, ThreadRec, Unregistered, PlaceAgrees, RunPcs
  <1>6. PlaceAgrees(o)
    BY <1>1, <1>2, <1>3 DEF PlaceAgrees, FlagsAgree, ThreadRec, RunPcs, Unregistered, Requested, Flags
  <1>. QED BY <1>1, <1>3, <1>5, <1>6, PlaceStep

(* The way from native code to kRunnable *)
LEMMA EnterKeeps ==
  ASSUME IInv, NEW t \in Threads, Enter(t)
  PROVE  IInv'
  <1>1. PICK x, o : x = th[t] /\ o = [x EXCEPT !.pc = "resuming"]
    OBVIOUS
  <1>2. x \in ThreadRec /\ PlaceAgrees(x) /\ FlagsAgree(x) /\ th = [u \in Threads |-> th[u]]
    BY <1>1, Before
  <1>3. Moves(t, o) /\ x.pc = "native" /\ UNCHANGED <<rq, barrier, Rest>>
    BY <1>1, <1>2 DEF Enter, Goto, At, Moves
  <1>4. o \in ThreadRec
    BY <1>1, <1>2, <1>3, SMTT(20) DEF ThreadRec, RunPcs, IdlePcs
  <1>5. Keeps(x, o) /\ o.exiting = x.exiting
    BY <1>1, <1>2, <1>3, <1>4, ZenonT(60) DEF Keeps, ThreadRec, Unregistered, PlaceAgrees, RunPcs
  <1>6. PlaceAgrees(o)
    BY <1>1, <1>2, <1>3 DEF PlaceAgrees, FlagsAgree, ThreadRec, RunPcs, Unregistered, Requested, Flags
  <1>. QED BY <1>1, <1>3, <1>5, <1>6, PlaceStep

(* The beginning of a detach *)
LEMMA DestroyKeeps ==
  ASSUME IInv, NEW t \in Threads, Destroy(t)
  PROVE  IInv'
  <1>1. PICK x, o : x = th[t] /\ o = [x EXCEPT !.exiting = TRUE, !.pc = "resuming"]
    OBVIOUS
  <1>2. x \in ThreadRec /\ PlaceAgrees(x) /\ FlagsAgree(x) /\ th = [u \in Threads |-> th[u]]
    BY <1>1, Before
  <1>3. Moves(t, o) /\ x.pc = "native" /\ Unasked(t) /\ UNCHANGED <<rq, barrier, Rest>>
    BY <1>1, <1>2 DEF Destroy, Unasked, At, Moves
  <1>4. o \in ThreadRec
    BY <1>1, <1>2, <1>3, ZenonT(60) DEF ThreadRec, RunPcs, IdlePcs
  <1>5. Keeps(x, o)
    BY <1>1, <1>2, <1>3, <1>4 DEF Keeps, ThreadRec, Unregistered, PlaceAgrees, RunPcs
  <1>6. PlaceAgrees(o)
    BY <1>1, <1>2, <1>3 DEF PlaceAgrees, FlagsAgree, ThreadRec, RunPcs, Unregistered, Requested, Flags
  <1>. QED BY <1>1, <1>3, <1>5, <1>6, PlaceStep

(* The call of RunCheckpointFunction, from either place *)
LEMMA CallCheckpointKeeps ==
  ASSUME IInv, NEW t \in Threads, At(t, "check") \/ At(t, "suspending"), "checkpoint" \in th[t].flags,
         Call(t, "checkpoint"), UNCHANGED <<rq, barrier, Rest>>
  PROVE  IInv'
  <1>1. PICK x, o : x = th[t] /\ o = [x EXCEPT !.pc = "checkpoint", !.back = x.pc]
    OBVIOUS
  <1>2. x \in ThreadRec /\ PlaceAgrees(x) /\ FlagsAgree(x) /\ th = [u \in Threads |-> th[u]]
    BY <1>1, Before
  <1>3. Moves(t, o) /\ x.pc \in {"check", "suspending"} /\ "checkpoint" \in x.flags /\ UNCHANGED <<rq, barrier, Rest>>
    BY <1>1, <1>2 DEF Call, At, Moves
  <1>4. o \in ThreadRec
    BY <1>1, <1>2, <1>3, ZenonT(60) DEF ThreadRec, RunPcs, IdlePcs
  <1>5. Keeps(x, o) /\ o.exiting = x.exiting
    BY <1>1, <1>2, <1>3, <1>4 DEF Keeps, ThreadRec, Unregistered, PlaceAgrees, RunPcs
  <1>6. PlaceAgrees(o)
    BY <1>1, <1>2, <1>3 DEF PlaceAgrees, FlagsAgree, ThreadRec, RunPcs, Unregistered, Requested, Flags
  <1>. QED BY <1>1, <1>3, <1>5, <1>6, PlaceStep

(* A suspend request seen by CheckSuspend *)
LEMMA BeginSuspendKeeps ==
  ASSUME IInv, NEW t \in Threads, At(t, "check"), th' = [th EXCEPT ![t].pc = "suspending", ![t].after = "check"],
         UNCHANGED <<rq, barrier, Rest>>
  PROVE  IInv'
  <1>1. PICK x, o : x = th[t] /\ o = [x EXCEPT !.pc = "suspending", !.after = "check"]
    OBVIOUS
  <1>2. x \in ThreadRec /\ PlaceAgrees(x) /\ FlagsAgree(x) /\ th = [u \in Threads |-> th[u]]
    BY <1>1, Before
  <1>3. Moves(t, o) /\ x.pc = "check" /\ UNCHANGED <<rq, barrier, Rest>>
    BY <1>1, <1>2 DEF Call, At, Moves
  <1>4. o \in ThreadRec
    BY <1>1, <1>2, <1>3 DEF ThreadRec, RunPcs, IdlePcs, PlaceAgrees
  <1>5. Keeps(x, o) /\ o.exiting = x.exiting
    BY <1>1, <1>2, <1>3, <1>4 DEF Keeps, ThreadRec, Unregistered, PlaceAgrees, RunPcs
  <1>6. PlaceAgrees(o)
    BY <1>1, <1>2, <1>3 DEF PlaceAgrees, FlagsAgree, ThreadRec, RunPcs, Unregistered, Requested, Flags
  <1>. QED BY <1>1, <1>3, <1>5, <1>6, PlaceStep

(* The end of CheckSuspend *)
LEMMA EndCheckKeeps ==
  ASSUME IInv, NEW t \in Threads, At(t, "check"), Goto(t, "managed"), UNCHANGED <<rq, barrier, Rest>>
  PROVE  IInv'
  <1>1. PICK x, o : x = th[t] /\ o = [x EXCEPT !.pc = "managed"]
    OBVIOUS
  <1>2. x \in ThreadRec /\ PlaceAgrees(x) /\ FlagsAgree(x) /\ th = [u \in Threads |-> th[u]]
    BY <1>1, Before
  <1>3. Moves(t, o) /\ x.pc = "check" /\ UNCHANGED <<rq, barrier, Rest>>
    BY <1>1, <1>2 DEF Goto, At, Moves
  <1>4. o \in ThreadRec
    BY <1>1, <1>2, <1>3, SMTT(20) DEF ThreadRec, RunPcs, IdlePcs
  <1>5. Keeps(x, o) /\ o.exiting = x.exiting
    BY <1>1, <1>2, <1>3, <1>4, ZenonT(60) DEF Keeps, ThreadRec, Unregistered, PlaceAgrees, RunPcs
  <1>6. PlaceAgrees(o)
    BY <1>1, <1>2, <1>3 DEF PlaceAgrees, FlagsAgree, ThreadRec, RunPcs, Unregistered, Requested, Flags
  <1>. QED BY <1>1, <1>3, <1>5, <1>6, PlaceStep

(* The swap out of kRunnable *)
LEMMA SwapOutKeeps ==
  ASSUME IInv, NEW t \in Threads, At(t, "suspending"), th[t].flags \cap Requested = {},
         th' = [th EXCEPT ![t].state = IF th[t].after = "check" THEN "Suspended" ELSE "Native",
                          ![t].pc = "passing"],
         UNCHANGED <<rq, barrier, Rest>>
  PROVE  IInv'
  <1>1. PICK x, o : x = th[t] /\ o = [x EXCEPT !.state = IF x.after = "check" THEN "Suspended" ELSE "Native",
                               !.pc = "passing"]
    OBVIOUS
  <1>2. x \in ThreadRec /\ PlaceAgrees(x) /\ FlagsAgree(x) /\ th = [u \in Threads |-> th[u]]
    BY <1>1, Before
  <1>3. Moves(t, o) /\ x.pc = "suspending" /\ x.flags \cap Requested = {} /\ UNCHANGED <<rq, barrier, Rest>>
    BY <1>1, <1>2 DEF Goto, At, Moves
  <1>4. o \in ThreadRec
    BY <1>1, <1>2, <1>3, ZenonT(60) DEF ThreadRec, RunPcs, IdlePcs
  <1>5. Keeps(x, o) /\ o.exiting = x.exiting
    BY <1>1, <1>2, <1>3, <1>4 DEF Keeps, ThreadRec, Unregistered, PlaceAgrees, RunPcs
  <1>6. PlaceAgrees(o)
    BY <1>1, <1>2, <1>3 DEF PlaceAgrees, FlagsAgree, ThreadRec, RunPcs, Unregistered, Requested, Flags
  <1>. QED BY <1>1, <1>3, <1>5, <1>6, PlaceStep

(* A claim that finds the barriers gone *)
LEMMA NotClaimedKeeps ==
  ASSUME IInv, NEW t \in Threads, At(t, "claim"), "barrier" \notin th[t].flags, Back(t), UNCHANGED <<rq, barrier, Rest>>
  PROVE  IInv'
  <1>1. PICK x, o : x = th[t] /\ o = [x EXCEPT !.pc = x.back, !.back = NULL]
    OBVIOUS
  <1>2. x \in ThreadRec /\ PlaceAgrees(x) /\ FlagsAgree(x) /\ th = [u \in Threads |-> th[u]]
    BY <1>1, Before
  <1>3. Moves(t, o) /\ x.pc = "claim" /\ "barrier" \notin x.flags /\ UNCHANGED <<rq, barrier, Rest>>
    BY <1>1, <1>2 DEF Back, At, Moves
  <1>4. o \in ThreadRec
    <2>1. PICK v : v = x.back
      OBVIOUS
    <2>2. v \in Unregistered \cup RunPcs \cup IdlePcs
      BY <1>2, <1>3, <2>1 DEF PlaceAgrees, RunPcs, IdlePcs
    <2>3. o = [x EXCEPT !.pc = v, !.back = NULL]
      BY <1>1, <2>1
    <2>. QED BY ONLY <1>2, <2>2, <2>3 DEF ThreadRec
  <1>5. Keeps(x, o) /\ o.exiting = x.exiting
    BY <1>1, <1>2, <1>3, <1>4 DEF Keeps, ThreadRec, Unregistered, PlaceAgrees, RunPcs
  <1>6. PlaceAgrees(o)
    BY <1>1, <1>2, <1>3 DEF PlaceAgrees, FlagsAgree, ThreadRec, RunPcs, Unregistered, Requested, Flags
  <1>. QED BY <1>1, <1>3, <1>5, <1>6, PlaceStep

(* The claim of the barriers under the lock *)
LEMMA ClaimKeeps ==
  ASSUME IInv, NEW t \in Threads, Claim(t)
  PROVE  IInv'
  <1>1. CASE "barrier" \notin th[t].flags
    BY <1>1, NotClaimedKeeps DEF Claim
  <1>2. CASE "barrier" \in th[t].flags
    <2>1. PICK x, o : x = th[t] /\ o = [x EXCEPT !.claimed = x.barriers, !.barriers = {},
                                                 !.flags = x.flags \ {"barrier"}, !.pc = "pass"]
      OBVIOUS
    <2>2. ThreadOK(x) /\ x \in ThreadRec /\ PlaceAgrees(x) /\ FlagsAgree(x)
          /\ th = [u \in Threads |-> th[u]]
      BY <2>1, Before
    <2>3. Moves(t, o) /\ x.pc = "claim" /\ "barrier" \in x.flags /\ UNCHANGED <<rq, barrier, Rest>>
      BY <1>2, <2>1, <2>2 DEF Claim, At, Moves
    <2>4. /\ o \in ThreadRec /\ o.pc = "pass" /\ o.state = x.state /\ o.flags = x.flags \ {"barrier"}
          /\ o.count = x.count /\ o.barriers = {} /\ o.claimed = x.barriers
          /\ o.checkpoints = x.checkpoints /\ o.closure = x.closure /\ o.back = x.back
          /\ o.flip = x.flip /\ o.transitioning = x.transitioning /\ o.exiting = x.exiting
      BY <2>1, <2>2, ZenonT(60) DEF ThreadRec, IdlePcs
    <2>5. ThreadOK(o)
      <3>1. FlagsAgree(o)
        BY <2>2, <2>4 DEF FlagsAgree
      <3>2. PlaceAgrees(o)
        BY <2>2, <2>3, <2>4 DEF PlaceAgrees, FlagsAgree, RunPcs, Unregistered
      <3>3. ClosuresOnce(o)
        BY <2>2, <2>4 DEF ClosuresOnce, ThreadOK
      <3>4. Cardinality(o.barriers) <= MaxBarriers
        BY <2>4, FS_EmptySet
      <3>. QED BY <2>4, <3>1, <3>2, <3>3, <3>4 DEF ThreadOK
    <2>6. Same(x, o)
      <3>1. x.claimed = {} /\ x.state # "Runnable"
        BY <2>2, <2>3 DEF PlaceAgrees, RunPcs
      <3>2. \A r \in Requesters : HasClosure(o, r) => HasClosure(x, r)
        BY <2>4 DEF HasClosure
      <3>. QED BY <2>3, <2>4, <3>1, <3>2 DEF Same, Unregistered
    <2>. QED BY <2>1, <2>3, <2>4, <2>5, <2>6, LocalStep
  <1>. QED BY <1>1, <1>2

(* The head and the tail of a list *)
LEMMA HeadAndTail ==
  ASSUME NEW S, NEW s \in Seq(S), s # <<>>
  PROVE  /\ Len(s) \in Nat /\ Len(s) >= 1 /\ Head(s) = s[1] /\ Head(s) \in S
         /\ Tail(s) \in Seq(S) /\ Len(Tail(s)) = Len(s) - 1
         /\ \A i \in 1 .. Len(s) - 1 : i + 1 \in 1 .. Len(s) /\ Tail(s)[i] = s[i + 1]
         /\ Tail(s) = <<>> <=> Len(s) = 1
  <1>1. /\ Len(s) \in Nat /\ Len(s) >= 1 /\ Head(s) = s[1] /\ Head(s) \in S
        /\ Tail(s) \in Seq(S) /\ Len(Tail(s)) = Len(s) - 1
    BY HeadTailProperties, LenProperties, EmptySeq
  <1>2. \A i \in 1 .. Len(s) - 1 : i + 1 \in 1 .. Len(s) /\ Tail(s)[i] = s[i + 1]
    BY <1>1, HeadTailProperties
  <1>3. Tail(s) = <<>> <=> Len(Tail(s)) = 0
    BY <1>1, EmptySeq
  <1>. QED BY <1>1, <1>2, <1>3

(* RunCheckpointFunction takes a closure off the list; there is one. *)
LEMMA TakeCheckpointKeeps ==
  ASSUME IInv, NEW t \in Threads, TakeCheckpoint(t)
  PROVE  IInv'
  <1>1. PICK x, s, last : /\ x = th[t] /\ s = th[t].checkpoints
                          /\ last = (Len(s) = 1)
    OBVIOUS
  <1>2. PICK o : o = [x EXCEPT !.closure = Head(s), !.checkpoints = Tail(s),
                               !.flags = IF last THEN x.flags \ {"checkpoint"} ELSE x.flags,
                               !.pc = IF last THEN "runlast" ELSE "run"]
    OBVIOUS
  <1>3. ThreadOK(x) /\ x \in ThreadRec /\ PlaceAgrees(x) /\ FlagsAgree(x)
        /\ th = [u \in Threads |-> th[u]]
    BY <1>1, Before
  <1>4. x.pc = "checkpoint" /\ s \in Seq(Requesters) /\ s # <<>>
    BY <1>1, <1>3 DEF TakeCheckpoint, At, PlaceAgrees, ThreadRec
  <1>5. Moves(t, o) /\ UNCHANGED <<rq, barrier, Rest>>
    BY <1>1, <1>2, <1>3, <1>4 DEF TakeCheckpoint, Moves
  <1>6. PICK h, v : h = Head(s) /\ v = Tail(s)
    OBVIOUS
  <1>7. /\ h = s[1] /\ h \in Requesters /\ v \in Seq(Requesters) /\ Len(v) = Len(s) - 1
        /\ Len(s) \in Nat /\ Len(s) >= 1
        /\ \A i \in 1 .. Len(s) - 1 : i + 1 \in 1 .. Len(s) /\ v[i] = s[i + 1]
        /\ v = <<>> <=> last
    BY <1>1, <1>4, <1>6, HeadAndTail
  <1>8. PICK f, pc : /\ f = IF last THEN x.flags \ {"checkpoint"} ELSE x.flags
                     /\ pc = IF last THEN "runlast" ELSE "run"
    OBVIOUS
  <1>9. f \in SUBSET Flags /\ pc \in {"runlast", "run"}
    BY <1>3, <1>8 DEF ThreadRec
  <1>10. /\ o \in ThreadRec /\ o.pc = pc /\ o.state = x.state /\ o.flags = f
         /\ o.count = x.count /\ o.barriers = x.barriers /\ o.claimed = x.claimed
         /\ o.checkpoints = v /\ o.closure = h /\ o.back = x.back
         /\ o.flip = x.flip /\ o.transitioning = x.transitioning /\ o.exiting = x.exiting
    BY <1>2, <1>3, <1>6, <1>7, <1>8, <1>9, ZenonT(60) DEF ThreadRec, RunPcs
  <1>11. ClosuresOnce(x) /\ x.checkpoints = s
    BY <1>1, <1>3 DEF ThreadOK
  <1>12. ThreadOK(o)
    <2>1. FlagsAgree(o)
      <3>1. "checkpoint" \in f <=> v # <<>>
        BY <1>1, <1>3, <1>4, <1>7, <1>8 DEF FlagsAgree
      <3>2. "suspend" \in f <=> "suspend" \in x.flags
        BY <1>8
      <3>3. "barrier" \in f <=> "barrier" \in x.flags
        BY <1>8
      <3>. QED BY <1>3, <1>10, <3>1, <3>2, <3>3 DEF FlagsAgree
    <2>2. PlaceAgrees(o)
      <3>1. pc = "run" => v # <<>>
        BY <1>7, <1>8
      <3>2. h # NULL
        BY <1>7
      <3>. QED BY <1>3, <1>4, <1>9, <1>10, <3>1, <3>2 DEF PlaceAgrees, RunPcs, Unregistered
    <2>3. ClosuresOnce(o)
      <3>1. \A i, j \in 1 .. Len(s) : s[i] = s[j] => i = j
        BY <1>11 DEF ClosuresOnce
      <3>2. ASSUME NEW i \in 1 .. Len(v), NEW j \in 1 .. Len(v), v[i] = v[j] PROVE i = j
        <4>1. s[i + 1] = s[j + 1] /\ i + 1 \in 1 .. Len(s) /\ j + 1 \in 1 .. Len(s)
          BY <1>7, <3>2
        <4>2. i + 1 = j + 1
          BY <3>1, <4>1
        <4>. QED BY <4>2
      <3>3. ASSUME NEW i \in 1 .. Len(v) PROVE v[i] # h
        <4>1. v[i] = s[i + 1] /\ i + 1 \in 1 .. Len(s) /\ 1 \in 1 .. Len(s)
          BY <1>7
        <4>2. i + 1 # 1
          BY <1>7
        <4>. QED BY <1>7, <3>1, <4>1, <4>2
      <3>. QED BY <1>10, <3>2, <3>3 DEF ClosuresOnce
    <2>. QED BY <1>3, <1>10, <2>1, <2>2, <2>3 DEF ThreadOK
  <1>13. Same(x, o)
    <2>1. ASSUME NEW r \in Requesters, HasClosure(o, r) PROVE HasClosure(x, r)
      <3>1. \E i \in 1 .. Len(s) : s[i] = r
        <4>1. CASE h = r
          <5>1. 1 \in 1 .. Len(s)
            BY <1>7
          <5>. QED BY <1>7, <4>1, <5>1
        <4>2. CASE \E i \in 1 .. Len(v) : v[i] = r
          BY <1>7, <4>2
        <4>. QED BY <1>10, <2>1, <4>1, <4>2 DEF HasClosure
      <3>. QED BY <1>11, <3>1 DEF HasClosure
    <2>2. "empty" \in f <=> "empty" \in x.flags
      BY <1>8
    <2>3. x.state = "Runnable"
      BY <1>3, <1>4 DEF PlaceAgrees, RunPcs
    <2>. QED BY <1>4, <1>9, <1>10, <2>1, <2>2, <2>3 DEF Same, Unregistered
  <1>. QED BY <1>1, <1>5, <1>10, <1>12, <1>13, LocalStep

-----------------------------------------------------------------------------
(* Barriers, checkpoints and closures *)

(* One element less, one element more *)
LEMMA CardinalityStep ==
  ASSUME NEW S, IsFiniteSet(S), NEW e
  PROVE  /\ Cardinality(S) \in Nat
         /\ e \in S => Cardinality(S) >= 1 /\ Cardinality(S \ {e}) = Cardinality(S) - 1
         /\ e \notin S => Cardinality(S \cup {e}) = Cardinality(S) + 1
         /\ Cardinality(S) = 0 <=> S = {}
  <1>1. Cardinality(S) \in Nat /\ (Cardinality(S) = 0 <=> S = {})
    BY FS_CardinalityType, FS_EmptySet
  <1>2. e \in S => Cardinality(S \ {e}) = Cardinality(S) - 1
    BY FS_RemoveElement
  <1>3. e \notin S => Cardinality(S \cup {e}) = Cardinality(S) + 1
    BY FS_AddElement
  <1>4. e \in S => Cardinality(S) >= 1
    BY <1>1
  <1>. QED BY <1>1, <1>2, <1>3, <1>4

(* The threads that have not passed a barrier are finitely many. *)
LEMMA PendingFinite ==
  ASSUME NEW r
  PROVE  IsFiniteSet(Pending(r)) /\ IsFiniteSet(Holders(r)) /\ IsFiniteSet(Suspenders)
         /\ IsFiniteSet(Unborn)
  <1>1. /\ Pending(r) \subseteq Threads /\ Holders(r) \subseteq Requesters
        /\ Suspenders \subseteq Requesters /\ Unborn \subseteq Threads
    BY DEF Pending, Holders, Suspenders, Unborn
  <1>. QED BY <1>1, FS_Subset

(* A thread passes a barrier that it has claimed; it is counted there. *)
LEMMA PassBarrierKeeps ==
  ASSUME IInv, NEW t \in Threads, PassBarrier(t)
  PROVE  IInv'
  <1>1. PICK x : x = th[t]
    OBVIOUS
  <1>2. ThreadOK(x) /\ x \in ThreadRec /\ PlaceAgrees(x) /\ FlagsAgree(x)
        /\ th = [u \in Threads |-> th[u]]
    BY <1>1, Before
  <1>0. x.pc = "pass"
    BY <1>1 DEF PassBarrier, At
  <1>3. /\ x.pc = "pass" /\ x.claimed # {} /\ x.back \in {"resuming", "passing"}
        /\ x.barriers \cap x.claimed = {} /\ x.state # "Runnable"
    BY <1>0, <1>2 DEF PlaceAgrees, RunPcs
  <1>4. PICK r \in x.claimed :
          IF barrier[r] <= 0 THEN Abort("barrier passed too often")
          ELSE /\ barrier' = [barrier EXCEPT ![r] = @ - 1]
               /\ th' = [th EXCEPT ![t].claimed = @ \ {r},
                                   ![t].pc = IF th[t].claimed = {r} THEN th[t].back ELSE @,
                                   ![t].back = IF th[t].claimed = {r} THEN NULL ELSE @]
               /\ UNCHANGED <<rq, Rest>>
    BY <1>1, <1>3 DEF PassBarrier
  <1>5. r \in Requesters /\ t \in Pending(r)
    BY <1>1, <1>2, <1>4 DEF ThreadRec, Pending
  <1>6. rq[r].pc \in {"raising", "clearing", "gathering"} /\ barrier[r] = Cardinality(Pending(r))
    BY <1>5 DEF IInv, BarrierInv
  <1>7. Cardinality(Pending(r) \ {t}) = barrier[r] - 1 /\ barrier[r] \in Nat /\ barrier[r] > 0
    <2>1. PICK S : S = Pending(r)
      OBVIOUS
    <2>2. /\ Cardinality(S) \in Nat /\ Cardinality(S) >= 1
          /\ Cardinality(S \ {t}) = Cardinality(S) - 1
      BY <1>5, <2>1, PendingFinite, CardinalityStep
    <2>. QED BY <1>6, <2>1, <2>2
  <1>8. PICK pc, back : /\ pc = IF x.claimed = {r} THEN x.back ELSE "pass"
                        /\ back = IF x.claimed = {r} THEN NULL ELSE x.back
    OBVIOUS
  <1>9. PICK o : o = [x EXCEPT !.claimed = x.claimed \ {r}, !.pc = pc, !.back = back]
    OBVIOUS
  <1>10. /\ Moves(t, o) /\ UNCHANGED <<rq, Rest>>
         /\ barrier' = [barrier EXCEPT ![r] = barrier[r] - 1]
    <2>1. ~ (barrier[r] <= 0)
      BY <1>7
    <2>. QED BY <1>1, <1>2, <1>3, <1>4, <1>8, <1>9, <2>1, ZenonT(60) DEF Moves
  <1>11. /\ o \in ThreadRec /\ o.pc = pc /\ o.state = x.state /\ o.flags = x.flags
         /\ o.count = x.count /\ o.barriers = x.barriers /\ o.claimed = x.claimed \ {r}
         /\ o.checkpoints = x.checkpoints /\ o.closure = x.closure /\ o.back = back
         /\ o.flip = x.flip /\ o.transitioning = x.transitioning /\ o.exiting = x.exiting
    <2>1. /\ pc \in {"resuming", "passing", "pass"} /\ back \in {NULL, "resuming", "passing"}
          /\ x.claimed \ {r} \in SUBSET Requesters
      BY <1>2, <1>3, <1>8 DEF ThreadRec
    <2>. QED BY <1>2, <1>3, <1>9, <2>1 DEF ThreadRec, IdlePcs
  <1>12. Own(x, o)
    <2>1. FlagsAgree(o)
      BY <1>2, <1>3, <1>11 DEF FlagsAgree
    <2>2. PlaceAgrees(o)
      <3>1. x.claimed \ {r} # {} <=> pc = "pass"
        BY <1>3, <1>4, <1>8
      <3>. QED BY <1>2, <1>3, <1>8, <1>11, <3>1 DEF PlaceAgrees, RunPcs, Unregistered
    <2>3. ClosuresOnce(o)
      BY <1>2, <1>11 DEF ClosuresOnce, ThreadOK
    <2>4. Cardinality(o.barriers) <= MaxBarriers
      BY <1>2, <1>11 DEF ThreadOK
    <2>. QED BY <1>3, <1>8, <1>11, <2>1, <2>2, <2>3, <2>4 DEF Own, ThreadOK, Unregistered
  <1>13. /\ th'[t] = o /\ \A u \in Threads : u # t => th'[u] = th[u]
         /\ ThreadInv' /\ RequestInv' /\ LockInv' /\ TargetInv' /\ CountInv' /\ BirthInv'
         /\ aborted' = NULL /\ Registered' = Registered
         /\ \A s \in Requesters, u \in Threads : Suspends(s, u)' <=> Suspends(s, u)
    <2>1. Moves(t, o) /\ Own(th[t], o) /\ o.exiting = th[t].exiting /\ UNCHANGED <<rq, Rest>>
      BY <1>1, <1>10, <1>11, <1>12
    <2>. QED BY <2>1, OwnParts
  <1>14. BarrierType' /\ barrier'[r] = barrier[r] - 1 /\ rq' = rq
         /\ \A s \in Requesters : s # r => barrier'[s] = barrier[s]
    BY <1>5, <1>10 DEF IInv, BarrierType
  <1>15. \A s \in Requesters, u \in Threads :
           s \in th'[u].barriers \cup th'[u].claimed <=>
             s \in th[u].barriers \cup th[u].claimed /\ ~ (s = r /\ u = t)
    BY <1>1, <1>3, <1>4, <1>11, <1>13
  <1>16. BarrierInv'
    <2>1. t \notin rq[r].todo
      BY <1>1, <1>4, <1>5 DEF IInv, BarrierInv
    <2>2. Pending(r)' = Pending(r) \ {t}
      BY <1>5, <1>14, <1>15, <2>1 DEF Pending
    <2>3. \A s \in Requesters : s # r => Pending(s)' = Pending(s)
      BY <1>14, <1>15 DEF Pending
    <2>4. ASSUME NEW s \in Requesters, NEW u \in Threads, Suspends(s, u)', Runnable(u)'
          PROVE  s \in th'[u].barriers
      <3>1. u # t /\ Suspends(s, u) /\ Runnable(u)
        BY <1>3, <1>11, <1>13, <2>4 DEF Runnable
      <3>. QED BY <1>13, <3>1 DEF IInv, BarrierInv
    <2>5. ASSUME NEW s \in Requesters, rq[s].pc \in {"running", "lower"}
          PROVE  ~ Runnable(rq[s].on)'
      <3>1. rq[s].on \in Threads /\ ~ Runnable(rq[s].on)
        BY <2>5 DEF IInv, BarrierInv, TargetInv, Registered, HoldPcs
      <3>2. th'[rq[s].on].state = th[rq[s].on].state
        BY <1>1, <1>11, <1>13, <3>1
      <3>. QED BY <1>14, <3>1, <3>2 DEF Runnable
    <2>6. \A s \in Requesters : \A u \in rq[s].todo : s \notin th'[u].barriers \cup th'[u].claimed
      BY <1>15 DEF IInv, BarrierInv, TargetInv, Registered
    <2>7. ASSUME NEW s \in Requesters
          PROVE  /\ rq[s].pc \in {"raising", "clearing", "gathering"} => barrier'[s] = Cardinality(Pending(s)')
                 /\ rq[s].pc \notin {"raising", "clearing", "gathering"} => Pending(s)' = {}
                 /\ rq[s].pc = "paused" \/ (rq[s].pc = "idle" /\ rq[s].op = "suspend") => barrier'[s] = 0
      <3>1. CASE s = r
        BY <1>6, <1>7, <1>14, <2>2, <3>1
      <3>2. CASE s # r
        BY <1>14, <2>3, <3>2 DEF IInv, BarrierInv
      <3>. QED BY <3>1, <3>2
    <2>. QED BY <1>14, <2>4, <2>5, <2>6, <2>7 DEF BarrierInv
  <1>17. rq[r].op = "suspend"
    BY <1>5, <1>6 DEF IInv, RequestInv, RequestOK, SuspendPcs
  <1>18. ClosureInv'
    <2>1. \A s \in Requesters, u \in Threads : HasClosure(th'[u], s) <=> HasClosure(th[u], s)
      BY <1>1, <1>11, <1>13 DEF HasClosure
    <2>. QED BY <1>14, <1>17, <2>1 DEF IInv, ClosureInv
  <1>19. EmptyInv'
    <2>1. \A u \in Threads : th'[u].flags = th[u].flags
      BY <1>1, <1>11, <1>13
    <2>2. \A s \in Requesters : InEmpty(s)' <=> InEmpty(s)
      BY <1>14 DEF InEmpty
    <2>3. \A s \in Requesters : InEmpty(s) => rq[s].on \in Threads
      BY DEF IInv, RequestInv, RequestOK, InEmpty, TargetInv, Registered, RequestRec, AskPcs, HoldPcs, SuspendPcs
    <2>4. rq[r].op # NULL
      BY <1>17, NULLAssumption
    <2>. QED BY <1>14, <1>17, <2>1, <2>2, <2>3, <2>4 DEF IInv, EmptyInv, InEmpty
  <1>. QED BY <1>13, <1>14, <1>16, <1>18, <1>19 DEF IInv

(* The thread that a request is about, while it lasts *)
LEMMA TargetFacts ==
  ASSUME IInv, NEW r \in Requesters
  PROVE  /\ rq[r] \in RequestRec /\ RequestOK(rq[r])
         /\ rq[r].pc \in AskPcs \cup HoldPcs \cup {"raise", "holding"} =>
              rq[r].on \in Threads /\ rq[r].on \in Registered /\ ~ th[rq[r].on].exiting
         /\ InEmpty(r) => rq[r].pc \in AskPcs /\ rq[r].on \in Threads
         /\ rq[r].todo \subseteq Threads
  <1>1. rq[r] \in RequestRec /\ RequestOK(rq[r])
    BY DEF IInv, RequestInv, RequestOK
  <1>2. rq[r].pc \in AskPcs \cup HoldPcs \cup {"raise", "holding"} =>
              rq[r].on \in Threads /\ rq[r].on \in Registered /\ ~ th[rq[r].on].exiting
    BY DEF IInv, TargetInv, Registered
  <1>3. InEmpty(r) => rq[r].pc \in AskPcs
    BY <1>1 DEF RequestOK, RequestRec, InEmpty
  <1>4. rq[r].todo \subseteq Threads
    BY DEF IInv, TargetInv, Registered
  <1>. QED BY <1>1, <1>2, <1>3, <1>4

(* EmptyCheckpointBarrier is passed by the one thread it waits for. *)
LEMMA RunEmptyCheckpointKeeps ==
  ASSUME IInv, NEW t \in Threads, At(t, "check") \/ At(t, "suspending"),
         "empty" \in th[t].flags, RunEmptyCheckpoint(t)
  PROVE  IInv'
  <1>1. PICK x, o : x = th[t] /\ o = [x EXCEPT !.flags = x.flags \ {"empty"}]
    OBVIOUS
  <1>2. ThreadOK(x) /\ x \in ThreadRec /\ PlaceAgrees(x) /\ FlagsAgree(x)
        /\ th = [u \in Threads |-> th[u]]
    BY <1>1, Before
  <1>3. /\ x.pc \in {"check", "suspending"} /\ Moves(t, o) /\ UNCHANGED <<rq, Rest>>
        /\ barrier' = [r \in Requesters |-> IF InEmpty(r) THEN barrier[r] - 1 ELSE barrier[r]]
    BY <1>1, <1>2 DEF RunEmptyCheckpoint, At, Moves
  <1>4. /\ o \in ThreadRec /\ o.pc = x.pc /\ o.state = x.state /\ o.flags = x.flags \ {"empty"}
        /\ o.count = x.count /\ o.barriers = x.barriers /\ o.claimed = x.claimed
        /\ o.checkpoints = x.checkpoints /\ o.closure = x.closure /\ o.back = x.back
        /\ o.flip = x.flip /\ o.transitioning = x.transitioning /\ o.exiting = x.exiting
    BY <1>1, <1>2 DEF ThreadRec
  <1>5. Own(x, o)
    <2>1. FlagsAgree(o)
      BY <1>2, <1>4 DEF FlagsAgree
    <2>2. PlaceAgrees(o)
      <3>1. x.pc \in RunPcs
        BY <1>3 DEF RunPcs
      <3>. QED BY <1>2, <1>4, <3>1 DEF PlaceAgrees
    <2>3. ClosuresOnce(o)
      BY <1>2, <1>4 DEF ClosuresOnce, ThreadOK
    <2>. QED BY <1>2, <1>3, <1>4, <2>1, <2>2, <2>3 DEF Own, ThreadOK, Unregistered
  <1>6. /\ th'[t] = o /\ \A u \in Threads : u # t => th'[u] = th[u]
        /\ ThreadInv' /\ RequestInv' /\ LockInv' /\ TargetInv' /\ CountInv' /\ BirthInv'
        /\ aborted' = NULL /\ Registered' = Registered
        /\ \A s \in Requesters, u \in Threads : Suspends(s, u)' <=> Suspends(s, u)
    <2>1. Moves(t, o) /\ Own(th[t], o) /\ o.exiting = th[t].exiting /\ UNCHANGED <<rq, Rest>>
      BY <1>1, <1>3, <1>4, <1>5
    <2>. QED BY <2>1, OwnParts
  <1>7. PICK r \in Requesters : InEmpty(r) /\ rq[r].on = t /\ rq[r].pc \in {"wait", "waiting"}
    BY DEF IInv, EmptyInv
  <1>8. \A s \in Requesters : InEmpty(s) => s = r
    BY <1>7 DEF IInv, EmptyInv
  <1>9. rq[r].op = "empty" /\ rq[r].pc # "idle"
    BY <1>7 DEF InEmpty
  <1>10. /\ rq' = rq /\ barrier'[r] = barrier[r] - 1 /\ barrier[r] \in Int
         /\ \A s \in Requesters : s # r => barrier'[s] = barrier[s]
    BY <1>3, <1>7, <1>8 DEF IInv, BarrierType
  <1>11. BarrierType'
    BY <1>3 DEF IInv, BarrierType
  <1>12. \A u \in Threads : /\ th'[u].barriers = th[u].barriers /\ th'[u].claimed = th[u].claimed
                            /\ th'[u].state = th[u].state
                            /\ th'[u].checkpoints = th[u].checkpoints /\ th'[u].closure = th[u].closure
    BY <1>1, <1>4, <1>6
  <1>13. BarrierInv'
    <2>1. \A s \in Requesters : Pending(s)' = Pending(s)
      BY <1>10, <1>12 DEF Pending
    <2>2. \A s \in Requesters, u \in Threads : Runnable(u)' <=> Runnable(u)
      BY <1>12 DEF Runnable
    <2>3. \A s \in Requesters : rq[s].pc \in {"running", "lower"} => rq[s].on \in Threads
      BY TargetFacts DEF HoldPcs
    <2>4. \A s \in Requesters : \A u \in rq[s].todo : u \in Threads
      BY TargetFacts
    <2>5. rq[r].pc \notin {"raising", "clearing", "gathering", "paused", "idle"}
      BY <1>7
    <2>. QED BY <1>6, <1>10, <1>12, <2>1, <2>2, <2>3, <2>4, <2>5 DEF IInv, BarrierInv
  <1>14. ClosureInv'
    <2>1. \A s \in Requesters, u \in Threads : HasClosure(th'[u], s) <=> HasClosure(th[u], s)
      BY <1>12 DEF HasClosure
    <2>. QED BY <1>9, <1>10, <2>1 DEF IInv, ClosureInv
  <1>15. EmptyInv'
    <2>1. \A s \in Requesters : InEmpty(s)' <=> InEmpty(s)
      BY <1>10 DEF InEmpty
    <2>2. "empty" \notin th'[t].flags /\ \A u \in Threads : u # t => th'[u].flags = th[u].flags
      BY <1>4, <1>6
    <2>3. \A u \in Threads : "empty" \in th'[u].flags =>
            \E s \in Requesters : InEmpty(s) /\ rq[s].on = u /\ rq[s].pc \in {"wait", "waiting"}
      BY <2>2 DEF IInv, EmptyInv
    <2>4. barrier[r] = IF rq[r].pc = "waiting" THEN 1 ELSE 0
      BY <1>7, <1>9 DEF IInv, EmptyInv
    <2>5. barrier'[r] = (IF rq[r].pc = "waiting" THEN 1 ELSE 0)
                           - (IF "empty" \in th'[t].flags THEN 0 ELSE 1)
      BY <1>10, <2>2, <2>4
    <2>6. ASSUME NEW s \in Requesters, rq[s].op = "empty"
          PROVE  barrier'[s] = IF rq[s].pc \notin {"wait", "waiting"} THEN 0
                               ELSE (IF rq[s].pc = "waiting" THEN 1 ELSE 0)
                                      - (IF "empty" \in th'[rq[s].on].flags THEN 0 ELSE 1)
      <3>1. CASE s = r
        BY <1>7, <2>5, <3>1
      <3>2. CASE s # r
        <4>1. rq[s].pc \notin {"wait", "waiting"}
          BY <1>8, <2>6, <3>2 DEF InEmpty
        <4>. QED BY <1>10, <2>6, <3>2, <4>1 DEF IInv, EmptyInv
      <3>. QED BY <3>1, <3>2
    <2>7. \A s \in Requesters : rq[s].op = NULL => barrier'[s] = 0
      BY <1>9, <1>10, NULLAssumption DEF IInv, EmptyInv
    <2>. QED BY <1>8, <1>10, <2>1, <2>3, <2>6, <2>7 DEF EmptyInv
  <1>. QED BY <1>6, <1>11, <1>13, <1>14, <1>15 DEF IInv

(* CheckSuspend *)
LEMMA CheckSuspendKeeps ==
  ASSUME IInv, NEW t \in Threads, CheckSuspend(t)
  PROVE  IInv'
  <1>. At(t, "check")
    BY DEF CheckSuspend
  <1>1. CASE "checkpoint" \in th[t].flags /\ Call(t, "checkpoint") /\ UNCHANGED <<rq, barrier, Rest>>
    BY <1>1, CallCheckpointKeeps
  <1>2. CASE th' = [th EXCEPT ![t].pc = "suspending", ![t].after = "check"]
             /\ UNCHANGED <<rq, barrier, Rest>>
    BY <1>2, BeginSuspendKeeps
  <1>3. CASE "empty" \in th[t].flags /\ RunEmptyCheckpoint(t)
    BY <1>3, RunEmptyCheckpointKeeps
  <1>4. CASE Goto(t, "managed") /\ UNCHANGED <<rq, barrier, Rest>>
    BY <1>4, EndCheckKeeps
  <1>. QED BY <1>1, <1>2, <1>3, <1>4 DEF CheckSuspend

(* TransitionToSuspendedAndRunCheckpoints *)
LEMMA BecomeSuspendedKeeps ==
  ASSUME IInv, NEW t \in Threads, BecomeSuspended(t)
  PROVE  IInv'
  <1>. At(t, "suspending")
    BY DEF BecomeSuspended
  <1>1. CASE "checkpoint" \in th[t].flags /\ Call(t, "checkpoint") /\ UNCHANGED <<rq, barrier, Rest>>
    BY <1>1, CallCheckpointKeeps
  <1>2. CASE "empty" \in th[t].flags /\ RunEmptyCheckpoint(t)
    BY <1>2, RunEmptyCheckpointKeeps
  <1>3. CASE /\ th[t].flags \cap Requested = {}
             /\ th' = [th EXCEPT ![t].state = IF th[t].after = "check" THEN "Suspended" ELSE "Native",
                                 ![t].pc = "passing"]
             /\ UNCHANGED <<rq, barrier, Rest>>
    BY <1>3, SwapOutKeeps
  <1>. QED BY <1>1, <1>2, <1>3 DEF BecomeSuspended

(* BarrierClosure::Run: the closure leaves the thread, and its requester   *)
(* has one run more and one wait less.                                     *)
LEMMA RunCheckpointKeeps ==
  ASSUME IInv, NEW t \in Threads, RunCheckpoint(t)
  PROVE  IInv'
  <1>1. PICK x, c : x = th[t] /\ c = th[t].closure
    OBVIOUS
  <1>2. ThreadOK(x) /\ x \in ThreadRec /\ PlaceAgrees(x) /\ FlagsAgree(x)
        /\ th = [u \in Threads |-> th[u]]
    BY <1>1, Before
  <1>3. x.pc \in {"run", "runlast"} /\ x.closure = c /\ c \in Requesters
    BY <1>1, <1>2 DEF RunCheckpoint, PlaceAgrees, ThreadRec
  <1>4. /\ rq[c].op = "checkpoint" /\ rq[c].on = t /\ rq[c].pc \in {"wait", "waiting"}
        /\ rq[c].runs = 0
    BY <1>1, <1>3 DEF IInv, ClosureInv, HasClosure
  <1>5. PICK pc, back : /\ pc = IF x.pc = "run" THEN "checkpoint" ELSE x.back
                        /\ back = IF x.pc = "run" THEN x.back ELSE NULL
    OBVIOUS
  <1>6. PICK o : o = [x EXCEPT !.closure = NULL, !.pc = pc, !.back = back]
    OBVIOUS
  <1>7. PICK q : q = [rq[c] EXCEPT !.runs = rq[c].runs + 1]
    OBVIOUS
  <1>8. rq = [s \in Requesters |-> rq[s]] /\ barrier = [s \in Requesters |-> barrier[s]]
    BY DEF IInv, RequestInv, BarrierType
  <1>9. /\ Moves(t, o) /\ Turns(c, q) /\ UNCHANGED Rest
        /\ barrier' = [barrier EXCEPT ![c] = barrier[c] - 1]
    BY <1>1, <1>2, <1>3, <1>5, <1>6, <1>7, <1>8 DEF RunCheckpoint, Moves, Turns
  <1>10. pc \in {"checkpoint", "check", "suspending"} /\ back \in {NULL, "check", "suspending"}
         /\ (pc = "checkpoint" => x.pc = "run" /\ back \in {"check", "suspending"})
    BY <1>2, <1>3, <1>5 DEF PlaceAgrees
  <1>11. /\ o \in ThreadRec /\ o.pc = pc /\ o.state = x.state /\ o.flags = x.flags
         /\ o.count = x.count /\ o.barriers = x.barriers /\ o.claimed = x.claimed
         /\ o.checkpoints = x.checkpoints /\ o.closure = NULL /\ o.back = back
         /\ o.flip = x.flip /\ o.transitioning = x.transitioning /\ o.exiting = x.exiting
    BY <1>2, <1>6, <1>10 DEF ThreadRec, RunPcs
  <1>12. Own(x, o)
    <2>1. FlagsAgree(o)
      BY <1>2, <1>11 DEF FlagsAgree
    <2>2. PlaceAgrees(o)
      BY <1>2, <1>3, <1>10, <1>11 DEF PlaceAgrees, RunPcs, Unregistered
    <2>3. ClosuresOnce(o)
      <3>1. x.checkpoints \in Seq(Requesters)
        BY <1>2 DEF ThreadRec
      <3>2. \A i \in 1 .. Len(x.checkpoints) : x.checkpoints[i] # NULL
        BY <3>1, ElementOfSeq
      <3>. QED BY <1>2, <1>11, <3>2 DEF ClosuresOnce, ThreadOK
    <2>. QED BY <1>2, <1>3, <1>10, <1>11, <2>1, <2>2, <2>3 DEF Own, ThreadOK, Unregistered
  <1>13. /\ rq'[c] = q /\ \A s \in Requesters : s # c => rq'[s] = rq[s]
    BY <1>3, <1>9 DEF Turns
  <1>14. /\ rq[c] \in RequestRec /\ RequestOK(rq[c])
         /\ q.pc = rq[c].pc /\ q.on = rq[c].on /\ q.todo = rq[c].todo /\ q.op = rq[c].op
         /\ q.runs = 1 /\ q.seen = rq[c].seen /\ q.left = rq[c].left /\ q \in RequestRec
    <2>1. rq[c] \in RequestRec /\ RequestOK(rq[c])
      BY <1>3, TargetFacts
    <2>. QED BY <1>4, <1>7, <2>1 DEF RequestRec
  <1>15. RequestInv'
    <2>1. RequestOK(q)
      BY <1>4, <1>14 DEF RequestOK, AskPcs, HoldPcs, SuspendPcs
    <2>2. rq' = [s \in Requesters |-> rq'[s]]
      BY <1>9 DEF Turns
    <2>. QED BY <1>13, <2>1, <2>2 DEF IInv, RequestInv
  <1>16. /\ th'[t] = o /\ \A u \in Threads : u # t => th'[u] = th[u]
         /\ ThreadInv' /\ LockInv' /\ TargetInv' /\ CountInv' /\ BirthInv'
         /\ aborted' = NULL /\ Registered' = Registered
         /\ \A s \in Requesters, u \in Threads : Suspends(s, u)' <=> Suspends(s, u)
    <2>1. \A s \in Requesters : AsBefore(rq[s], rq'[s])
      BY <1>13, <1>14 DEF AsBefore
    <2>2. Moves(t, o) /\ Own(th[t], o) /\ o.exiting = th[t].exiting /\ UNCHANGED Rest
      BY <1>1, <1>9, <1>11, <1>12
    <2>. QED BY <2>1, <2>2, OwnPartsAsked
  <1>17. BarrierType' /\ barrier'[c] = barrier[c] - 1 /\ barrier[c] \in Int
         /\ \A s \in Requesters : s # c => barrier'[s] = barrier[s]
    BY <1>3, <1>9 DEF IInv, BarrierType
  <1>18. \A s \in Requesters : /\ rq'[s].pc = rq[s].pc /\ rq'[s].on = rq[s].on
                               /\ rq'[s].todo = rq[s].todo /\ rq'[s].op = rq[s].op
    BY <1>13, <1>14
  <1>19. \A u \in Threads : /\ th'[u].barriers = th[u].barriers /\ th'[u].claimed = th[u].claimed
                            /\ th'[u].state = th[u].state /\ th'[u].flags = th[u].flags
    BY <1>1, <1>11, <1>16
  <1>20. BarrierInv'
    <2>1. \A s \in Requesters : Pending(s)' = Pending(s)
      BY <1>18, <1>19 DEF Pending
    <2>2. \A u \in Threads : Runnable(u)' <=> Runnable(u)
      BY <1>19 DEF Runnable
    <2>3. \A s \in Requesters : rq[s].pc \in {"running", "lower"} => rq[s].on \in Threads
      BY TargetFacts DEF HoldPcs
    <2>4. \A s \in Requesters : \A u \in rq[s].todo : u \in Threads
      BY TargetFacts
    <2>5. rq[c].pc \notin {"raising", "clearing", "gathering", "paused", "idle"}
      BY <1>4
    <2>. QED BY <1>16, <1>17, <1>18, <1>19, <2>1, <2>2, <2>3, <2>4, <2>5 DEF IInv, BarrierInv
  <1>21. ClosureInv'
    <2>1. ASSUME NEW s \in Requesters, NEW u \in Threads, HasClosure(th'[u], s)
          PROVE  s # c /\ HasClosure(th[u], s)
      <3>1. HasClosure(th[u], s)
        BY <1>1, <1>11, <1>16, <2>1 DEF HasClosure
      <3>2. ASSUME s = c PROVE FALSE
        <4>1. u = t
          BY <1>4, <3>1, <3>2 DEF IInv, ClosureInv
        <4>2. PICK i \in 1 .. Len(x.checkpoints) : x.checkpoints[i] = c
          BY <1>3, <1>11, <1>16, <2>1, <3>2, <4>1 DEF HasClosure
        <4>. QED BY <1>2, <1>3, <4>2 DEF ThreadOK, ClosuresOnce
      <3>. QED BY <3>1, <3>2
    <2>2. ASSUME NEW s \in Requesters, rq[s].op = "checkpoint"
          PROVE  barrier'[s] = IF rq'[s].pc = "wait" THEN 0 - rq'[s].runs
                               ELSE IF rq'[s].pc = "waiting" THEN 1 - rq'[s].runs ELSE 0
      <3>1. CASE s = c
        <4>1. barrier[c] = IF rq[c].pc = "wait" THEN 0 ELSE 1
          BY <1>3, <1>4 DEF IInv, ClosureInv
        <4>. QED BY <1>4, <1>13, <1>14, <1>17, <3>1, <4>1
      <3>2. CASE s # c
        BY <1>13, <1>17, <2>2, <3>2 DEF IInv, ClosureInv
      <3>. QED BY <3>1, <3>2
    <2>3. \A s \in Requesters, u \in Threads : HasClosure(th'[u], s) =>
            /\ rq'[s].op = "checkpoint" /\ rq'[s].on = u /\ rq'[s].pc \in {"wait", "waiting"}
            /\ rq'[s].runs = 0
      BY <1>13, <2>1 DEF IInv, ClosureInv
    <2>. QED BY <1>18, <2>2, <2>3 DEF ClosureInv
  <1>22. EmptyInv'
    <2>1. \A s \in Requesters : InEmpty(s)' <=> InEmpty(s)
      BY <1>18 DEF InEmpty
    <2>2. \A s \in Requesters : InEmpty(s) => rq[s].on \in Threads
      BY TargetFacts
    <2>3. rq[c].op # NULL /\ rq[c].op # "empty"
      BY <1>4, NULLAssumption
    <2>. QED BY <1>17, <1>18, <1>19, <2>1, <2>2, <2>3 DEF IInv, EmptyInv, InEmpty
  <1>. QED BY <1>15, <1>16, <1>17, <1>20, <1>21, <1>22 DEF IInv

-----------------------------------------------------------------------------
(* Steps of a requester that change no thread *)

(* What the threads hold of requester r agrees with its new state q and    *)
(* its new barrier b, and it holds the same threads as before.             *)
Fits(r, q, b) ==
  /\ RequestOK(q) /\ b \in Int
  /\ q.todo = rq[r].todo
  /\ q.pc \in SuspendPcs <=> rq[r].pc \in SuspendPcs
  /\ q.pc \in HoldPcs <=> rq[r].pc \in HoldPcs
  /\ q.pc \in HoldPcs => q.on = rq[r].on
  /\ q.pc \in AskPcs \cup HoldPcs \cup {"raise", "holding"} => q.on \in Registered /\ ~ th[q.on].exiting
FitsBarrier(r, q, b) ==
  /\ q.pc \in {"raising", "clearing", "gathering"} => b = Cardinality(Pending(r))
  /\ q.pc \notin {"raising", "clearing", "gathering"} => Pending(r) = {}
  /\ q.pc = "paused" \/ (q.pc = "idle" /\ q.op = "suspend") => b = 0
  /\ q.pc \in {"running", "lower"} => ~ Runnable(q.on)
FitsClosure(r, q, b) ==
  /\ \A t \in Threads : HasClosure(th[t], r) =>
       q.op = "checkpoint" /\ q.on = t /\ q.pc \in {"wait", "waiting"} /\ q.runs = 0
  /\ q.op = "checkpoint" => b = IF q.pc = "wait" THEN 0 - q.runs
                                ELSE IF q.pc = "waiting" THEN 1 - q.runs ELSE 0
FitsEmpty(r, q, b) ==
  /\ q.op = "empty" /\ q.pc # "idle" => \A s \in Requesters : s # r => ~ InEmpty(s)
  /\ \A t \in Threads :
       "empty" \in th[t].flags /\ InEmpty(r) /\ rq[r].on = t /\ rq[r].pc \in {"wait", "waiting"} =>
         q.op = "empty" /\ q.on = t /\ q.pc \in {"wait", "waiting"}
  /\ q.op = "empty" => b = IF q.pc \notin {"wait", "waiting"} THEN 0
                           ELSE (IF q.pc = "waiting" THEN 1 ELSE 0)
                                  - (IF "empty" \in th[q.on].flags THEN 0 ELSE 1)
  /\ q.op = NULL => b = 0

(* The invariant is kept by such a step. *)
LEMMA RequestStep ==
  ASSUME IInv, NEW r \in Requesters, NEW q, NEW b, Turns(r, q),
         barrier' = [barrier EXCEPT ![r] = b], LockInv',
         Fits(r, q, b), FitsBarrier(r, q, b), FitsClosure(r, q, b), FitsEmpty(r, q, b),
         UNCHANGED <<th, suspend_all_count, runtime, aborted>>
  PROVE  IInv'
  <1>1. /\ rq'[r] = q /\ (\A s \in Requesters : s # r => rq'[s] = rq[s])
        /\ rq' = [s \in Requesters |-> rq'[s]]
        /\ th' = th /\ suspend_all_count' = suspend_all_count /\ births' = births
        /\ shutdown' = shutdown /\ aborted' = aborted
    BY DEF Turns, runtime
  <1>2. /\ barrier'[r] = b /\ (\A s \in Requesters : s # r => barrier'[s] = barrier[s]) /\ BarrierType'
    BY DEF IInv, BarrierType, Fits
  <1>3. ThreadInv' /\ BirthInv' /\ aborted' = NULL
    BY <1>1 DEF IInv, ThreadInv, BirthInv, Unborn
  <1>4. RequestInv'
    BY <1>1 DEF IInv, RequestInv, Fits
  <1>5. Registered' = Registered
    BY <1>1 DEF Registered
  <1>6. TargetInv'
    <2>1. ASSUME NEW s \in Requesters
          PROVE  /\ rq'[s].pc \in AskPcs \cup HoldPcs \cup {"raise", "holding"} =>
                      rq'[s].on \in Registered /\ ~ th[rq'[s].on].exiting
                 /\ rq'[s].todo \subseteq Registered
      BY <1>1 DEF IInv, TargetInv, Fits
    <2>. QED BY <1>1, <1>5, <2>1 DEF TargetInv
  <1>7. \A s \in Requesters, u \in Threads : Suspends(s, u)' <=> Suspends(s, u)
    BY <1>1, <1>5 DEF Suspends, Fits
  <1>8. CountInv'
    <2>1. ASSUME NEW s \in Requesters, NEW u \in Threads
          PROVE  Holds(s, u)' <=> Holds(s, u)
      BY <1>1, <1>7 DEF Holds, Fits
    <2>2. \A u \in Threads : Holders(u)' = Holders(u)
      BY <2>1 DEF Holders
    <2>3. Suspenders' = Suspenders
      BY <1>1 DEF Suspenders, Fits
    <2>. QED BY <1>1, <2>2, <2>3 DEF IInv, CountInv
  <1>9. BarrierInv'
    <2>1. \A s \in Requesters : Pending(s)' = Pending(s)
      BY <1>1 DEF Pending, Fits
    <2>2. \A u : Runnable(u)' <=> Runnable(u)
      BY <1>1 DEF Runnable
    <2>3. ASSUME NEW s \in Requesters
          PROVE  /\ rq'[s].pc \in {"raising", "clearing", "gathering"} => barrier'[s] = Cardinality(Pending(s))
                 /\ rq'[s].pc \notin {"raising", "clearing", "gathering"} => Pending(s) = {}
                 /\ rq'[s].pc = "paused" \/ (rq'[s].pc = "idle" /\ rq'[s].op = "suspend") => barrier'[s] = 0
                 /\ rq'[s].pc \in {"running", "lower"} => ~ Runnable(rq'[s].on)
                 /\ rq'[s].todo = rq[s].todo
      <3>1. CASE s = r
        BY <1>1, <1>2, <3>1 DEF Fits, FitsBarrier
      <3>2. CASE s # r
        BY <1>1, <1>2, <3>2 DEF IInv, BarrierInv
      <3>. QED BY <3>1, <3>2
    <2>4. \A s \in Requesters, u \in Threads : Suspends(s, u)' /\ Runnable(u)' => s \in th'[u].barriers
      BY <1>1, <1>7, <2>2 DEF IInv, BarrierInv
    <2>5. \A s \in Requesters : \A u \in rq'[s].todo : s \notin th'[u].barriers \cup th'[u].claimed
      BY <1>1, <2>3 DEF IInv, BarrierInv
    <2>. QED BY <2>1, <2>2, <2>3, <2>4, <2>5 DEF BarrierInv
  <1>10. ClosureInv'
    <2>1. ASSUME NEW s \in Requesters
          PROVE  /\ \A t \in Threads : HasClosure(th[t], s) =>
                      /\ rq'[s].op = "checkpoint" /\ rq'[s].on = t
                      /\ rq'[s].pc \in {"wait", "waiting"} /\ rq'[s].runs = 0
                 /\ rq'[s].op = "checkpoint" =>
                      barrier'[s] = IF rq'[s].pc = "wait" THEN 0 - rq'[s].runs
                                    ELSE IF rq'[s].pc = "waiting" THEN 1 - rq'[s].runs ELSE 0
      <3>1. CASE s = r
        BY <1>1, <1>2, <3>1 DEF FitsClosure
      <3>2. CASE s # r
        BY <1>1, <1>2, <3>2 DEF IInv, ClosureInv
      <3>. QED BY <3>1, <3>2
    <2>. QED BY <1>1, <2>1 DEF ClosureInv
  <1>11. EmptyInv'
    <2>1. ASSUME NEW s \in Requesters, s # r PROVE InEmpty(s)' <=> InEmpty(s)
      BY <1>1, <2>1 DEF InEmpty
    <2>2. InEmpty(r)' <=> q.op = "empty" /\ q.pc # "idle"
      BY <1>1 DEF InEmpty
    <2>3. ASSUME NEW s \in Requesters, NEW w \in Requesters, InEmpty(s)', InEmpty(w)' PROVE s = w
      BY <2>1, <2>2, <2>3 DEF IInv, EmptyInv, FitsEmpty
    <2>4. ASSUME NEW t \in Threads, "empty" \in th[t].flags
          PROVE  \E s \in Requesters : /\ InEmpty(s)' /\ rq'[s].on = t
                                       /\ rq'[s].pc \in {"wait", "waiting"}
      <3>1. PICK s \in Requesters : InEmpty(s) /\ rq[s].on = t /\ rq[s].pc \in {"wait", "waiting"}
        BY <2>4 DEF IInv, EmptyInv
      <3>2. CASE s = r
        <4>1. q.op = "empty" /\ q.on = t /\ q.pc \in {"wait", "waiting"}
          BY <2>4, <3>1, <3>2 DEF FitsEmpty
        <4>. QED BY <1>1, <2>2, <4>1
      <3>3. CASE s # r
        BY <1>1, <2>1, <3>1, <3>3
      <3>. QED BY <3>2, <3>3
    <2>5. ASSUME NEW s \in Requesters
          PROVE  /\ rq'[s].op = "empty" =>
                      barrier'[s] = IF rq'[s].pc \notin {"wait", "waiting"} THEN 0
                                    ELSE (IF rq'[s].pc = "waiting" THEN 1 ELSE 0)
                                           - (IF "empty" \in th[rq'[s].on].flags THEN 0 ELSE 1)
                 /\ rq'[s].op = NULL => barrier'[s] = 0
      <3>1. CASE s = r
        BY <1>1, <1>2, <3>1 DEF FitsEmpty
      <3>2. CASE s # r
        BY <1>1, <1>2, <3>2 DEF IInv, EmptyInv
      <3>. QED BY <3>1, <3>2
    <2>. QED BY <1>1, <2>3, <2>4, <2>5 DEF EmptyInv
  <1>. QED BY <1>2, <1>3, <1>4, <1>6, <1>8, <1>9, <1>10, <1>11 DEF IInv

(* Before the step the requester's state fits. *)
LEMMA Present ==
  ASSUME IInv, NEW r \in Requesters
  PROVE  /\ Fits(r, rq[r], barrier[r]) /\ FitsBarrier(r, rq[r], barrier[r])
         /\ FitsClosure(r, rq[r], barrier[r]) /\ FitsEmpty(r, rq[r], barrier[r])
         /\ rq = [s \in Requesters |-> rq[s]] /\ barrier = [s \in Requesters |-> barrier[s]]
         /\ barrier[r] \in Int /\ rq[r] \in RequestRec /\ RequestOK(rq[r])
  <1>1. RequestOK(rq[r]) /\ rq[r] \in RequestRec /\ barrier[r] \in Int
    BY DEF IInv, RequestInv, RequestOK, BarrierType
  <1>2. Fits(r, rq[r], barrier[r])
    BY <1>1 DEF IInv, TargetInv, Fits
  <1>3. FitsBarrier(r, rq[r], barrier[r])
    BY DEF IInv, BarrierInv, FitsBarrier
  <1>4. FitsClosure(r, rq[r], barrier[r])
    BY DEF IInv, ClosureInv, FitsClosure
  <1>5. FitsEmpty(r, rq[r], barrier[r])
    <2>1. rq[r].op = "empty" /\ rq[r].pc # "idle" => InEmpty(r)
      BY DEF InEmpty
    <2>2. ASSUME rq[r].op = "empty", rq[r].pc # "idle", NEW s \in Requesters, s # r
          PROVE  ~ InEmpty(s)
      BY <2>1, <2>2 DEF IInv, EmptyInv
    <2>3. /\ rq[r].op = "empty" =>
               barrier[r] = IF rq[r].pc \notin {"wait", "waiting"} THEN 0
                            ELSE (IF rq[r].pc = "waiting" THEN 1 ELSE 0)
                                   - (IF "empty" \in th[rq[r].on].flags THEN 0 ELSE 1)
          /\ rq[r].op = NULL => barrier[r] = 0
      BY DEF IInv, EmptyInv
    <2>4. InEmpty(r) => rq[r].op = "empty"
      BY DEF InEmpty
    <2>. QED BY <2>2, <2>3, <2>4 DEF FitsEmpty
  <1>. QED BY <1>1, <1>2, <1>3, <1>4, <1>5 DEF IInv, RequestInv, BarrierType

(* Where a requester keeps a lock from one step to the next *)
CountLockPcs == {"swap", "clearing"}
ListLockPcs == {"raising", "clearing", "holding"}

(* The locks, when no requester but r takes or leaves one *)
LEMMA LockStep ==
  ASSUME IInv, NEW r \in Requesters, NEW q, Turns(r, q),
         suspend_count_lock' = IF q.pc \in CountLockPcs THEN r
                               ELSE IF rq[r].pc \in CountLockPcs THEN NULL ELSE suspend_count_lock,
         thread_list_lock' = IF q.pc \in ListLockPcs THEN r
                             ELSE IF rq[r].pc \in ListLockPcs THEN NULL ELSE thread_list_lock,
         q.pc \in CountLockPcs => rq[r].pc \in CountLockPcs \/ CountLockFree,
         q.pc \in ListLockPcs => rq[r].pc \in ListLockPcs \/ ListLockFree
  PROVE  LockInv'
  <1>1. rq'[r] = q /\ \A s \in Requesters : s # r => rq'[s] = rq[s]
    BY DEF Turns
  <1>2. ASSUME NEW s \in Requesters
        PROVE  suspend_count_lock' = s <=> rq'[s].pc \in CountLockPcs
    <2>1. \A w \in Requesters : suspend_count_lock = w <=> rq[w].pc \in CountLockPcs
      BY DEF IInv, LockInv, CountLockPcs
    <2>. QED BY <1>1, <2>1 DEF CountLockFree
  <1>3. ASSUME NEW s \in Requesters
        PROVE  thread_list_lock' = s <=> rq'[s].pc \in ListLockPcs
    <2>1. \A w \in Requesters : thread_list_lock = w <=> rq[w].pc \in ListLockPcs
      BY DEF IInv, LockInv, ListLockPcs
    <2>. QED BY <1>1, <2>1 DEF ListLockFree
  <1>. QED BY <1>2, <1>3 DEF LockInv, CountLockPcs, ListLockPcs

(* LookAt: is the thread runnable? *)
LEMMA LookAtKeeps ==
  ASSUME IInv, NEW r \in Requesters, LookAt(r)
  PROVE  IInv'
  <1>1. PICK p, b, v : /\ p = rq[r] /\ b = barrier[r]
                       /\ v = IF Runnable(Target(r)) THEN "try" ELSE Otherwise(r)
    OBVIOUS
  <1>2. PICK q : q = [p EXCEPT !.pc = v]
    OBVIOUS
  <1>3. /\ Fits(r, p, b) /\ FitsBarrier(r, p, b) /\ FitsClosure(r, p, b) /\ FitsEmpty(r, p, b)
        /\ rq = [s \in Requesters |-> rq[s]] /\ barrier = [s \in Requesters |-> barrier[s]]
        /\ b \in Int /\ p \in RequestRec /\ RequestOK(p)
    BY <1>1, Present
  <1>4. p.pc = "loop" /\ v \in {"try", "idle", "raise"} /\ p.op \in {"checkpoint", "empty"}
        /\ (v = "idle" => p.op = "empty") /\ (v = "raise" => p.op = "checkpoint")
    <2>1. p.pc = "loop"
      BY <1>1 DEF LookAt
    <2>2. p.op \in {"checkpoint", "empty"}
      BY <1>3, <2>1 DEF RequestOK, AskPcs
    <2>. QED BY <1>1, <2>1, <2>2 DEF Otherwise
  <1>5. /\ Turns(r, q) /\ barrier' = [barrier EXCEPT ![r] = b]
        /\ UNCHANGED <<th, suspend_all_count, runtime, aborted>>
        /\ suspend_count_lock' = suspend_count_lock /\ thread_list_lock' = thread_list_lock
    BY <1>1, <1>2, <1>3 DEF LookAt, Be, Turns, Rest, locks
  <1>6. /\ q \in RequestRec /\ q.pc = v /\ q.op = p.op /\ q.on = p.on /\ q.todo = p.todo
        /\ q.seen = p.seen /\ q.runs = p.runs /\ q.left = p.left
    BY <1>2, <1>3, <1>4 DEF RequestRec, AskPcs
  <1>7. LockInv'
    BY <1>1, <1>4, <1>5, <1>6, LockStep DEF CountLockPcs, ListLockPcs
  <1>8. RequestOK(q)
    BY <1>3, <1>4, <1>6 DEF RequestOK, AskPcs, HoldPcs, SuspendPcs
  <1>9. Fits(r, q, b)
    BY <1>1, <1>3, <1>4, <1>6, <1>8 DEF Fits, AskPcs, HoldPcs, SuspendPcs
  <1>10. FitsBarrier(r, q, b)
    BY <1>1, <1>3, <1>4, <1>6 DEF FitsBarrier
  <1>11. FitsClosure(r, q, b)
    BY <1>1, <1>3, <1>4, <1>6 DEF FitsClosure
  <1>12. FitsEmpty(r, q, b)
    BY <1>1, <1>3, <1>4, <1>6 DEF FitsEmpty
  <1>. QED BY <1>5, <1>7, <1>9, <1>10, <1>11, <1>12, RequestStep

(* The thread is seen not to be runnable. *)
LEMMA AwaitSuspendedKeeps ==
  ASSUME IInv, NEW r \in Requesters, AwaitSuspended(r)
  PROVE  IInv'
  <1>1. PICK p, b : p = rq[r] /\ b = barrier[r]
    OBVIOUS
  <1>2. PICK q : q = [p EXCEPT !.pc = "running"]
    OBVIOUS
  <1>3. /\ Fits(r, p, b) /\ FitsBarrier(r, p, b) /\ FitsClosure(r, p, b) /\ FitsEmpty(r, p, b)
        /\ rq = [s \in Requesters |-> rq[s]] /\ barrier = [s \in Requesters |-> barrier[s]]
        /\ b \in Int /\ p \in RequestRec /\ RequestOK(p)
    BY <1>1, Present
  <1>4. p.pc = "spin" /\ p.op = "checkpoint" /\ ~ Runnable(p.on)
    BY <1>1, <1>3 DEF AwaitSuspended, Target, RequestOK, RequestRec, AskPcs, HoldPcs, SuspendPcs
  <1>5. /\ Turns(r, q) /\ barrier' = [barrier EXCEPT ![r] = b]
        /\ UNCHANGED <<th, suspend_all_count, runtime, aborted>>
    BY <1>1, <1>2, <1>3 DEF AwaitSuspended, Be, Turns, Rest
  <1>6. /\ q \in RequestRec /\ q.pc = "running" /\ q.op = p.op /\ q.on = p.on /\ q.todo = p.todo
        /\ q.seen = p.seen /\ q.runs = p.runs /\ q.left = p.left
    BY <1>2, <1>3, <1>4 DEF RequestRec, AskPcs, HoldPcs, SuspendPcs
  <1>7. LockInv'
    BY <1>1, <1>4, <1>5, <1>6, LockStep DEF CountLockPcs, ListLockPcs, AwaitSuspended, Be, Rest, locks
  <1>8. RequestOK(q)
    BY <1>3, <1>4, <1>6 DEF RequestOK, AskPcs, HoldPcs, SuspendPcs
  <1>9. Fits(r, q, b)
    BY <1>1, <1>3, <1>4, <1>6, <1>8 DEF Fits, AskPcs, HoldPcs, SuspendPcs
  <1>10. FitsBarrier(r, q, b)
    BY <1>1, <1>3, <1>4, <1>6 DEF FitsBarrier
  <1>11. FitsClosure(r, q, b)
    BY <1>1, <1>3, <1>4, <1>6 DEF FitsClosure
  <1>12. FitsEmpty(r, q, b)
    BY <1>1, <1>3, <1>4, <1>6 DEF FitsEmpty
  <1>. QED BY <1>5, <1>7, <1>9, <1>10, <1>11, <1>12, RequestStep

(* The requester runs the closure for the thread. *)
LEMMA RunForTargetKeeps ==
  ASSUME IInv, NEW r \in Requesters, RunForTarget(r)
  PROVE  IInv'
  <1>1. PICK p, b : p = rq[r] /\ b = barrier[r]
    OBVIOUS
  <1>2. PICK q : q = [p EXCEPT !.pc = "lower", !.runs = p.runs + 1]
    OBVIOUS
  <1>3. /\ Fits(r, p, b) /\ FitsBarrier(r, p, b) /\ FitsClosure(r, p, b) /\ FitsEmpty(r, p, b)
        /\ rq = [s \in Requesters |-> rq[s]] /\ barrier = [s \in Requesters |-> barrier[s]]
        /\ b \in Int /\ p \in RequestRec /\ RequestOK(p)
    BY <1>1, Present
  <1>4. p.pc = "running" /\ p.op = "checkpoint" /\ p.runs = 0
    BY <1>1, <1>3 DEF RunForTarget, RequestOK, RequestRec, AskPcs, HoldPcs, SuspendPcs
  <1>5. /\ Turns(r, q) /\ barrier' = [barrier EXCEPT ![r] = b]
        /\ UNCHANGED <<th, suspend_all_count, runtime, aborted>>
    BY <1>1, <1>2, <1>3 DEF RunForTarget, Be, Turns, Rest
  <1>6. /\ q \in RequestRec /\ q.pc = "lower" /\ q.op = p.op /\ q.on = p.on /\ q.todo = p.todo
        /\ q.seen = p.seen /\ q.runs = 1 /\ q.left = p.left
    <2>1. PICK one : one = p.runs + 1
      OBVIOUS
    <2>2. one = 1
      BY <1>4, <2>1
    <2>3. q = [p EXCEPT !.pc = "lower", !.runs = one]
      BY <1>2, <2>1
    <2>. QED BY <1>3, <2>2, <2>3 DEF RequestRec, HoldPcs
  <1>7. LockInv'
    BY <1>1, <1>4, <1>5, <1>6, LockStep DEF CountLockPcs, ListLockPcs, RunForTarget, Be, Rest, locks
  <1>8. RequestOK(q)
    BY <1>3, <1>4, <1>6 DEF RequestOK, AskPcs, HoldPcs, SuspendPcs
  <1>9. Fits(r, q, b)
    BY <1>1, <1>3, <1>4, <1>6, <1>8 DEF Fits, AskPcs, HoldPcs, SuspendPcs
  <1>10. FitsBarrier(r, q, b)
    BY <1>1, <1>3, <1>4, <1>6 DEF FitsBarrier
  <1>11. FitsClosure(r, q, b)
    BY <1>1, <1>3, <1>4, <1>6 DEF FitsClosure
  <1>12. FitsEmpty(r, q, b)
    BY <1>1, <1>3, <1>4, <1>6 DEF FitsEmpty
  <1>. QED BY <1>5, <1>7, <1>9, <1>10, <1>11, <1>12, RequestStep

(* The wait for the closure ends. *)
LEMMA ReturnKeeps ==
  ASSUME IInv, NEW r \in Requesters, Return(r)
  PROVE  IInv'
  <1>1. PICK p, b : p = rq[r] /\ b = barrier[r]
    OBVIOUS
  <1>2. PICK q : q = [p EXCEPT !.pc = "idle"]
    OBVIOUS
  <1>3. /\ Fits(r, p, b) /\ FitsBarrier(r, p, b) /\ FitsClosure(r, p, b) /\ FitsEmpty(r, p, b)
        /\ rq = [s \in Requesters |-> rq[s]] /\ barrier = [s \in Requesters |-> barrier[s]]
        /\ b \in Int /\ p \in RequestRec /\ RequestOK(p)
    BY <1>1, Present
  <1>4. p.pc = "waiting" /\ p.op \in {"checkpoint", "empty"} /\ b = 0
    BY <1>1, <1>3 DEF Return, RequestOK, RequestRec, AskPcs, HoldPcs, SuspendPcs
  <1>5. /\ Turns(r, q) /\ barrier' = [barrier EXCEPT ![r] = b]
        /\ UNCHANGED <<th, suspend_all_count, runtime, aborted>>
    BY <1>1, <1>2, <1>3 DEF Return, Be, Turns, Rest
  <1>6. /\ q \in RequestRec /\ q.pc = "idle" /\ q.op = p.op /\ q.on = p.on /\ q.todo = p.todo
        /\ q.seen = p.seen /\ q.runs = p.runs /\ q.left = p.left
    BY <1>2, <1>3, <1>4 DEF RequestRec, AskPcs, HoldPcs, SuspendPcs
  <1>7. LockInv'
    BY <1>1, <1>4, <1>5, <1>6, LockStep DEF CountLockPcs, ListLockPcs, Return, Be, Rest, locks
  <1>8. RequestOK(q)
    <2>1. p.op = "checkpoint" => p.runs = 1
      <3>1. p.op = "checkpoint" => b = 1 - p.runs
        BY <1>3, <1>4 DEF FitsClosure
      <3>2. p.runs \in {0, 1}
        BY <1>3 DEF RequestRec
      <3>. QED BY <1>4, <3>1, <3>2
    <2>. QED BY <1>3, <1>4, <1>6, <2>1 DEF RequestOK, AskPcs, HoldPcs, SuspendPcs
  <1>9. Fits(r, q, b)
    BY <1>1, <1>3, <1>4, <1>6, <1>8 DEF Fits, AskPcs, HoldPcs, SuspendPcs
  <1>10. FitsBarrier(r, q, b)
    BY <1>1, <1>3, <1>4, <1>6 DEF FitsBarrier
  <1>11. FitsClosure(r, q, b)
    BY <1>1, <1>3, <1>4, <1>6 DEF FitsClosure
  <1>12. FitsEmpty(r, q, b)
    BY <1>1, <1>3, <1>4, <1>6 DEF FitsEmpty
  <1>. QED BY <1>5, <1>7, <1>9, <1>10, <1>11, <1>12, RequestStep

(* Barrier::Increment counts the closure, which may have run already. *)
LEMMA IncrementKeeps ==
  ASSUME IInv, NEW r \in Requesters, Increment(r)
  PROVE  IInv'
  <1>1. PICK p, b : p = rq[r] /\ b = barrier[r]
    OBVIOUS
  <1>2. PICK q : q = [p EXCEPT !.pc = "waiting"]
    OBVIOUS
  <1>3. /\ Fits(r, p, b) /\ FitsBarrier(r, p, b) /\ FitsClosure(r, p, b) /\ FitsEmpty(r, p, b)
        /\ rq = [s \in Requesters |-> rq[s]] /\ barrier = [s \in Requesters |-> barrier[s]]
        /\ b \in Int /\ p \in RequestRec /\ RequestOK(p)
    BY <1>1, Present
  <1>4. p.pc = "wait" /\ p.op \in {"checkpoint", "empty"}
    BY <1>1, <1>3 DEF Increment, RequestOK, RequestRec, AskPcs, HoldPcs, SuspendPcs
  <1>5. /\ Turns(r, q) /\ barrier' = [barrier EXCEPT ![r] = b + 1]
        /\ UNCHANGED <<th, suspend_all_count, runtime, aborted>>
    BY <1>1, <1>2, <1>3 DEF Increment, Be, Turns, Rest
  <1>6. /\ q \in RequestRec /\ q.pc = "waiting" /\ q.op = p.op /\ q.on = p.on /\ q.todo = p.todo
        /\ q.seen = p.seen /\ q.runs = p.runs /\ q.left = p.left
    BY <1>2, <1>3, <1>4 DEF RequestRec, AskPcs, HoldPcs, SuspendPcs
  <1>7. LockInv'
    BY <1>1, <1>4, <1>5, <1>6, LockStep DEF CountLockPcs, ListLockPcs, Increment, Be, Rest, locks
  <1>8. RequestOK(q)
    BY <1>3, <1>4, <1>6 DEF RequestOK, AskPcs, HoldPcs, SuspendPcs
  <1>9. Fits(r, q, b + 1)
    BY <1>1, <1>3, <1>4, <1>6, <1>8 DEF Fits, AskPcs, HoldPcs, SuspendPcs
  <1>10. FitsBarrier(r, q, b + 1)
    BY <1>1, <1>3, <1>4, <1>6 DEF FitsBarrier
  <1>11. FitsClosure(r, q, b + 1)
    <2>1. p.op = "checkpoint" => b = 0 - p.runs
      BY <1>3, <1>4 DEF FitsClosure
    <2>2. p.runs \in {0, 1}
      BY <1>3 DEF RequestRec
    <2>3. p.op = "checkpoint" => b + 1 = 1 - p.runs
      BY <2>1, <2>2
    <2>. QED BY <1>3, <1>4, <1>6, <2>3 DEF FitsClosure
  <1>12. FitsEmpty(r, q, b + 1)
    <2>1. p.op = "empty" => b = 0 - (IF "empty" \in th[p.on].flags THEN 0 ELSE 1)
      BY <1>3, <1>4 DEF FitsEmpty
    <2>2. p.op = "empty" => b + 1 = 1 - (IF "empty" \in th[p.on].flags THEN 0 ELSE 1)
      BY <2>1
    <2>3. p.op # NULL
      BY <1>4, NULLAssumption
    <2>4. q.op = "empty" => b + 1 = IF q.pc \notin {"wait", "waiting"} THEN 0
                                    ELSE (IF q.pc = "waiting" THEN 1 ELSE 0)
                                           - (IF "empty" \in th[q.on].flags THEN 0 ELSE 1)
      BY <1>6, <2>2
    <2>5. q.op = "empty" => \A s \in Requesters : s # r => ~ InEmpty(s)
      BY <1>3, <1>4, <1>6 DEF FitsEmpty
    <2>. QED BY <1>1, <1>4, <1>6, <2>3, <2>4, <2>5 DEF FitsEmpty, InEmpty
  <1>. QED BY <1>5, <1>7, <1>9, <1>10, <1>11, <1>12, RequestStep

(* All threads have passed the barrier. *)
LEMMA PauseKeeps ==
  ASSUME IInv, NEW r \in Requesters, Pause(r)
  PROVE  IInv'
  <1>1. PICK p, b : p = rq[r] /\ b = barrier[r]
    OBVIOUS
  <1>2. PICK q : q = [p EXCEPT !.pc = "paused"]
    OBVIOUS
  <1>3. /\ Fits(r, p, b) /\ FitsBarrier(r, p, b) /\ FitsClosure(r, p, b) /\ FitsEmpty(r, p, b)
        /\ rq = [s \in Requesters |-> rq[s]] /\ barrier = [s \in Requesters |-> barrier[s]]
        /\ b \in Int /\ p \in RequestRec /\ RequestOK(p)
    BY <1>1, Present
  <1>4. p.pc = "gathering" /\ p.op = "suspend" /\ p.todo = {} /\ b = 0
    BY <1>1, <1>3 DEF Pause, RequestOK, RequestRec, AskPcs, HoldPcs, SuspendPcs
  <1>5. /\ Turns(r, q) /\ barrier' = [barrier EXCEPT ![r] = b]
        /\ UNCHANGED <<th, suspend_all_count, runtime, aborted>>
    BY <1>1, <1>2, <1>3 DEF Pause, Be, Turns, Rest
  <1>6. /\ q \in RequestRec /\ q.pc = "paused" /\ q.op = p.op /\ q.on = p.on /\ q.todo = p.todo
        /\ q.seen = p.seen /\ q.runs = p.runs /\ q.left = p.left
    BY <1>2, <1>3, <1>4 DEF RequestRec, AskPcs, HoldPcs, SuspendPcs
  <1>7. LockInv'
    BY <1>1, <1>4, <1>5, <1>6, LockStep DEF CountLockPcs, ListLockPcs, Pause, Be, Rest, locks
  <1>8. RequestOK(q)
    BY <1>3, <1>4, <1>6 DEF RequestOK, AskPcs, HoldPcs, SuspendPcs
  <1>9. Fits(r, q, b)
    BY <1>1, <1>3, <1>4, <1>6, <1>8 DEF Fits, AskPcs, HoldPcs, SuspendPcs
  <1>10. FitsBarrier(r, q, b)
    <2>1. Cardinality(Pending(r)) = 0
      BY <1>3, <1>4 DEF FitsBarrier
    <2>2. Pending(r) = {}
      BY <2>1, PendingFinite, FS_EmptySet
    <2>. QED BY <1>4, <1>6, <2>2 DEF FitsBarrier
  <1>11. FitsClosure(r, q, b)
    BY <1>1, <1>3, <1>4, <1>6 DEF FitsClosure
  <1>12. FitsEmpty(r, q, b)
    BY <1>1, <1>3, <1>4, <1>6 DEF FitsEmpty
  <1>. QED BY <1>5, <1>7, <1>9, <1>10, <1>11, <1>12, RequestStep

(* The list lock is released. *)
LEMMA RaisedAllKeeps ==
  ASSUME IInv, NEW r \in Requesters, RaisedAll(r)
  PROVE  IInv'
  <1>1. PICK p, b : p = rq[r] /\ b = barrier[r]
    OBVIOUS
  <1>2. PICK q : q = [p EXCEPT !.pc = "gathering"]
    OBVIOUS
  <1>3. /\ Fits(r, p, b) /\ FitsBarrier(r, p, b) /\ FitsClosure(r, p, b) /\ FitsEmpty(r, p, b)
        /\ rq = [s \in Requesters |-> rq[s]] /\ barrier = [s \in Requesters |-> barrier[s]]
        /\ b \in Int /\ p \in RequestRec /\ RequestOK(p)
    BY <1>1, Present
  <1>4. p.pc = "raising" /\ p.op = "suspend" /\ p.todo = {}
    BY <1>1, <1>3 DEF RaisedAll, RequestOK, RequestRec, AskPcs, HoldPcs, SuspendPcs
  <1>5. /\ Turns(r, q) /\ barrier' = [barrier EXCEPT ![r] = b]
        /\ UNCHANGED <<th, suspend_all_count, runtime, aborted>>
    BY <1>1, <1>2, <1>3 DEF RaisedAll, Be, Turns, Rest
  <1>6. /\ q \in RequestRec /\ q.pc = "gathering" /\ q.op = p.op /\ q.on = p.on /\ q.todo = p.todo
        /\ q.seen = p.seen /\ q.runs = p.runs /\ q.left = p.left
    BY <1>2, <1>3, <1>4 DEF RequestRec, AskPcs, HoldPcs, SuspendPcs
  <1>7. LockInv'
    BY <1>1, <1>4, <1>5, <1>6, LockStep DEF CountLockPcs, ListLockPcs, RaisedAll, Be, Rest, locks
  <1>8. RequestOK(q)
    BY <1>3, <1>4, <1>6 DEF RequestOK, AskPcs, HoldPcs, SuspendPcs
  <1>9. Fits(r, q, b)
    BY <1>1, <1>3, <1>4, <1>6, <1>8 DEF Fits, AskPcs, HoldPcs, SuspendPcs
  <1>10. FitsBarrier(r, q, b)
    BY <1>1, <1>3, <1>4, <1>6 DEF FitsBarrier
  <1>11. FitsClosure(r, q, b)
    BY <1>1, <1>3, <1>4, <1>6 DEF FitsClosure
  <1>12. FitsEmpty(r, q, b)
    BY <1>1, <1>3, <1>4, <1>6 DEF FitsEmpty
  <1>. QED BY <1>5, <1>7, <1>9, <1>10, <1>11, <1>12, RequestStep

(* The list lock is taken to hold the thread. *)
LEMMA LockListKeeps ==
  ASSUME IInv, NEW r \in Requesters, LockList(r)
  PROVE  IInv'
  <1>1. PICK p, b : p = rq[r] /\ b = barrier[r]
    OBVIOUS
  <1>2. PICK q : q = [p EXCEPT !.pc = "holding"]
    OBVIOUS
  <1>3. /\ Fits(r, p, b) /\ FitsBarrier(r, p, b) /\ FitsClosure(r, p, b) /\ FitsEmpty(r, p, b)
        /\ rq = [s \in Requesters |-> rq[s]] /\ barrier = [s \in Requesters |-> barrier[s]]
        /\ b \in Int /\ p \in RequestRec /\ RequestOK(p)
    BY <1>1, Present
  <1>4. p.pc = "raise" /\ p.op = "checkpoint"
    BY <1>1, <1>3 DEF LockList, RequestOK
  <1>5. /\ Turns(r, q) /\ barrier' = [barrier EXCEPT ![r] = b]
        /\ UNCHANGED <<th, suspend_all_count, runtime, aborted>>
        /\ suspend_count_lock' = suspend_count_lock /\ thread_list_lock' = r /\ ListLockFree
    BY <1>1, <1>2, <1>3 DEF LockList, Be, Turns
  <1>6. /\ q \in RequestRec /\ q.pc = "holding" /\ q.op = p.op /\ q.on = p.on /\ q.todo = p.todo
        /\ q.seen = p.seen /\ q.runs = p.runs /\ q.left = p.left
    BY <1>2, <1>3, <1>4 DEF RequestRec
  <1>7. LockInv'
    BY <1>1, <1>4, <1>5, <1>6, LockStep DEF CountLockPcs, ListLockPcs
  <1>8. RequestOK(q)
    BY <1>3, <1>4, <1>6 DEF RequestOK, AskPcs, HoldPcs, SuspendPcs
  <1>9. Fits(r, q, b)
    BY <1>1, <1>3, <1>4, <1>6, <1>8 DEF Fits, AskPcs, HoldPcs, SuspendPcs
  <1>10. FitsBarrier(r, q, b)
    BY <1>1, <1>3, <1>4, <1>6 DEF FitsBarrier
  <1>11. FitsClosure(r, q, b)
    BY <1>1, <1>3, <1>4, <1>6 DEF FitsClosure
  <1>12. FitsEmpty(r, q, b)
    BY <1>1, <1>3, <1>4, <1>6 DEF FitsEmpty
  <1>. QED BY <1>5, <1>7, <1>9, <1>10, <1>11, <1>12, RequestStep

(* RequestCheckpoint finds that the thread is not runnable: at the load,   *)
(* or because the word changed before the swap.                            *)
NotTaken(r, q) ==
  /\ q \in RequestRec /\ q.pc = Otherwise(r) /\ q.op = rq[r].op /\ q.on = rq[r].on
  /\ q.todo = rq[r].todo /\ q.runs = rq[r].runs /\ q.left = rq[r].left

(* The request then goes the other way, or is over. *)
LEMMA NotTakenKeeps ==
  ASSUME IInv, NEW r \in Requesters, NEW q, rq[r].pc \in {"try", "swap"},
         NotTaken(r, q), Turns(r, q),
         suspend_count_lock' = IF rq[r].pc = "swap" THEN NULL ELSE suspend_count_lock,
         UNCHANGED <<th, barrier, thread_list_lock, suspend_all_count, runtime, aborted>>
  PROVE  IInv'
  <1>1. PICK p, b, v : p = rq[r] /\ b = barrier[r] /\ v = Otherwise(r)
    OBVIOUS
  <1>3. /\ Fits(r, p, b) /\ FitsBarrier(r, p, b) /\ FitsClosure(r, p, b) /\ FitsEmpty(r, p, b)
        /\ rq = [s \in Requesters |-> rq[s]] /\ barrier = [s \in Requesters |-> barrier[s]]
        /\ b \in Int /\ p \in RequestRec /\ RequestOK(p)
    BY <1>1, Present
  <1>4. /\ p.pc \in {"try", "swap"} /\ v \in {"idle", "raise"} /\ p.op \in {"checkpoint", "empty"}
        /\ (v = "idle" => p.op = "empty") /\ (v = "raise" => p.op = "checkpoint")
    <2>1. p.pc \in {"try", "swap"}
      BY <1>1
    <2>2. p.op \in {"checkpoint", "empty"}
      BY <1>3, <2>1 DEF RequestOK, AskPcs
    <2>. QED BY <1>1, <2>1, <2>2 DEF Otherwise
  <1>5. /\ Turns(r, q) /\ barrier' = [barrier EXCEPT ![r] = b]
        /\ UNCHANGED <<th, suspend_all_count, runtime, aborted>>
    BY <1>1, <1>3
  <1>6. /\ q \in RequestRec /\ q.pc = v /\ q.op = p.op /\ q.on = p.on /\ q.todo = p.todo
        /\ q.runs = p.runs /\ q.left = p.left
    BY <1>1 DEF NotTaken
  <1>7. LockInv'
    BY <1>1, <1>4, <1>5, <1>6, LockStep DEF CountLockPcs, ListLockPcs
  <1>8. RequestOK(q)
    BY <1>3, <1>4, <1>6 DEF RequestOK, AskPcs, HoldPcs, SuspendPcs
  <1>9. Fits(r, q, b)
    BY <1>1, <1>3, <1>4, <1>6, <1>8 DEF Fits, AskPcs, HoldPcs, SuspendPcs
  <1>10. FitsBarrier(r, q, b)
    BY <1>1, <1>3, <1>4, <1>6 DEF FitsBarrier
  <1>11. FitsClosure(r, q, b)
    BY <1>1, <1>3, <1>4, <1>6 DEF FitsClosure
  <1>12. FitsEmpty(r, q, b)
    BY <1>1, <1>3, <1>4, <1>6 DEF FitsEmpty
  <1>. QED BY <1>5, <1>7, <1>9, <1>10, <1>11, <1>12, RequestStep

(* The load of RequestCheckpoint *)
LEMMA LoadWordKeeps ==
  ASSUME IInv, NEW r \in Requesters, LoadWord(r)
  PROVE  IInv'
  <1>1. PICK p, b : p = rq[r] /\ b = barrier[r]
    OBVIOUS
  <1>3. /\ Fits(r, p, b) /\ FitsBarrier(r, p, b) /\ FitsClosure(r, p, b) /\ FitsEmpty(r, p, b)
        /\ rq = [s \in Requesters |-> rq[s]] /\ barrier = [s \in Requesters |-> barrier[s]]
        /\ b \in Int /\ p \in RequestRec /\ RequestOK(p)
    BY <1>1, Present
  <1>4. p.pc = "try" /\ p.op \in {"checkpoint", "empty"} /\ CountLockFree
    BY <1>1, <1>3 DEF LoadWord, RequestOK, AskPcs
  <1>5. CASE ~ Runnable(Target(r))
    <2>1. PICK v : v = Otherwise(r)
      OBVIOUS
    <2>2. PICK q : q = [p EXCEPT !.pc = v]
      OBVIOUS
    <2>3. v \in {"idle", "raise"}
      BY <2>1 DEF Otherwise
    <2>4. NotTaken(r, q)
      BY <1>1, <1>3, <2>1, <2>2, <2>3 DEF NotTaken, RequestRec
    <2>5. Turns(r, q)
      BY <1>1, <1>3, <1>5, <2>1, <2>2 DEF LoadWord, Be, Turns
    <2>6. /\ rq[r].pc \in {"try", "swap"}
          /\ suspend_count_lock' = IF rq[r].pc = "swap" THEN NULL ELSE suspend_count_lock
          /\ UNCHANGED <<th, barrier, thread_list_lock, suspend_all_count, runtime, aborted>>
      BY <1>1, <1>4, <1>5 DEF LoadWord
    <2>. QED BY <2>4, <2>5, <2>6, NotTakenKeeps
  <1>6. CASE Runnable(Target(r))
    <2>1. PICK w : w = Word(Target(r))
      OBVIOUS
    <2>2. PICK q : q = [p EXCEPT !.pc = "swap", !.seen = w]
      OBVIOUS
    <2>3. w \in {"Native", "Runnable", "Suspended"} \X SUBSET Flags /\ w[1] = "Runnable"
      <3>1. Target(r) \in Threads
        BY <1>1, <1>4, TargetFacts DEF Target, AskPcs
      <3>2. th[Target(r)] \in ThreadRec
        BY <3>1, Before
      <3>3. th[Target(r)].flags \in SUBSET Flags /\ th[Target(r)].state = "Runnable"
        BY <1>6, <3>2 DEF ThreadRec, Runnable
      <3>. QED BY <2>1, <3>3 DEF Word
    <2>5. /\ Turns(r, q) /\ barrier' = [barrier EXCEPT ![r] = b]
          /\ UNCHANGED <<th, suspend_all_count, runtime, aborted>>
          /\ suspend_count_lock' = r /\ thread_list_lock' = thread_list_lock
      BY <1>1, <1>3, <1>6, <2>1, <2>2 DEF LoadWord, Turns
    <2>6. /\ q \in RequestRec /\ q.pc = "swap" /\ q.op = p.op /\ q.on = p.on /\ q.todo = p.todo
          /\ q.seen = w /\ q.runs = p.runs /\ q.left = p.left
      BY <1>3, <2>2, <2>3 DEF RequestRec, AskPcs
    <2>7. LockInv'
      BY <1>1, <1>4, <2>5, <2>6, LockStep DEF CountLockPcs, ListLockPcs
    <2>8. RequestOK(q)
      BY <1>3, <1>4, <2>3, <2>6 DEF RequestOK, AskPcs, HoldPcs, SuspendPcs
    <2>9. Fits(r, q, b)
      BY <1>1, <1>3, <1>4, <2>6, <2>8 DEF Fits, AskPcs, HoldPcs, SuspendPcs
    <2>10. FitsBarrier(r, q, b)
      BY <1>1, <1>3, <1>4, <2>6 DEF FitsBarrier
    <2>11. FitsClosure(r, q, b)
      BY <1>1, <1>3, <1>4, <2>6 DEF FitsClosure
    <2>12. FitsEmpty(r, q, b)
      BY <1>1, <1>3, <1>4, <2>6 DEF FitsEmpty
    <2>. QED BY <2>5, <2>7, <2>9, <2>10, <2>11, <2>12, RequestStep
  <1>. QED BY <1>5, <1>6

(* A request begins. *)
LEMMA AskKeeps ==
  ASSUME IInv, NEW r \in Requesters, NEW t \in Threads, NEW op \in {"checkpoint", "empty"},
         Ask(r, t, op)
  PROVE  IInv'
  <1>1. PICK p, b : p = rq[r] /\ b = barrier[r]
    OBVIOUS
  <1>2. PICK q : q = [p EXCEPT !.pc = "loop", !.op = op, !.on = t, !.runs = 0, !.left = p.left - 1]
    OBVIOUS
  <1>3. /\ Fits(r, p, b) /\ FitsBarrier(r, p, b) /\ FitsClosure(r, p, b) /\ FitsEmpty(r, p, b)
        /\ rq = [s \in Requesters |-> rq[s]] /\ barrier = [s \in Requesters |-> barrier[s]]
        /\ b \in Int /\ p \in RequestRec /\ RequestOK(p)
    BY <1>1, Present
  <1>4. /\ p.pc = "idle" /\ p.left > 0 /\ t \in Registered /\ ~ th[t].exiting
        /\ op = "empty" => \A s \in Requesters : ~ InEmpty(s)
    BY <1>1 DEF Ask
  <1>5. /\ Turns(r, q) /\ barrier' = [barrier EXCEPT ![r] = 0]
        /\ UNCHANGED <<th, suspend_all_count, runtime, aborted>>
        /\ suspend_count_lock' = suspend_count_lock /\ thread_list_lock' = thread_list_lock
    BY <1>1, <1>2, <1>3 DEF Ask, Turns, Rest, locks
  <1>6. /\ q \in RequestRec /\ q.pc = "loop" /\ q.op = op /\ q.on = t /\ q.todo = p.todo
        /\ q.seen = p.seen /\ q.runs = 0
    <2>1. PICK l : l = p.left - 1
      OBVIOUS
    <2>2. l \in 0 .. MaxRequests
      <3>1. p.left \in 0 .. MaxRequests
        BY <1>3 DEF RequestRec
      <3>. QED BY <1>4, <2>1, <3>1
    <2>3. q = [p EXCEPT !.pc = "loop", !.op = op, !.on = t, !.runs = 0, !.left = l]
      BY <1>2, <2>1
    <2>. QED BY <1>3, <2>2, <2>3 DEF RequestRec, AskPcs
  <1>7. LockInv'
    BY <1>1, <1>4, <1>5, <1>6, LockStep DEF CountLockPcs, ListLockPcs
  <1>8. RequestOK(q)
    BY <1>3, <1>4, <1>6 DEF RequestOK, AskPcs, HoldPcs, SuspendPcs
  <1>9. Fits(r, q, 0)
    BY <1>1, <1>3, <1>4, <1>6, <1>8 DEF Fits, AskPcs, HoldPcs, SuspendPcs
  <1>10. FitsBarrier(r, q, 0)
    BY <1>1, <1>3, <1>4, <1>6 DEF FitsBarrier
  <1>11. FitsClosure(r, q, 0)
    BY <1>1, <1>3, <1>4, <1>6 DEF FitsClosure
  <1>12. FitsEmpty(r, q, 0)
    BY <1>1, <1>3, <1>4, <1>6, NULLAssumption DEF FitsEmpty
  <1>. QED BY <1>5, <1>7, <1>9, <1>10, <1>11, <1>12, RequestStep

-----------------------------------------------------------------------------
(* Steps of a requester that change a thread *)

(* What such a step keeps if the thread stays where it is in the code *)
Stays(x, o) == ThreadOK(o) /\ o.pc = x.pc /\ o.exiting = x.exiting /\ o.child = x.child
Aims(r, q) ==
  /\ RequestOK(q) /\ q.todo \subseteq rq[r].todo
  /\ q.pc \in AskPcs \cup HoldPcs \cup {"raise", "holding"} => q.on \in Registered /\ ~ th[q.on].exiting

(* The parts of the invariant that such a step keeps in any case *)
LEMMA JointParts ==
  ASSUME IInv, NEW t \in Threads, NEW o, NEW r \in Requesters, NEW q,
         Moves(t, o), Turns(r, q), Stays(th[t], o), Aims(r, q),
         UNCHANGED <<runtime, aborted>>
  PROVE  /\ th'[t] = o /\ \A u \in Threads : u # t => th'[u] = th[u]
         /\ rq'[r] = q /\ \A s \in Requesters : s # r => rq'[s] = rq[s]
         /\ ThreadInv' /\ RequestInv' /\ TargetInv' /\ BirthInv'
         /\ aborted' = NULL /\ Registered' = Registered
  <1>1. /\ th'[t] = o /\ (\A u \in Threads : u # t => th'[u] = th[u])
        /\ rq'[r] = q /\ (\A s \in Requesters : s # r => rq'[s] = rq[s])
        /\ births' = births /\ shutdown' = shutdown /\ aborted' = aborted
        /\ th' = [u \in Threads |-> th'[u]] /\ rq' = [s \in Requesters |-> rq'[s]]
    BY DEF Moves, Turns, runtime
  <1>2. ThreadInv'
    BY <1>1 DEF IInv, ThreadInv, Stays
  <1>3. RequestInv'
    BY <1>1 DEF IInv, RequestInv, Aims
  <1>4. \A u \in Threads : /\ th'[u].pc = th[u].pc /\ th'[u].exiting = th[u].exiting
                           /\ th'[u].child = th[u].child
    BY <1>1 DEF Stays
  <1>5. Registered' = Registered
    BY <1>4 DEF Registered
  <1>6. TargetInv'
    <2>1. ASSUME NEW s \in Requesters
          PROVE  /\ rq'[s].pc \in AskPcs \cup HoldPcs \cup {"raise", "holding"} =>
                      rq'[s].on \in Registered /\ ~ th[rq'[s].on].exiting
                 /\ rq'[s].todo \subseteq Registered
      BY <1>1 DEF IInv, TargetInv, Aims
    <2>2. \A u \in Registered : u \in Threads
      BY DEF Registered
    <2>. QED BY <1>4, <1>5, <2>1, <2>2 DEF TargetInv
  <1>7. BirthInv'
    <2>1. Unborn' = Unborn
      BY <1>4 DEF Unborn
    <2>. QED BY <1>1, <1>4, <2>1 DEF IInv, BirthInv
  <1>. QED BY <1>1, <1>2, <1>3, <1>5, <1>6, <1>7 DEF IInv

(* The swap of RequestCheckpoint that succeeds: the thread is runnable and *)
(* has the flag, and the closure if there is one.                          *)
LEMMA TakenKeeps ==
  ASSUME IInv, NEW r \in Requesters, RequestCheckpoint(r), Word(Target(r)) = rq[r].seen
  PROVE  IInv'
  <1>1. PICK p, t, x, op : p = rq[r] /\ t = rq[r].on /\ x = th[t] /\ op = rq[r].op
    OBVIOUS
  <1>2. /\ rq = [s \in Requesters |-> rq[s]] /\ p \in RequestRec /\ RequestOK(p)
        /\ p.on = t /\ p.op = op /\ p.pc = "swap"
    BY <1>1, Present DEF RequestCheckpoint
  <1>4. op \in {"checkpoint", "empty"} /\ p.seen[1] = "Runnable" /\ (op = "checkpoint" => p.runs = 0)
    BY <1>2 DEF RequestOK, AskPcs
  <1>5. t \in Threads /\ t \in Registered /\ ~ th[t].exiting
    BY <1>1, <1>2, TargetFacts DEF AskPcs
  <1>6. ThreadOK(x) /\ x \in ThreadRec /\ PlaceAgrees(x) /\ FlagsAgree(x)
        /\ th = [u \in Threads |-> th[u]]
    BY <1>1, <1>5, Before
  <1>7. x.state = "Runnable"
    BY <1>1, <1>4 DEF Word, Target
  <1>8. PICK f, c : /\ f = x.flags \cup {op}
                    /\ c = IF op = "empty" THEN x.checkpoints ELSE Append(x.checkpoints, r)
    OBVIOUS
  <1>9. PICK o, q : /\ o = [x EXCEPT !.flags = f, !.checkpoints = c]
                    /\ q = [p EXCEPT !.pc = "wait", !.seen = NULL]
    OBVIOUS
  <1>10. /\ Moves(t, o) /\ Turns(r, q) /\ suspend_count_lock' = NULL
         /\ UNCHANGED <<barrier, thread_list_lock, suspend_all_count, runtime, aborted>>
    BY <1>1, <1>2, <1>6, <1>8, <1>9, ZenonT(60) DEF RequestCheckpoint, Target, Moves, Turns
  <1>11. x.checkpoints \in Seq(Requesters) /\ x.pc \in RunPcs
    BY <1>6, <1>7 DEF ThreadRec, PlaceAgrees
  <1>12. /\ c \in Seq(Requesters) /\ f \in SUBSET Flags
         /\ op = "empty" => c = x.checkpoints
         /\ op # "empty" => /\ c # <<>> /\ Len(c) = Len(x.checkpoints) + 1
                            /\ Len(x.checkpoints) \in Nat
                            /\ \A i \in 1 .. Len(x.checkpoints) : c[i] = x.checkpoints[i]
                            /\ c[Len(c)] = r
    <2>1. f \in SUBSET Flags
      BY <1>4, <1>6, <1>8 DEF ThreadRec, Flags
    <2>2. CASE op = "empty"
      BY <1>8, <1>11, <2>1, <2>2
    <2>3. CASE op # "empty"
      <3>1. c = Append(x.checkpoints, r)
        BY <1>8, <2>3
      <3>. QED BY <1>11, <2>1, <2>3, <3>1, AppendProperties
    <2>. QED BY <2>2, <2>3
  <1>13. /\ o \in ThreadRec /\ o.pc = x.pc /\ o.state = x.state /\ o.flags = f
         /\ o.count = x.count /\ o.barriers = x.barriers /\ o.claimed = x.claimed
         /\ o.checkpoints = c /\ o.closure = x.closure /\ o.back = x.back /\ o.child = x.child
         /\ o.flip = x.flip /\ o.transitioning = x.transitioning /\ o.exiting = x.exiting
    BY <1>6, <1>9, <1>12 DEF ThreadRec
  <1>14. /\ q \in RequestRec /\ q.pc = "wait" /\ q.op = op /\ q.on = t /\ q.todo = p.todo
         /\ q.runs = p.runs
    BY <1>2, <1>9 DEF RequestRec, AskPcs
  <1>15. \A u \in Threads : ~ HasClosure(th[u], r)
    BY <1>1, <1>2 DEF IInv, ClosureInv
  <1>16. Stays(x, o)
    <2>1. FlagsAgree(o)
      <3>1. "suspend" \in f <=> "suspend" \in x.flags
        BY <1>4, <1>8
      <3>2. "barrier" \in f <=> "barrier" \in x.flags
        BY <1>4, <1>8
      <3>3. "checkpoint" \in f <=> c # <<>>
        BY <1>4, <1>6, <1>8, <1>12 DEF FlagsAgree
      <3>. QED BY <1>6, <1>13, <3>1, <3>2, <3>3 DEF FlagsAgree
    <2>2. PlaceAgrees(o)
      <3>1. x.checkpoints # <<>> => c # <<>>
        BY <1>12
      <3>. QED BY <1>6, <1>11, <1>13, <3>1 DEF PlaceAgrees
    <2>3. ClosuresOnce(o)
      <3>1. ClosuresOnce(x) /\ ~ HasClosure(x, r)
        BY <1>1, <1>5, <1>6, <1>15 DEF ThreadOK
      <3>2. CASE op = "empty"
        BY <1>12, <1>13, <3>1, <3>2 DEF ClosuresOnce
      <3>3. CASE op # "empty"
        <4>1. \A i \in 1 .. Len(c) : i \in 1 .. Len(x.checkpoints) \/ i = Len(c)
          BY <1>12, <3>3
        <4>2. \A i \in 1 .. Len(x.checkpoints) : c[i] # r /\ c[i] # x.closure
          BY <1>12, <3>1, <3>3 DEF HasClosure, ClosuresOnce
        <4>3. r # x.closure
          BY <3>1 DEF HasClosure
        <4>4. \A i, j \in 1 .. Len(x.checkpoints) : c[i] = c[j] => i = j
          BY <1>12, <3>1, <3>3 DEF ClosuresOnce
        <4>5. c[Len(c)] = r
          BY <1>12, <3>3
        <4>. QED BY <1>13, <4>1, <4>2, <4>3, <4>4, <4>5 DEF ClosuresOnce
      <3>. QED BY <3>2, <3>3
    <2>. QED BY <1>6, <1>13, <2>1, <2>2, <2>3 DEF Stays, ThreadOK
  <1>17. Aims(r, q)
    <2>1. RequestOK(q)
      BY <1>2, <1>4, <1>14 DEF RequestOK, AskPcs, HoldPcs, SuspendPcs
    <2>. QED BY <1>1, <1>5, <1>14, <2>1 DEF Aims
  <1>18. /\ th'[t] = o /\ (\A u \in Threads : u # t => th'[u] = th[u])
         /\ rq'[r] = q /\ (\A s \in Requesters : s # r => rq'[s] = rq[s])
         /\ ThreadInv' /\ RequestInv' /\ TargetInv' /\ BirthInv'
         /\ aborted' = NULL /\ Registered' = Registered
    <2>1. t \in Threads /\ Moves(t, o) /\ Turns(r, q) /\ Stays(th[t], o) /\ Aims(r, q)
          /\ UNCHANGED <<runtime, aborted>>
      BY <1>1, <1>5, <1>10, <1>16, <1>17
    <2>. QED BY <2>1, JointParts
  <1>19. LockInv'
    BY <1>1, <1>2, <1>10, <1>14, LockStep DEF CountLockPcs, ListLockPcs
  <1>20. BarrierType' /\ barrier' = barrier
    BY <1>10 DEF IInv, BarrierType
  <1>21. \A u \in Threads : /\ th'[u].barriers = th[u].barriers /\ th'[u].claimed = th[u].claimed
                            /\ th'[u].state = th[u].state /\ th'[u].count = th[u].count
    BY <1>1, <1>13, <1>18
  <1>22. \A s \in Requesters : /\ rq'[s].pc \in SuspendPcs <=> rq[s].pc \in SuspendPcs
                               /\ rq'[s].pc \in HoldPcs <=> rq[s].pc \in HoldPcs
                               /\ rq'[s].todo = rq[s].todo /\ rq'[s].on = rq[s].on
                               /\ rq'[s].op = rq[s].op
                               /\ rq'[s].pc # rq[s].pc => s = r
    BY <1>1, <1>2, <1>14, <1>18 DEF SuspendPcs, HoldPcs
  <1>23. \A s \in Requesters, u \in Threads : Suspends(s, u)' <=> Suspends(s, u)
    BY <1>18, <1>22 DEF Suspends
  <1>24. CountInv'
    <2>1. \A u \in Threads : Holders(u)' = Holders(u)
      BY <1>22, <1>23 DEF Holders, Holds
    <2>2. Suspenders' = Suspenders
      BY <1>22 DEF Suspenders
    <2>. QED BY <1>10, <1>21, <2>1, <2>2 DEF IInv, CountInv
  <1>25. BarrierInv'
    <2>1. \A s \in Requesters : Pending(s)' = Pending(s)
      BY <1>21, <1>22 DEF Pending
    <2>2. \A u \in Threads : Runnable(u)' <=> Runnable(u)
      BY <1>21 DEF Runnable
    <2>3. \A s \in Requesters : rq[s].pc \in {"running", "lower"} => rq[s].on \in Threads
      BY TargetFacts DEF HoldPcs
    <2>4. \A s \in Requesters : \A u \in rq[s].todo : u \in Threads
      BY TargetFacts
    <2>5. ASSUME NEW s \in Requesters
          PROVE  /\ rq'[s].pc \in {"raising", "clearing", "gathering"} => barrier'[s] = Cardinality(Pending(s))
                 /\ rq'[s].pc \notin {"raising", "clearing", "gathering"} => Pending(s) = {}
                 /\ rq'[s].pc = "paused" \/ (rq'[s].pc = "idle" /\ rq'[s].op = "suspend") => barrier'[s] = 0
                 /\ rq'[s].pc \in {"running", "lower"} => rq[s].pc \in {"running", "lower"}
      <3>1. CASE s = r
        BY <1>1, <1>2, <1>14, <1>18, <3>1 DEF IInv, BarrierInv
      <3>2. CASE s # r
        BY <1>18, <1>20, <3>2 DEF IInv, BarrierInv
      <3>. QED BY <3>1, <3>2
    <2>6. \A s \in Requesters, u \in Threads : Suspends(s, u)' /\ Runnable(u)' => s \in th'[u].barriers
      BY <1>21, <1>23, <2>2 DEF IInv, BarrierInv
    <2>7. \A s \in Requesters : \A u \in rq'[s].todo : s \notin th'[u].barriers \cup th'[u].claimed
      BY <1>21, <1>22, <2>4 DEF IInv, BarrierInv
    <2>8. ASSUME NEW s \in Requesters, rq'[s].pc \in {"running", "lower"}
          PROVE  ~ Runnable(rq[s].on)'
      <3>1. rq[s].on \in Threads /\ th[rq[s].on].state # "Runnable"
        BY <2>3, <2>5, <2>8 DEF IInv, BarrierInv, Runnable
      <3>2. th'[rq'[s].on].state # "Runnable"
        BY <1>21, <1>22, <3>1
      <3>. QED BY <3>2 DEF Runnable
    <2>. QED BY <2>1, <2>5, <2>6, <2>7, <2>8 DEF BarrierInv
  <1>26. ClosureInv'
    <2>1. ASSUME NEW s \in Requesters, NEW u \in Threads, HasClosure(th'[u], s)
          PROVE  HasClosure(th[u], s) \/ (u = t /\ s = r /\ op = "checkpoint")
      <3>1. CASE u # t
        BY <1>18, <2>1, <3>1
      <3>2. CASE u = t /\ op = "empty"
        BY <1>1, <1>12, <1>13, <1>18, <2>1, <3>2 DEF HasClosure
      <3>3. CASE u = t /\ op = "checkpoint"
        <4>1. CASE x.closure = s
          BY <1>1, <3>3, <4>1 DEF HasClosure
        <4>2. CASE \E i \in 1 .. Len(c) : c[i] = s
          <5>1. PICK i \in 1 .. Len(c) : c[i] = s
            BY <4>2
          <5>2. i \in 1 .. Len(x.checkpoints) \/ i = Len(c)
            BY <1>12, <3>3
          <5>3. CASE i \in 1 .. Len(x.checkpoints)
            BY <1>1, <1>12, <3>3, <5>1, <5>3 DEF HasClosure
          <5>4. CASE i = Len(c)
            BY <1>12, <3>3, <5>1, <5>4
          <5>. QED BY <5>2, <5>3, <5>4
        <4>. QED BY <1>13, <1>18, <2>1, <3>3, <4>1, <4>2 DEF HasClosure
      <3>. QED BY <1>4, <3>1, <3>2, <3>3
    <2>2. ASSUME NEW s \in Requesters, NEW u \in Threads, HasClosure(th'[u], s)
          PROVE  /\ rq'[s].op = "checkpoint" /\ rq'[s].on = u /\ rq'[s].pc \in {"wait", "waiting"}
                 /\ rq'[s].runs = 0
      <3>1. CASE s = r
        BY <1>4, <1>14, <1>15, <1>18, <2>1, <2>2, <3>1
      <3>2. CASE s # r
        BY <1>18, <2>1, <2>2, <3>2 DEF IInv, ClosureInv
      <3>. QED BY <3>1, <3>2
    <2>3. ASSUME NEW s \in Requesters, rq'[s].op = "checkpoint"
          PROVE  barrier'[s] = IF rq'[s].pc = "wait" THEN 0 - rq'[s].runs
                               ELSE IF rq'[s].pc = "waiting" THEN 1 - rq'[s].runs ELSE 0
      <3>1. CASE s = r
        <4>1. barrier[r] = 0
          BY <1>1, <1>2, <1>14, <1>18, <2>3, <3>1 DEF IInv, ClosureInv
        <4>. QED BY <1>4, <1>14, <1>18, <1>20, <2>3, <3>1, <4>1
      <3>2. CASE s # r
        BY <1>18, <1>20, <2>3, <3>2 DEF IInv, ClosureInv
      <3>. QED BY <3>1, <3>2
    <2>. QED BY <2>2, <2>3 DEF ClosureInv
  <1>27. EmptyInv'
    <2>1. \A s \in Requesters : InEmpty(s)' <=> InEmpty(s)
      BY <1>1, <1>2, <1>14, <1>18 DEF InEmpty
    <2>2. \A u \in Threads : "empty" \in th'[u].flags <=> "empty" \in th[u].flags \/ (u = t /\ op = "empty")
      BY <1>1, <1>4, <1>8, <1>13, <1>18
    <2>3. op = "empty" => /\ InEmpty(r) /\ (\A s \in Requesters : s # r => ~ InEmpty(s))
                          /\ barrier[r] = 0
      BY <1>1, <1>2 DEF IInv, EmptyInv, InEmpty
    <2>4. ASSUME NEW u \in Threads, "empty" \in th'[u].flags
          PROVE  \E s \in Requesters : /\ InEmpty(s)' /\ rq'[s].on = u
                                       /\ rq'[s].pc \in {"wait", "waiting"}
      <3>1. CASE u = t /\ op = "empty"
        BY <1>14, <1>18, <2>1, <2>3, <3>1
      <3>2. CASE "empty" \in th[u].flags
        <4>1. PICK s \in Requesters : InEmpty(s) /\ rq[s].on = u /\ rq[s].pc \in {"wait", "waiting"}
          BY <3>2 DEF IInv, EmptyInv
        <4>2. s # r
          BY <1>1, <1>2, <4>1
        <4>. QED BY <1>18, <2>1, <4>1, <4>2
      <3>. QED BY <2>2, <2>4, <3>1, <3>2
    <2>5. ASSUME NEW s \in Requesters, rq'[s].op = "empty"
          PROVE  barrier'[s] = IF rq'[s].pc \notin {"wait", "waiting"} THEN 0
                               ELSE (IF rq'[s].pc = "waiting" THEN 1 ELSE 0)
                                      - (IF "empty" \in th'[rq'[s].on].flags THEN 0 ELSE 1)
      <3>1. CASE s = r
        <4>1. op = "empty" /\ rq'[s].pc = "wait" /\ rq'[s].on = t
          BY <1>14, <1>18, <2>5, <3>1
        <4>2. barrier[r] = 0 /\ "empty" \in th'[t].flags
          BY <1>5, <2>2, <2>3, <4>1
        <4>3. /\ (IF rq'[s].pc = "waiting" THEN 1 ELSE 0) = 0
              /\ (IF "empty" \in th'[rq'[s].on].flags THEN 0 ELSE 1) = 0
          BY <4>1, <4>2
        <4>4. barrier'[s] = 0 /\ rq'[s].pc \in {"wait", "waiting"}
          BY <1>20, <3>1, <4>1, <4>2
        <4>. QED BY <4>3, <4>4
      <3>2. CASE s # r
        <4>1. rq'[s] = rq[s]
          BY <1>18, <3>2
        <4>2. CASE rq[s].pc \notin {"wait", "waiting"}
          BY <1>20, <2>5, <4>1, <4>2 DEF IInv, EmptyInv
        <4>3. CASE rq[s].pc \in {"wait", "waiting"}
          <5>1. InEmpty(s) /\ rq[s].on \in Threads
            BY <2>5, <4>1, <4>3, TargetFacts DEF InEmpty
          <5>2. op # "empty"
            BY <2>3, <3>2, <5>1
          <5>3. "empty" \in th'[rq[s].on].flags <=> "empty" \in th[rq[s].on].flags
            BY <2>2, <5>1, <5>2
          <5>. QED BY <1>20, <2>5, <4>1, <5>3 DEF IInv, EmptyInv
        <4>. QED BY <4>2, <4>3
      <3>. QED BY <3>1, <3>2
    <2>6. \A s \in Requesters : rq'[s].op = NULL => barrier'[s] = 0
      BY <1>20, <1>22 DEF IInv, EmptyInv
    <2>7. \A s, w \in Requesters : InEmpty(s)' /\ InEmpty(w)' => s = w
      BY <2>1 DEF IInv, EmptyInv
    <2>. QED BY <2>4, <2>5, <2>6, <2>7 DEF EmptyInv
  <1>. QED BY <1>18, <1>19, <1>20, <1>24, <1>25, <1>26, <1>27 DEF IInv

(* RequestCheckpoint, whichever way it goes *)
LEMMA RequestCheckpointKeeps ==
  ASSUME IInv, NEW r \in Requesters, RequestCheckpoint(r)
  PROVE  IInv'
  <1>1. CASE Word(Target(r)) = rq[r].seen
    BY <1>1, TakenKeeps
  <1>2. CASE Word(Target(r)) # rq[r].seen
    <2>1. PICK p, v : p = rq[r] /\ v = Otherwise(r)
      OBVIOUS
    <2>2. PICK q : q = [p EXCEPT !.pc = v, !.seen = NULL]
      OBVIOUS
    <2>3. p \in RequestRec /\ rq = [s \in Requesters |-> rq[s]] /\ v \in {"idle", "raise"}
      BY <2>1, Present DEF Otherwise
    <2>4. NotTaken(r, q)
      BY <2>1, <2>2, <2>3 DEF NotTaken, RequestRec
    <2>5. Turns(r, q)
      BY <1>2, <2>1, <2>2, <2>3 DEF RequestCheckpoint, Turns
    <2>6. /\ rq[r].pc \in {"try", "swap"}
          /\ suspend_count_lock' = IF rq[r].pc = "swap" THEN NULL ELSE suspend_count_lock
          /\ UNCHANGED <<th, barrier, thread_list_lock, suspend_all_count, runtime, aborted>>
      BY <1>2 DEF RequestCheckpoint
    <2>. QED BY <2>4, <2>5, <2>6, NotTakenKeeps
  <1>. QED BY <1>1, <1>2

(* Steps that no closure and no empty checkpoint notices *)
CalmThread(x, o) ==
  /\ \A s \in Requesters : HasClosure(o, s) => HasClosure(x, s)
  /\ "empty" \in o.flags <=> "empty" \in x.flags
CalmRequest(p, q, b, c) ==
  \/ /\ q.op = p.op /\ q.on = p.on /\ q.runs = p.runs /\ c = b
     /\ \/ q.pc = p.pc
        \/ /\ p.op # "empty"
           /\ p.pc \notin {"wait", "waiting"} /\ q.pc \notin {"wait", "waiting"}
  \/ q.op = "suspend" /\ p.pc \notin {"wait", "waiting"}

(* What the invariant says of closures and empty checkpoints is kept. *)
LEMMA CalmParts ==
  ASSUME IInv, \A u \in Threads : CalmThread(th[u], th'[u]),
         \A s \in Requesters : CalmRequest(rq[s], rq'[s], barrier[s], barrier'[s])
  PROVE  ClosureInv' /\ EmptyInv'
  <1>1. ASSUME NEW s \in Requesters, NEW u \in Threads, HasClosure(th'[u], s)
        PROVE  /\ rq'[s].op = "checkpoint" /\ rq'[s].on = u /\ rq'[s].pc \in {"wait", "waiting"}
               /\ rq'[s].runs = 0
    <2>1. HasClosure(th[u], s)
      BY <1>1 DEF CalmThread
    <2>2. /\ rq[s].op = "checkpoint" /\ rq[s].on = u /\ rq[s].pc \in {"wait", "waiting"}
          /\ rq[s].runs = 0
      BY <2>1 DEF IInv, ClosureInv
    <2>. QED BY <2>2 DEF CalmRequest
  <1>2. ASSUME NEW s \in Requesters, rq'[s].op = "checkpoint"
        PROVE  barrier'[s] = IF rq'[s].pc = "wait" THEN 0 - rq'[s].runs
                             ELSE IF rq'[s].pc = "waiting" THEN 1 - rq'[s].runs ELSE 0
    <2>1. /\ rq'[s].op = rq[s].op /\ rq'[s].runs = rq[s].runs /\ barrier'[s] = barrier[s]
          /\ \/ rq'[s].pc = rq[s].pc
             \/ rq[s].pc \notin {"wait", "waiting"} /\ rq'[s].pc \notin {"wait", "waiting"}
      BY <1>2 DEF CalmRequest
    <2>2. barrier[s] = IF rq[s].pc = "wait" THEN 0 - rq[s].runs
                       ELSE IF rq[s].pc = "waiting" THEN 1 - rq[s].runs ELSE 0
      BY <1>2, <2>1 DEF IInv, ClosureInv
    <2>. QED BY <2>1, <2>2
  <1>3. ClosureInv'
    BY <1>1, <1>2 DEF ClosureInv
  <1>4. ASSUME NEW s \in Requesters, rq'[s].op = "empty"
        PROVE  rq'[s].pc = rq[s].pc /\ rq[s].op = "empty" /\ rq'[s].on = rq[s].on /\ barrier'[s] = barrier[s]
    BY <1>4 DEF CalmRequest
  <1>5. \A s \in Requesters : InEmpty(s)' => InEmpty(s)
    BY <1>4 DEF InEmpty
  <1>6. ASSUME NEW u \in Threads, "empty" \in th'[u].flags
        PROVE  \E s \in Requesters : InEmpty(s)' /\ rq'[s].on = u /\ rq'[s].pc \in {"wait", "waiting"}
    <2>1. PICK s \in Requesters : InEmpty(s) /\ rq[s].on = u /\ rq[s].pc \in {"wait", "waiting"}
      BY <1>6 DEF IInv, EmptyInv, CalmThread
    <2>2. rq[s].op = "empty"
      BY <2>1 DEF InEmpty
    <2>3. rq'[s].op = "empty" /\ rq'[s].on = u /\ rq'[s].pc = rq[s].pc
      BY <2>1, <2>2 DEF CalmRequest
    <2>. QED BY <2>1, <2>3 DEF InEmpty
  <1>7. ASSUME NEW s \in Requesters, rq'[s].op = "empty"
        PROVE  barrier'[s] = IF rq'[s].pc \notin {"wait", "waiting"} THEN 0
                             ELSE (IF rq'[s].pc = "waiting" THEN 1 ELSE 0)
                                    - (IF "empty" \in th'[rq'[s].on].flags THEN 0 ELSE 1)
    <2>1. rq'[s].pc = rq[s].pc /\ rq[s].op = "empty" /\ rq'[s].on = rq[s].on /\ barrier'[s] = barrier[s]
      BY <1>4, <1>7
    <2>2. CASE rq[s].pc \notin {"wait", "waiting"}
      BY <2>1, <2>2 DEF IInv, EmptyInv
    <2>3. CASE rq[s].pc \in {"wait", "waiting"}
      <3>1. rq[s].on \in Threads
        BY <2>3, TargetFacts DEF AskPcs
      <3>2. "empty" \in th'[rq[s].on].flags <=> "empty" \in th[rq[s].on].flags
        BY <3>1 DEF CalmThread
      <3>. QED BY <2>1, <3>2 DEF IInv, EmptyInv
    <2>. QED BY <2>2, <2>3
  <1>8. \A s \in Requesters : rq'[s].op = NULL => barrier'[s] = 0
    BY NULLAssumption DEF IInv, EmptyInv, CalmRequest
  <1>9. \A s, w \in Requesters : InEmpty(s)' /\ InEmpty(w)' => s = w
    BY <1>5 DEF IInv, EmptyInv
  <1>10. EmptyInv'
    BY <1>6, <1>7, <1>8, <1>9 DEF EmptyInv
  <1>. QED BY <1>3, <1>10

(* An object whose suspend count goes up without a barrier *)
LEMMA RaiseFacts ==
  ASSUME NEW x, ThreadOK(x), CanRaise(x, NULL), x.pc \notin Unregistered, NEW o, o = Raise(x, NULL)
  PROVE  /\ Stays(x, o) /\ o.count = x.count + 1 /\ o.state = x.state /\ o.barriers = x.barriers
         /\ o.claimed = x.claimed /\ CalmThread(x, o)
  <1>1. PICK f, n : f = x.flags \cup {"suspend"} /\ n = x.count + 1
    OBVIOUS
  <1>2. /\ x \in ThreadRec /\ FlagsAgree(x) /\ PlaceAgrees(x) /\ ClosuresOnce(x)
        /\ Cardinality(x.barriers) <= MaxBarriers /\ ~ x.flip
    BY DEF ThreadOK, CanRaise
  <1>3. n \in Nat /\ f \in SUBSET Flags /\ n > 0
    BY <1>1, <1>2 DEF ThreadRec, Flags
  <1>4. o = [x EXCEPT !.count = n, !.barriers = x.barriers, !.flags = f]
    BY <1>1, <1>2 DEF Raise, ThreadRec
  <1>5. /\ o \in ThreadRec /\ o.pc = x.pc /\ o.state = x.state /\ o.flags = f /\ o.count = n
        /\ o.barriers = x.barriers /\ o.claimed = x.claimed /\ o.checkpoints = x.checkpoints
        /\ o.closure = x.closure /\ o.back = x.back /\ o.child = x.child /\ o.flip = x.flip
        /\ o.transitioning = x.transitioning /\ o.exiting = x.exiting
    BY <1>2, <1>3, <1>4, ZenonT(60) DEF ThreadRec
  <1>6. FlagsAgree(o)
    BY <1>1, <1>2, <1>3, <1>5 DEF FlagsAgree
  <1>7. PlaceAgrees(o)
    BY <1>1, <1>2, <1>5 DEF PlaceAgrees, Requested
  <1>8. ClosuresOnce(o)
    BY <1>2, <1>5 DEF ClosuresOnce
  <1>9. CalmThread(x, o)
    BY <1>1, <1>5 DEF CalmThread, HasClosure
  <1>. QED BY <1>1, <1>2, <1>5, <1>6, <1>7, <1>8, <1>9 DEF Stays, ThreadOK

(* and down *)
LEMMA LowerFacts ==
  ASSUME NEW x, ThreadOK(x), x.count > 0, NEW o, o = Lower(x)
  PROVE  /\ Stays(x, o) /\ o.count = x.count - 1 /\ o.state = x.state /\ o.barriers = x.barriers
         /\ o.claimed = x.claimed /\ CalmThread(x, o) /\ o.transitioning = x.transitioning
         /\ o.flip = x.flip /\ o \in ThreadRec
  <1>1. PICK f, n : f = (IF x.count = 1 THEN x.flags \ {"suspend"} ELSE x.flags) /\ n = x.count - 1
    OBVIOUS
  <1>2. /\ x \in ThreadRec /\ FlagsAgree(x) /\ PlaceAgrees(x) /\ ClosuresOnce(x)
        /\ Cardinality(x.barriers) <= MaxBarriers /\ x.count \in Nat
    BY DEF ThreadOK, ThreadRec
  <1>3. n \in Nat /\ f \in SUBSET Flags /\ (n > 0 <=> x.count # 1)
    BY <1>1, <1>2 DEF ThreadRec
  <1>4. o = [x EXCEPT !.count = n, !.flags = f]
    BY <1>1, <1>2 DEF Lower, ThreadRec
  <1>5. /\ o \in ThreadRec /\ o.pc = x.pc /\ o.state = x.state /\ o.flags = f /\ o.count = n
        /\ o.barriers = x.barriers /\ o.claimed = x.claimed /\ o.checkpoints = x.checkpoints
        /\ o.closure = x.closure /\ o.back = x.back /\ o.child = x.child /\ o.flip = x.flip
        /\ o.transitioning = x.transitioning /\ o.exiting = x.exiting
    BY <1>2, <1>3, <1>4 DEF ThreadRec
  <1>6. FlagsAgree(o)
    <2>1. "suspend" \in f <=> n > 0
      BY <1>1, <1>2, <1>3 DEF FlagsAgree
    <2>2. ("barrier" \in f <=> "barrier" \in x.flags) /\ ("checkpoint" \in f <=> "checkpoint" \in x.flags)
      BY <1>1
    <2>. QED BY <1>2, <1>5, <2>1, <2>2 DEF FlagsAgree
  <1>7. PlaceAgrees(o)
    <2>1. f \cap Requested = x.flags \cap Requested
      BY <1>1 DEF Requested
    <2>2. x.pc \notin Unregistered /\ ~ x.flip
      BY <1>2 DEF PlaceAgrees
    <2>. QED BY <1>2, <1>5, <2>1, <2>2 DEF PlaceAgrees
  <1>8. ClosuresOnce(o)
    BY <1>2, <1>5 DEF ClosuresOnce
  <1>9. CalmThread(x, o)
    <2>1. "empty" \in f <=> "empty" \in x.flags
      BY <1>1
    <2>. QED BY <1>5, <2>1 DEF CalmThread, HasClosure
  <1>. QED BY <1>1, <1>2, <1>5, <1>6, <1>7, <1>8, <1>9 DEF Stays, ThreadOK

(* A synchronous checkpoint holds its thread, or lets it go. *)
Grips(r, t, o, q) ==
  /\ Moves(t, o) /\ Turns(r, q) /\ Stays(th[t], o) /\ Aims(r, q) /\ CalmThread(th[t], o)
  /\ o.state = th[t].state /\ o.barriers = th[t].barriers /\ o.claimed = th[t].claimed
  /\ q.on = rq[r].on /\ rq[r].on = t /\ q.todo = rq[r].todo /\ q.op = rq[r].op /\ rq[r].op = "checkpoint"
  /\ q.runs = rq[r].runs
  /\ \/ rq[r].pc = "holding" /\ q.pc = "spin" /\ o.count = th[t].count + 1
     \/ rq[r].pc = "lower" /\ q.pc = "idle" /\ o.count = th[t].count - 1

(* The count goes with it, and the invariant is kept. *)
LEMMA GripStep ==
  ASSUME IInv, NEW r \in Requesters, NEW t \in Threads, NEW o, NEW q, Grips(r, t, o, q),
         thread_list_lock' = IF rq[r].pc = "holding" THEN NULL ELSE thread_list_lock,
         UNCHANGED <<barrier, suspend_count_lock, suspend_all_count, runtime, aborted>>
  PROVE  IInv'
  <1>1. /\ th'[t] = o /\ (\A u \in Threads : u # t => th'[u] = th[u])
        /\ rq'[r] = q /\ (\A s \in Requesters : s # r => rq'[s] = rq[s])
        /\ ThreadInv' /\ RequestInv' /\ TargetInv' /\ BirthInv'
        /\ aborted' = NULL /\ Registered' = Registered
    <2>1. /\ Moves(t, o) /\ Turns(r, q) /\ Stays(th[t], o) /\ Aims(r, q)
          /\ UNCHANGED <<runtime, aborted>>
      BY DEF Grips
    <2>. QED BY <2>1, JointParts
  <1>2. /\ barrier' = barrier /\ suspend_all_count' = suspend_all_count
        /\ suspend_count_lock' = suspend_count_lock
    OBVIOUS
  <1>3. LockInv'
    <2>1. Turns(r, q) /\ rq[r].pc \in {"holding", "lower"} /\ q.pc \in {"spin", "idle"}
      BY DEF Grips
    <2>. QED BY <1>2, <2>1, LockStep DEF CountLockPcs, ListLockPcs
  <1>4. BarrierType'
    BY <1>2 DEF IInv, BarrierType
  <1>5. \A u \in Threads : /\ th'[u].barriers = th[u].barriers /\ th'[u].claimed = th[u].claimed
                           /\ th'[u].state = th[u].state
    BY <1>1 DEF Grips
  <1>6. \A s \in Requesters : /\ rq'[s].pc \in SuspendPcs <=> rq[s].pc \in SuspendPcs
                              /\ rq'[s].todo = rq[s].todo /\ rq'[s].on = rq[s].on
                              /\ rq'[s].op = rq[s].op
    BY <1>1 DEF Grips, SuspendPcs
  <1>7. \A s \in Requesters, u \in Threads : Suspends(s, u)' <=> Suspends(s, u)
    BY <1>1, <1>6 DEF Suspends
  <1>8. CountInv'
    <2>1. Suspenders' = Suspenders
      BY <1>6 DEF Suspenders
    <2>2. ASSUME NEW u \in Threads, u # t PROVE Holders(u)' = Holders(u)
      <3>1. ASSUME NEW s \in Requesters PROVE Holds(s, u)' <=> Holds(s, u)
        BY <1>1, <1>7, <2>2 DEF Holds, Grips, HoldPcs
      <3>. QED BY <3>1 DEF Holders
    <2>3. ~ Suspends(r, t)
      BY DEF Grips, Suspends, SuspendPcs
    <2>4. \A s \in Requesters : s # r => (Holds(s, t)' <=> Holds(s, t))
      BY <1>1, <1>7 DEF Holds
    <2>5. th'[t].count = Cardinality(Holders(t)')
      <3>1. CASE rq[r].pc = "holding" /\ q.pc = "spin" /\ o.count = th[t].count + 1
        <4>1. Holds(r, t)' /\ ~ Holds(r, t)
          BY <1>1, <2>3, <3>1 DEF Holds, HoldPcs, Grips
        <4>2. Holders(t)' = Holders(t) \cup {r} /\ r \notin Holders(t)
          BY <2>4, <4>1 DEF Holders
        <4>3. Cardinality(Holders(t) \cup {r}) = Cardinality(Holders(t)) + 1
          BY <4>2, PendingFinite, CardinalityStep
        <4>. QED BY <1>1, <3>1, <4>2, <4>3 DEF IInv, CountInv
      <3>2. CASE rq[r].pc = "lower" /\ q.pc = "idle" /\ o.count = th[t].count - 1
        <4>1. ~ Holds(r, t)' /\ Holds(r, t)
          BY <1>1, <1>7, <2>3, <3>2 DEF Holds, HoldPcs, Grips
        <4>2. Holders(t)' = Holders(t) \ {r} /\ r \in Holders(t)
          BY <2>4, <4>1 DEF Holders
        <4>3. Cardinality(Holders(t) \ {r}) = Cardinality(Holders(t)) - 1
          BY <4>2, PendingFinite, CardinalityStep
        <4>. QED BY <1>1, <3>2, <4>2, <4>3 DEF IInv, CountInv
      <3>. QED BY <3>1, <3>2 DEF Grips
    <2>. QED BY <1>1, <1>2, <2>1, <2>2, <2>5 DEF IInv, CountInv
  <1>9. BarrierInv'
    <2>1. \A s \in Requesters : Pending(s)' = Pending(s)
      BY <1>5, <1>6 DEF Pending
    <2>2. \A u \in Threads : Runnable(u)' <=> Runnable(u)
      BY <1>5 DEF Runnable
    <2>3. \A s \in Requesters : \A u \in rq[s].todo : u \in Threads
      BY TargetFacts
    <2>4. ASSUME NEW s \in Requesters
          PROVE  /\ rq'[s].pc \in {"raising", "clearing", "gathering"} => barrier'[s] = Cardinality(Pending(s))
                 /\ rq'[s].pc \notin {"raising", "clearing", "gathering"} => Pending(s) = {}
                 /\ rq'[s].pc = "paused" \/ (rq'[s].pc = "idle" /\ rq'[s].op = "suspend") => barrier'[s] = 0
                 /\ rq'[s].pc \in {"running", "lower"} => rq[s].pc \in {"running", "lower"}
      <3>1. CASE s = r
        BY <1>1, <3>1 DEF IInv, BarrierInv, Grips
      <3>2. CASE s # r
        BY <1>1, <1>2, <3>2 DEF IInv, BarrierInv
      <3>. QED BY <3>1, <3>2
    <2>5. \A s \in Requesters, u \in Threads : Suspends(s, u)' /\ Runnable(u)' => s \in th'[u].barriers
      BY <1>5, <1>7, <2>2 DEF IInv, BarrierInv
    <2>6. \A s \in Requesters : \A u \in rq'[s].todo : s \notin th'[u].barriers \cup th'[u].claimed
      BY <1>5, <1>6, <2>3 DEF IInv, BarrierInv
    <2>7. ASSUME NEW s \in Requesters, rq'[s].pc \in {"running", "lower"}
          PROVE  ~ Runnable(rq[s].on)'
      <3>1. rq[s].on \in Threads /\ th[rq[s].on].state # "Runnable"
        BY <2>4, <2>7, TargetFacts DEF IInv, BarrierInv, Runnable, HoldPcs
      <3>2. th'[rq'[s].on].state # "Runnable"
        BY <1>5, <1>6, <3>1
      <3>. QED BY <3>2 DEF Runnable
    <2>. QED BY <2>1, <2>4, <2>5, <2>6, <2>7 DEF BarrierInv
  <1>10. ClosureInv' /\ EmptyInv'
    <2>1. \A u \in Threads : CalmThread(th[u], th'[u])
      BY <1>1 DEF Grips, CalmThread
    <2>2. \A s \in Requesters : CalmRequest(rq[s], rq'[s], barrier[s], barrier'[s])
      BY <1>1, <1>2 DEF Grips, CalmRequest
    <2>. QED BY <2>1, <2>2, CalmParts
  <1>. QED BY <1>1, <1>3, <1>4, <1>8, <1>9, <1>10 DEF IInv

(* The thread is not runnable: it is held there. *)
LEMMA HoldSuspendedKeeps ==
  ASSUME IInv, NEW r \in Requesters, HoldSuspended(r)
  PROVE  IInv'
  <1>1. PICK p, t, x : p = rq[r] /\ t = rq[r].on /\ x = th[t]
    OBVIOUS
  <1>2. PICK o, q : o = Raise(x, NULL) /\ q = [p EXCEPT !.pc = "spin"]
    OBVIOUS
  <1>3. /\ rq = [s \in Requesters |-> rq[s]] /\ p \in RequestRec /\ RequestOK(p)
        /\ p.on = t /\ p.pc = "holding"
    BY <1>1, Present DEF HoldSuspended
  <1>4. t \in Threads /\ t \in Registered /\ ~ x.exiting
    BY <1>1, <1>3, TargetFacts
  <1>5. ThreadOK(x) /\ th = [u \in Threads |-> th[u]] /\ x.pc \notin Unregistered
    BY <1>1, <1>4, Before DEF Registered, Unregistered
  <1>6. CanRaise(x, NULL)
    BY <1>1 DEF HoldSuspended, Target
  <1>7. /\ Moves(t, o) /\ Turns(r, q) /\ thread_list_lock' = NULL
        /\ UNCHANGED <<barrier, suspend_count_lock, suspend_all_count, runtime, aborted>>
    BY <1>1, <1>2, <1>3, <1>5 DEF HoldSuspended, Target, Be, Moves, Turns
  <1>8. /\ Stays(x, o) /\ o.count = x.count + 1 /\ o.state = x.state /\ o.barriers = x.barriers
        /\ o.claimed = x.claimed /\ CalmThread(x, o)
    BY <1>2, <1>5, <1>6, RaiseFacts
  <1>9. /\ q \in RequestRec /\ q.pc = "spin" /\ q.op = p.op /\ q.on = p.on /\ q.todo = p.todo
        /\ q.seen = p.seen /\ q.runs = p.runs
    BY <1>2, <1>3 DEF RequestRec, HoldPcs
  <1>10. RequestOK(q) /\ p.op = "checkpoint"
    BY <1>3, <1>9 DEF RequestOK, AskPcs, HoldPcs, SuspendPcs
  <1>11. Aims(r, q)
    BY <1>1, <1>3, <1>4, <1>9, <1>10 DEF Aims
  <1>12. Grips(r, t, o, q)
    BY <1>1, <1>3, <1>7, <1>8, <1>9, <1>10, <1>11 DEF Grips
  <1>. QED BY <1>1, <1>3, <1>4, <1>7, <1>12, GripStep

(* It is let go. *)
LEMMA LetGoKeeps ==
  ASSUME IInv, NEW r \in Requesters, LetGo(r)
  PROVE  IInv'
  <1>1. PICK p, t, x : p = rq[r] /\ t = rq[r].on /\ x = th[t]
    OBVIOUS
  <1>2. PICK o, q : o = Lower(x) /\ q = [p EXCEPT !.pc = "idle"]
    OBVIOUS
  <1>3. /\ rq = [s \in Requesters |-> rq[s]] /\ p \in RequestRec /\ RequestOK(p)
        /\ p.on = t /\ p.pc = "lower"
    BY <1>1, Present DEF LetGo
  <1>4. t \in Threads
    BY <1>1, <1>3, TargetFacts DEF HoldPcs
  <1>5. ThreadOK(x) /\ x \in ThreadRec /\ th = [u \in Threads |-> th[u]]
    BY <1>1, <1>4, Before
  <1>6. x.count > 0
    <2>1. Holds(r, t)
      BY <1>1, <1>3 DEF Holds, HoldPcs
    <2>2. x.count \in Nat /\ x.count # 0
      BY <1>1, <1>4, <1>5, <2>1, NotHeld DEF ThreadRec, IInv
    <2>. QED BY <2>2
  <1>7. /\ Moves(t, o) /\ Turns(r, q) /\ thread_list_lock' = thread_list_lock
        /\ UNCHANGED <<barrier, suspend_count_lock, suspend_all_count, runtime, aborted>>
    BY <1>1, <1>2, <1>3, <1>5 DEF LetGo, Target, Be, Moves, Turns, Rest, locks
  <1>8. /\ Stays(x, o) /\ o.count = x.count - 1 /\ o.state = x.state /\ o.barriers = x.barriers
        /\ o.claimed = x.claimed /\ CalmThread(x, o)
    BY <1>2, <1>5, <1>6, LowerFacts
  <1>9. /\ q \in RequestRec /\ q.pc = "idle" /\ q.op = p.op /\ q.on = p.on /\ q.todo = p.todo
        /\ q.seen = p.seen /\ q.runs = p.runs
    BY <1>2, <1>3 DEF RequestRec
  <1>10. RequestOK(q) /\ p.op = "checkpoint"
    BY <1>3, <1>9 DEF RequestOK, AskPcs, HoldPcs, SuspendPcs
  <1>11. Aims(r, q)
    BY <1>1, <1>9, <1>10 DEF Aims, AskPcs, HoldPcs
  <1>12. Grips(r, t, o, q)
    BY <1>1, <1>3, <1>7, <1>8, <1>9, <1>10, <1>11 DEF Grips
  <1>. QED BY <1>1, <1>3, <1>4, <1>7, <1>12, GripStep

-----------------------------------------------------------------------------
(* SuspendAll and ResumeAll *)

(* An object whose suspend count goes up with r's barrier *)
LEMMA RaiseBarrierFacts ==
  ASSUME NEW r \in Requesters, NEW x, ThreadOK(x), CanRaise(x, r), x.pc \notin Unregistered,
         r \notin x.barriers, r \notin x.claimed, NEW o, o = Raise(x, r)
  PROVE  /\ Stays(x, o) /\ o.count = x.count + 1 /\ o.state = x.state
         /\ o.barriers = x.barriers \cup {r}
         /\ o.claimed = x.claimed /\ CalmThread(x, o)
  <1>1. PICK f, n, b :
          /\ n = x.count + 1
          /\ f = x.flags \cup {"suspend"} \cup {"barrier"}
          /\ b = x.barriers \cup {r}
    OBVIOUS
  <1>2. /\ x \in ThreadRec /\ FlagsAgree(x) /\ PlaceAgrees(x) /\ ClosuresOnce(x)
        /\ Cardinality(x.barriers) <= MaxBarriers /\ ~ x.flip
        /\ r # NULL /\ Cardinality(x.barriers) < MaxBarriers
    BY DEF ThreadOK, CanRaise
  <1>3. /\ n \in Nat /\ f \in SUBSET Flags /\ n > 0 /\ b \in SUBSET Requesters
    BY <1>1, <1>2 DEF ThreadRec, Flags
  <1>4. o = [x EXCEPT !.count = n, !.barriers = b, !.flags = f]
    BY <1>1, <1>2 DEF Raise
  <1>5. /\ o \in ThreadRec /\ o.pc = x.pc /\ o.state = x.state /\ o.flags = f /\ o.count = n
        /\ o.barriers = b /\ o.claimed = x.claimed /\ o.checkpoints = x.checkpoints
        /\ o.closure = x.closure /\ o.back = x.back /\ o.child = x.child /\ o.flip = x.flip
        /\ o.transitioning = x.transitioning /\ o.exiting = x.exiting
    BY <1>2, <1>3, <1>4, ZenonT(60) DEF ThreadRec
  <1>6. FlagsAgree(o)
    <2>1. "suspend" \in f /\ ("checkpoint" \in f <=> "checkpoint" \in x.flags)
      BY <1>1
    <2>2. "barrier" \in f <=> b # {}
      BY <1>1
    <2>. QED BY <1>2, <1>3, <1>5, <2>1, <2>2 DEF FlagsAgree
  <1>7. PlaceAgrees(o)
    <2>1. f \cap Requested = x.flags \cap Requested
      BY <1>1 DEF Requested
    <2>2. b \cap x.claimed = {}
      BY <1>1, <1>2 DEF PlaceAgrees
    <2>. QED BY <1>2, <1>5, <2>1, <2>2 DEF PlaceAgrees
  <1>8. ClosuresOnce(o)
    BY <1>2, <1>5, SMTT(20) DEF ClosuresOnce
  <1>9. CalmThread(x, o)
    <2>1. "empty" \in f <=> "empty" \in x.flags
      BY <1>1
    <2>. QED BY <1>5, <2>1 DEF CalmThread, HasClosure
  <1>10. Cardinality(b) <= MaxBarriers
    <2>1. IsFiniteSet(x.barriers)
      BY <1>2, FS_Subset DEF ThreadRec
    <2>2. Cardinality(x.barriers \cup {r}) = Cardinality(x.barriers) + 1 /\ Cardinality(x.barriers) \in Nat
      BY <2>1, CardinalityStep
    <2>. QED BY <1>1, <1>2, <2>2
  <1>. QED BY <1>1, <1>5, <1>6, <1>7, <1>8, <1>9, <1>10 DEF Stays, ThreadOK

(* An object from which r's barrier is taken *)
LEMMA ClearBarrierFacts ==
  ASSUME NEW r \in Requesters, NEW x, ThreadOK(x), x.pc \notin Unregistered,
         NEW o, o = ClearSuspendBarrier(x, r)
  PROVE  /\ Stays(x, o) /\ o.count = x.count /\ o.state = x.state
         /\ o.barriers = x.barriers \ {r}
         /\ o.claimed = x.claimed /\ CalmThread(x, o)
  <1>1. PICK f, b :
          /\ f = IF x.barriers \subseteq {r} THEN x.flags \ {"barrier"} ELSE x.flags
          /\ b = x.barriers \ {r}
    OBVIOUS
  <1>2. /\ x \in ThreadRec /\ FlagsAgree(x) /\ PlaceAgrees(x) /\ ClosuresOnce(x)
        /\ Cardinality(x.barriers) <= MaxBarriers
    BY DEF ThreadOK
  <1>3. f \in SUBSET Flags /\ b \in SUBSET Requesters
    BY <1>1, <1>2 DEF ThreadRec
  <1>4. o = [x EXCEPT !.barriers = b, !.flags = f]
    BY <1>1, <1>2 DEF ClearSuspendBarrier
  <1>5. /\ o \in ThreadRec /\ o.pc = x.pc /\ o.state = x.state /\ o.flags = f /\ o.count = x.count
        /\ o.barriers = b /\ o.claimed = x.claimed /\ o.checkpoints = x.checkpoints
        /\ o.closure = x.closure /\ o.back = x.back /\ o.child = x.child /\ o.flip = x.flip
        /\ o.transitioning = x.transitioning /\ o.exiting = x.exiting
    BY <1>2, <1>3, <1>4, ZenonT(60) DEF ThreadRec
  <1>6. FlagsAgree(o)
    <2>1. ("suspend" \in f <=> "suspend" \in x.flags) /\ ("checkpoint" \in f <=> "checkpoint" \in x.flags)
      BY <1>1
    <2>2. "barrier" \in f <=> b # {}
      BY <1>1, <1>2 DEF FlagsAgree
    <2>. QED BY <1>2, <1>5, <2>1, <2>2 DEF FlagsAgree
  <1>7. PlaceAgrees(o)
    <2>1. f \cap Requested = x.flags \cap Requested
      BY <1>1 DEF Requested
    <2>2. b \cap x.claimed = {}
      BY <1>1, <1>2 DEF PlaceAgrees
    <2>. QED BY <1>2, <1>5, <2>1, <2>2 DEF PlaceAgrees
  <1>8. ClosuresOnce(o)
    BY <1>2, <1>5, SMTT(20) DEF ClosuresOnce
  <1>9. CalmThread(x, o)
    <2>1. "empty" \in f <=> "empty" \in x.flags
      BY <1>1
    <2>. QED BY <1>5, <2>1 DEF CalmThread, HasClosure
  <1>10. Cardinality(b) <= MaxBarriers
    <2>1. IsFiniteSet(x.barriers) /\ b \subseteq x.barriers
      BY <1>1, <1>2, FS_Subset DEF ThreadRec
    <2>2. Cardinality(b) <= Cardinality(x.barriers) /\ Cardinality(b) \in Nat /\ Cardinality(x.barriers) \in Nat
      BY <2>1, FS_Subset, FS_CardinalityType
    <2>. QED BY <1>2, <2>2
  <1>. QED BY <1>1, <1>5, <1>6, <1>7, <1>8, <1>9, <1>10 DEF Stays, ThreadOK

(* A step of SuspendAll with one thread: only r's place among the thread's *)
(* barriers changes, and r's own barrier with it.                          *)
Gathers(r, t, o, q, b) ==
  /\ Moves(t, o) /\ Turns(r, q)
  /\ barrier' = [s \in Requesters |-> IF s = r THEN b ELSE barrier[s]]
  /\ Stays(th[t], o) /\ Aims(r, q) /\ CalmThread(th[t], o)
  /\ o.state = th[t].state /\ o.claimed = th[t].claimed
  /\ \A s \in Requesters : s # r => (s \in o.barriers <=> s \in th[t].barriers)
  /\ rq[r].pc \in {"raising", "clearing"} /\ q.pc \in {"raising", "clearing"}
  /\ rq[r].op = "suspend" /\ q.op = "suspend"

(* It keeps the invariant if the barrier still counts the threads to come, *)
(* and a thread that runs although r suspends it has the barrier.          *)
LEMMA GatherStep ==
  ASSUME IInv, NEW r \in Requesters, NEW t \in Threads, NEW o, NEW q, NEW b \in Int,
         Gathers(r, t, o, q, b), LockInv', CountInv', b = Cardinality(Pending(r)'),
         \A u \in Threads : Suspends(r, u)' /\ Runnable(u)' => r \in th'[u].barriers,
         \A u \in q.todo : r \notin th'[u].barriers \cup th'[u].claimed,
         UNCHANGED <<runtime, aborted>>
  PROVE  IInv'
  <1>1. /\ th'[t] = o /\ (\A u \in Threads : u # t => th'[u] = th[u])
        /\ rq'[r] = q /\ (\A s \in Requesters : s # r => rq'[s] = rq[s])
        /\ ThreadInv' /\ RequestInv' /\ TargetInv' /\ BirthInv'
        /\ aborted' = NULL /\ Registered' = Registered
    <2>1. Moves(t, o) /\ Turns(r, q) /\ Stays(th[t], o) /\ Aims(r, q)
      BY DEF Gathers
    <2>. QED BY <2>1, JointParts
  <1>2. BarrierType' /\ barrier'[r] = b /\ \A s \in Requesters : s # r => barrier'[s] = barrier[s]
    BY DEF IInv, BarrierType, Gathers
  <1>3. BarrierInv'
    <2>1. \A s \in Requesters, u \in Threads :
            s # r => (s \in th'[u].barriers \cup th'[u].claimed <=> s \in th[u].barriers \cup th[u].claimed)
      BY <1>1 DEF Gathers
    <2>2. \A s \in Requesters : s # r => Pending(s)' = Pending(s)
      BY <1>1, <2>1 DEF Pending
    <2>3. rq'[r].pc \in {"raising", "clearing"}
      BY <1>1 DEF Gathers
    <2>4. ASSUME NEW s \in Requesters
          PROVE  /\ rq'[s].pc \in {"raising", "clearing", "gathering"} => barrier'[s] = Cardinality(Pending(s)')
                 /\ rq'[s].pc \notin {"raising", "clearing", "gathering"} => Pending(s)' = {}
                 /\ rq'[s].pc = "paused" \/ (rq'[s].pc = "idle" /\ rq'[s].op = "suspend") => barrier'[s] = 0
      <3>1. CASE s = r
        BY <1>2, <2>3, <3>1
      <3>2. CASE s # r
        BY <1>1, <1>2, <2>2, <3>2 DEF IInv, BarrierInv
      <3>. QED BY <3>1, <3>2
    <2>5. \A u \in Threads : Runnable(u)' <=> Runnable(u)
      BY <1>1 DEF Runnable, Gathers
    <2>6. ASSUME NEW s \in Requesters, NEW u \in Threads, Suspends(s, u)', Runnable(u)', s # r
          PROVE  s \in th'[u].barriers
      <3>1. Suspends(s, u)
        BY <1>1, <2>6 DEF Suspends
      <3>2. s \in th[u].barriers
        BY <2>5, <2>6, <3>1 DEF IInv, BarrierInv
      <3>. QED BY <1>1, <2>6, <3>2 DEF Gathers
    <2>7. ASSUME NEW s \in Requesters, NEW u \in rq'[s].todo
          PROVE  s \notin th'[u].barriers \cup th'[u].claimed
      <3>1. CASE s = r
        BY <1>1, <2>7, <3>1
      <3>2. CASE s # r
        <4>1. u \in rq[s].todo /\ u \in Threads
          BY <1>1, <2>7, <3>2, TargetFacts
        <4>. QED BY <2>1, <3>2, <4>1 DEF IInv, BarrierInv
      <3>. QED BY <3>1, <3>2
    <2>8. ASSUME NEW s \in Requesters, rq'[s].pc \in {"running", "lower"}
          PROVE  ~ Runnable(rq[s].on)'
      <3>1. s # r
        BY <2>3, <2>8
      <3>2. rq'[s] = rq[s]
        BY <1>1, <3>1
      <3>3. rq[s].on \in Threads /\ ~ Runnable(rq[s].on)
        BY <2>8, <3>2, TargetFacts DEF IInv, BarrierInv, HoldPcs
      <3>4. ~ (th'[rq[s].on].state = "Runnable")
        BY <2>5, <3>3 DEF Runnable
      <3>. QED BY <3>2, <3>4 DEF Runnable
    <2>. QED BY <2>4, <2>6, <2>7, <2>8 DEF BarrierInv
  <1>4. ClosureInv' /\ EmptyInv'
    <2>1. \A u \in Threads : CalmThread(th[u], th'[u])
      BY <1>1 DEF CalmThread, Gathers
    <2>2. \A s \in Requesters : CalmRequest(rq[s], rq'[s], barrier[s], barrier'[s])
      BY <1>1, <1>2 DEF CalmRequest, Gathers
    <2>. QED BY <2>1, <2>2, CalmParts
  <1>. QED BY <1>1, <1>2, <1>3, <1>4 DEF IInv

(* SuspendAll raises the count of one thread and gives it the barrier. *)
LEMMA RaiseOneKeeps ==
  ASSUME IInv, NEW r \in Requesters, RaiseOne(r)
  PROVE  IInv'
  <1>1. PICK p, b : p = rq[r] /\ b = barrier[r]
    OBVIOUS
  <1>2. /\ rq = [s \in Requesters |-> rq[s]] /\ barrier = [s \in Requesters |-> barrier[s]]
        /\ b \in Int /\ p \in RequestRec /\ RequestOK(p)
    BY <1>1, Present
  <1>3. PICK t \in p.todo :
          /\ CanRaise(th[t], r)
          /\ th' = [th EXCEPT ![t] = Raise(@, r)]
          /\ rq' = [rq EXCEPT ![r].pc = "clearing", ![r].on = t, ![r].todo = @ \ {t}]
    BY <1>1 DEF RaiseOne
  <1>4. /\ p.pc = "raising" /\ CountLockFree /\ suspend_count_lock' = r
        /\ UNCHANGED <<barrier, thread_list_lock, suspend_all_count, runtime, aborted>>
    BY <1>1 DEF RaiseOne
  <1>5. t \in Threads /\ t \in Registered /\ p.op = "suspend"
    BY <1>1, <1>2, <1>3, <1>4 DEF IInv, TargetInv, Registered, RequestOK, SuspendPcs
  <1>6. PICK x, o, d : x = th[t] /\ o = Raise(x, r) /\ d = p.todo \ {t}
    OBVIOUS
  <1>7. PICK q : q = [p EXCEPT !.pc = "clearing", !.on = t, !.todo = d]
    OBVIOUS
  <1>8. ThreadOK(x) /\ th = [u \in Threads |-> th[u]] /\ x.pc \notin Unregistered
    BY <1>5, <1>6, Before DEF Registered, Unregistered
  <1>9. r \notin x.barriers /\ r \notin x.claimed
    BY <1>1, <1>3, <1>6 DEF IInv, BarrierInv
  <1>10. Moves(t, o) /\ Turns(r, q) /\ barrier' = [s \in Requesters |-> IF s = r THEN b ELSE barrier[s]]
    <2>1. Moves(t, o)
      BY <1>3, <1>6, <1>8 DEF Moves
    <2>2. Turns(r, q)
      BY <1>1, <1>2, <1>3, <1>6, <1>7 DEF Turns
    <2>3. barrier' = [s \in Requesters |-> IF s = r THEN b ELSE barrier[s]]
      BY <1>1, <1>2, <1>4
    <2>. QED BY <2>1, <2>2, <2>3
  <1>11. /\ Stays(x, o) /\ o.count = x.count + 1 /\ o.state = x.state
         /\ o.barriers = x.barriers \cup {r} /\ o.claimed = x.claimed /\ CalmThread(x, o)
    <2>1. CanRaise(x, r) /\ o = Raise(x, r)
      BY <1>3, <1>6
    <2>. HIDE <1>6
    <2>. QED BY <1>8, <1>9, <2>1, RaiseBarrierFacts
  <1>12. /\ q \in RequestRec /\ q.pc = "clearing" /\ q.op = "suspend" /\ q.on = t
         /\ q.todo = p.todo \ {t} /\ q.seen = p.seen /\ q.runs = p.runs
    <2>1. d \in SUBSET Threads
      BY <1>2, <1>6 DEF RequestRec
    <2>. QED BY <1>2, <1>5, <1>6, <1>7, <2>1 DEF RequestRec, SuspendPcs
  <1>13. RequestOK(q)
    BY <1>2, <1>4, <1>12 DEF RequestOK, AskPcs, HoldPcs, SuspendPcs
  <1>14. Aims(r, q)
    BY <1>1, <1>12, <1>13 DEF Aims, AskPcs, HoldPcs
  <1>15. Gathers(r, t, o, q, b)
    BY <1>1, <1>4, <1>5, <1>6, <1>10, <1>11, <1>12, <1>14 DEF Gathers
  <1>16. /\ th'[t] = o /\ (\A u \in Threads : u # t => th'[u] = th[u])
         /\ rq'[r] = q /\ (\A s \in Requesters : s # r => rq'[s] = rq[s])
         /\ Registered' = Registered
    <2>1. Moves(t, o) /\ Turns(r, q) /\ Stays(th[t], o) /\ Aims(r, q) /\ UNCHANGED <<runtime, aborted>>
      BY <1>4, <1>6, <1>10, <1>11, <1>14
    <2>. QED BY <1>5, <2>1, JointParts
  <1>17. LockInv'
    <2>1. thread_list_lock = r
      BY <1>1, <1>4 DEF IInv, LockInv
    <2>. QED BY <1>1, <1>4, <1>10, <1>12, <2>1, LockStep DEF CountLockPcs, ListLockPcs
  <1>18. \A s \in Requesters, u \in Threads : Suspends(s, u)' <=> Suspends(s, u) \/ (s = r /\ u = t)
    <2>1. ASSUME NEW s \in Requesters, NEW u \in Threads
          PROVE  Suspends(s, u)' <=> Suspends(s, u) \/ (s = r /\ u = t)
      <3>1. CASE s = r
        BY <1>1, <1>3, <1>4, <1>5, <1>12, <1>16, <3>1 DEF Suspends, SuspendPcs
      <3>2. CASE s # r
        BY <1>16, <3>2 DEF Suspends
      <3>. QED BY <3>1, <3>2
    <2>. QED BY <2>1
  <1>19. CountInv'
    <2>1. Suspenders' = Suspenders
      <3>1. \A s \in Requesters : rq'[s].pc \in SuspendPcs <=> rq[s].pc \in SuspendPcs
        BY <1>1, <1>4, <1>12, <1>16 DEF SuspendPcs
      <3>. QED BY <3>1 DEF Suspenders
    <2>2. ASSUME NEW s \in Requesters, NEW u \in Threads
          PROVE  Holds(s, u)' <=> Holds(s, u) \/ (s = r /\ u = t)
      <3>1. rq[r].pc \notin HoldPcs /\ rq'[r].pc \notin HoldPcs
        BY <1>1, <1>4, <1>12, <1>16 DEF HoldPcs
      <3>. QED BY <1>16, <1>18, <3>1 DEF Holds
    <2>3. \A u \in Threads : u # t => Holders(u)' = Holders(u)
      BY <2>2 DEF Holders
    <2>4. Holders(t)' = Holders(t) \cup {r}
      BY <1>5, <2>2 DEF Holders
    <2>5. r \notin Holders(t)
      BY <1>1, <1>3, <1>4 DEF Holders, Holds, Suspends, HoldPcs
    <2>6. Cardinality(Holders(t) \cup {r}) = Cardinality(Holders(t)) + 1
      BY <2>5, PendingFinite, CardinalityStep
    <2>7. th[t].count = Cardinality(Holders(t))
      BY <1>5 DEF IInv, CountInv
    <2>8. th'[t].count = Cardinality(Holders(t)')
      BY <1>6, <1>11, <1>16, <2>4, <2>6, <2>7
    <2>9. \A u \in Threads : u # t => th'[u].count = Cardinality(Holders(u)')
      BY <1>16, <2>3 DEF IInv, CountInv
    <2>. QED BY <1>4, <2>1, <2>8, <2>9 DEF IInv, CountInv
  <1>20. b = Cardinality(Pending(r)')
    <2>1. b = Cardinality(Pending(r))
      BY <1>1, <1>4 DEF IInv, BarrierInv
    <2>2. \A u \in Threads : r \in th'[u].barriers \cup th'[u].claimed <=>
                               r \in th[u].barriers \cup th[u].claimed \/ u = t
      BY <1>6, <1>11, <1>16
    <2>3. rq'[r].todo = rq[r].todo \ {t} /\ t \in rq[r].todo
      BY <1>1, <1>3, <1>12, <1>16
    <2>4. Pending(r)' = Pending(r)
      BY <1>5, <2>2, <2>3 DEF Pending
    <2>. QED BY <2>1, <2>4
  <1>21. ASSUME NEW u \in Threads, Suspends(r, u)', Runnable(u)' PROVE r \in th'[u].barriers
    <2>1. CASE u = t
      BY <1>11, <1>16, <2>1
    <2>2. CASE u # t
      BY <1>16, <1>18, <1>21, <2>2 DEF IInv, BarrierInv, Runnable
    <2>. QED BY <2>1, <2>2
  <1>22. ASSUME NEW u \in q.todo PROVE r \notin th'[u].barriers \cup th'[u].claimed
    <2>1. u \in rq[r].todo /\ u # t /\ u \in Threads
      BY <1>1, <1>12, <1>22, TargetFacts
    <2>. QED BY <1>16, <2>1 DEF IInv, BarrierInv
  <1>. QED BY <1>2, <1>4, <1>5, <1>15, <1>17, <1>19, <1>20, <1>21, <1>22, GatherStep

(* It looks at the thread's state: for one that is not runnable the        *)
(* barrier is passed at once.                                              *)
LEMMA ClearOneKeeps ==
  ASSUME IInv, ClearInv, NEW r \in Requesters, ClearOne(r)
  PROVE  IInv'
  <1>1. PICK p, t : p = rq[r] /\ t = rq[r].on
    OBVIOUS
  <1>2. PICK x, b :
          /\ x = th[t]
          /\ b = IF x.state = "Runnable" THEN barrier[r] ELSE barrier[r] - 1
    OBVIOUS
  <1>3. PICK o, q :
          /\ o = IF x.state = "Runnable" THEN x ELSE ClearSuspendBarrier(x, r)
          /\ q = [p EXCEPT !.pc = "raising", !.on = NULL]
    OBVIOUS
  <1>4. /\ rq = [s \in Requesters |-> rq[s]] /\ barrier = [s \in Requesters |-> barrier[s]]
        /\ barrier[r] \in Int /\ p \in RequestRec /\ RequestOK(p)
    BY <1>1, Present
  <1>5. /\ p.pc = "clearing" /\ suspend_count_lock' = NULL
        /\ UNCHANGED <<thread_list_lock, suspend_all_count, runtime, aborted>>
    BY <1>1 DEF ClearOne
  <1>6. t \in Threads /\ t \in Registered /\ r \in x.barriers /\ p.op = "suspend"
    BY <1>1, <1>2, <1>4, <1>5 DEF ClearInv, Registered, RequestOK, SuspendPcs
  <1>7. ThreadOK(x) /\ th = [u \in Threads |-> th[u]] /\ x.pc \notin Unregistered
    BY <1>2, <1>6, Before DEF Registered, Unregistered
  <1>8. Moves(t, o) /\ Turns(r, q) /\ barrier' = [s \in Requesters |-> IF s = r THEN b ELSE barrier[s]]
    <2>1. Turns(r, q)
      BY <1>1, <1>3, <1>4 DEF ClearOne, Turns
    <2>2. CASE x.state = "Runnable"
      <3>1. th' = th /\ barrier' = barrier
        BY <1>1, <1>2, <2>2 DEF ClearOne, Target, Runnable
      <3>. QED BY <1>2, <1>3, <1>4, <1>7, <2>1, <2>2, <3>1 DEF Moves
    <2>3. CASE x.state # "Runnable"
      <3>1. /\ th' = [th EXCEPT ![t] = ClearSuspendBarrier(@, r)]
            /\ barrier' = [barrier EXCEPT ![r] = @ - 1]
        BY <1>1, <1>2, <2>3 DEF ClearOne, Target, Runnable
      <3>2. Moves(t, o)
        BY <1>2, <1>3, <1>7, <2>3, <3>1 DEF Moves
      <3>3. barrier' = [s \in Requesters |-> IF s = r THEN b ELSE barrier[s]]
        BY <1>2, <1>4, <2>3, <3>1
      <3>. QED BY <2>1, <3>2, <3>3
    <2>. QED BY <2>2, <2>3
  <1>9. /\ Stays(x, o) /\ o.count = x.count /\ o.state = x.state
        /\ o.barriers = IF x.state = "Runnable" THEN x.barriers ELSE x.barriers \ {r}
        /\ o.claimed = x.claimed /\ CalmThread(x, o)
    <2>1. CASE x.state = "Runnable"
      BY <1>3, <1>7, <2>1 DEF Stays, CalmThread
    <2>2. CASE x.state # "Runnable"
      <3>1. o = ClearSuspendBarrier(x, r)
        BY <1>3, <2>2
      <3>. HIDE <1>3
      <3>. QED BY <1>7, <2>2, <3>1, ClearBarrierFacts
    <2>. QED BY <2>1, <2>2
  <1>10. /\ q \in RequestRec /\ q.pc = "raising" /\ q.op = "suspend" /\ q.on = NULL
         /\ q.todo = p.todo /\ q.seen = p.seen /\ q.runs = p.runs
    BY <1>3, <1>4, <1>6 DEF RequestRec, SuspendPcs
  <1>11. RequestOK(q)
    BY <1>4, <1>5, <1>10 DEF RequestOK, AskPcs, HoldPcs, SuspendPcs
  <1>12. Aims(r, q)
    BY <1>1, <1>10, <1>11 DEF Aims, AskPcs, HoldPcs
  <1>13. Gathers(r, t, o, q, b)
    BY <1>1, <1>2, <1>5, <1>6, <1>8, <1>9, <1>10, <1>12 DEF Gathers
  <1>14. /\ th'[t] = o /\ (\A u \in Threads : u # t => th'[u] = th[u])
         /\ rq'[r] = q /\ (\A s \in Requesters : s # r => rq'[s] = rq[s])
         /\ Registered' = Registered
    <2>1. Moves(t, o) /\ Turns(r, q) /\ Stays(th[t], o) /\ Aims(r, q) /\ UNCHANGED <<runtime, aborted>>
      BY <1>2, <1>5, <1>8, <1>9, <1>12
    <2>. QED BY <1>6, <2>1, JointParts
  <1>15. LockInv'
    <2>1. thread_list_lock = r
      BY <1>1, <1>5 DEF IInv, LockInv
    <2>. QED BY <1>1, <1>5, <1>8, <1>10, <2>1, LockStep DEF CountLockPcs, ListLockPcs
  <1>16. \A s \in Requesters : /\ rq'[s].pc \in SuspendPcs <=> rq[s].pc \in SuspendPcs
                               /\ rq'[s].todo = rq[s].todo
    BY <1>1, <1>5, <1>10, <1>14 DEF SuspendPcs
  <1>17. \A s \in Requesters, u \in Threads : Suspends(s, u)' <=> Suspends(s, u)
    BY <1>14, <1>16 DEF Suspends
  <1>18. CountInv'
    <2>1. Suspenders' = Suspenders
      BY <1>16 DEF Suspenders
    <2>2. rq[r].pc \notin HoldPcs /\ rq'[r].pc \notin HoldPcs
      BY <1>1, <1>5, <1>10, <1>14 DEF HoldPcs
    <2>3. \A s \in Requesters, u \in Threads : Holds(s, u)' <=> Holds(s, u)
      BY <1>14, <1>17, <2>2 DEF Holds
    <2>4. \A u \in Threads : Holders(u)' = Holders(u)
      BY <2>3 DEF Holders
    <2>5. \A u \in Threads : th'[u].count = th[u].count
      BY <1>2, <1>9, <1>14
    <2>. QED BY <1>5, <2>1, <2>4, <2>5 DEF IInv, CountInv
  <1>19. b = Cardinality(Pending(r)') /\ b \in Int
    <2>1. barrier[r] = Cardinality(Pending(r)) /\ t \in Pending(r)
      BY <1>1, <1>2, <1>5, <1>6 DEF IInv, BarrierInv, Pending
    <2>2. r \notin x.claimed /\ t \notin rq[r].todo
      <3>1. r \notin x.claimed
        BY <1>6, <1>7 DEF ThreadOK, PlaceAgrees
      <3>2. t \notin rq[r].todo
        BY <1>2, <1>6 DEF IInv, BarrierInv
      <3>. QED BY <3>1, <3>2
    <2>3. Pending(r)' = IF x.state = "Runnable" THEN Pending(r) ELSE Pending(r) \ {t}
      <3>1. CASE x.state = "Runnable"
        <4>1. \A u \in Threads : r \in th'[u].barriers \cup th'[u].claimed <=>
                                   r \in th[u].barriers \cup th[u].claimed
          BY <1>2, <1>9, <1>14, <3>1
        <4>2. Pending(r)' = Pending(r)
          BY <1>16, <4>1 DEF Pending
        <4>. QED BY <3>1, <4>2
      <3>2. CASE x.state # "Runnable"
        <4>1. \A u \in Threads : r \in th'[u].barriers \cup th'[u].claimed <=>
                                   r \in th[u].barriers \cup th[u].claimed /\ u # t
          BY <1>2, <1>9, <1>14, <2>2, <3>2
        <4>2. Pending(r)' = Pending(r) \ {t}
          BY <1>16, <2>2, <4>1 DEF Pending
        <4>. QED BY <3>2, <4>2
      <3>. QED BY <3>1, <3>2
    <2>4. Cardinality(Pending(r) \ {t}) = Cardinality(Pending(r)) - 1
      BY <2>1, PendingFinite, CardinalityStep
    <2>. QED BY <1>2, <1>4, <2>1, <2>3, <2>4
  <1>20. ASSUME NEW u \in Threads, Suspends(r, u)', Runnable(u)' PROVE r \in th'[u].barriers
    <2>1. r \in th[u].barriers
      BY <1>2, <1>9, <1>14, <1>17, <1>20 DEF IInv, BarrierInv, Runnable
    <2>2. CASE u = t
      BY <1>2, <1>9, <1>14, <1>20, <2>1, <2>2 DEF Runnable
    <2>3. CASE u # t
      BY <1>14, <2>1, <2>3
    <2>. QED BY <2>2, <2>3
  <1>21. ASSUME NEW u \in q.todo PROVE r \notin th'[u].barriers \cup th'[u].claimed
    <2>1. u \in rq[r].todo /\ u \in Threads
      BY <1>1, <1>10, <1>21, TargetFacts
    <2>2. u # t
      BY <1>2, <1>6, <2>1 DEF IInv, BarrierInv
    <2>. QED BY <1>14, <2>1, <2>2 DEF IInv, BarrierInv
  <1>. QED BY <1>5, <1>6, <1>13, <1>15, <1>18, <1>19, <1>20, <1>21, GatherStep

(* SuspendAll begins: nobody is held yet, and all have to pass. *)
LEMMA SuspendAllKeeps ==
  ASSUME IInv, NEW r \in Requesters, SuspendAll(r)
  PROVE  IInv'
  <1>1. PICK p, l : p = rq[r] /\ l = p.left - 1
    OBVIOUS
  <1>2. PICK q : q = [p EXCEPT !.pc = "raising", !.op = "suspend", !.on = NULL,
                               !.todo = Registered, !.left = l]
    OBVIOUS
  <1>3. /\ rq = [s \in Requesters |-> rq[s]] /\ barrier = [s \in Requesters |-> barrier[s]]
        /\ p \in RequestRec /\ RequestOK(p)
    BY <1>1, Present
  <1>4. /\ p.pc = "idle" /\ p.left > 0 /\ ListLockFree /\ thread_list_lock' = r
        /\ suspend_all_count' = suspend_all_count + 1
        /\ th' = th /\ suspend_count_lock' = suspend_count_lock /\ UNCHANGED <<runtime, aborted>>
    BY <1>1 DEF SuspendAll
  <1>5. /\ Turns(r, q)
        /\ barrier' = [s \in Requesters |-> IF s = r THEN Cardinality(Registered) ELSE barrier[s]]
    <2>1. Turns(r, q)
      BY <1>1, <1>2, <1>3 DEF SuspendAll, Turns
    <2>. QED BY <1>3, <2>1 DEF SuspendAll
  <1>6. Registered \in SUBSET Threads /\ IsFiniteSet(Registered) /\ Cardinality(Registered) \in Nat
    <2>1. Registered \subseteq Threads
      BY DEF Registered
    <2>. QED BY <2>1, FS_Subset, FS_CardinalityType
  <1>7. /\ q \in RequestRec /\ q.pc = "raising" /\ q.op = "suspend" /\ q.todo = Registered
    <2>1. p.left \in 0 .. MaxRequests
      BY <1>3 DEF RequestRec
    <2>2. l \in 0 .. MaxRequests
      BY <1>1, <1>4, <2>1
    <2>3. "raising" \in {"idle", "raise", "holding"} \cup AskPcs \cup HoldPcs \cup SuspendPcs
      BY DEF SuspendPcs
    <2>. QED BY <1>2, <1>3, <1>6, <2>2, <2>3 DEF RequestRec
  <1>8. RequestOK(q)
    BY <1>7 DEF RequestOK, AskPcs, HoldPcs, SuspendPcs
  <1>9. /\ rq'[r] = q /\ (\A s \in Requesters : s # r => rq'[s] = rq[s])
        /\ rq' = [s \in Requesters |-> rq'[s]]
        /\ barrier'[r] = Cardinality(Registered)
        /\ (\A s \in Requesters : s # r => barrier'[s] = barrier[s]) /\ BarrierType'
    <2>1. rq'[r] = q /\ (\A s \in Requesters : s # r => rq'[s] = rq[s])
          /\ rq' = [s \in Requesters |-> rq'[s]]
      BY <1>5 DEF Turns
    <2>2. barrier'[r] = Cardinality(Registered) /\ \A s \in Requesters : s # r => barrier'[s] = barrier[s]
      BY <1>5
    <2>3. BarrierType'
      BY <1>5, <1>6 DEF IInv, BarrierType
    <2>. QED BY <2>1, <2>2, <2>3
  <1>10. Registered' = Registered /\ births' = births /\ shutdown' = shutdown /\ aborted' = aborted
    BY <1>4 DEF Registered, runtime
  <1>11. ThreadInv' /\ BirthInv' /\ aborted' = NULL
    BY <1>4, <1>10 DEF IInv, ThreadInv, BirthInv, Unborn
  <1>12. RequestInv'
    BY <1>8, <1>9 DEF IInv, RequestInv
  <1>13. TargetInv'
    <2>1. ASSUME NEW s \in Requesters
          PROVE  /\ rq'[s].pc \in AskPcs \cup HoldPcs \cup {"raise", "holding"} =>
                      rq'[s].on \in Registered /\ ~ th[rq'[s].on].exiting
                 /\ rq'[s].todo \subseteq Registered
      <3>1. CASE s = r
        BY <1>7, <1>9, <3>1 DEF AskPcs, HoldPcs
      <3>2. CASE s # r
        BY <1>9, <3>2 DEF IInv, TargetInv
      <3>. QED BY <3>1, <3>2
    <2>. QED BY <1>4, <1>10, <2>1 DEF TargetInv
  <1>14. LockInv'
    BY <1>1, <1>4, <1>5, <1>7, LockStep DEF CountLockPcs, ListLockPcs
  <1>15. \A s \in Requesters, u \in Threads : Suspends(s, u)' <=> Suspends(s, u)
    BY <1>1, <1>4, <1>7, <1>9, <1>10 DEF Suspends, SuspendPcs
  <1>16. CountInv'
    <2>1. ASSUME NEW s \in Requesters, NEW u \in Threads PROVE Holds(s, u)' <=> Holds(s, u)
      BY <1>1, <1>4, <1>7, <1>9, <1>15 DEF Holds, HoldPcs
    <2>2. \A u \in Threads : Holders(u)' = Holders(u)
      BY <2>1 DEF Holders
    <2>3. Suspenders' = Suspenders \cup {r} /\ r \notin Suspenders
      BY <1>1, <1>4, <1>7, <1>9 DEF Suspenders, SuspendPcs
    <2>4. Cardinality(Suspenders \cup {r}) = Cardinality(Suspenders) + 1
      BY <2>3, PendingFinite, CardinalityStep
    <2>. QED BY <1>4, <2>2, <2>3, <2>4 DEF IInv, CountInv
  <1>17. BarrierInv'
    <2>0. Pending(r) = {}
      BY <1>1, <1>4 DEF IInv, BarrierInv
    <2>1. Pending(r)' = Registered
      BY <1>4, <1>6, <1>7, <1>9, <2>0 DEF Pending
    <2>2. \A s \in Requesters : s # r => Pending(s)' = Pending(s)
      BY <1>4, <1>9 DEF Pending
    <2>3. ASSUME NEW s \in Requesters
          PROVE  /\ rq'[s].pc \in {"raising", "clearing", "gathering"} => barrier'[s] = Cardinality(Pending(s)')
                 /\ rq'[s].pc \notin {"raising", "clearing", "gathering"} => Pending(s)' = {}
                 /\ rq'[s].pc = "paused" \/ (rq'[s].pc = "idle" /\ rq'[s].op = "suspend") => barrier'[s] = 0
      <3>1. CASE s = r
        BY <1>7, <1>9, <2>1, <3>1
      <3>2. CASE s # r
        BY <1>9, <2>2, <3>2 DEF IInv, BarrierInv
      <3>. QED BY <3>1, <3>2
    <2>4. ASSUME NEW s \in Requesters, NEW u \in rq'[s].todo
          PROVE  s \notin th'[u].barriers \cup th'[u].claimed
      <3>1. CASE s = r
        BY <1>4, <1>6, <1>7, <1>9, <2>0, <2>4, <3>1 DEF Pending
      <3>2. CASE s # r
        BY <1>4, <1>9, <2>4, <3>2 DEF IInv, BarrierInv
      <3>. QED BY <3>1, <3>2
    <2>5. \A s \in Requesters, u \in Threads : Suspends(s, u)' /\ Runnable(u)' => s \in th'[u].barriers
      BY <1>4, <1>15 DEF IInv, BarrierInv, Runnable
    <2>6. ASSUME NEW s \in Requesters, rq'[s].pc \in {"running", "lower"}
          PROVE  ~ Runnable(rq[s].on)'
      <3>1. s # r
        BY <1>7, <1>9, <2>6
      <3>. QED BY <1>4, <1>9, <2>6, <3>1 DEF IInv, BarrierInv, Runnable
    <2>. QED BY <2>3, <2>4, <2>5, <2>6 DEF BarrierInv
  <1>18. ClosureInv' /\ EmptyInv'
    <2>1. \A u \in Threads : CalmThread(th[u], th'[u])
      BY <1>4 DEF CalmThread
    <2>2. \A s \in Requesters : CalmRequest(rq[s], rq'[s], barrier[s], barrier'[s])
      BY <1>1, <1>4, <1>7, <1>9 DEF CalmRequest
    <2>. QED BY <2>1, <2>2, CalmParts
  <1>. QED BY <1>9, <1>11, <1>12, <1>13, <1>14, <1>16, <1>17, <1>18 DEF IInv

(* An object whose suspend count goes down, and whose thread wakes, with a *)
(* flip function if this was the last that held it                         *)
Woken(x, o) ==
  /\ ThreadOK(o) /\ o.count = x.count - 1 /\ o.state = x.state /\ o.barriers = x.barriers
  /\ o.claimed = x.claimed /\ CalmThread(x, o) /\ o.exiting = x.exiting /\ o.child = x.child
  /\ o.pc = x.pc \/ (x.pc = "asleep" /\ o.pc = "awake")

(* Such an object is in order. *)
LEMMA WokenFacts ==
  ASSUME NEW x, ThreadOK(x), x.count > 0, NEW fl \in BOOLEAN, fl => x.transitioning /\ x.count = 1,
         NEW o, o = [Lower(x) EXCEPT !.flip = @ \/ fl, !.pc = IF @ = "asleep" THEN "awake" ELSE @]
  PROVE  Woken(x, o)
  <1>1. PICK y : y = Lower(x)
    OBVIOUS
  <1>2. /\ Stays(x, y) /\ y.count = x.count - 1 /\ y.state = x.state /\ y.barriers = x.barriers
        /\ y.claimed = x.claimed /\ CalmThread(x, y) /\ y.transitioning = x.transitioning
        /\ y.flip = x.flip /\ y \in ThreadRec
    BY <1>1, LowerFacts
  <1>3. /\ ThreadOK(y) /\ FlagsAgree(y) /\ PlaceAgrees(y) /\ ClosuresOnce(y)
        /\ Cardinality(y.barriers) <= MaxBarriers /\ y.pc = x.pc
        /\ y.exiting = x.exiting /\ y.child = x.child
    BY <1>2 DEF Stays, ThreadOK
  <1>4. x.flip = FALSE /\ x.count \in Nat
    BY DEF ThreadOK, PlaceAgrees, ThreadRec
  <1>5. PICK v : v = IF y.pc = "asleep" THEN "awake" ELSE y.pc
    OBVIOUS
  <1>6. o = [y EXCEPT !.flip = fl, !.pc = v]
    <2>1. (y.flip \/ fl) = fl
      BY <1>2, <1>4
    <2>. QED BY <1>1, <1>2, <1>5, <2>1 DEF ThreadRec
  <1>7. /\ o \in ThreadRec /\ o.pc = v /\ o.state = y.state /\ o.flags = y.flags /\ o.count = y.count
        /\ o.barriers = y.barriers /\ o.claimed = y.claimed /\ o.checkpoints = y.checkpoints
        /\ o.closure = y.closure /\ o.back = y.back /\ o.child = y.child /\ o.flip = fl
        /\ o.transitioning = y.transitioning /\ o.exiting = y.exiting
    <2>1. v \in Unregistered \cup RunPcs \cup IdlePcs
      BY <1>2, <1>5 DEF ThreadRec, IdlePcs
    <2>. QED BY <1>2, <1>6, <2>1 DEF ThreadRec
  <1>8. FlagsAgree(o)
    BY <1>3, <1>7 DEF FlagsAgree
  <1>9. PlaceAgrees(o)
    <2>1. fl => v = "awake" /\ y.count = 0
      BY <1>2, <1>3, <1>4, <1>5 DEF PlaceAgrees
    <2>2. CASE y.pc # "asleep"
      BY <1>3, <1>5, <1>7, <2>1, <2>2 DEF PlaceAgrees
    <2>3. CASE y.pc = "asleep"
      BY <1>3, <1>5, <1>7, <2>1, <2>3 DEF PlaceAgrees, RunPcs, Unregistered
    <2>. QED BY <2>2, <2>3
  <1>10. ClosuresOnce(o)
    BY <1>3, <1>7 DEF ClosuresOnce
  <1>11. CalmThread(x, o)
    BY <1>2, <1>7 DEF CalmThread, HasClosure
  <1>12. o.pc = x.pc \/ (x.pc = "asleep" /\ o.pc = "awake")
    BY <1>3, <1>5, <1>7
  <1>. QED BY <1>2, <1>3, <1>7, <1>8, <1>9, <1>10, <1>11, <1>12 DEF Woken, ThreadOK

(* ResumeAll lets every thread go that it holds, and it holds them all. *)
LEMMA ResumeAllKeeps ==
  ASSUME IInv, NEW r \in Requesters, ResumeAll(r)
  PROVE  IInv'
  <1>1. PICK p, q : p = rq[r] /\ q = [p EXCEPT !.pc = "idle"]
    OBVIOUS
  <1>2. /\ rq = [s \in Requesters |-> rq[s]] /\ p \in RequestRec /\ RequestOK(p)
    BY <1>1, Present
  <1>3. p.pc = "paused" /\ p.op = "suspend" /\ p.todo = {}
    BY <1>1, <1>2 DEF ResumeAll, RequestOK, SuspendPcs
  <1>4. /\ Turns(r, q) /\ barrier' = barrier /\ suspend_all_count' = suspend_all_count - 1
        /\ suspend_count_lock' = suspend_count_lock /\ thread_list_lock' = thread_list_lock
        /\ births' = births /\ shutdown' = shutdown /\ aborted' = aborted
    BY <1>1, <1>2 DEF ResumeAll, Be, Turns, locks, runtime
  <1>5. /\ q \in RequestRec /\ q.pc = "idle" /\ q.op = "suspend" /\ q.on = p.on /\ q.todo = {}
        /\ q.seen = p.seen /\ q.runs = p.runs
    BY <1>1, <1>2, <1>3 DEF RequestRec
  <1>6. RequestOK(q)
    BY <1>5 DEF RequestOK, AskPcs, HoldPcs, SuspendPcs
  <1>7. /\ rq'[r] = q /\ (\A s \in Requesters : s # r => rq'[s] = rq[s])
        /\ rq' = [s \in Requesters |-> rq'[s]]
    BY <1>4 DEF Turns
  <1>8. PICK flips \in {{}, {t \in Registered : th[t].transitioning /\ th[t].count = 1}} :
          th' = [t \in Threads |->
            IF t \notin Registered THEN th[t]
            ELSE [Lower(th[t]) EXCEPT !.flip = @ \/ t \in flips,
                                      !.pc = IF @ = "asleep" THEN "awake" ELSE @]]
    BY DEF ResumeAll
  <1>9. \A t \in flips : th[t].transitioning /\ th[t].count = 1
    BY <1>8
  <1>10. \A u \in Registered : Suspends(r, u) /\ u \in Threads
    BY <1>1, <1>3 DEF Suspends, SuspendPcs, Registered
  <1>11. ASSUME NEW u \in Registered PROVE Woken(th[u], th'[u])
    <2>1. u \in Threads /\ ThreadOK(th[u]) /\ th[u] \in ThreadRec
      BY <1>10, Before
    <2>2. th[u].count # 0 /\ th[u].count \in Nat
      BY <1>10, <2>1, NotHeld DEF ThreadRec, IInv, Holds
    <2>3. PICK x, fl : x = th[u] /\ fl = (u \in flips)
      OBVIOUS
    <2>4. th'[u] = [Lower(x) EXCEPT !.flip = @ \/ fl, !.pc = IF @ = "asleep" THEN "awake" ELSE @]
      BY <1>8, <1>11, <2>1, <2>3
    <2>5. fl \in BOOLEAN /\ (fl => x.transitioning /\ x.count = 1) /\ ThreadOK(x) /\ x.count > 0
      <3>1. fl \in BOOLEAN
        <4>1. (u \in flips) = TRUE \/ (u \in flips) = FALSE
          OBVIOUS
        <4>. QED BY <2>3, <4>1
      <3>2. fl => x.transitioning /\ x.count = 1
        BY <1>9, <2>3, Zenon
      <3>3. ThreadOK(x) /\ x.count > 0
        BY <2>1, <2>2, <2>3
      <3>. QED BY <3>1, <3>2, <3>3
    <2>6. Woken(x, th'[u])
      BY <2>4, <2>5, WokenFacts
    <2>. QED BY <2>3, <2>6
  <1>12. \A u \in Threads : u \notin Registered => th'[u] = th[u]
    BY <1>8
  <1>13. th' = [u \in Threads |-> th'[u]]
    BY <1>8
  <1>. HIDE <1>8
  <1>14. \A u \in Threads :
           /\ th'[u].state = th[u].state /\ th'[u].barriers = th[u].barriers
           /\ th'[u].claimed = th[u].claimed /\ CalmThread(th[u], th'[u])
           /\ th'[u].exiting = th[u].exiting /\ th'[u].child = th[u].child
           /\ th'[u].pc = th[u].pc \/ (th[u].pc = "asleep" /\ th'[u].pc = "awake")
           /\ th'[u].count = IF u \in Registered THEN th[u].count - 1 ELSE th[u].count
    <2>1. ASSUME NEW u \in Threads, u \notin Registered PROVE CalmThread(th[u], th'[u])
      BY <1>12, <2>1 DEF CalmThread
    <2>. QED BY <1>11, <1>12, <2>1 DEF Woken
  <1>15. ThreadInv'
    <2>1. \A u \in Threads : ThreadOK(th'[u])
      BY <1>11, <1>12 DEF IInv, ThreadInv, Woken
    <2>. QED BY <1>13, <2>1 DEF ThreadInv
  <1>16. Registered' = Registered
    BY <1>14 DEF Registered
  <1>17. RequestInv'
    BY <1>6, <1>7 DEF IInv, RequestInv
  <1>18. TargetInv'
    <2>1. ASSUME NEW s \in Requesters
          PROVE  /\ rq'[s].pc \in AskPcs \cup HoldPcs \cup {"raise", "holding"} =>
                      rq'[s].on \in Registered /\ ~ th[rq'[s].on].exiting
                 /\ rq'[s].todo \subseteq Registered
      <3>1. CASE s = r
        BY <1>5, <1>7, <3>1 DEF AskPcs, HoldPcs
      <3>2. CASE s # r
        BY <1>7, <3>2 DEF IInv, TargetInv
      <3>. QED BY <3>1, <3>2
    <2>. QED BY <1>10, <1>14, <1>16, <2>1 DEF TargetInv
  <1>19. LockInv'
    BY <1>1, <1>3, <1>4, <1>5, LockStep DEF CountLockPcs, ListLockPcs
  <1>20. BarrierType' /\ aborted' = NULL
    BY <1>4 DEF IInv, BarrierType
  <1>21. BirthInv'
    <2>1. Unborn' = Unborn
      BY <1>14 DEF Unborn
    <2>2. \A u \in Threads : /\ th'[u].pc = "creating" <=> th[u].pc = "creating"
                             /\ th'[u].pc = "unborn" <=> th[u].pc = "unborn"
      BY <1>14
    <2>. QED BY <1>4, <1>14, <2>1, <2>2 DEF IInv, BirthInv
  <1>22. \A s \in Requesters, u \in Threads : Suspends(s, u)' <=> Suspends(s, u) /\ s # r
    BY <1>1, <1>3, <1>5, <1>7, <1>16 DEF Suspends, SuspendPcs
  <1>23. CountInv'
    <2>1. Suspenders' = Suspenders \ {r} /\ r \in Suspenders
      BY <1>1, <1>3, <1>5, <1>7, ZenonT(60) DEF Suspenders, SuspendPcs
    <2>2. Cardinality(Suspenders \ {r}) = Cardinality(Suspenders) - 1
      BY <2>1, PendingFinite, CardinalityStep
    <2>3. ASSUME NEW s \in Requesters, NEW u \in Threads PROVE Holds(s, u)' <=> Holds(s, u) /\ s # r
      BY <1>1, <1>3, <1>5, <1>7, <1>22 DEF Holds, HoldPcs
    <2>4. \A u \in Threads : Holders(u)' = Holders(u) \ {r}
      BY <2>3 DEF Holders
    <2>5. ASSUME NEW u \in Threads PROVE th'[u].count = Cardinality(Holders(u)')
      <3>1. th[u].count = Cardinality(Holders(u))
        BY DEF IInv, CountInv
      <3>2. CASE u \in Registered
        <4>1. r \in Holders(u)
          BY <1>10, <3>2 DEF Holders, Holds
        <4>2. Cardinality(Holders(u) \ {r}) = Cardinality(Holders(u)) - 1
          BY <4>1, PendingFinite, CardinalityStep
        <4>. QED BY <1>14, <2>4, <3>1, <3>2, <4>2
      <3>3. CASE u \notin Registered
        <4>1. r \notin Holders(u)
          BY <1>1, <1>3, <3>3 DEF Holders, Holds, Suspends, HoldPcs
        <4>2. Holders(u)' = Holders(u)
          BY <2>4, <4>1
        <4>. QED BY <1>14, <3>1, <3>3, <4>2
      <3>. QED BY <3>2, <3>3
    <2>. QED BY <1>4, <2>1, <2>2, <2>5 DEF IInv, CountInv
  <1>24. BarrierInv'
    <2>1. \A s \in Requesters : rq'[s].todo = rq[s].todo /\ rq'[s].on = rq[s].on /\ rq'[s].op = rq[s].op
      BY <1>1, <1>3, <1>5, <1>7, ZenonT(60)
    <2>2. \A s \in Requesters : Pending(s)' = Pending(s)
      BY <1>14, <2>1 DEF Pending
    <2>3. ASSUME NEW s \in Requesters
          PROVE  /\ rq'[s].pc \in {"raising", "clearing", "gathering"} => barrier'[s] = Cardinality(Pending(s)')
                 /\ rq'[s].pc \notin {"raising", "clearing", "gathering"} => Pending(s)' = {}
                 /\ rq'[s].pc = "paused" \/ (rq'[s].pc = "idle" /\ rq'[s].op = "suspend") => barrier'[s] = 0
      <3>1. CASE s = r
        BY <1>1, <1>3, <1>4, <1>5, <1>7, <2>2, <3>1 DEF IInv, BarrierInv
      <3>2. CASE s # r
        BY <1>4, <1>7, <2>2, <3>2 DEF IInv, BarrierInv
      <3>. QED BY <3>1, <3>2
    <2>4. \A s \in Requesters : \A u \in rq'[s].todo : s \notin th'[u].barriers \cup th'[u].claimed
      <3>1. \A s \in Requesters : \A u \in rq[s].todo : u \in Threads
        BY TargetFacts
      <3>. QED BY <1>14, <2>1, <3>1 DEF IInv, BarrierInv
    <2>5. \A s \in Requesters, u \in Threads : Suspends(s, u)' /\ Runnable(u)' => s \in th'[u].barriers
      BY <1>14, <1>22 DEF IInv, BarrierInv, Runnable
    <2>6. ASSUME NEW s \in Requesters, rq'[s].pc \in {"running", "lower"}
          PROVE  ~ Runnable(rq[s].on)'
      <3>1. rq[s].pc \in {"running", "lower"}
        BY <1>5, <1>7, <2>6
      <3>2. rq[s].on \in Threads /\ th[rq[s].on].state # "Runnable"
        BY <3>1, TargetFacts DEF IInv, BarrierInv, Runnable, HoldPcs
      <3>3. th'[rq[s].on].state # "Runnable"
        BY <1>14, <3>2
      <3>. QED BY <2>1, <3>3 DEF Runnable
    <2>. QED BY <2>3, <2>4, <2>5, <2>6 DEF BarrierInv
  <1>25. ClosureInv' /\ EmptyInv'
    <2>1. \A u \in Threads : CalmThread(th[u], th'[u])
      BY <1>14
    <2>2. \A s \in Requesters : CalmRequest(rq[s], rq'[s], barrier[s], barrier'[s])
      BY <1>1, <1>3, <1>4, <1>5, <1>7 DEF CalmRequest
    <2>. QED BY <2>1, <2>2, CalmParts
  <1>. QED BY <1>15, <1>17, <1>18, <1>19, <1>20, <1>21, <1>23, <1>24, <1>25 DEF IInv

-----------------------------------------------------------------------------
(* Threads are born and detached *)

(* A thread that becomes or ceases to be registered brings no barrier and  *)
(* no closure, and does not run.                                           *)
Outward(x, o) ==
  /\ CalmThread(x, o) /\ o.barriers = x.barriers /\ o.claimed = x.claimed
  /\ o.state = "Runnable" => x.state = "Runnable"

(* What is left to show of a step of threads among themselves *)
LEMMA RegistryStep ==
  ASSUME IInv, ThreadInv', TargetInv', BirthInv',
         \A u \in Threads : th'[u].count = Cardinality(Holders(u)'),
         \A u \in Threads : Outward(th[u], th'[u]),
         UNCHANGED <<rq, barrier, locks, suspend_all_count, aborted>>
  PROVE  IInv'
  <1>1. /\ rq' = rq /\ barrier' = barrier /\ suspend_all_count' = suspend_all_count /\ aborted' = aborted
        /\ suspend_count_lock' = suspend_count_lock /\ thread_list_lock' = thread_list_lock
    BY DEF locks
  <1>2. RequestInv' /\ BarrierType' /\ LockInv' /\ aborted' = NULL
    BY <1>1 DEF IInv, RequestInv, BarrierType, LockInv
  <1>3. CountInv'
    <2>1. Suspenders' = Suspenders
      BY <1>1 DEF Suspenders
    <2>. QED BY <1>1, <2>1 DEF IInv, CountInv
  <1>4. BarrierInv'
    <2>1. \A s \in Requesters : Pending(s)' = Pending(s)
      BY <1>1 DEF Pending, Outward
    <2>2. \A s \in Requesters : \A u \in rq[s].todo : s \notin th'[u].barriers \cup th'[u].claimed
      <3>1. \A s \in Requesters : \A u \in rq[s].todo : u \in Threads
        BY TargetFacts
      <3>. QED BY <3>1 DEF IInv, BarrierInv, Outward
    <2>3. ASSUME NEW s \in Requesters, NEW u \in Threads, Suspends(s, u)', Runnable(u)'
          PROVE  s \in th'[u].barriers
      <3>1. Runnable(u) /\ th'[u].barriers = th[u].barriers
        BY <2>3 DEF Outward, Runnable
      <3>2. u \in Registered
        BY <3>1, Before DEF Runnable, PlaceAgrees, RunPcs, Registered
      <3>3. Suspends(s, u)
        BY <1>1, <2>3, <3>2 DEF Suspends
      <3>. QED BY <3>1, <3>3 DEF IInv, BarrierInv
    <2>4. ASSUME NEW s \in Requesters, rq[s].pc \in {"running", "lower"}
          PROVE  ~ Runnable(rq[s].on)'
      <3>1. rq[s].on \in Threads /\ th[rq[s].on].state # "Runnable"
        BY <2>4, TargetFacts DEF IInv, BarrierInv, Runnable, HoldPcs
      <3>2. th'[rq[s].on].state # "Runnable"
        BY <3>1 DEF Outward
      <3>. QED BY <1>1, <3>2 DEF Runnable
    <2>. QED BY <1>1, <2>1, <2>2, <2>3, <2>4 DEF IInv, BarrierInv
  <1>5. ClosureInv' /\ EmptyInv'
    <2>1. \A u \in Threads : CalmThread(th[u], th'[u])
      BY DEF Outward
    <2>2. \A s \in Requesters : CalmRequest(rq[s], rq'[s], barrier[s], barrier'[s])
      BY <1>1 DEF CalmRequest
    <2>. QED BY <2>1, <2>2, CalmParts
  <1>. QED BY <1>2, <1>3, <1>4, <1>5 DEF IInv

(* Only where the thread is changes, and it is registered as before. *)
Quiet(x, o) ==
  /\ Outward(x, o) /\ ThreadOK(o) /\ o.count = x.count /\ o.exiting = x.exiting
  /\ o.pc \in Unregistered <=> x.pc \in Unregistered

(* A thread in native code that creates one, or one that is not registered *)
Placed(x, v, d) == [x EXCEPT !.pc = v, !.child = d]
NearBirth(p, v) ==
  \/ p \in {"native", "creating"} /\ v \in {"native", "creating"}
  \/ p \in Unregistered /\ v \in Unregistered

(* Its step is quiet. *)
LEMMA QuietFacts ==
  ASSUME NEW x, ThreadOK(x), NEW v, NEW d \in Threads \cup {NULL}, NEW o,
         NearBirth(x.pc, v), o = Placed(x, v, d)
  PROVE  Quiet(x, o) /\ o.pc = v /\ o.child = d
  <1>1. x \in ThreadRec /\ FlagsAgree(x) /\ PlaceAgrees(x) /\ ClosuresOnce(x)
        /\ Cardinality(x.barriers) <= MaxBarriers
    BY DEF ThreadOK
  <1>2. v \in Unregistered \cup RunPcs \cup IdlePcs
    BY DEF IdlePcs, NearBirth
  <1>3. /\ o \in ThreadRec /\ o.pc = v /\ o.state = x.state /\ o.flags = x.flags /\ o.count = x.count
        /\ o.barriers = x.barriers /\ o.claimed = x.claimed /\ o.checkpoints = x.checkpoints
        /\ o.closure = x.closure /\ o.back = x.back /\ o.child = d /\ o.flip = x.flip
        /\ o.transitioning = x.transitioning /\ o.exiting = x.exiting
    BY <1>1, <1>2 DEF ThreadRec, Placed
  <1>4. FlagsAgree(o) /\ ClosuresOnce(o)
    BY <1>1, <1>3 DEF FlagsAgree, ClosuresOnce
  <1>5. PlaceAgrees(o)
    <2>1. CASE x.pc \in {"native", "creating"} /\ v \in {"native", "creating"}
      BY <1>1, <1>3, <2>1 DEF PlaceAgrees, RunPcs, Unregistered
    <2>2. CASE x.pc \in Unregistered /\ v \in Unregistered
      BY <1>1, <1>3, <2>2 DEF PlaceAgrees, RunPcs, Unregistered
    <2>. QED BY <2>1, <2>2 DEF NearBirth
  <1>6. CalmThread(x, o)
    BY <1>3 DEF CalmThread, HasClosure
  <1>7. o.pc \in Unregistered <=> x.pc \in Unregistered
    BY <1>3 DEF Unregistered, NearBirth
  <1>. QED BY <1>1, <1>3, <1>4, <1>5, <1>6, <1>7 DEF Quiet, Outward, ThreadOK

(* The invariant is kept if all threads stay registered or not. *)
LEMMA QuietStep ==
  ASSUME IInv, th' = [u \in Threads |-> th'[u]], \A u \in Threads : Quiet(th[u], th'[u]), BirthInv',
         UNCHANGED <<rq, barrier, locks, suspend_all_count, aborted>>
  PROVE  IInv'
  <1>1. ThreadInv' /\ rq' = rq
    BY DEF ThreadInv, Quiet
  <1>2. Registered' = Registered
    BY DEF Registered, Quiet, Unregistered
  <1>3. TargetInv'
    <2>1. \A u \in Registered : u \in Threads
      BY DEF Registered
    <2>2. \A u \in Threads : th'[u].exiting = th[u].exiting
      BY DEF Quiet
    <2>. QED BY <1>1, <1>2, <2>1, <2>2 DEF IInv, TargetInv
  <1>4. \A u \in Threads : th'[u].count = Cardinality(Holders(u)')
    <2>1. \A u \in Threads : Holders(u)' = Holders(u)
      BY <1>1, <1>2 DEF Holders, Holds, Suspends
    <2>. QED BY <2>1 DEF IInv, CountInv, Quiet
  <1>5. \A u \in Threads : Outward(th[u], th'[u])
    BY DEF Quiet
  <1>. QED BY <1>1, <1>3, <1>4, <1>5, RegistryStep

(* A thread and the one it creates: their objects become o and z. *)
Bears(t, o, c, z) == th' = [u \in Threads |-> IF u = t THEN o ELSE IF u = c THEN z ELSE th[u]]

(* They are quiet if both are. *)
LEMMA BearsQuiet ==
  ASSUME IInv, NEW t \in Threads, NEW c \in Threads, t # c, NEW o, NEW z, Bears(t, o, c, z),
         Quiet(th[t], o), Quiet(th[c], z)
  PROVE  /\ th' = [u \in Threads |-> th'[u]] /\ \A u \in Threads : Quiet(th[u], th'[u])
         /\ th'[t] = o /\ th'[c] = z /\ \A u \in Threads : u \notin {t, c} => th'[u] = th[u]
  <1>1. /\ th' = [u \in Threads |-> th'[u]] /\ th'[t] = o /\ th'[c] = z
        /\ \A u \in Threads : u \notin {t, c} => th'[u] = th[u]
    BY DEF Bears
  <1>2. ASSUME NEW u \in Threads, u \notin {t, c} PROVE Quiet(th[u], th'[u])
    <2>1. ThreadOK(th[u]) /\ th'[u] = th[u]
      BY <1>1, <1>2, Before
    <2>. QED BY <2>1 DEF Quiet, Outward, CalmThread
  <1>. QED BY <1>1, <1>2

(* CreateNativeThread counts the birth before the thread is there. *)
LEMMA CreateNativeThreadKeeps ==
  ASSUME IInv, NEW t \in Threads, NEW c \in Threads, CreateNativeThread(t, c)
  PROVE  IInv'
  <1>1. PICK x, y, o, z : /\ x = th[t] /\ y = th[c] /\ o = [x EXCEPT !.pc = "creating", !.child = c]
                          /\ z = [y EXCEPT !.pc = "unborn"]
    OBVIOUS
  <1>2. /\ x.pc = "native" /\ y.pc = "absent" /\ t # c /\ shutdown # "down" /\ births' = births + 1
        /\ shutdown' = shutdown /\ UNCHANGED <<rq, barrier, locks, suspend_all_count, aborted>>
    BY <1>1 DEF CreateNativeThread, At
  <1>3. ThreadOK(x) /\ x \in ThreadRec /\ ThreadOK(y) /\ y \in ThreadRec /\ th = [u \in Threads |-> th[u]]
    BY <1>1, Before
  <1>4. Bears(t, o, c, z)
    BY <1>1, <1>2, <1>3 DEF CreateNativeThread, Bears
  <1>5. Quiet(x, o) /\ o.pc = "creating" /\ o.child = c
    <2>1. NearBirth(x.pc, "creating") /\ o = Placed(x, "creating", c) /\ c \in Threads \cup {NULL}
      BY <1>1, <1>2 DEF NearBirth, Placed
    <2>. QED BY <1>3, <2>1, QuietFacts
  <1>6. Quiet(y, z) /\ z.pc = "unborn"
    <2>1. PICK d : d = y.child
      OBVIOUS
    <2>2. d \in Threads \cup {NULL} /\ z = Placed(y, "unborn", d)
      BY <1>1, <1>3, <2>1 DEF ThreadRec, Placed
    <2>3. NearBirth(y.pc, "unborn")
      BY <1>2 DEF NearBirth, Unregistered
    <2>. QED BY <1>3, <2>2, <2>3, QuietFacts
  <1>7. /\ th' = [u \in Threads |-> th'[u]] /\ \A u \in Threads : Quiet(th[u], th'[u])
        /\ th'[t] = o /\ th'[c] = z /\ \A u \in Threads : u \notin {t, c} => th'[u] = th[u]
    BY <1>1, <1>2, <1>4, <1>5, <1>6, BearsQuiet
  <1>8. BirthInv'
    <2>1. Unborn' = Unborn \cup {c} /\ c \notin Unborn
      <3>1. \A u \in Threads : th'[u].pc = IF u = t THEN "creating" ELSE IF u = c THEN "unborn" ELSE th[u].pc
        BY <1>5, <1>6, <1>7
      <3>2. th[t].pc = "native" /\ th[c].pc = "absent"
        BY <1>1, <1>2
      <3>. QED BY <3>1, <3>2 DEF Unborn
    <2>2. births' = Cardinality(Unborn')
      <3>1. Cardinality(Unborn \cup {c}) = Cardinality(Unborn) + 1
        BY <2>1, PendingFinite, CardinalityStep
      <3>. QED BY <1>2, <2>1, <3>1 DEF IInv, BirthInv
    <2>3. ASSUME NEW u \in Threads, u # t, th'[u].pc = "creating"
          PROVE  /\ th[u].pc = "creating" /\ th'[u].child = th[u].child
                 /\ th[u].child \in Threads \ {t, c} /\ th'[th[u].child].pc = "unborn"
      <3>1. th'[u] = th[u]
        BY <1>6, <1>7, <2>3
      <3>2. th[u].child \in Threads /\ th[th[u].child].pc = "unborn"
        BY <2>3, <3>1 DEF IInv, BirthInv
      <3>3. th[u].child \notin {t, c}
        BY <1>1, <1>2, <3>2
      <3>. QED BY <1>7, <2>3, <3>1, <3>2, <3>3
    <2>4. ASSUME NEW u \in Threads, th'[u].pc = "creating"
          PROVE  th'[u].child \in Threads /\ th'[th'[u].child].pc = "unborn"
      <3>1. CASE u = t
        BY <1>5, <1>6, <1>7, <3>1
      <3>2. CASE u # t
        BY <2>3, <2>4, <3>2
      <3>. QED BY <3>1, <3>2
    <2>5. ASSUME NEW u \in Threads, NEW w \in Threads, th'[u].pc = "creating", th'[w].pc = "creating",
                 th'[u].child = th'[w].child
          PROVE  u = w
      <3>1. CASE u # t /\ w # t
        BY <2>3, <2>5, <3>1 DEF IInv, BirthInv
      <3>2. CASE u = t /\ w # t
        BY <1>5, <1>7, <2>3, <2>5, <3>2
      <3>3. CASE w = t /\ u # t
        BY <1>5, <1>7, <2>3, <2>5, <3>3
      <3>. QED BY <3>1, <3>2, <3>3
    <2>. QED BY <1>2, <2>2, <2>4, <2>5 DEF IInv, BirthInv
  <1>. QED BY <1>2, <1>7, <1>8, QuietStep

(* pthread_create has answered: the new thread starts or is gone, and its  *)
(* parent goes on.                                                         *)
Delivers(t, v) ==
  /\ th[t].pc = "creating"
  /\ th' = [th EXCEPT ![t].pc = "native", ![t].child = NULL, ![th[t].child].pc = v]
  /\ IF v = "starting" THEN births' = births /\ shutdown' = shutdown ELSE EndThreadBirth

(* Either answer keeps the invariant. *)
LEMMA DeliveredKeeps ==
  ASSUME IInv, NEW t \in Threads, NEW v \in {"starting", "dead"}, Delivers(t, v),
         UNCHANGED <<rq, barrier, locks, suspend_all_count, aborted>>
  PROVE  IInv'
  <1>1. PICK x, c : x = th[t] /\ c = th[t].child
    OBVIOUS
  <1>2. c \in Threads /\ th[c].pc = "unborn" /\ th[t].pc = "creating" /\ t # c
    BY <1>1 DEF IInv, BirthInv, Delivers
  <1>3. PICK y, o, z : /\ y = th[c] /\ o = [x EXCEPT !.pc = "native", !.child = NULL]
                       /\ z = [y EXCEPT !.pc = v]
    OBVIOUS
  <1>4. ThreadOK(x) /\ x \in ThreadRec /\ ThreadOK(y) /\ y \in ThreadRec /\ th = [u \in Threads |-> th[u]]
    BY <1>1, <1>2, <1>3, Before
  <1>5. Bears(t, o, c, z)
    BY <1>1, <1>2, <1>3, <1>4 DEF Bears, Delivers
  <1>6. Quiet(x, o) /\ o.pc = "native"
    <2>1. NearBirth(x.pc, "native") /\ o = Placed(x, "native", NULL) /\ NULL \in Threads \cup {NULL}
      BY <1>1, <1>2, <1>3 DEF NearBirth, Placed
    <2>. QED BY <1>4, <2>1, QuietFacts
  <1>7. Quiet(y, z) /\ z.pc = v
    <2>1. PICK d : d = y.child
      OBVIOUS
    <2>2. d \in Threads \cup {NULL} /\ z = Placed(y, v, d)
      BY <1>3, <1>4, <2>1 DEF ThreadRec, Placed
    <2>3. NearBirth(y.pc, v)
      BY <1>2, <1>3 DEF NearBirth, Unregistered
    <2>. QED BY <1>4, <2>2, <2>3, QuietFacts
  <1>8. /\ th' = [u \in Threads |-> th'[u]] /\ \A u \in Threads : Quiet(th[u], th'[u])
        /\ th'[t] = o /\ th'[c] = z /\ \A u \in Threads : u \notin {t, c} => th'[u] = th[u]
    <2>1. Quiet(th[t], o) /\ Quiet(th[c], z)
      BY <1>1, <1>3, <1>6, <1>7
    <2>. QED BY <1>2, <1>5, <2>1, BearsQuiet
  <1>9. BirthInv'
    <2>1. c \in Unborn /\ Unborn' = IF v = "starting" THEN Unborn ELSE Unborn \ {c}
      <3>1. \A u \in Threads : th'[u].pc = IF u = t THEN "native" ELSE IF u = c THEN v ELSE th[u].pc
        BY <1>6, <1>7, <1>8
      <3>2. th[t].pc = "creating" /\ th[c].pc = "unborn"
        BY <1>2
      <3>3. CASE v = "starting"
        BY <1>2, <3>1, <3>2, <3>3 DEF Unborn
      <3>4. CASE v = "dead"
        BY <1>2, <3>1, <3>2, <3>4 DEF Unborn
      <3>. QED BY <3>3, <3>4
    <2>2. births = Cardinality(Unborn) /\ Cardinality(Unborn) \in Nat /\ Cardinality(Unborn) >= 1
          /\ Cardinality(Unborn \ {c}) = Cardinality(Unborn) - 1
      <3>1. births = Cardinality(Unborn)
        BY DEF IInv, BirthInv
      <3>. QED BY <2>1, <3>1, PendingFinite, CardinalityStep
    <2>3. births' = Cardinality(Unborn')
      BY <2>1, <2>2 DEF EndThreadBirth, Delivers
    <2>4. shutdown' \in {"up", "asleep", "awake", "down"} /\ shutdown' # "down"
      BY <2>2 DEF IInv, BirthInv, EndThreadBirth, Delivers
    <2>5. ASSUME NEW u \in Threads, th'[u].pc = "creating"
          PROVE  /\ th[u].pc = "creating" /\ th'[u].child = th[u].child
                 /\ th[u].child \in Threads /\ th'[th[u].child].pc = "unborn"
      <3>1. u \notin {t, c} /\ th'[u] = th[u]
        BY <1>6, <1>7, <1>8, <2>5
      <3>2. th[u].child \in Threads /\ th[th[u].child].pc = "unborn"
        BY <2>5, <3>1 DEF IInv, BirthInv
      <3>3. th[u].child # t
        BY <1>2, <3>2
      <3>4. th[u].child # c
        BY <1>1, <1>2, <2>5, <3>1 DEF IInv, BirthInv
      <3>. QED BY <1>8, <2>5, <3>1, <3>2, <3>3, <3>4
    <2>6. ASSUME NEW u \in Threads, NEW w \in Threads, th'[u].pc = "creating", th'[w].pc = "creating",
                 th'[u].child = th'[w].child
          PROVE  u = w
      BY <2>5, <2>6 DEF IInv, BirthInv
    <2>7. ASSUME NEW u \in Threads, th'[u].pc = "creating"
          PROVE  th'[u].child \in Threads /\ th'[th'[u].child].pc = "unborn"
      BY <2>5, <2>7
    <2>. QED BY <2>3, <2>4, <2>6, <2>7 DEF BirthInv
  <1>. QED BY <1>8, <1>9, QuietStep

(* The two answers of pthread_create *)
LEMMA PthreadCreateKeeps ==
  ASSUME IInv, NEW t \in Threads, PthreadCreate(t) \/ CreateFails(t)
  PROVE  IInv'
  <1>1. CASE PthreadCreate(t)
    <2>1. /\ th[t].pc = "creating" /\ births' = births /\ shutdown' = shutdown
          /\ th' = [th EXCEPT ![t].pc = "native", ![t].child = NULL, ![th[t].child].pc = "starting"]
          /\ UNCHANGED <<rq, barrier, locks, suspend_all_count, aborted>>
      BY <1>1 DEF PthreadCreate, At, Rest, runtime, locks
    <2>2. Delivers(t, "starting")
      BY <2>1 DEF Delivers
    <2>. QED BY <2>1, <2>2, DeliveredKeeps
  <1>2. CASE CreateFails(t)
    <2>1. /\ th[t].pc = "creating" /\ EndThreadBirth
          /\ th' = [th EXCEPT ![t].pc = "native", ![t].child = NULL, ![th[t].child].pc = "dead"]
          /\ UNCHANGED <<rq, barrier, locks, suspend_all_count, aborted>>
      BY <1>2 DEF CreateFails, At
    <2>2. Delivers(t, "dead")
      BY <2>1 DEF Delivers
    <2>. QED BY <2>1, <2>2, DeliveredKeeps
  <1>. QED BY <1>1, <1>2

(* The births after a step of one thread that is no parent and no unborn *)
LEMMA BirthsAfter ==
  ASSUME IInv, NEW c \in Threads, NEW o, Moves(c, o),
         th[c].pc \notin {"unborn", "creating"}, o.pc \notin {"unborn", "starting", "creating"},
         births' = Cardinality(Unborn \ {c}), shutdown' \in {"up", "asleep", "awake", "down"},
         shutdown' = "down" => births' = 0
  PROVE  BirthInv'
  <1>1. th'[c] = o /\ \A u \in Threads : u # c => th'[u] = th[u]
    BY DEF Moves
  <1>2. Unborn' = Unborn \ {c}
    BY <1>1 DEF Unborn
  <1>3. ASSUME NEW u \in Threads, th'[u].pc = "creating"
        PROVE  u # c /\ th'[u] = th[u] /\ th[u].child \in Threads /\ th'[th[u].child].pc = "unborn"
    <2>1. u # c /\ th'[u] = th[u]
      BY <1>1, <1>3
    <2>2. th[u].child \in Threads /\ th[th[u].child].pc = "unborn"
      BY <1>3, <2>1 DEF IInv, BirthInv
    <2>3. th[u].child # c
      BY <2>2
    <2>. QED BY <1>1, <2>1, <2>2, <2>3
  <1>4. ASSUME NEW u \in Threads, th'[u].pc = "creating"
        PROVE  th'[u].child \in Threads /\ th'[th'[u].child].pc = "unborn"
    BY <1>3, <1>4
  <1>5. ASSUME NEW u \in Threads, NEW w \in Threads, th'[u].pc = "creating", th'[w].pc = "creating",
               th'[u].child = th'[w].child
        PROVE  u = w
    BY <1>3, <1>5 DEF IInv, BirthInv
  <1>. QED BY <1>2, <1>4, <1>5 DEF BirthInv

(* ThreadList::Register: the new thread is held by every suspension that   *)
(* is under way, and its count says so.                                    *)
LEMMA JoinStep ==
  ASSUME IInv, NEW c \in Threads, th[c].pc \in Unregistered, NEW v \in {"resuming", "native"},
         NEW o, o = Registers(c, v), Moves(c, o), BirthInv',
         UNCHANGED <<rq, barrier, locks, suspend_all_count, aborted>>
  PROVE  IInv'
  <1>1. PICK x, f, n : x = th[c] /\ n = suspend_all_count /\ f = IF n > 0 THEN {"suspend"} ELSE {}
    OBVIOUS
  <1>2. x \in ThreadRec /\ FlagsAgree(x) /\ PlaceAgrees(x) /\ x.pc \in Unregistered
    BY <1>1, Before
  <1>3. n \in Nat /\ f \in SUBSET Flags /\ n = Cardinality(Suspenders)
    <2>1. n = Cardinality(Suspenders)
      BY <1>1 DEF IInv, CountInv
    <2>2. n \in Nat
      BY <2>1, PendingFinite, CardinalityStep
    <2>. QED BY <1>1, <2>1, <2>2 DEF Flags
  <1>4. /\ x.barriers = {} /\ x.claimed = {} /\ x.closure = NULL /\ x.flip = FALSE
        /\ x.transitioning = FALSE /\ x.flags \cap Requested = {} /\ x.state # "Runnable"
        /\ x.checkpoints = <<>> /\ x.exiting = FALSE
    <2>1. x.pc \notin RunPcs \cup {"passing", "claim", "pass", "asleep", "awake", "resuming", "run", "runlast"}
      BY <1>2 DEF Unregistered, RunPcs
    <2>2. /\ x.barriers = {} /\ x.claimed = {} /\ x.closure = NULL
          /\ x.flags \cap Requested = {} /\ x.state # "Runnable"
      BY <1>2, <2>1 DEF PlaceAgrees
    <2>3. x.flip = FALSE /\ x.transitioning = FALSE /\ x.exiting = FALSE
      BY <1>2, <2>1 DEF PlaceAgrees, ThreadRec, RunPcs
    <2>4. x.checkpoints = <<>>
      BY <1>2, <2>2 DEF FlagsAgree, Requested
    <2>. QED BY <2>2, <2>3, <2>4
  <1>5. o = [x EXCEPT !.pc = v, !.count = n, !.flags = f]
    BY <1>1 DEF Registers
  <1>6. /\ o \in ThreadRec /\ o.pc = v /\ o.state = x.state /\ o.flags = f /\ o.count = n
        /\ o.barriers = {} /\ o.claimed = {} /\ o.checkpoints = <<>> /\ o.closure = NULL
        /\ o.flip = FALSE /\ o.transitioning = FALSE /\ o.exiting = FALSE
    <2>1. v \in Unregistered \cup RunPcs \cup IdlePcs
      BY DEF IdlePcs
    <2>. QED BY <1>2, <1>3, <1>4, <1>5, <2>1, ZenonT(60) DEF ThreadRec
  <1>7. f \cap Requested = {} /\ ("suspend" \in f <=> n > 0) /\ "barrier" \notin f /\ "checkpoint" \notin f
        /\ "empty" \notin f
    BY <1>1 DEF Requested
  <1>8. ThreadOK(o)
    <2>1. FlagsAgree(o)
      BY <1>6, <1>7 DEF FlagsAgree
    <2>2. PlaceAgrees(o)
      BY <1>4, <1>6, <1>7 DEF PlaceAgrees, RunPcs, Unregistered
    <2>3. ClosuresOnce(o) /\ Cardinality(o.barriers) <= MaxBarriers
      <3>1. Len(o.checkpoints) = 0 /\ Cardinality(o.barriers) = 0
        BY <1>6, FS_EmptySet
      <3>. QED BY <3>1 DEF ClosuresOnce
    <2>. QED BY <1>6, <2>1, <2>2, <2>3 DEF ThreadOK
  <1>9. /\ th'[c] = o /\ (\A u \in Threads : u # c => th'[u] = th[u]) /\ rq' = rq
        /\ th' = [u \in Threads |-> th'[u]]
    BY DEF Moves
  <1>10. ThreadInv'
    BY <1>8, <1>9 DEF IInv, ThreadInv
  <1>11. Registered' = Registered \cup {c} /\ c \notin Registered
    BY <1>1, <1>2, <1>6, <1>9 DEF Registered, Unregistered
  <1>12. TargetInv'
    <2>1. \A u \in Registered : u \in Threads /\ th'[u] = th[u]
      BY <1>9, <1>11 DEF Registered
    <2>. QED BY <1>9, <1>11, <2>1 DEF IInv, TargetInv
  <1>13. \A u \in Threads : th'[u].count = Cardinality(Holders(u)')
    <2>1. ASSUME NEW u \in Threads, u # c PROVE Holders(u)' = Holders(u)
      BY <1>9, <1>11, <2>1 DEF Holders, Holds, Suspends
    <2>2. \A s \in Requesters : Holds(s, c)' <=> rq[s].pc \in SuspendPcs
      <3>1. ASSUME NEW s \in Requesters PROVE c \notin rq[s].todo
        BY <1>11 DEF IInv, TargetInv
      <3>2. ASSUME NEW s \in Requesters, rq[s].pc \in HoldPcs PROVE rq[s].on # c
        BY <1>11, <3>2 DEF IInv, TargetInv
      <3>. QED BY <1>9, <1>11, <3>1, <3>2 DEF Holds, Suspends
    <2>3. Holders(c)' = Suspenders
      BY <2>2 DEF Holders, Suspenders
    <2>. QED BY <1>3, <1>6, <1>9, <2>1, <2>3 DEF IInv, CountInv
  <1>14. \A u \in Threads : Outward(th[u], th'[u])
    <2>1. Outward(x, o)
      <3>1. "empty" \notin x.flags
        BY <1>4 DEF Requested
      <3>2. CalmThread(x, o)
        BY <1>4, <1>6, <1>7, <3>1 DEF CalmThread, HasClosure
      <3>. QED BY <1>4, <1>6, <3>2 DEF Outward
    <2>2. \A u \in Threads : u # c => Outward(th[u], th'[u])
      BY <1>9 DEF Outward, CalmThread
    <2>. QED BY <1>1, <1>9, <2>1, <2>2
  <1>. QED BY <1>10, <1>12, <1>13, <1>14, RegistryStep

(* CreateCallback: ~Runtime has waited for it. *)
LEMMA CreateCallbackKeeps ==
  ASSUME IInv, NEW c \in Threads, CreateCallback(c)
  PROVE  IInv'
  <1>1. PICK o : o = Registers(c, "resuming")
    OBVIOUS
  <1>2. th[c].pc = "starting" /\ c \in Unborn /\ th = [u \in Threads |-> th[u]]
    BY Before DEF CreateCallback, At, Unborn
  <1>3. /\ births = Cardinality(Unborn) /\ births \in Nat /\ births >= 1
        /\ Cardinality(Unborn \ {c}) = births - 1
    <2>1. births = Cardinality(Unborn)
      BY DEF IInv, BirthInv
    <2>. QED BY <1>2, <2>1, PendingFinite, CardinalityStep
  <1>4. shutdown # "down" /\ shutdown \in {"up", "asleep", "awake", "down"}
    BY <1>3 DEF IInv, BirthInv
  <1>5. /\ th' = [th EXCEPT ![c] = o] /\ EndThreadBirth
        /\ UNCHANGED <<rq, barrier, locks, suspend_all_count, aborted>>
    BY <1>1, <1>4 DEF CreateCallback
  <1>6. Moves(c, o)
    BY <1>2, <1>5 DEF Moves
  <1>7. o.pc = "resuming"
    BY <1>1, Before DEF Registers, ThreadRec
  <1>8. BirthInv'
    <2>1. births' = Cardinality(Unborn \ {c}) /\ shutdown' \in {"up", "asleep", "awake", "down"}
          /\ shutdown' # "down"
      BY <1>3, <1>4, <1>5 DEF EndThreadBirth
    <2>. QED BY <1>2, <1>6, <1>7, <2>1, BirthsAfter
  <1>. QED BY <1>1, <1>2, <1>5, <1>6, <1>8, JoinStep DEF Unregistered

(* Attach registers the thread at once, or fails. *)
LEMMA AttachKeeps ==
  ASSUME IInv, NEW c \in Threads, Attach(c)
  PROVE  IInv'
  <1>1. PICK x, o, z : x = th[c] /\ o = Registers(c, "native") /\ z = [x EXCEPT !.pc = "dead"]
    OBVIOUS
  <1>2. x.pc = "absent" /\ c \notin Unborn /\ th = [u \in Threads |-> th[u]] /\ x \in ThreadRec /\ ThreadOK(x)
    BY <1>1, Before DEF Attach, At, Unborn
  <1>3. /\ UNCHANGED <<rq, barrier, locks, suspend_all_count, aborted>>
        /\ births' = births /\ shutdown' = shutdown
    BY DEF Attach, Rest, locks, runtime
  <1>4. /\ births' = Cardinality(Unborn \ {c}) /\ shutdown' \in {"up", "asleep", "awake", "down"}
        /\ shutdown' = "down" => births' = 0
    <2>1. Unborn \ {c} = Unborn
      BY <1>2
    <2>. QED BY <1>3, <2>1 DEF IInv, BirthInv
  <1>5. CASE th' = [th EXCEPT ![c] = o]
    <2>1. Moves(c, o)
      BY <1>2, <1>5 DEF Moves
    <2>2. o.pc = "native"
      BY <1>1, <1>2 DEF Registers, ThreadRec
    <2>3. BirthInv'
      BY <1>1, <1>2, <1>4, <2>1, <2>2, BirthsAfter
    <2>4. th[c].pc \in Unregistered
      BY <1>1, <1>2 DEF Unregistered
    <2>. QED BY <1>1, <1>3, <2>1, <2>3, <2>4, JoinStep
  <1>6. CASE th' = [th EXCEPT ![c].pc = "dead"]
    <2>1. Moves(c, z)
      BY <1>1, <1>2, <1>6 DEF Moves
    <2>2. PICK d : d = x.child
      OBVIOUS
    <2>3. d \in Threads \cup {NULL} /\ z = Placed(x, "dead", d)
      BY <1>1, <1>2, <2>2 DEF ThreadRec, Placed
    <2>4. NearBirth(x.pc, "dead")
      BY <1>2 DEF NearBirth, Unregistered
    <2>5. Quiet(x, z) /\ z.pc = "dead"
      BY <1>2, <2>3, <2>4, QuietFacts
    <2>6. BirthInv'
      BY <1>1, <1>2, <1>4, <2>1, <2>5, BirthsAfter
    <2>7. th'[c] = z /\ (\A u \in Threads : u # c => th'[u] = th[u]) /\ th' = [u \in Threads |-> th'[u]]
      BY <2>1 DEF Moves
    <2>8. ASSUME NEW u \in Threads, u # c PROVE Quiet(th[u], th'[u])
      <3>1. ThreadOK(th[u]) /\ th'[u] = th[u]
        BY <2>7, <2>8, Before
      <3>. QED BY <3>1 DEF Quiet, Outward, CalmThread
    <2>9. \A u \in Threads : Quiet(th[u], th'[u])
      BY <1>1, <2>5, <2>7, <2>8
    <2>. QED BY <1>3, <2>6, <2>7, <2>9, QuietStep
  <1>. QED BY <1>1, <1>5, <1>6 DEF Attach

(* Unregister finds nothing pending: the CHECKs of ~Thread hold, and no    *)
(* request and no suspension knows the thread any more.                    *)
LEMMA UnregisterKeeps ==
  ASSUME IInv, NEW t \in Threads, Unregister(t)
  PROVE  IInv'
  <1>1. PICK x, o : x = th[t] /\ o = [NewThread EXCEPT !.pc = "dead"]
    OBVIOUS
  <1>2. /\ x \in ThreadRec /\ FlagsAgree(x) /\ PlaceAgrees(x) /\ th = [u \in Threads |-> th[u]]
        /\ x.pc = "native" /\ x.exiting /\ ListLockFree /\ ~ IsSuspended(t)
    BY <1>1, Before DEF Unregister, At
  <1>3. /\ x.barriers = {} /\ x.claimed = {} /\ x.closure = NULL /\ ~ x.flip /\ ~ x.transitioning
        /\ x.flags \cap Requested = {} /\ x.state # "Runnable" /\ x.checkpoints = <<>>
    <2>0. /\ x.claimed = {} /\ x.closure = NULL /\ ~ x.flip /\ ~ x.transitioning
          /\ x.flags \cap Requested = {} /\ x.state # "Runnable"
      BY <1>2 DEF PlaceAgrees, RunPcs
    <2>1. x.barriers = {}
      <3>1. x.count = 0
        BY <1>1, <1>2, <2>0 DEF IsSuspended, Runnable, FlagsAgree, ThreadRec
      <3>. QED BY <1>1, <3>1, BarrierHeld
    <2>2. x.checkpoints = <<>>
      BY <1>2, <2>0 DEF FlagsAgree, Requested
    <2>. QED BY <2>0, <2>1, <2>2
  <1>4. th' = [th EXCEPT ![t] = o] /\ UNCHANGED <<rq, barrier, Rest>>
    BY <1>1, <1>3 DEF Unregister, Runnable
  <1>5. /\ Moves(t, o) /\ UNCHANGED <<rq, barrier, locks, suspend_all_count, aborted>>
        /\ births' = births /\ shutdown' = shutdown
    BY <1>2, <1>4 DEF Moves, Rest, locks, runtime
  <1>6. ThreadOK(o)
    BY <1>1, NewThreadOK DEF Unregistered
  <1>7. /\ o.pc = "dead" /\ o.state = "Native" /\ o.flags = {} /\ o.count = 0 /\ o.barriers = {}
        /\ o.claimed = {} /\ o.checkpoints = <<>> /\ o.closure = NULL
    BY <1>1 DEF NewThread
  <1>8. /\ th'[t] = o /\ (\A u \in Threads : u # t => th'[u] = th[u]) /\ rq' = rq
        /\ th' = [u \in Threads |-> th'[u]]
    BY <1>5 DEF Moves
  <1>9. ThreadInv'
    BY <1>6, <1>8 DEF IInv, ThreadInv
  <1>10. Registered' = Registered \ {t}
    BY <1>7, <1>8 DEF Registered
  <1>11. \A s \in Requesters : rq[s].pc \in AskPcs \cup HoldPcs \cup {"raise", "holding"} => rq[s].on # t
    BY <1>1, <1>2 DEF IInv, TargetInv
  <1>12. \A s \in Requesters : t \notin rq[s].todo
    BY <1>2 DEF IInv, RequestInv, RequestOK, LockInv, ListLockFree
  <1>13. TargetInv'
    <2>1. ASSUME NEW s \in Requesters
          PROVE  /\ rq[s].pc \in AskPcs \cup HoldPcs \cup {"raise", "holding"} =>
                      rq[s].on \in Registered' /\ ~ th'[rq[s].on].exiting
                 /\ rq[s].todo \subseteq Registered'
      <3>1. rq[s].todo \subseteq Registered'
        BY <1>10, <1>12 DEF IInv, TargetInv
      <3>2. ASSUME rq[s].pc \in AskPcs \cup HoldPcs \cup {"raise", "holding"}
            PROVE  rq[s].on \in Registered' /\ ~ th'[rq[s].on].exiting
        <4>1. rq[s].on \in Registered /\ rq[s].on # t /\ rq[s].on \in Threads /\ ~ th[rq[s].on].exiting
          BY <1>11, <3>2 DEF IInv, TargetInv, Registered
        <4>. QED BY <1>8, <1>10, <4>1
      <3>. QED BY <3>1, <3>2
    <2>. QED BY <1>8, <2>1 DEF TargetInv
  <1>14. \A u \in Threads : th'[u].count = Cardinality(Holders(u)')
    <2>1. ASSUME NEW u \in Threads, u # t PROVE Holders(u)' = Holders(u)
      BY <1>8, <1>10, <2>1 DEF Holders, Holds, Suspends
    <2>2. Holders(t)' = {}
      BY <1>8, <1>10, <1>11 DEF Holders, Holds, Suspends
    <2>3. Cardinality(Holders(t)') = 0
      BY <2>2, FS_EmptySet
    <2>. QED BY <1>7, <1>8, <2>1, <2>3 DEF IInv, CountInv
  <1>15. \A u \in Threads : Outward(th[u], th'[u])
    <2>1. Outward(x, o)
      <3>1. "empty" \notin x.flags
        BY <1>3 DEF Requested
      <3>2. CalmThread(x, o)
        BY <1>3, <1>7, <3>1 DEF CalmThread, HasClosure
      <3>. QED BY <1>3, <1>7, <3>2 DEF Outward
    <2>2. \A u \in Threads : u # t => Outward(th[u], th'[u])
      BY <1>8 DEF Outward, CalmThread
    <2>. QED BY <1>1, <1>8, <2>1, <2>2
  <1>16. BirthInv'
    <2>1. Unborn \ {t} = Unborn
      BY <1>1, <1>2 DEF Unborn
    <2>2. /\ births' = Cardinality(Unborn \ {t}) /\ shutdown' \in {"up", "asleep", "awake", "down"}
          /\ shutdown' = "down" => births' = 0
      BY <1>5, <2>1 DEF IInv, BirthInv
    <2>. QED BY <1>1, <1>2, <1>5, <1>7, <2>2, BirthsAfter
  <1>. QED BY <1>5, <1>9, <1>13, <1>14, <1>15, <1>16, RegistryStep

(* ~Runtime is down only when no birth is under way. *)
LEMMA AwaitBirthsKeeps ==
  ASSUME IInv, AwaitBirths
  PROVE  IInv'
  <1>1. /\ th' = th /\ rq' = rq /\ barrier' = barrier /\ births' = births
        /\ UNCHANGED <<rq, barrier, locks, suspend_all_count, aborted>>
        /\ shutdown' = IF births > 0 THEN "asleep" ELSE "down"
    BY DEF AwaitBirths
  <1>2. births \in Nat /\ births = Cardinality(Unborn)
    <2>1. births = Cardinality(Unborn)
      BY DEF IInv, BirthInv
    <2>. QED BY <2>1, PendingFinite, CardinalityStep
  <1>3. BirthInv'
    <2>1. Unborn' = Unborn
      BY <1>1 DEF Unborn
    <2>. QED BY <1>1, <1>2, <2>1 DEF IInv, BirthInv
  <1>4. ThreadInv' /\ TargetInv'
    BY <1>1 DEF IInv, ThreadInv, TargetInv, Registered
  <1>5. \A u \in Threads : th'[u].count = Cardinality(Holders(u)')
    <2>1. \A u \in Threads : Holders(u)' = Holders(u)
      BY <1>1 DEF Holders, Holds, Suspends, Registered
    <2>. QED BY <1>1, <2>1 DEF IInv, CountInv
  <1>6. \A u \in Threads : Outward(th[u], th'[u])
    BY <1>1 DEF Outward, CalmThread
  <1>. QED BY <1>1, <1>3, <1>4, <1>5, <1>6, RegistryStep

(* The "impossible" case of both transitions is. *)
LEMMA NoCheckpointWhileSuspended ==
  ASSUME IInv, NEW t \in Threads
  PROVE  ~ CheckpointWhileSuspended(t)
  <1>1. PlaceAgrees(th[t])
    BY Before
  <1>. QED BY <1>1 DEF CheckpointWhileSuspended, PlaceAgrees, RunPcs

-----------------------------------------------------------------------------
(* The theorems *)

(* Every step of a thread keeps the invariant, *)
LEMMA ThreadStepKeeps ==
  ASSUME IInv, NEW t \in Threads, Runs(t) \/ Chooses(t)
  PROVE  IInv'
  <1>1. CASE Runs(t)
    BY <1>1, BecomeRunnableKeeps, WaitToResumeKeeps, WakeKeeps, RunFlipKeeps, SeeBarrierKeeps,
       ClaimKeeps, PassBarrierKeeps, NoCheckpointWhileSuspended, PollKeeps, CheckSuspendKeeps,
       BecomeSuspendedKeeps, PassedKeeps, TakeCheckpointKeeps, RunCheckpointKeeps,
       PthreadCreateKeeps, CreateCallbackKeeps, UnregisterKeeps, Zenon DEF Runs
  <1>2. CASE Chooses(t)
    BY <1>2, EnterKeeps, LeaveKeeps, DestroyKeeps, AttachKeeps, SpuriousWakeupKeeps,
       CreateNativeThreadKeeps, Zenon DEF Chooses
  <1>. QED BY <1>1, <1>2

(* and every step of a requester. *)
LEMMA RequesterStepKeeps ==
  ASSUME IInv, ClearInv, NEW r \in Requesters, Serves(r) \/ Requests(r)
  PROVE  IInv'
  <1>1. CASE Serves(r)
    BY <1>1, LookAtKeeps, LoadWordKeeps, RequestCheckpointKeeps, IncrementKeeps, ReturnKeeps,
       LockListKeeps, HoldSuspendedKeeps, AwaitSuspendedKeeps, RunForTargetKeeps, LetGoKeeps,
       RaiseOneKeeps, ClearOneKeeps, RaisedAllKeeps, PauseKeeps, ResumeAllKeeps, Zenon DEF Serves
  <1>2. CASE Requests(r)
    BY <1>2, SuspendAllKeeps, AskKeeps, Zenon DEF Requests
  <1>. QED BY <1>1, <1>2

(* What is neither changed nor read changes nothing. *)
LEMMA StutterKeeps ==
  ASSUME IInv, UNCHANGED vars
  PROVE  IInv'
  <1>1. /\ th' = th /\ rq' = rq /\ births' = births /\ shutdown' = shutdown
        /\ UNCHANGED <<rq, barrier, locks, suspend_all_count, aborted>>
    BY DEF vars, runtime, locks
  <1>2. ThreadInv' /\ TargetInv' /\ BirthInv'
    BY <1>1 DEF IInv, ThreadInv, TargetInv, Registered, BirthInv, Unborn
  <1>3. \A u \in Threads : th'[u].count = Cardinality(Holders(u)')
    <2>1. \A u \in Threads : Holders(u)' = Holders(u)
      BY <1>1 DEF Holders, Holds, Suspends, Registered
    <2>. QED BY <1>1, <2>1 DEF IInv, CountInv
  <1>4. \A u \in Threads : Outward(th[u], th'[u])
    BY <1>1 DEF Outward, CalmThread
  <1>. QED BY <1>1, <1>2, <1>3, <1>4, RegistryStep

(* While a requester keeps the lock, no registered thread loses a barrier; *)
(* and no step of a thread moves a requester.                              *)
BarriersStay == \A u \in Registered : u \in Registered' /\ th[u].barriers \subseteq th'[u].barriers
Idles == \A r \in Requesters : rq'[r].pc = rq[r].pc /\ rq'[r].on = rq[r].on

(* A step in which one thread goes on to another place is such a step, *)
LEMMA OneMoves ==
  ASSUME IInv, NEW t \in Threads, NEW o, Moves(t, o), o.barriers = th[t].barriers,
         o.pc \notin Unregistered
  PROVE  BarriersStay
  BY DEF Moves, BarriersStay, Registered, Unregistered

(* and so is every step of a thread. *)
LEMMA ThreadStepStays ==
  ASSUME IInv, NEW t \in Threads, Runs(t) \/ Chooses(t)
  PROVE  (~ CountLockFree => BarriersStay) /\ Idles
  <1>1. PICK x : x = th[t]
    OBVIOUS
  <1>2. /\ x \in ThreadRec /\ PlaceAgrees(x) /\ FlagsAgree(x) /\ th = [u \in Threads |-> th[u]]
        /\ rq = [r \in Requesters |-> rq[r]]
    BY <1>1, Before DEF IInv, RequestInv
  <1>3. ASSUME NEW v, v \notin Unregistered, Goto(t, v) PROVE BarriersStay
    <2>1. PICK o : o = [x EXCEPT !.pc = v]
      OBVIOUS
    <2>2. Moves(t, o) /\ o.barriers = x.barriers /\ o.pc = v
      BY <1>1, <1>2, <1>3, <2>1 DEF Goto, Moves, ThreadRec
    <2>. QED BY <1>1, <1>3, <2>2, OneMoves
  <1>4. ASSUME NEW v, v \notin Unregistered, Call(t, v) PROVE BarriersStay
    <2>1. PICK o : o = [x EXCEPT !.pc = v, !.back = x.pc]
      OBVIOUS
    <2>2. Moves(t, o) /\ o.barriers = x.barriers /\ o.pc = v
      BY <1>1, <1>2, <1>4, <2>1 DEF Call, Moves, ThreadRec
    <2>. QED BY <1>1, <1>4, <2>2, OneMoves
  <1>5. ASSUME th' = th PROVE BarriersStay
    BY <1>5 DEF BarriersStay, Registered
  <1>6. ASSUME rq' = rq PROVE Idles
    BY <1>6 DEF Idles
  <1>7. {"flip", "managed", "check", "checkpoint", "claim", "suspending", "passing", "resuming",
         "native", "awake"} \cap Unregistered = {}
    BY DEF Unregistered
  <1>8. CASE BecomeRunnable(t)
    <2>1. PICK o : o = [x EXCEPT !.state = "Runnable", !.pc = "flip"]
      OBVIOUS
    <2>2. Moves(t, o) /\ o.barriers = x.barriers /\ o.pc = "flip" /\ rq' = rq
      BY <1>1, <1>2, <1>8, <2>1 DEF BecomeRunnable, Moves, ThreadRec
    <2>. QED BY <1>1, <1>6, <1>7, <2>2, OneMoves
  <1>9. CASE RunFlip(t)
    <2>1. PICK v, o : /\ v = IF x.after = "check" THEN "check" ELSE "managed"
                      /\ o = [x EXCEPT !.flip = FALSE, !.pc = v, !.after = "native"]
      OBVIOUS
    <2>2. Moves(t, o) /\ o.barriers = x.barriers /\ o.pc = v /\ rq' = rq
      BY <1>1, <1>2, <1>9, <2>1 DEF RunFlip, Moves, ThreadRec
    <2>. QED BY <1>1, <1>6, <1>7, <2>1, <2>2, OneMoves
  <1>10. CASE SeeBarrier(t)
    BY <1>4, <1>6, <1>7, <1>10, Zenon DEF SeeBarrier
  <1>11. CASE PassBarrier(t)
    <2>1. x.pc = "pass"
      BY <1>1, <1>11 DEF PassBarrier, At
    <2>2. x.back \in {"resuming", "passing"}
      BY <1>2, <2>1 DEF PlaceAgrees
    <2>3. CASE th' = th /\ rq' = rq
      BY <1>5, <1>6, <2>3
    <2>4. CASE ~ (th' = th /\ rq' = rq)
      <3>1. PICK r \in x.claimed :
              /\ th' = [th EXCEPT ![t].claimed = @ \ {r},
                                  ![t].pc = IF th[t].claimed = {r} THEN th[t].back ELSE @,
                                  ![t].back = IF th[t].claimed = {r} THEN NULL ELSE @]
              /\ rq' = rq
        BY <1>1, <1>11, <2>4 DEF PassBarrier, Abort
      <3>2. PICK v, k, o : /\ v = (IF x.claimed = {r} THEN x.back ELSE x.pc)
                           /\ k = (IF x.claimed = {r} THEN NULL ELSE x.back)
                           /\ o = [x EXCEPT !.claimed = x.claimed \ {r}, !.pc = v, !.back = k]
        OBVIOUS
      <3>3. Moves(t, o)
        BY <1>1, <1>2, <3>1, <3>2, ZenonT(60) DEF Moves
      <3>4. o.barriers = x.barriers /\ o.pc = v
        BY <1>2, <3>2 DEF ThreadRec
      <3>5. v \notin Unregistered
        BY <2>1, <2>2, <3>2 DEF Unregistered
      <3>. QED BY <1>1, <1>6, <3>1, <3>3, <3>4, <3>5, OneMoves
    <2>. QED BY <2>3, <2>4
  <1>12. CASE CheckpointWhileSuspended(t)
    BY <1>5, <1>6, <1>12 DEF CheckpointWhileSuspended, Abort
  <1>13. CASE Poll(t)
    BY <1>3, <1>6, <1>7, <1>13, Zenon DEF Poll
  <1>14. ASSUME RunEmptyCheckpoint(t) PROVE BarriersStay /\ Idles
    <2>1. PICK f, o : f = x.flags \ {"empty"} /\ o = [x EXCEPT !.flags = f]
      OBVIOUS
    <2>2. Moves(t, o) /\ o.barriers = x.barriers /\ o.pc = x.pc /\ rq' = rq
      BY <1>1, <1>2, <1>14, <2>1 DEF RunEmptyCheckpoint, Moves, ThreadRec
    <2>3. \A u \in Registered : u \in Registered' /\ th[u].barriers = th'[u].barriers
      BY <1>1, <2>2 DEF Moves, Registered
    <2>. QED BY <1>6, <2>2, <2>3 DEF BarriersStay
  <1>15. CASE CheckSuspend(t)
    <2>1. ASSUME th' = [th EXCEPT ![t].pc = "suspending", ![t].after = "check"] PROVE BarriersStay
      <3>1. PICK o : o = [x EXCEPT !.pc = "suspending", !.after = "check"]
        OBVIOUS
      <3>2. Moves(t, o) /\ o.barriers = x.barriers /\ o.pc = "suspending"
        BY <1>1, <1>2, <2>1, <3>1 DEF Moves, ThreadRec
      <3>. QED BY <1>1, <1>7, <3>2, OneMoves
    <2>. QED BY <1>3, <1>4, <1>6, <1>7, <1>14, <1>15, <2>1, Zenon DEF CheckSuspend
  <1>16. CASE BecomeSuspended(t)
    <2>1. ASSUME th' = [th EXCEPT ![t].state = IF th[t].after = "check" THEN "Suspended" ELSE "Native",
                                  ![t].pc = "passing"]
          PROVE  BarriersStay
      <3>1. PICK v, o : /\ v = IF x.after = "check" THEN "Suspended" ELSE "Native"
                        /\ o = [x EXCEPT !.state = v, !.pc = "passing"]
        OBVIOUS
      <3>2. Moves(t, o) /\ o.barriers = x.barriers /\ o.pc = "passing"
        BY <1>1, <1>2, <2>1, <3>1 DEF Moves, ThreadRec
      <3>. QED BY <1>1, <1>7, <3>2, OneMoves
    <2>. QED BY <1>4, <1>6, <1>7, <1>14, <1>16, <2>1, Zenon DEF BecomeSuspended
  <1>17. CASE Passed(t)
    <2>1. PICK v : v = IF th[t].after = "check" THEN "resuming" ELSE "native"
      OBVIOUS
    <2>2. v \notin Unregistered
      BY <2>1 DEF Unregistered
    <2>. QED BY <1>3, <1>6, <1>17, <2>1, <2>2 DEF Passed
  <1>18. CASE RunCheckpoint(t)
    <2>1. PICK v, k, o : /\ v = (IF x.pc = "run" THEN "checkpoint" ELSE x.back)
                         /\ k = (IF x.pc = "run" THEN x.back ELSE NULL)
                         /\ o = [x EXCEPT !.closure = NULL, !.pc = v, !.back = k]
      OBVIOUS
    <2>2. Moves(t, o)
      BY <1>1, <1>2, <1>18, <2>1, ZenonT(60) DEF RunCheckpoint, Moves
    <2>3. o.barriers = x.barriers /\ o.pc = v
      BY <1>2, <2>1 DEF ThreadRec
    <2>4. x.pc \in {"run", "runlast"}
      BY <1>1, <1>18 DEF RunCheckpoint
    <2>5. x.back \in {"check", "suspending"}
      BY <1>2, <2>4 DEF PlaceAgrees
    <2>6. v \notin Unregistered
      BY <2>1, <2>5 DEF Unregistered
    <2>7. Idles
      <3>1. rq' = [rq EXCEPT ![th[t].closure].runs = @ + 1]
        BY <1>18 DEF RunCheckpoint
      <3>2. \A r \in Requesters : rq[r] \in RequestRec
        BY TargetFacts
      <3>. QED BY <1>2, <3>1, <3>2 DEF Idles, RequestRec
    <2>. QED BY <1>1, <2>2, <2>3, <2>6, <2>7, OneMoves
  <1>19. ASSUME PthreadCreate(t) \/ CreateFails(t) PROVE BarriersStay /\ Idles
    <2>1. PICK c, v : /\ c = x.child /\ v \in {"starting", "dead"} /\ rq' = rq
                      /\ th' = [th EXCEPT ![t].pc = "native", ![t].child = NULL, ![c].pc = v]
      BY <1>1, <1>19 DEF PthreadCreate, CreateFails
    <2>2. x.pc = "creating"
      BY <1>1, <1>19 DEF PthreadCreate, CreateFails, At
    <2>3. c \in Threads /\ th[c].pc = "unborn" /\ c # t
      BY <1>1, <2>1, <2>2 DEF IInv, BirthInv
    <2>4. /\ th'[t].pc = "native" /\ th'[t].barriers = x.barriers
          /\ \A u \in Threads : u \notin {t, c} => th'[u] = th[u]
      BY <1>1, <1>2, <2>1, <2>3 DEF ThreadRec
    <2>5. \A u \in Registered : u \in Threads /\ u # c
      BY <2>3 DEF Registered
    <2>6. \A u \in Registered : u \in Registered' /\ th[u].barriers = th'[u].barriers
      BY <1>1, <2>4, <2>5 DEF Registered
    <2>. QED BY <1>6, <2>1, <2>6 DEF BarriersStay
  <1>20. CASE CreateCallback(t)
    <2>1. rq' = rq /\ (~ CountLockFree => th' = th)
      BY <1>20 DEF CreateCallback, Abort
    <2>. QED BY <1>5, <1>6, <2>1
  <1>21. CASE Enter(t)
    BY <1>3, <1>6, <1>7, <1>21, Zenon DEF Enter
  <1>22. CASE Leave(t)
    BY <1>3, <1>6, <1>7, <1>22, Zenon DEF Leave
  <1>23. CASE SpuriousWakeup(t)
    BY <1>3, <1>6, <1>7, <1>23, Zenon DEF SpuriousWakeup
  <1>24. CASE Destroy(t)
    <2>1. PICK o : o = [x EXCEPT !.exiting = TRUE, !.pc = "resuming"]
      OBVIOUS
    <2>2. Moves(t, o) /\ o.barriers = x.barriers /\ o.pc = "resuming" /\ rq' = rq
      BY <1>1, <1>2, <1>24, <2>1 DEF Destroy, Moves, ThreadRec
    <2>. QED BY <1>1, <1>6, <1>7, <2>2, OneMoves
  <1>25. CASE Attach(t)
    <2>1. x.pc = "absent"
      BY <1>1, <1>25 DEF Attach, At
    <2>2. rq' = rq /\ (~ CountLockFree => th' = [th EXCEPT ![t].pc = "dead"])
      BY <1>25 DEF Attach
    <2>3. \A u \in Registered : u # t
      BY <1>1, <2>1 DEF Registered
    <2>4. ~ CountLockFree => \A u \in Registered : th'[u] = th[u]
      BY <1>2, <2>2, <2>3 DEF Registered
    <2>. QED BY <1>6, <2>2, <2>4 DEF BarriersStay, Registered
  <1>26. CASE \E c \in Threads : CreateNativeThread(t, c)
    <2>1. PICK c \in Threads : CreateNativeThread(t, c)
      BY <1>26
    <2>2. /\ x.pc = "native" /\ th[c].pc = "absent" /\ rq' = rq
          /\ th' = [th EXCEPT ![t].pc = "creating", ![t].child = c, ![c].pc = "unborn"]
      BY <1>1, <2>1 DEF CreateNativeThread, At
    <2>3. c # t /\ \A u \in Registered : u \in Threads /\ u # c
      BY <1>1, <2>2 DEF Registered
    <2>4. /\ th'[t].pc = "creating" /\ th'[t].barriers = x.barriers
          /\ \A u \in Threads : u \notin {t, c} => th'[u] = th[u]
      BY <1>1, <1>2, <2>2, <2>3 DEF ThreadRec
    <2>5. \A u \in Registered : u \in Registered' /\ th[u].barriers = th'[u].barriers
      BY <1>1, <2>3, <2>4 DEF Registered
    <2>. QED BY <1>6, <2>2, <2>5 DEF BarriersStay
  <1>27. CASE WaitToResume(t) \/ Wake(t) \/ Claim(t) \/ TakeCheckpoint(t) \/ Unregister(t)
    <2>1. rq' = rq /\ CountLockFree
      BY <1>27 DEF WaitToResume, Wake, Claim, TakeCheckpoint, Unregister, Abort
    <2>. QED BY <1>6, <2>1
  <1>28. CASE Runs(t)
    BY <1>8, <1>9, <1>10, <1>11, <1>12, <1>13, <1>15, <1>16, <1>17, <1>18, <1>19, <1>20, <1>27, <1>28,
       Zenon DEF Runs
  <1>29. CASE Chooses(t)
    BY <1>21, <1>22, <1>23, <1>24, <1>25, <1>26, <1>29, Zenon DEF Chooses
  <1>. QED BY <1>28, <1>29

(* What a step of one requester means for the threads and for the others *)
LEMMA RequesterStepStays ==
  ASSUME IInv, NEW s \in Requesters, Serves(s) \/ Requests(s)
  PROVE  /\ suspend_count_lock \notin {NULL, s} => th' = th
         /\ \A r \in Requesters : r # s => rq'[r] = rq[r]
         /\ rq'[s].pc = "clearing" => RaiseOne(s)
  <1>1. rq = [r \in Requesters |-> rq[r]] /\ rq[s] \in RequestRec
    BY TargetFacts DEF IInv, RequestInv
  <1>2. ASSUME NEW v, Be(s, v)
        PROVE  (\A r \in Requesters : r # s => rq'[r] = rq[r]) /\ rq'[s].pc = v
    BY <1>1, <1>2 DEF Be, RequestRec
  <1>3. rq[s].pc \in {"swap", "clearing"} <=> suspend_count_lock = s
    BY DEF IInv, LockInv
  <1>4. CASE LookAt(s)
    <2>1. PICK v : v \in {"try", "idle", "raise"} /\ Be(s, v)
      BY <1>4 DEF LookAt, Otherwise
    <2>2. th' = th
      BY <1>4 DEF LookAt
    <2>. QED BY <1>2, <2>1, <2>2
  <1>5. CASE LoadWord(s)
    BY <1>1, <1>5 DEF LoadWord, Be, RequestRec, Otherwise
  <1>6. CASE RequestCheckpoint(s)
    <2>1. rq[s].pc = "swap"
      BY <1>6 DEF RequestCheckpoint
    <2>2. PICK v : v \in {"wait", "idle", "raise"} /\ rq' = [rq EXCEPT ![s].pc = v, ![s].seen = NULL]
      BY <1>6 DEF RequestCheckpoint, Otherwise
    <2>3. (\A r \in Requesters : r # s => rq'[r] = rq[r]) /\ rq'[s].pc = v
      BY <1>1, <2>2 DEF RequestRec
    <2>. QED BY <1>3, <2>1, <2>2, <2>3
  <1>7. CASE Increment(s)
    BY <1>2, <1>7 DEF Increment
  <1>8. CASE Return(s)
    BY <1>2, <1>8 DEF Return
  <1>9. CASE LockList(s)
    BY <1>2, <1>9 DEF LockList
  <1>10. CASE HoldSuspended(s)
    BY <1>2, <1>3, <1>10 DEF HoldSuspended, CountLockFree
  <1>11. CASE AwaitSuspended(s)
    BY <1>2, <1>11 DEF AwaitSuspended
  <1>12. CASE RunForTarget(s)
    BY <1>1, <1>12 DEF RunForTarget, RequestRec
  <1>13. CASE LetGo(s)
    BY <1>2, <1>3, <1>13 DEF LetGo, CountLockFree
  <1>14. CASE RaiseOne(s)
    BY <1>1, <1>3, <1>14 DEF RaiseOne, CountLockFree, RequestRec
  <1>15. CASE ClearOne(s)
    <2>1. rq[s].pc = "clearing" /\ rq' = [rq EXCEPT ![s].pc = "raising", ![s].on = NULL]
      BY <1>15 DEF ClearOne
    <2>2. (\A r \in Requesters : r # s => rq'[r] = rq[r]) /\ rq'[s].pc = "raising"
      BY <1>1, <2>1 DEF RequestRec
    <2>. QED BY <1>3, <2>1, <2>2
  <1>16. CASE RaisedAll(s)
    BY <1>2, <1>16 DEF RaisedAll
  <1>17. CASE Pause(s)
    BY <1>2, <1>17 DEF Pause
  <1>18. CASE ResumeAll(s)
    <2>1. Be(s, "idle") /\ CountLockFree
      BY <1>18, Zenon DEF ResumeAll
    <2>. QED BY <1>2, <2>1 DEF CountLockFree
  <1>19. CASE SuspendAll(s)
    <2>1. PICK l : rq' = [rq EXCEPT ![s].pc = "raising", ![s].op = "suspend", ![s].on = NULL,
                                    ![s].todo = Registered, ![s].left = l]
      BY <1>19 DEF SuspendAll
    <2>2. (\A r \in Requesters : r # s => rq'[r] = rq[r]) /\ rq'[s].pc = "raising"
      BY <1>1, <2>1 DEF RequestRec
    <2>3. th' = th
      BY <1>19 DEF SuspendAll
    <2>. QED BY <2>2, <2>3
  <1>20. CASE \E t \in Threads, op \in {"checkpoint", "empty"} : Ask(s, t, op)
    <2>1. PICK t \in Threads, op \in {"checkpoint", "empty"} : Ask(s, t, op)
      BY <1>20
    <2>2. PICK l : rq' = [rq EXCEPT ![s].pc = "loop", ![s].op = op, ![s].on = t, ![s].runs = 0,
                                    ![s].left = l]
      BY <2>1 DEF Ask
    <2>3. (\A r \in Requesters : r # s => rq'[r] = rq[r]) /\ rq'[s].pc = "loop"
      BY <1>1, <2>2 DEF RequestRec
    <2>4. th' = th
      BY <2>1 DEF Ask
    <2>. QED BY <2>3, <2>4
  <1>21. CASE Serves(s)
    BY <1>4, <1>5, <1>6, <1>7, <1>8, <1>9, <1>10, <1>11, <1>12, <1>13, <1>14, <1>15, <1>16, <1>17,
       <1>18, <1>21, Zenon DEF Serves
  <1>22. CASE Requests(s)
    BY <1>19, <1>20, <1>22, Zenon DEF Requests
  <1>. QED BY <1>21, <1>22

(* A requester finds its barrier where it put it. *)
LEMMA ClearStep ==
  ASSUME IInv, ClearInv, [Next]_vars
  PROVE  ClearInv'
  <1>. SUFFICES ASSUME NEW r \in Requesters, rq'[r].pc = "clearing"
                PROVE  rq'[r].on \in Registered' /\ r \in th'[rq'[r].on].barriers
    BY DEF ClearInv
  <1>1. ASSUME rq[r].pc = "clearing", rq'[r].on = rq[r].on, BarriersStay
        PROVE  rq'[r].on \in Registered' /\ r \in th'[rq'[r].on].barriers
    <2>1. rq[r].on \in Registered /\ r \in th[rq[r].on].barriers
      BY <1>1 DEF ClearInv
    <2>. QED BY <1>1, <2>1 DEF BarriersStay
  <1>2. rq[r].pc = "clearing" => suspend_count_lock = r /\ ~ CountLockFree
    BY DEF IInv, LockInv, CountLockFree
  <1>3. th' = th => BarriersStay
    BY DEF BarriersStay, Registered
  <1>4. CASE UNCHANGED vars \/ AwaitBirths
    <2>1. th' = th /\ rq' = rq
      BY <1>4 DEF vars, AwaitBirths
    <2>. QED BY <1>1, <1>3, <2>1
  <1>5. CASE \E t \in Threads : Runs(t) \/ Chooses(t)
    <2>1. PICK t \in Threads : Runs(t) \/ Chooses(t)
      BY <1>5
    <2>2. (~ CountLockFree => BarriersStay) /\ Idles
      BY <2>1, ThreadStepStays
    <2>. QED BY <1>1, <1>2, <2>2 DEF Idles
  <1>6. CASE \E s \in Requesters : Serves(s) \/ Requests(s)
    <2>1. PICK s \in Requesters : Serves(s) \/ Requests(s)
      BY <1>6
    <2>2. /\ suspend_count_lock \notin {NULL, s} => th' = th
          /\ \A w \in Requesters : w # s => rq'[w] = rq[w]
          /\ rq'[s].pc = "clearing" => RaiseOne(s)
      BY <2>1, RequesterStepStays
    <2>3. CASE s # r
      <3>1. rq'[r] = rq[r] /\ suspend_count_lock = r
        BY <1>2, <2>2, <2>3
      <3>. QED BY <1>1, <1>3, <2>2, <2>3, <3>1
    <2>4. CASE s = r
      <3>1. RaiseOne(r)
        BY <2>2, <2>4
      <3>2. PICK t \in rq[r].todo :
              /\ th' = [th EXCEPT ![t] = Raise(@, r)]
              /\ rq' = [rq EXCEPT ![r].pc = "clearing", ![r].on = t, ![r].todo = @ \ {t}]
        BY <3>1 DEF RaiseOne
      <3>3. t \in Registered /\ t \in Threads
        BY <3>2 DEF IInv, TargetInv, Registered
      <3>4. rq'[r].on = t
        BY <3>2, TargetFacts DEF IInv, RequestInv, RequestRec
      <3>5. th'[t] = Raise(th[t], r) /\ th[t] \in ThreadRec
        BY <3>2, <3>3, Before
      <3>6. th'[t].pc = th[t].pc /\ th'[t].barriers = th[t].barriers \cup {r}
        BY <3>5 DEF Raise, ThreadRec
      <3>. QED BY <3>3, <3>4, <3>6 DEF Registered
    <2>. QED BY <2>3, <2>4
  <1>. QED BY <1>4, <1>5, <1>6, Zenon DEF Next

(* The invariant is inductive, whatever the threads, the requesters and    *)
(* the births do in whatever order.                                        *)
THEOREM Inductive == Spec => [](IInv /\ ClearInv)
  <1>1. ASSUME IInv, ClearInv, [Next]_vars PROVE IInv'
    <2>1. CASE UNCHANGED vars
      BY <1>1, <2>1, StutterKeeps
    <2>2. CASE Next
      <3>1. CASE \E t \in Threads : Runs(t) \/ Chooses(t)
        BY <1>1, <3>1, ThreadStepKeeps, Zenon
      <3>2. CASE \E r \in Requesters : Serves(r) \/ Requests(r)
        BY <1>1, <3>2, RequesterStepKeeps, Zenon
      <3>3. CASE AwaitBirths
        BY <1>1, <3>3, AwaitBirthsKeeps, Zenon
      <3>. QED BY <2>2, <3>1, <3>2, <3>3, Zenon DEF Next
    <2>. QED BY <1>1, <2>1, <2>2
  <1>2. Init => ClearInv
    BY DEF Init, ClearInv
  <1>. QED BY <1>1, <1>2, InitIInv, ClearStep, PTL DEF Spec

(* A barrier is between minus one, for a closure that ran before it was    *)
(* counted, and the number of threads.                                     *)
LEMMA BarrierBounds ==
  ASSUME IInv, NEW r \in Requesters
  PROVE  barrier[r] \in -1 .. Cardinality(Threads)
  <1>1. Cardinality(Threads) \in Nat /\ Cardinality(Threads) >= 1
    <2>1. Cardinality(Threads) \in Nat /\ (Cardinality(Threads) = 0 <=> Threads = {})
      BY FS_CardinalityType, FS_EmptySet
    <2>. QED BY <2>1
  <1>2. RequestOK(rq[r]) /\ rq[r] \in RequestRec
    BY TargetFacts
  <1>3. rq[r].op \in {NULL, "checkpoint", "empty", "suspend"} /\ rq[r].runs \in {0, 1}
    BY <1>2 DEF RequestRec
  <1>4. CASE rq[r].op = NULL
    BY <1>1, <1>4 DEF IInv, EmptyInv
  <1>5. CASE rq[r].op = "checkpoint"
    <2>1. barrier[r] = IF rq[r].pc = "wait" THEN 0 - rq[r].runs
                       ELSE IF rq[r].pc = "waiting" THEN 1 - rq[r].runs ELSE 0
      BY <1>5 DEF IInv, ClosureInv
    <2>. QED BY <1>1, <1>3, <2>1
  <1>6. CASE rq[r].op = "empty"
    <2>1. barrier[r] = IF rq[r].pc \notin {"wait", "waiting"} THEN 0
                       ELSE (IF rq[r].pc = "waiting" THEN 1 ELSE 0)
                              - (IF "empty" \in th[rq[r].on].flags THEN 0 ELSE 1)
      BY <1>6 DEF IInv, EmptyInv
    <2>. QED BY <1>1, <2>1
  <1>7. CASE rq[r].op = "suspend"
    <2>1. rq[r].pc \in {"idle", "raising", "clearing", "gathering", "paused"}
      BY <1>2, <1>7 DEF RequestOK, RequestRec, AskPcs, HoldPcs, SuspendPcs
    <2>2. CASE rq[r].pc \in {"raising", "clearing", "gathering"}
      <3>1. barrier[r] = Cardinality(Pending(r))
        BY <2>2 DEF IInv, BarrierInv
      <3>2. Pending(r) \subseteq Threads
        BY DEF Pending
      <3>3. Cardinality(Pending(r)) <= Cardinality(Threads) /\ Cardinality(Pending(r)) \in Nat
        BY <3>2, FS_Subset, FS_CardinalityType
      <3>. QED BY <1>1, <3>1, <3>3
    <2>3. CASE rq[r].pc \in {"idle", "paused"}
      BY <1>1, <1>7, <2>3 DEF IInv, BarrierInv
    <2>. QED BY <2>1, <2>2, <2>3
  <1>. QED BY <1>3, <1>4, <1>5, <1>6, <1>7

(* The word of state and flags always agrees with the fields that the lock *)
(* guards, and the counters stay within what threads and requesters there  *)
(* are.                                                                    *)
THEOREM TypeCorrect == Spec => []TypeOK
  <1>1. ASSUME IInv PROVE TypeOK
    <2>1. ASSUME NEW t \in Threads, NEW o, o = th[t]
          PROVE  /\ o.state \in {"Native", "Runnable", "Suspended"}
                 /\ o.flags \subseteq Flags
                 /\ o.barriers \subseteq Requesters /\ Cardinality(o.barriers) <= MaxBarriers
                 /\ o.count \in 0 .. Cardinality(Requesters)
                 /\ ("suspend" \in o.flags) = (o.count > 0)
                 /\ ("barrier" \in o.flags) = (o.barriers # {})
                 /\ ("checkpoint" \in o.flags) = (o.checkpoints # <<>>)
      <3>1. ThreadOK(o) /\ o \in ThreadRec /\ FlagsAgree(o)
        BY <1>1, <2>1, Before
      <3>2. o.count \in 0 .. Cardinality(Requesters)
        <4>1. o.count = Cardinality(Holders(t)) /\ Holders(t) \subseteq Requesters
          BY <1>1, <2>1 DEF IInv, CountInv, Holders
        <4>2. /\ Cardinality(Holders(t)) <= Cardinality(Requesters)
              /\ Cardinality(Holders(t)) \in Nat /\ Cardinality(Requesters) \in Nat
          BY <4>1, FS_Subset, FS_CardinalityType
        <4>. QED BY <4>1, <4>2
      <3>3. /\ ("suspend" \in o.flags) = (o.count > 0)
            /\ ("barrier" \in o.flags) = (o.barriers # {})
            /\ ("checkpoint" \in o.flags) = (o.checkpoints # <<>>)
        BY <3>1 DEF FlagsAgree
      <3>. QED BY <3>1, <3>2, <3>3 DEF ThreadOK, ThreadRec
    <2>2. \A r \in Requesters : /\ rq[r].left \in 0 .. MaxRequests
                                /\ barrier[r] \in -1 .. Cardinality(Threads)
      BY <1>1, TargetFacts, BarrierBounds DEF RequestRec
    <2>3. suspend_all_count \in 0 .. Cardinality(Requesters)
      <3>1. suspend_all_count = Cardinality(Suspenders) /\ Suspenders \subseteq Requesters
        BY <1>1 DEF IInv, CountInv, Suspenders
      <3>2. /\ Cardinality(Suspenders) <= Cardinality(Requesters)
            /\ Cardinality(Suspenders) \in Nat /\ Cardinality(Requesters) \in Nat
        BY <3>1, FS_Subset, FS_CardinalityType
      <3>. QED BY <3>1, <3>2
    <2>4. births \in 0 .. Cardinality(Threads)
      <3>1. births = Cardinality(Unborn) /\ Unborn \subseteq Threads
        BY <1>1 DEF IInv, BirthInv, Unborn
      <3>2. /\ Cardinality(Unborn) <= Cardinality(Threads)
            /\ Cardinality(Unborn) \in Nat /\ Cardinality(Threads) \in Nat
        BY <3>1, FS_Subset, FS_CardinalityType
      <3>. QED BY <3>1, <3>2
    <2>5. shutdown \in {"up", "asleep", "awake", "down"}
      BY <1>1 DEF IInv, BirthInv
    <2>. QED BY <2>1, <2>2, <2>3, <2>4, <2>5 DEF TypeOK
  <1>. QED BY <1>1, Inductive, PTL

(* No CHECK and no LOG(FATAL) of the modelled functions is ever reached. *)
THEOREM NeverFatal == Spec => []NoFatal
  <1>1. IInv => NoFatal
    BY DEF IInv, NoFatal
  <1>. QED BY <1>1, Inductive, PTL

(* In a pause no thread runs, a closure is run for a thread only while it  *)
(* does not run, and a synchronous checkpoint runs exactly once.           *)
THEOREM RequestsAreHonoured == Spec => []RequestHonoured
  <1>1. ASSUME IInv PROVE RequestHonoured
    <2>. SUFFICES ASSUME NEW r \in Requesters
                  PROVE  /\ rq[r].pc = "paused" => \A t \in Registered : ~ Runnable(t)
                         /\ rq[r].pc = "running" => ~ Runnable(Target(r))
                         /\ rq[r].op = "checkpoint" =>
                              rq[r].runs = IF rq[r].pc \in {"idle", "lower"} THEN 1
                                           ELSE IF rq[r].pc \in {"wait", "waiting"} THEN rq[r].runs ELSE 0
                         /\ rq[r].runs <= 1
      BY DEF RequestHonoured
    <2>1. RequestOK(rq[r]) /\ rq[r] \in RequestRec
      BY <1>1, TargetFacts
    <2>2. ASSUME rq[r].pc = "paused", NEW t \in Registered PROVE ~ Runnable(t)
      <3>1. Suspends(r, t) /\ t \in Threads
        BY <2>1, <2>2 DEF Suspends, SuspendPcs, RequestOK, Registered
      <3>2. Pending(r) = {}
        BY <1>1, <2>2 DEF IInv, BarrierInv
      <3>3. r \notin th[t].barriers
        BY <3>1, <3>2 DEF Pending
      <3>. QED BY <1>1, <3>1, <3>3 DEF IInv, BarrierInv
    <2>3. rq[r].pc = "running" => ~ Runnable(Target(r))
      BY <1>1 DEF IInv, BarrierInv, Target
    <2>4. rq[r].op = "checkpoint" =>
            rq[r].runs = IF rq[r].pc \in {"idle", "lower"} THEN 1
                         ELSE IF rq[r].pc \in {"wait", "waiting"} THEN rq[r].runs ELSE 0
      BY <2>1 DEF RequestOK, RequestRec, AskPcs, HoldPcs, SuspendPcs
    <2>5. rq[r].runs <= 1
      BY <2>1 DEF RequestRec
    <2>. QED BY <2>2, <2>3, <2>4, <2>5
  <1>. QED BY <1>1, Inductive, PTL

=============================================================================
