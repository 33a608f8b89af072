------------------------------- MODULE Threads -------------------------------
(***************************************************************************)
(* ART's threads (thread.cc, thread-inl.h): a mutator moves between        *)
(* kRunnable and the suspended states by compare-and-swap on one word of   *)
(* state and flags, while requesters ask it to run a checkpoint, to stop   *)
(* at a suspend barrier or to run its flip function; and threads are born  *)
(* and detached while the runtime shuts down (runtime.cc).  A step is one  *)
(* critical section of thread_suspend_count_lock_, or one load with the    *)
(* compare-and-swap that depends on it.                                    *)
(***************************************************************************)
EXTENDS Integers, Sequences, FiniteSets

CONSTANTS Threads,      \* Thread objects of mutators
          Main,         \* the one that exists from the start
          Requesters,   \* the collector and the agents: never runnable
          MaxBarriers,  \* kMaxSuspendBarriers
          MaxRequests,  \* requests of each requester
          NULL

ASSUME ThreadsAssumption ==
  /\ Main \in Threads /\ MaxBarriers \in Nat \ {0} /\ MaxRequests \in Nat
  /\ IsFiniteSet(Threads) /\ IsFiniteSet(Requesters)
  /\ NULL \notin Threads \cup Requesters
ASSUME NULLAssumption == NULL \notin {"checkpoint", "empty", "suspend"}

VARIABLES
  th,         \* Thread objects, with where their threads are in the code
  rq,         \* requesters, with where they are
  barrier,    \* each requester: its count of threads still to pass, or of closures to run
  suspend_count_lock, thread_list_lock,   \* who holds them from one step to the next
  suspend_all_count,                      \* suspensions that new threads join
  births,     \* threads_being_born_
  shutdown,   \* where ~Runtime is; "down" once shutting_down_ is set
  aborted     \* the CHECK or LOG(FATAL) that ended the process, or NULL

locks == <<suspend_count_lock, thread_list_lock>>
runtime == <<births, shutdown>>
vars == <<th, rq, barrier, locks, suspend_all_count, runtime, aborted>>

(* The constructor; pc "absent" is no object yet. *)
NewThread ==
  [pc |-> "absent", state |-> "Native", flags |-> {}, count |-> 0, barriers |-> {},
   checkpoints |-> <<>>, flip |-> FALSE, transitioning |-> FALSE,
   back |-> NULL,      \* where the call the thread is in returns to
   after |-> "native", \* why it leaves kRunnable: for native code or to check again
   closure |-> NULL, claimed |-> {}, child |-> NULL, exiting |-> FALSE]
Registered == {t \in Threads : th[t].pc \notin {"absent", "unborn", "starting", "dead"}}
Runnable(t) == th[t].state = "Runnable"
IsSuspended(t) == ~Runnable(t) /\ "suspend" \in th[t].flags

Init ==
  /\ th = [t \in Threads |-> IF t = Main THEN [NewThread EXCEPT !.pc = "native"] ELSE NewThread]
  /\ rq = [r \in Requesters |-> [pc |-> "idle", op |-> NULL, on |-> NULL, todo |-> {},
                                 seen |-> NULL, runs |-> 0, left |-> MaxRequests]]
  /\ barrier = [r \in Requesters |-> 0]
  /\ suspend_count_lock = NULL /\ thread_list_lock = NULL
  /\ suspend_all_count = 0
  /\ births = 0 /\ shutdown = "up"
  /\ aborted = NULL

At(t, pc) == th[t].pc = pc
Goto(t, pc) == th' = [th EXCEPT ![t].pc = pc]
Back(t) == th' = [th EXCEPT ![t].pc = th[t].back, ![t].back = NULL]
Call(t, pc) == th' = [th EXCEPT ![t].pc = pc, ![t].back = th[t].pc]
Abort(why) == aborted' = why /\ UNCHANGED <<th, rq, barrier, locks, suspend_all_count, runtime>>
CountLockFree == suspend_count_lock = NULL
ListLockFree == thread_list_lock = NULL
Rest == <<locks, suspend_all_count, runtime, aborted>>

-----------------------------------------------------------------------------
(* The suspend count: ModifySuspendCountInternal on a Thread object *)

CanRaise(o, b) == ~o.flip /\ (b # NULL => Cardinality(o.barriers) < MaxBarriers)
Raise(o, b) ==
  [o EXCEPT !.count = @ + 1,
            !.barriers = IF b = NULL THEN @ ELSE @ \cup {b},
            !.flags = @ \cup {"suspend"} \cup (IF b = NULL THEN {} ELSE {"barrier"})]
Lower(o) ==
  [o EXCEPT !.count = @ - 1, !.flags = IF o.count = 1 THEN @ \ {"suspend"} ELSE @]
ClearSuspendBarrier(o, b) ==
  [o EXCEPT !.barriers = @ \ {b},
            !.flags = IF o.barriers \subseteq {b} THEN @ \ {"barrier"} ELSE @]

-----------------------------------------------------------------------------
(* A mutator becomes runnable: TransitionFromSuspendedToRunnable *)

Requested == {"checkpoint", "empty"}

BecomeRunnable(t) ==
  /\ At(t, "resuming")
  /\ th[t].flags = {}
  /\ th' = [th EXCEPT ![t].state = "Runnable", ![t].pc = "flip"]
  /\ UNCHANGED <<rq, barrier, Rest>>

(* With a suspend request it takes the lock and sleeps on resume_cond_     *)
(* until the request is gone.                                              *)
WaitToResume(t) ==
  /\ \/ At(t, "resuming") /\ th[t].flags \cap (Requested \cup {"barrier"}) = {}
     \/ At(t, "awake")
  /\ "suspend" \in th[t].flags
  /\ CountLockFree
  /\ th' = [th EXCEPT ![t].transitioning = TRUE, ![t].pc = "asleep"]
  /\ UNCHANGED <<rq, barrier, Rest>>
Wake(t) ==
  /\ At(t, "awake")
  /\ "suspend" \notin th[t].flags
  /\ CountLockFree
  /\ th' = [th EXCEPT ![t].transitioning = FALSE, ![t].pc = "resuming"]
  /\ UNCHANGED <<rq, barrier, Rest>>
SpuriousWakeup(t) == At(t, "asleep") /\ Goto(t, "awake") /\ UNCHANGED <<rq, barrier, Rest>>

RunFlip(t) ==
  /\ At(t, "flip")
  /\ th' = [th EXCEPT ![t].flip = FALSE,
                      ![t].pc = IF th[t].after = "check" THEN "check" ELSE "managed",
                      ![t].after = "native"]
  /\ UNCHANGED <<rq, barrier, Rest>>

(* PassActiveSuspendBarriers, from either transition: claim the barriers   *)
(* with the lock, pass them without it                                     *)
SeeBarrier(t) ==
  /\ th[t].pc \in {"resuming", "passing"}
  /\ "barrier" \in th[t].flags
  /\ Call(t, "claim")
  /\ UNCHANGED <<rq, barrier, Rest>>
(* Mutant of Claim: the flag is left for the next suspension. *)
ClaimKeepsFlag(t) ==
  /\ At(t, "claim")
  /\ CountLockFree
  /\ IF "barrier" \in th[t].flags
     THEN th' = [th EXCEPT ![t].claimed = th[t].barriers, ![t].barriers = {}, ![t].pc = "pass"]
     ELSE Back(t)
  /\ UNCHANGED <<rq, barrier, Rest>>

Claim(t) ==
  /\ At(t, "claim")
  /\ CountLockFree
  /\ IF "barrier" \in th[t].flags
     THEN th' = [th EXCEPT ![t].claimed = th[t].barriers, ![t].barriers = {},
                           ![t].flags = @ \ {"barrier"}, ![t].pc = "pass"]
     ELSE Back(t)
  /\ UNCHANGED <<rq, barrier, Rest>>
PassBarrier(t) ==
  /\ At(t, "pass")
  /\ IF th[t].claimed = {} THEN Abort("no barrier to pass")
     ELSE \E r \in th[t].claimed :
       IF barrier[r] <= 0 THEN Abort("barrier passed too often")
       ELSE /\ barrier' = [barrier EXCEPT ![r] = @ - 1]
            /\ th' = [th EXCEPT ![t].claimed = @ \ {r},
                                ![t].pc = IF th[t].claimed = {r} THEN th[t].back ELSE @,
                                ![t].back = IF th[t].claimed = {r} THEN NULL ELSE @]
            /\ UNCHANGED <<rq, Rest>>
(* "Impossible": a thread that is not runnable has a checkpoint to run. *)
CheckpointWhileSuspended(t) ==
  /\ th[t].pc \in {"resuming", "passing"}
  /\ "barrier" \notin th[t].flags /\ th[t].flags \cap Requested # {}
  /\ Abort("suspended with a checkpoint")

-----------------------------------------------------------------------------
(* A mutator runs: CheckSuspend, checkpoints, the way out of kRunnable *)

(* EmptyCheckpointBarrier: of the one requester that may use it at a time *)
InEmpty(r) == rq[r].op = "empty" /\ rq[r].pc # "idle"
RunEmptyCheckpoint(t) ==
  /\ th' = [th EXCEPT ![t].flags = @ \ {"empty"}]
  /\ barrier' = [r \in Requesters |-> IF InEmpty(r) THEN barrier[r] - 1 ELSE barrier[r]]
  /\ UNCHANGED <<rq, Rest>>

Poll(t) ==
  At(t, "managed") /\ th[t].flags # {} /\ Goto(t, "check") /\ UNCHANGED <<rq, barrier, Rest>>
CheckSuspend(t) ==
  /\ At(t, "check")
  /\ LET f == th[t].flags IN
     \/ "checkpoint" \in f /\ Call(t, "checkpoint") /\ UNCHANGED <<rq, barrier, Rest>>
     \/ /\ "checkpoint" \notin f /\ "suspend" \in f
        /\ th' = [th EXCEPT ![t].pc = "suspending", ![t].after = "check"]
        /\ UNCHANGED <<rq, barrier, Rest>>
     \/ f \cap {"checkpoint", "suspend"} = {} /\ "empty" \in f /\ RunEmptyCheckpoint(t)
     \/ /\ f \cap {"checkpoint", "suspend", "empty"} = {}
        /\ Goto(t, "managed") /\ UNCHANGED <<rq, barrier, Rest>>

Leave(t) ==
  /\ At(t, "managed")
  /\ Goto(t, "suspending")
  /\ UNCHANGED <<rq, barrier, Rest>>
(* TransitionToSuspendedAndRunCheckpoints: the swap keeps the flags. *)
BecomeSuspended(t) ==
  /\ At(t, "suspending")
  /\ LET f == th[t].flags IN
     \/ "checkpoint" \in f /\ Call(t, "checkpoint") /\ UNCHANGED <<rq, barrier, Rest>>
     \/ "checkpoint" \notin f /\ "empty" \in f /\ RunEmptyCheckpoint(t)
     \/ /\ f \cap Requested = {}
        /\ th' = [th EXCEPT ![t].state = IF th[t].after = "check" THEN "Suspended" ELSE "Native",
                            ![t].pc = "passing"]
        /\ UNCHANGED <<rq, barrier, Rest>>
Passed(t) ==
  /\ At(t, "passing")
  /\ th[t].flags \cap (Requested \cup {"barrier"}) = {}
  /\ Goto(t, IF th[t].after = "check" THEN "resuming" ELSE "native")
  /\ UNCHANGED <<rq, barrier, Rest>>

(* RunCheckpointFunction: the first closure leaves the list with the lock, *)
(* the last one takes the flag along; it runs without the lock.            *)
TakeCheckpoint(t) ==
  /\ At(t, "checkpoint")
  /\ CountLockFree
  /\ IF th[t].checkpoints = <<>> THEN Abort("checkpoint flag without checkpoint")
     ELSE /\ th' = [th EXCEPT ![t].closure = Head(th[t].checkpoints),
                              ![t].checkpoints = Tail(@),
                              ![t].flags = IF Len(th[t].checkpoints) = 1 THEN @ \ {"checkpoint"} ELSE @,
                              ![t].pc = IF Len(th[t].checkpoints) = 1 THEN "runlast" ELSE "run"]
          /\ UNCHANGED <<rq, barrier, Rest>>
(* BarrierClosure::Run *)
RunCheckpoint(t) ==
  /\ th[t].pc \in {"run", "runlast"}
  /\ rq' = [rq EXCEPT ![th[t].closure].runs = @ + 1]
  /\ barrier' = [barrier EXCEPT ![th[t].closure] = @ - 1]
  /\ th' = [th EXCEPT ![t].closure = NULL,
                      ![t].pc = IF th[t].pc = "run" THEN "checkpoint" ELSE th[t].back,
                      ![t].back = IF th[t].pc = "run" THEN @ ELSE NULL]
  /\ UNCHANGED Rest
-----------------------------------------------------------------------------
(* Requests for a checkpoint: RequestSynchronousCheckpoint, and the        *)
(* collector's use of RequestEmptyCheckpoint                               *)

Be(r, pc) == rq' = [rq EXCEPT ![r].pc = pc]
Target(r) == rq[r].on
Word(t) == <<th[t].state, th[t].flags>>

(* The caller keeps the thread it asks from being detached meanwhile.      *)
Ask(r, t, op) ==
  /\ rq[r].pc = "idle" /\ rq[r].left > 0
  /\ t \in Registered /\ ~th[t].exiting
  /\ op = "empty" => \A s \in Requesters : ~InEmpty(s)
  /\ rq' = [rq EXCEPT ![r].pc = "loop", ![r].op = op, ![r].on = t, ![r].runs = 0,
                      ![r].left = @ - 1]
  /\ barrier' = [barrier EXCEPT ![r] = 0]
  /\ UNCHANGED <<th, Rest>>
(* A thread that is not runnable needs no empty checkpoint. *)
Otherwise(r) == IF rq[r].op = "empty" THEN "idle" ELSE "raise"
LookAt(r) ==
  /\ rq[r].pc = "loop"
  /\ Be(r, IF Runnable(Target(r)) THEN "try" ELSE Otherwise(r))
  /\ UNCHANGED <<th, barrier, Rest>>
LoadWord(r) ==
  /\ rq[r].pc = "try"
  /\ CountLockFree
  /\ IF Runnable(Target(r))
     THEN /\ rq' = [rq EXCEPT ![r].pc = "swap", ![r].seen = Word(Target(r))]
          /\ suspend_count_lock' = r
     ELSE Be(r, Otherwise(r)) /\ UNCHANGED suspend_count_lock
  /\ UNCHANGED <<th, barrier, thread_list_lock, suspend_all_count, runtime, aborted>>
(* Mutant of RequestCheckpoint: the swap ignores what changed since the load. *)
RequestCheckpointBlindly(r) ==
  /\ rq[r].pc = "swap"
  /\ suspend_count_lock' = NULL
  /\ th' = [th EXCEPT ![Target(r)].flags = @ \cup {rq[r].op},
                      ![Target(r)].checkpoints = IF rq[r].op = "empty" THEN @ ELSE Append(@, r)]
  /\ rq' = [rq EXCEPT ![r].pc = "wait", ![r].seen = NULL]
  /\ UNCHANGED <<barrier, thread_list_lock, suspend_all_count, runtime, aborted>>

RequestCheckpoint(r) ==
  /\ rq[r].pc = "swap"
  /\ suspend_count_lock' = NULL
  /\ LET t == Target(r) IN
     IF Word(t) = rq[r].seen
     THEN /\ th' = [th EXCEPT ![t].flags = @ \cup {rq[r].op},
                              ![t].checkpoints = IF rq[r].op = "empty" THEN @ ELSE Append(@, r)]
          /\ rq' = [rq EXCEPT ![r].pc = "wait", ![r].seen = NULL]
     ELSE rq' = [rq EXCEPT ![r].pc = Otherwise(r), ![r].seen = NULL] /\ UNCHANGED th
  /\ UNCHANGED <<barrier, thread_list_lock, suspend_all_count, runtime, aborted>>
(* Barrier::Increment: count the closure, then wait for it. *)
Increment(r) ==
  /\ rq[r].pc = "wait"
  /\ barrier' = [barrier EXCEPT ![r] = @ + 1]
  /\ Be(r, "waiting")
  /\ UNCHANGED <<th, Rest>>
Return(r) == rq[r].pc = "waiting" /\ barrier[r] = 0 /\ Be(r, "idle") /\ UNCHANGED <<th, barrier, Rest>>

(* The thread is not runnable: hold it there and run the closure for it.   *)
(* A retry of ModifySuspendCount keeps thread_list_lock_.                  *)
LockList(r) ==
  /\ rq[r].pc = "raise"
  /\ ListLockFree
  /\ thread_list_lock' = r
  /\ Be(r, "holding")
  /\ UNCHANGED <<th, barrier, suspend_count_lock, suspend_all_count, runtime, aborted>>
HoldSuspended(r) ==
  /\ rq[r].pc = "holding"
  /\ CountLockFree
  /\ CanRaise(th[Target(r)], NULL)
  /\ th' = [th EXCEPT ![Target(r)] = Raise(@, NULL)]
  /\ thread_list_lock' = NULL
  /\ Be(r, "spin")
  /\ UNCHANGED <<barrier, suspend_count_lock, suspend_all_count, runtime, aborted>>
(* Mutant of AwaitSuspended: the request alone counts as suspended. *)
AwaitNothing(r) == rq[r].pc = "spin" /\ Be(r, "running") /\ UNCHANGED <<th, barrier, Rest>>

AwaitSuspended(r) ==
  /\ rq[r].pc = "spin"
  /\ ~Runnable(Target(r))
  /\ Be(r, "running")
  /\ UNCHANGED <<th, barrier, Rest>>
RunForTarget(r) ==
  /\ rq[r].pc = "running"
  /\ rq' = [rq EXCEPT ![r].pc = "lower", ![r].runs = @ + 1]
  /\ UNCHANGED <<th, barrier, Rest>>
(* The count goes down; nobody signals resume_cond_. *)
LetGo(r) ==
  /\ rq[r].pc = "lower"
  /\ ListLockFree /\ CountLockFree
  /\ th' = [th EXCEPT ![Target(r)] = Lower(@)]
  /\ Be(r, "idle")
  /\ UNCHANGED <<barrier, Rest>>

-----------------------------------------------------------------------------
(* ThreadList's suspension of all threads: the counts and the barriers are *)
(* raised under thread_list_lock_, which a retry keeps.                    *)

SuspendAll(r) ==
  /\ rq[r].pc = "idle" /\ rq[r].left > 0
  /\ ListLockFree
  /\ thread_list_lock' = r
  /\ suspend_all_count' = suspend_all_count + 1
  /\ barrier' = [barrier EXCEPT ![r] = Cardinality(Registered)]
  /\ rq' = [rq EXCEPT ![r].pc = "raising", ![r].op = "suspend", ![r].on = NULL,
                      ![r].todo = Registered, ![r].left = @ - 1]
  /\ UNCHANGED <<th, suspend_count_lock, runtime, aborted>>
RaiseOne(r) ==
  /\ rq[r].pc = "raising"
  /\ CountLockFree
  /\ \E t \in rq[r].todo :
       /\ CanRaise(th[t], r)
       /\ th' = [th EXCEPT ![t] = Raise(@, r)]
       /\ rq' = [rq EXCEPT ![r].pc = "clearing", ![r].on = t, ![r].todo = @ \ {t}]
  /\ suspend_count_lock' = r
  /\ UNCHANGED <<barrier, thread_list_lock, suspend_all_count, runtime, aborted>>
(* A thread that is not runnable by then passes no barrier. *)
ClearOne(r) ==
  /\ rq[r].pc = "clearing"
  /\ suspend_count_lock' = NULL
  /\ IF Runnable(Target(r)) THEN UNCHANGED <<th, barrier>>
     ELSE /\ th' = [th EXCEPT ![Target(r)] = ClearSuspendBarrier(@, r)]
          /\ barrier' = [barrier EXCEPT ![r] = @ - 1]
  /\ rq' = [rq EXCEPT ![r].pc = "raising", ![r].on = NULL]
  /\ UNCHANGED <<thread_list_lock, suspend_all_count, runtime, aborted>>
RaisedAll(r) ==
  /\ rq[r].pc = "raising" /\ rq[r].todo = {}
  /\ thread_list_lock' = NULL
  /\ Be(r, "gathering")
  /\ UNCHANGED <<th, barrier, suspend_count_lock, suspend_all_count, runtime, aborted>>
Pause(r) ==
  /\ rq[r].pc = "gathering"
  /\ barrier[r] = 0
  /\ \A s \in Requesters : rq[s].pc # "paused"
  /\ Be(r, "paused")
  /\ UNCHANGED <<th, barrier, Rest>>
(* The threads go on and all sleepers wake; in a collection those that this *)
(* suspension alone keeps from running get a flip function.                *)
ResumeAll(r) ==
  /\ rq[r].pc = "paused"
  /\ ListLockFree /\ CountLockFree
  /\ suspend_all_count' = suspend_all_count - 1
  /\ \E flips \in {{}, {t \in Registered : th[t].transitioning /\ th[t].count = 1}} :
       th' = [t \in Threads |->
         IF t \notin Registered THEN th[t]
         ELSE [Lower(th[t]) EXCEPT !.flip = @ \/ t \in flips,
                                   !.pc = IF @ = "asleep" THEN "awake" ELSE @]]
  /\ Be(r, "idle")
  /\ UNCHANGED <<barrier, locks, runtime, aborted>>

-----------------------------------------------------------------------------
(* Threads are born and detached *)

(* ThreadList::Register: the new thread joins every suspension under way. *)
Registers(t, pc) ==
  [th[t] EXCEPT !.pc = pc, !.count = suspend_all_count,
                !.flags = IF suspend_all_count > 0 THEN {"suspend"} ELSE {}]
(* Mutant of EndThreadBirth: nobody is told. *)
EndThreadBirthQuietly == births' = births - 1 /\ UNCHANGED shutdown

EndThreadBirth ==
  /\ births' = births - 1
  /\ shutdown' = IF births = 1 /\ shutdown = "asleep" THEN "awake" ELSE shutdown

(* CreateNativeThread: nothing is started once shutting_down_ is set. *)
CreateNativeThread(t, c) ==
  /\ At(t, "native") /\ ~th[t].exiting
  /\ At(c, "absent")
  /\ shutdown # "down"
  /\ births' = births + 1
  /\ th' = [th EXCEPT ![t].pc = "creating", ![t].child = c, ![c].pc = "unborn"]
  /\ UNCHANGED <<rq, barrier, locks, suspend_all_count, shutdown, aborted>>
PthreadCreate(t) ==
  /\ At(t, "creating")
  /\ th' = [th EXCEPT ![t].pc = "native", ![t].child = NULL, ![th[t].child].pc = "starting"]
  /\ UNCHANGED <<rq, barrier, Rest>>
CreateFails(t) ==
  /\ At(t, "creating")
  /\ EndThreadBirth
  /\ th' = [th EXCEPT ![t].pc = "native", ![t].child = NULL, ![th[t].child].pc = "dead"]
  /\ UNCHANGED <<rq, barrier, locks, suspend_all_count, aborted>>
CreateCallback(c) ==
  /\ At(c, "starting")
  /\ IF shutdown = "down" THEN Abort("born while shutting down")
     ELSE /\ ListLockFree /\ CountLockFree
          /\ th' = [th EXCEPT ![c] = Registers(c, "resuming")]
          /\ EndThreadBirth
          /\ UNCHANGED <<rq, barrier, locks, suspend_all_count, aborted>>
(* Attach: a birth that starts and ends under the shutdown lock; Init fails *)
(* or the thread is registered.                                            *)
Attach(c) ==
  /\ At(c, "absent")
  /\ shutdown # "down"
  /\ \/ th' = [th EXCEPT ![c].pc = "dead"]
     \/ ListLockFree /\ CountLockFree /\ th' = [th EXCEPT ![c] = Registers(c, "native")]
  /\ UNCHANGED <<rq, barrier, Rest>>

Enter(t) ==
  /\ At(t, "native") /\ ~th[t].exiting
  /\ Goto(t, "resuming")
  /\ UNCHANGED <<rq, barrier, Rest>>
(* Destroy becomes runnable once more. *)
Destroy(t) ==
  /\ At(t, "native") /\ ~th[t].exiting
  /\ \A r \in Requesters : rq[r].on = t => rq[r].pc \in {"idle", "clearing"}
  /\ th' = [th EXCEPT ![t].exiting = TRUE, ![t].pc = "resuming"]
  /\ UNCHANGED <<rq, barrier, Rest>>
(* Unregister waits until no suspension holds the thread; ~Thread CHECKs. *)
Unregister(t) ==
  /\ At(t, "native") /\ th[t].exiting
  /\ ListLockFree /\ CountLockFree
  /\ ~IsSuspended(t)
  /\ IF \/ Runnable(t) \/ th[t].flags \cap Requested # {} \/ th[t].checkpoints # <<>>
        \/ th[t].flip \/ th[t].transitioning
     THEN Abort("~Thread")
     ELSE th' = [th EXCEPT ![t] = [NewThread EXCEPT !.pc = "dead"]] /\ UNCHANGED <<rq, barrier, Rest>>

-----------------------------------------------------------------------------
(* ~Runtime waits for the births under way. *)

AwaitBirths ==
  /\ shutdown \in {"up", "awake"}
  /\ shutdown' = IF births > 0 THEN "asleep" ELSE "down"
  /\ UNCHANGED <<th, rq, barrier, locks, suspend_all_count, births, aborted>>
-----------------------------------------------------------------------------
(* What the code goes on to do by itself *)
Runs(t) ==
  \/ BecomeRunnable(t) \/ WaitToResume(t) \/ Wake(t) \/ RunFlip(t)
  \/ SeeBarrier(t) \/ Claim(t) \/ PassBarrier(t) \/ CheckpointWhileSuspended(t)
  \/ Poll(t) \/ CheckSuspend(t) \/ BecomeSuspended(t) \/ Passed(t)
  \/ TakeCheckpoint(t) \/ RunCheckpoint(t)
  \/ PthreadCreate(t) \/ CreateFails(t) \/ CreateCallback(t) \/ Unregister(t)
(* What the program on top decides *)
Chooses(t) ==
  \/ Enter(t) \/ Leave(t) \/ Destroy(t) \/ Attach(t) \/ SpuriousWakeup(t)
  \/ \E c \in Threads : CreateNativeThread(t, c)
Serves(r) ==
  \/ LookAt(r) \/ LoadWord(r) \/ RequestCheckpoint(r) \/ Increment(r) \/ Return(r)
  \/ LockList(r) \/ HoldSuspended(r) \/ AwaitSuspended(r) \/ RunForTarget(r) \/ LetGo(r)
  \/ RaiseOne(r) \/ ClearOne(r) \/ RaisedAll(r) \/ Pause(r) \/ ResumeAll(r)
Requests(r) ==
  \/ SuspendAll(r)
  \/ \E t \in Threads, op \in {"checkpoint", "empty"} : Ask(r, t, op)

Next ==
  /\ aborted = NULL
  /\ \/ \E t \in Threads : Runs(t) \/ Chooses(t)
     \/ \E r \in Requesters : Serves(r) \/ Requests(r)
     \/ AwaitBirths
Fairness ==
  /\ \A t \in Threads : WF_vars(aborted = NULL /\ Runs(t))
  /\ \A r \in Requesters : WF_vars(aborted = NULL /\ Serves(r))
  /\ WF_vars(aborted = NULL /\ shutdown = "awake" /\ AwaitBirths)
Spec == Init /\ [][Next]_vars /\ Fairness

-----------------------------------------------------------------------------
Flags == {"suspend", "barrier", "checkpoint", "empty"}

(* Every variable has its type, and the word and the fields that the lock   *)
(* guards agree whenever nobody is between a claim and its barriers: the   *)
(* request flag with the suspend count, the barrier flag with the list of  *)
(* barriers, the checkpoint flag with the closures.                        *)
TypeOK ==
  /\ \A t \in Threads :
       LET o == th[t] IN
       /\ o.state \in {"Native", "Runnable", "Suspended"}
       /\ o.flags \subseteq Flags
       /\ o.barriers \subseteq Requesters /\ Cardinality(o.barriers) <= MaxBarriers
       /\ o.count \in 0 .. Cardinality(Requesters)
       /\ ("suspend" \in o.flags) = (o.count > 0)
       /\ ("barrier" \in o.flags) = (o.barriers # {})
       /\ ("checkpoint" \in o.flags) = (o.checkpoints # <<>>)
  /\ \A r \in Requesters :
       /\ rq[r].left \in 0 .. MaxRequests
       /\ barrier[r] \in -1 .. Cardinality(Threads)
  /\ suspend_all_count \in 0 .. Cardinality(Requesters)
  /\ births \in 0 .. Cardinality(Threads)
  /\ shutdown \in {"up", "asleep", "awake", "down"}

(* No CHECK and no LOG(FATAL) is reached: a thread never leaves or enters  *)
(* kRunnable with a checkpoint unrun, never sees the flag without a        *)
(* closure, never passes a barrier twice, never is born while the runtime  *)
(* shuts down, and is destroyed with nothing pending.                      *)
NoFatal == aborted = NULL

(* What a requester relies on: in a pause no thread is runnable; while a   *)
(* closure is run for a thread by its requester the thread is not          *)
(* runnable; and a synchronous checkpoint that has returned ran its        *)
(* closure exactly once, on either side of the race.                       *)
RequestHonoured ==
  \A r \in Requesters :
    /\ rq[r].pc = "paused" => \A t \in Registered : ~Runnable(t)
    /\ rq[r].pc = "running" => ~Runnable(Target(r))
    /\ rq[r].op = "checkpoint" =>
         rq[r].runs = IF rq[r].pc \in {"idle", "lower"} THEN 1
                      ELSE IF rq[r].pc \in {"wait", "waiting"} THEN rq[r].runs ELSE 0
    /\ rq[r].runs <= 1

(* Every request is answered, whatever else is asked of the thread at the  *)
(* same time, and ~Runtime goes on once the births it found have ended.    *)
Answered ==
  /\ \A r \in Requesters : rq[r].pc # "idle" ~> rq[r].pc = "idle"
  /\ shutdown = "asleep" ~> shutdown = "down"
=============================================================================
