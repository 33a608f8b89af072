----------------------------- MODULE ClassLinker -----------------------------
(***************************************************************************)
(* ART's class linker (class_linker.cc): threads that find, define, link,  *)
(* verify and initialize classes at the same time.  A thread is a stack of *)
(* frames, one for each call of a function of the class linker that it is  *)
(* in; one step of a thread runs to the next monitor that it takes, lock   *)
(* that it releases, table that it reads or class that another thread may  *)
(* see changed.  The runtime is started (init_done_) and not a compiler.   *)
(***************************************************************************)
EXTENDS Integers, Sequences, SequencesExt, FiniteSets

CONSTANTS Threads,
          Descs,       \* descriptors
          Boot, App,   \* the boot class loader and a PathClassLoader whose parent it is
          Path,        \* loader -> descriptors in its dex files
          Interfaces, HasDefault,   \* interfaces; those with default methods
          Arrays,      \* array descriptors
          Supers,      \* superclass and then interfaces; of an array, its component
          Uses,        \* descriptor that <clinit> uses, or NULL
          Soft,        \* classes that fail verification softly
          MaxFaults,   \* failures of allocations, checks and initializers
          MaxSpurious, \* wake-ups without a notification
          NULL

Loaders == {Boot, App}

(* LinkSuperClass and SetupInterfaceLookupTable reject any other kind of   *)
(* supertype.  Classes may need each other to load or to initialize.       *)
ASSUME HierarchyAssumption ==
  /\ Interfaces \cap Arrays = {} /\ HasDefault \subseteq Interfaces
  /\ \A d \in Descs : Supers[d] \in Seq(Descs) /\ Uses[d] \in Descs \cup {NULL}
  /\ \A d \in Arrays \cap Descs : Supers[d] # <<>>
  /\ \A d \in Interfaces \cap Descs : ToSet(Supers[d]) \subseteq Interfaces

(* A class object: the one DefineClass allocates, or the copy of the right *)
(* size that LinkClass puts in its place                                   *)
Class(d, l, t, gen) == [desc |-> d, loader |-> l, by |-> t, gen |-> gen]
Classes == [desc : Descs, loader : Loaders, by : Threads, gen : {"first", "copy"}]

ASSUME ConstantsAssumption ==
  /\ Boot # App /\ NULL \notin Threads \cup Descs \cup Classes
  /\ MaxFaults \in Nat /\ MaxSpurious \in Nat

(* NULL is not the text of a CHECK: "aborted" says whether one failed. *)
ASSUME NullAssumption ==
  NULL \notin {"illegal verification state transition", "superclass to be verified at runtime"}

VARIABLES
  cls,      \* the class objects: status, clinit_thread_id_, supertypes, iftable, monitor
  table,    \* class table of each loader
  stack,    \* each thread: its frames, innermost first
  ret,      \* each thread: what FindClass returned last
  exc,      \* each thread: whether an exception is pending
  waiting,  \* each thread: the class in whose wait set it is
  faults, spurious,   \* how many of them are left
  aborted,  \* the CHECK that failed, or NULL
  given,    \* history: the classes FindClass returned, for each loader and descriptor
  denied,   \* history: loaders and descriptors that DefineClass could not allocate a class for
  ran       \* history: how often <clinit> of each class of a loader began

threads == <<stack, ret, exc>>
bounds == <<faults, spurious>>
history == <<given, denied, ran>>
vars == <<cls, table, threads, waiting, bounds, aborted, history>>

Statuses == {"Idx", "Loaded", "Resolving", "Resolved", "Verifying", "Verified",
             "Initializing", "Initialized", "ErrorUnresolved", "ErrorResolved", "Retired"}
Status(o) == cls[o].status
IsResolved(o) == Status(o) \in {"Resolved", "Verifying", "Verified", "Initializing",
                                "Initialized", "ErrorResolved"}
IsVerified(o) == Status(o) \in {"Verified", "Initializing", "Initialized"}
IsErroneous(o) == Status(o) \in {"ErrorUnresolved", "ErrorResolved"}
(* Instantiable classes get embedded tables: the first object is temporary. *)
IsTemp(o) == o.gen = "first" /\ o.desc \notin Interfaces \cup Arrays

Frame(at, d, l, k) == [at |-> at, d |-> d, l |-> l, k |-> k, i |-> 0, n |-> 0]
FindOf(d, l) == Frame("find", d, l, NULL)
Ensure(o, f) == Frame("ensure", f.d, f.l, o)
Of(at, o) == Frame(at, o.desc, o.loader, o)

Init ==
  /\ cls = <<>>
  /\ table = [l \in Loaders |-> [d \in Descs |-> NULL]]
  /\ stack = [t \in Threads |-> <<>>]
  /\ ret = [t \in Threads |-> NULL]
  /\ exc = [t \in Threads |-> FALSE]
  /\ waiting = [t \in Threads |-> NULL]
  /\ faults = MaxFaults /\ spurious = MaxSpurious
  /\ aborted = NULL
  /\ given = [l \in Loaders |-> [d \in Descs |-> {}]] /\ denied = {}
  /\ ran = [l \in Loaders |-> [d \in Descs |-> 0]]

-----------------------------------------------------------------------------
(* Frames, monitors, statuses *)

Top(t) == Head(stack[t])
At(t, at) == stack[t] # <<>> /\ Top(t).at = at /\ Top(t).n = 0
Become(t, f) == stack' = [stack EXCEPT ![t] = <<f>> \o Tail(@)]
Goto(t, at) == Become(t, [Top(t) EXCEPT !.at = at])
(* Call fs, to go on at "at", past one more supertype *)
Onward(f, at) == [f EXCEPT !.at = at, !.i = @ + 1]
Call(t, fs, at) == stack' = [stack EXCEPT ![t] = fs \o <<Onward(Top(t), at)>> \o Tail(@)]
Return(t) == stack' = [stack EXCEPT ![t] = Tail(@)]
Throw(t) == exc' = [exc EXCEPT ![t] = TRUE]
ReturnClass(t, o) == Return(t) /\ ret' = [ret EXCEPT ![t] = o] /\ UNCHANGED exc
ReturnNull(t) == Return(t) /\ ret' = [ret EXCEPT ![t] = NULL] /\ Throw(t)
Fail == faults > 0 /\ faults' = faults - 1

CanLock(t, o) == cls[o].owner \in {NULL, t}
Lock(c, t, o) == [c EXCEPT ![o].owner = t, ![o].count = @ + 1]
(* Mutant of Unlock: the first exit gives the monitor away. *)
UnlockFully(c, o) == [c EXCEPT ![o].owner = NULL, ![o].count = @ - 1]

Unlock(c, o) == [c EXCEPT ![o].owner = IF c[o].count = 1 THEN NULL ELSE @, ![o].count = @ - 1]
Set(c, o, s) == [c EXCEPT ![o].status = s]
NotifyAll(o) == waiting' = [t \in Threads |-> IF waiting[t] = o THEN NULL ELSE waiting[t]]

(* Wait releases the monitor at any depth; Resume takes it again. *)
Wait(t, o, at) ==
  /\ cls' = [cls EXCEPT ![o].owner = NULL, ![o].count = 0]
  /\ waiting' = [waiting EXCEPT ![t] = o]
  /\ Become(t, [Top(t) EXCEPT !.at = at, !.n = cls[o].count])
  /\ UNCHANGED <<ret, exc>>
Resume(t) ==
  /\ stack[t] # <<>> /\ Top(t).n > 0
  /\ waiting[t] = NULL
  /\ LET o == Top(t).k
     IN /\ cls[o].owner = NULL
        /\ cls' = [cls EXCEPT ![o].owner = t, ![o].count = Top(t).n]
  /\ Become(t, [Top(t) EXCEPT !.n = 0])
  /\ UNCHANGED <<table, ret, exc, waiting, bounds, aborted, history>>
Spurious(t) ==
  /\ waiting[t] # NULL
  /\ spurious > 0 /\ spurious' = spurious - 1
  /\ waiting' = [waiting EXCEPT ![t] = NULL]
  /\ UNCHANGED <<cls, table, threads, faults, aborted, history>>
-----------------------------------------------------------------------------
(* FindClass *)

FindClass(t) ==
  /\ At(t, "find")
  /\ LET f == Top(t)
         o == table[f.l][f.d]
     IN \/ o # NULL /\ Become(t, Ensure(o, f)) /\ UNCHANGED <<ret, exc>>
        \/ /\ o = NULL /\ f.d \in Arrays
           /\ Call(t, <<Frame("array", f.d, f.l, NULL)>>, "found") /\ UNCHANGED <<ret, exc>>
        \/ o = NULL /\ f.d \notin Arrays /\ f.l = App /\ Goto(t, "boot") /\ UNCHANGED <<ret, exc>>
        \/ /\ o = NULL /\ f.d \in Path[Boot] \ Arrays /\ f.l = Boot
           /\ Goto(t, "define") /\ UNCHANGED <<ret, exc>>
        \/ o = NULL /\ f.d \notin Path[Boot] \cup Arrays /\ f.l = Boot /\ ReturnNull(t)
  /\ UNCHANGED <<cls, table, waiting, bounds, aborted, history>>

(* The boot class path, then the loader's own; a failure is forgotten, and *)
(* Java's loadClass finds it again.                                        *)
FindClassInBaseDexClassLoader(t) ==
  LET f == Top(t)
      b == table[Boot][f.d]
  IN /\ \/ /\ At(t, "boot") /\ f.d \in Path[Boot]
           /\ Call(t, <<IF b # NULL THEN Frame("ensure", f.d, Boot, b)
                        ELSE Frame("define", f.d, Boot, NULL)>>, "own")
           /\ UNCHANGED <<ret, exc>>
        \/ /\ At(t, "boot") /\ f.d \notin Path[Boot]
           /\ Goto(t, "own") /\ ret' = [ret EXCEPT ![t] = NULL] /\ UNCHANGED exc
        \/ At(t, "own") /\ ret[t] # NULL /\ Goto(t, "found") /\ UNCHANGED <<ret, exc>>
        \/ /\ At(t, "own") /\ ret[t] = NULL
           /\ IF f.d \in Path[App] THEN Call(t, <<Frame("define", f.d, App, NULL)>>, "java")
              ELSE Goto(t, "java")
           /\ exc' = [exc EXCEPT ![t] = FALSE] /\ UNCHANGED ret
     /\ UNCHANGED <<cls, table, waiting, bounds, aborted, history>>

(* External: loadClass of the PathClassLoader throws, or returns the class *)
(* that findLoadedClass sees.                                              *)
LoadClassInJava(t) ==
  /\ At(t, "java")
  /\ LET o == table[App][Top(t).d]
     IN \/ ret[t] # NULL /\ UNCHANGED <<ret, exc>>
        \/ ret[t] = NULL /\ Throw(t) /\ UNCHANGED ret
        \/ /\ ret[t] = NULL /\ o # NULL
           /\ IsResolved(o) /\ ~ IsErroneous(o)
           /\ ret' = [ret EXCEPT ![t] = o] /\ exc' = [exc EXCEPT ![t] = FALSE]
  /\ Goto(t, "found")
  /\ UNCHANGED <<cls, table, waiting, bounds, aborted, history>>

(* The end of FindClass: if it failed, has another thread succeeded?  If   *)
(* not, the class goes into the table of the initiating loader.            *)
Found(t) ==
  /\ At(t, "found")
  /\ LET f == Top(t)
         old == table[f.l][f.d]
         other == IF old = NULL THEN FALSE ELSE ~ IsErroneous(old)
     IN \/ /\ exc[t] /\ other
           /\ Become(t, Ensure(old, f)) /\ exc' = [exc EXCEPT ![t] = FALSE]
           /\ UNCHANGED <<ret, table>>
        \/ exc[t] /\ ~ other /\ ReturnNull(t) /\ UNCHANGED table
        \/ /\ ~ exc[t] /\ old \in {NULL, ret[t]}
           /\ table' = [table EXCEPT ![f.l][f.d] = ret[t]]
           /\ Return(t) /\ UNCHANGED <<ret, exc>>
        \/ /\ ~ exc[t] /\ old \notin {NULL, ret[t]}
           /\ Become(t, Ensure(old, f)) /\ UNCHANGED <<ret, exc, table>>
  /\ UNCHANGED <<cls, waiting, bounds, aborted, history>>

NewClass(t, s, up) == [status |-> s, tid |-> t, up |-> up, ift |-> {}, done |-> FALSE,
                       owner |-> NULL, count |-> 0]
(* The class objects c with one more *)
Alloc(c, k, r) == [o \in DOMAIN c \cup {k} |-> IF o = k THEN r ELSE c[o]]

(* The array goes with the loader of its component, which may be a class   *)
(* that FindClass has just failed to return.                               *)
CreateArrayClass(t) ==
  LET f == Top(t)
      component == Supers[f.d][1]
      c == IF ret[t] # NULL THEN ret[t] ELSE table[f.l][component]
      k == Class(f.d, c.loader, t, "first")
  IN /\ \/ /\ At(t, "array") /\ f.i = 0
           /\ Call(t, <<FindOf(component, f.l)>>, "array")
           /\ UNCHANGED <<cls, table, ret, exc, faults>>
        \/ /\ At(t, "array") /\ f.i = 1
           /\ \/ c = NULL /\ ReturnNull(t) /\ UNCHANGED <<cls, table, faults>>
              \/ c # NULL /\ Fail /\ ReturnNull(t) /\ UNCHANGED <<cls, table>>
              \/ /\ c # NULL
                 /\ exc' = [exc EXCEPT ![t] = FALSE] /\ Return(t)
                 /\ IF table[c.loader][f.d] # NULL
                    THEN /\ ret' = [ret EXCEPT ![t] = table[c.loader][f.d]]
                         /\ UNCHANGED <<cls, table>>
                    ELSE /\ ret' = [ret EXCEPT ![t] = k]
                         /\ cls' = Alloc(cls, k, NewClass(NULL, "Initialized", <<c>>))
                         /\ table' = [table EXCEPT ![c.loader][f.d] = k]
                 /\ UNCHANGED faults
     /\ UNCHANGED <<waiting, spurious, aborted, history>>

-----------------------------------------------------------------------------
(* DefineClass *)

(* Mutant of InsertClass: the entry of another thread is overwritten. *)
InsertClassAnyway(l, d) == TRUE

(* Under the lock of the tables: is there no entry yet? *)
InsertClass(l, d) == table[l][d] = NULL

DefineClass(t) ==
  /\ At(t, "define")
  /\ LET f == Top(t)
         k == Class(f.d, f.l, t, "first")
     IN \/ /\ Fail /\ ReturnNull(t)
           /\ denied' = denied \cup {<<f.l, f.d>>} /\ UNCHANGED <<cls, table>>
        \/ /\ InsertClass(f.l, f.d)
           /\ cls' = Lock(Alloc(cls, k, NewClass(t, "Idx", <<>>)), t, k)
           /\ table' = [table EXCEPT ![f.l][f.d] = k]
           /\ Become(t, Of("load", k)) /\ UNCHANGED <<ret, exc, faults, denied>>
        \/ /\ ~ InsertClass(f.l, f.d)
           /\ Become(t, Ensure(table[f.l][f.d], f))
           /\ UNCHANGED <<cls, table, ret, exc, faults, denied>>
  /\ UNCHANGED <<waiting, spurious, aborted, given, ran>>

(* Mutant of Reject: the class is left as it is. *)
RejectQuietly(t, k) == cls' = Unlock(cls, k) /\ ReturnNull(t) /\ UNCHANGED waiting

(* DefineClass gives up: erroneous, unless it already is *)
Reject(t, k) ==
  /\ cls' = Unlock(IF IsErroneous(k) THEN cls ELSE Set(cls, k, "ErrorUnresolved"), k)
  /\ NotifyAll(k)
  /\ ReturnNull(t)

LoadClass(t) ==
  /\ At(t, "load")
  /\ \/ Fail /\ Reject(t, Top(t).k)
     \/ Goto(t, "super") /\ UNCHANGED <<cls, ret, exc, waiting, faults>>
  /\ UNCHANGED <<table, spurious, aborted, history>>

(* The supertypes one by one, with the monitor of the class held.  Of the  *)
(* ways to be one's own supertype only the shortest is looked for here.    *)
LoadSuperAndInterfaces(t) ==
  LET f == Top(t)
      k == f.k
      next == Supers[f.d][Len(cls[k].up) + 1]
      extendsItself == cls[k].up = <<>> /\ next = f.d /\ f.d \notin Interfaces
  IN /\ \/ /\ At(t, "super") /\ Len(cls[k].up) < Len(Supers[f.d]) /\ extendsItself
           /\ Reject(t, k) /\ UNCHANGED faults
        \/ /\ At(t, "super") /\ Len(cls[k].up) < Len(Supers[f.d]) /\ ~ extendsItself
           /\ Call(t, <<FindOf(next, f.l)>>, "resolved")
           /\ UNCHANGED <<cls, ret, exc, waiting, faults>>
        \/ /\ At(t, "super") /\ Len(cls[k].up) = Len(Supers[f.d])
           /\ cls' = Set(cls, k, "Loaded")
           /\ Goto(t, "link") /\ UNCHANGED <<ret, exc, waiting, faults>>
        \/ At(t, "resolved") /\ exc[t] /\ Reject(t, k) /\ UNCHANGED faults
        \/ At(t, "resolved") /\ ~ exc[t] /\ Fail /\ Reject(t, k)
        \/ /\ At(t, "resolved") /\ ~ exc[t]
           /\ cls' = [cls EXCEPT ![k].up = Append(@, ret[t])]
           /\ Goto(t, "super") /\ UNCHANGED <<ret, exc, waiting, faults>>
     /\ UNCHANGED <<table, spurious, aborted, history>>

(* All interfaces of a class: those of its supertypes, and themselves *)
SetupInterfaceLookupTable(k) ==
  LET up == ToSet(cls[k].up)
  IN (UNION {cls[p].ift : p \in up}) \cup {p \in up : p.desc \in Interfaces}

(* A temporary class is retired: its copy takes its place in the table,    *)
(* then the waiters for it are told, then those for the copy.              *)
LinkClass(t) ==
  LET f == Top(t)
      k == f.k
      copy == [k EXCEPT !.gen = "copy"]
      ift == SetupInterfaceLookupTable(k)
  IN /\ \/ At(t, "link") /\ Fail /\ Reject(t, k) /\ UNCHANGED table
        \/ /\ At(t, "link") /\ ~ IsTemp(k)
           /\ cls' = Unlock([cls EXCEPT ![k].status = "Resolved", ![k].ift = ift], k)
           /\ NotifyAll(k) /\ ReturnClass(t, k) /\ UNCHANGED <<table, faults>>
        \/ /\ At(t, "link") /\ IsTemp(k)
           /\ cls' = Alloc(cls, copy, [cls[k] EXCEPT !.status = "Resolving", !.ift = ift,
                                                    !.owner = t, !.count = 1])
           /\ table' = [table EXCEPT ![f.l][f.d] = copy]
           /\ Goto(t, "retire") /\ UNCHANGED <<ret, exc, waiting, faults>>
        \/ /\ At(t, "retire")
           /\ cls' = Set(cls, k, "Retired") /\ NotifyAll(k)
           /\ Goto(t, "publish") /\ UNCHANGED <<ret, exc, table, faults>>
        \/ /\ At(t, "publish")
           /\ cls' = Unlock(Unlock(Set(cls, copy, "Resolved"), copy), k)
           /\ NotifyAll(copy) /\ ReturnClass(t, copy) /\ UNCHANGED <<table, faults>>
     /\ UNCHANGED <<spurious, aborted, history>>

-----------------------------------------------------------------------------
(* EnsureResolved: wait for the thread that defines the class.  It holds   *)
(* the monitor until the class is retired or erroneous, unless it comes    *)
(* here itself: a class that is its own superclass through others is       *)
(* waited for in "temp", for ever.                                         *)

EnsureResolved(t) ==
  LET f == Top(t)
      o == f.k
      now == table[o.loader][o.desc]
  IN /\ \/ /\ At(t, "ensure") /\ IsTemp(o) /\ Status(o) = "ErrorUnresolved"
           /\ ReturnNull(t) /\ UNCHANGED <<cls, waiting>>
        \/ /\ At(t, "ensure") /\ IsTemp(o) /\ Status(o) # "ErrorUnresolved"
           /\ Goto(t, "lock") /\ UNCHANGED <<cls, ret, exc, waiting>>
        \/ /\ At(t, "lock") /\ CanLock(t, o)
           /\ cls' = Lock(cls, t, o)
           /\ Goto(t, "temp") /\ UNCHANGED <<ret, exc, waiting>>
        \/ /\ At(t, "ensure") /\ ~ IsTemp(o)
           /\ Goto(t, "spin") /\ UNCHANGED <<cls, ret, exc, waiting>>
        \/ At(t, "temp") /\ Status(o) \notin {"Retired", "ErrorUnresolved"} /\ Wait(t, o, "temp")
        \/ /\ At(t, "temp") /\ Status(o) = "ErrorUnresolved"
           /\ cls' = Unlock(cls, o) /\ ReturnNull(t) /\ UNCHANGED waiting
        \/ /\ At(t, "temp") /\ Status(o) = "Retired"
           /\ cls' = Unlock(cls, o)
           /\ Become(t, [Ensure(now, f) EXCEPT !.at = "spin"])
           /\ UNCHANGED <<ret, exc, waiting>>
        \/ /\ At(t, "spin") /\ IsResolved(o)
           /\ ReturnClass(t, o) /\ UNCHANGED <<cls, waiting>>
        \/ /\ At(t, "spin") /\ Status(o) = "ErrorUnresolved"
           /\ ReturnNull(t) /\ UNCHANGED <<cls, waiting>>
        \/ /\ At(t, "spin") /\ ~ IsResolved(o) /\ Status(o) # "ErrorUnresolved"
           /\ CanLock(t, o) /\ cls[o].tid = t     \* ClassCircularityError
           /\ cls' = Set(cls, o, "ErrorUnresolved") /\ NotifyAll(o)
           /\ ReturnNull(t)
     /\ UNCHANGED <<table, bounds, aborted, history>>

-----------------------------------------------------------------------------
(* VerifyClass *)

(* A CHECK of the code fails: the process ends. *)
Abort(check) == aborted' = check

(* Wait while another thread verifies. *)
VerifyClass(t) ==
  LET f == Top(t)
      k == f.k
  IN /\ \/ /\ At(t, "verify") /\ CanLock(t, k)
           /\ cls' = Lock(cls, t, k)
           /\ Goto(t, "verifying?") /\ UNCHANGED <<ret, exc, waiting, aborted>>
        \/ /\ At(t, "verifying?") /\ Status(k) = "Verifying"
           /\ Wait(t, k, "woken") /\ UNCHANGED aborted
        \/ /\ At(t, "woken") /\ Status(k) = "Verifying"
           /\ Abort("illegal verification state transition")
           /\ UNCHANGED <<cls, ret, exc, waiting, stack>>
        \/ /\ At(t, "woken") /\ Status(k) # "Verifying"
           /\ Goto(t, "verifying?") /\ UNCHANGED <<cls, ret, exc, waiting, aborted>>
        \/ /\ At(t, "verifying?") /\ IsErroneous(k)
           /\ cls' = Unlock(cls, k)
           /\ Throw(t) /\ Return(t) /\ UNCHANGED <<ret, waiting, aborted>>
        \/ /\ At(t, "verifying?") /\ IsVerified(k)
           /\ cls' = Unlock(cls, k)
           /\ Return(t) /\ UNCHANGED <<ret, exc, waiting, aborted>>
        \/ /\ At(t, "verifying?") /\ Status(k) = "Resolved"
           /\ cls' = Unlock(Set(cls, k, "Verifying"), k) /\ NotifyAll(k)
           /\ Goto(t, "supertypes") /\ UNCHANGED <<ret, exc, aborted>>
     /\ UNCHANGED <<table, bounds, history>>

(* Mutant of Supertypes: the superclass is not verified first. *)
SupertypesNotSuper(k) ==
  IF k.desc \in Interfaces THEN <<>>
  ELSE SetToSeq({p \in cls[k].ift : p.desc \in HasDefault})

(* The superclass, and then the interfaces with default methods *)
SuperClass(k) == {p \in ToSet(cls[k].up) : p.desc \notin Interfaces}
Supertypes(k) ==
  IF k.desc \in Interfaces THEN <<>>
  ELSE SetToSeq(SuperClass(k)) \o SetToSeq({p \in cls[k].ift : p.desc \in HasDefault})

(* Verify each supertype that is not verified yet, with the monitor of k   *)
(* held only if the caller held it; reject k if that fails.  If meanwhile  *)
(* the superclass is not verified any more, the interfaces are left out.   *)
AttemptSupertypeVerification(t) ==
  LET f == Top(t)
      k == f.k
      p == Supertypes(k)[f.i + 1]
      done == Supertypes(k)[f.i]
      last == \/ f.i = Len(Supertypes(k))
              \/ f.i = Cardinality(SuperClass(k)) /\ \E s \in SuperClass(k) : ~ IsVerified(s)
  IN /\ \/ /\ At(t, "supertypes") /\ ~ last
           /\ IF IsVerified(p) \/ IsErroneous(p) THEN Call(t, <<>>, "attempted")
              ELSE Call(t, <<Of("verify", p)>>, "attempted")
           /\ UNCHANGED <<cls, exc, waiting>>
        \/ /\ At(t, "attempted") /\ IsVerified(done)
           /\ Goto(t, "supertypes") /\ UNCHANGED <<cls, exc, waiting>>
        \/ /\ At(t, "attempted") /\ ~ IsVerified(done) /\ CanLock(t, k)
           /\ cls' = Set(cls, k, "ErrorResolved") /\ NotifyAll(k)
           /\ Throw(t) /\ Return(t)
        \/ /\ At(t, "supertypes") /\ last
           /\ Goto(t, "verifier") /\ UNCHANGED <<cls, exc, waiting>>
     /\ UNCHANGED <<table, ret, bounds, aborted, history>>

(* The verifier has run; only now are k and its superclass looked at again. *)
Verified(t) ==
  /\ At(t, "verifier")
  /\ LET k == Top(t).k
         ok == k.desc \in Soft \/ \A p \in SuperClass(k) : IsVerified(p)
     IN /\ CanLock(t, k)
        /\ \/ /\ Fail
              /\ cls' = Set(cls, k, "ErrorResolved") /\ NotifyAll(k)
              /\ Throw(t) /\ Return(t) /\ UNCHANGED aborted
           \/ /\ ok
              /\ cls' = Set(cls, k, "Verified") /\ NotifyAll(k)
              /\ Return(t) /\ UNCHANGED <<exc, faults, aborted>>
           \/ /\ ~ ok
              /\ Abort("superclass to be verified at runtime")
              /\ UNCHANGED <<cls, stack, exc, waiting, faults>>
  /\ UNCHANGED <<table, ret, spurious, history>>

-----------------------------------------------------------------------------
(* InitializeClass *)

(* Leave InitializeClass, with an exception or without *)
Leave(t, c, failed) ==
  /\ cls' = c
  /\ exc' = [exc EXCEPT ![t] = @ \/ failed]
  /\ Return(t)

EnsureInitialized(t) ==
  /\ At(t, "init")
  /\ LET k == Top(t).k
     IN \/ Status(k) = "Initialized" /\ Leave(t, cls, FALSE)
        \/ Status(k) # "Initialized" /\ CanLock(t, k) /\ IsErroneous(k) /\ Leave(t, cls, TRUE)
        \/ /\ Status(k) # "Initialized" /\ CanLock(t, k) /\ ~ IsErroneous(k)
           /\ cls' = Lock(cls, t, k)
           /\ IF IsVerified(k) THEN Goto(t, "verified") ELSE Call(t, <<Of("verify", k)>>, "verified")
           /\ UNCHANGED exc
  /\ UNCHANGED <<table, ret, waiting, bounds, aborted, history>>

(* Somebody is at it, and it is not us. *)
OtherInitializes(t, k) == Status(k) = "Initializing" /\ cls[k].tid # t

(* With the monitor held: it is our turn, or another's, or it is done. *)
InitializeClass(t) ==
  /\ At(t, "verified")
  /\ LET k == Top(t).k
         mine == [Unlock(Set(cls, k, "Initializing"), k) EXCEPT ![k].tid = t]
     IN \/ ~ IsVerified(k) /\ Leave(t, Unlock(cls, k), TRUE) /\ UNCHANGED <<ret, waiting, faults>>
        \/ OtherInitializes(t, k) /\ Wait(t, k, "initializing?") /\ UNCHANGED faults
        \/ /\ Status(k) \in {"Initializing", "Initialized"} /\ ~ OtherInitializes(t, k)
           /\ Leave(t, Unlock(cls, k), FALSE) /\ UNCHANGED <<ret, waiting, faults>>
        \/ /\ Status(k) = "Verified" /\ Fail
           /\ Leave(t, Unlock(Set(cls, k, "ErrorResolved"), k), TRUE)
           /\ NotifyAll(k) /\ UNCHANGED ret
        \/ /\ Status(k) = "Verified"
           /\ cls' = mine /\ NotifyAll(k)
           /\ Become(t, Of("supers", k)) /\ UNCHANGED <<ret, exc, faults>>
  /\ UNCHANGED <<table, spurious, aborted, history>>

WaitForInitializeClass(t) ==
  /\ At(t, "initializing?")
  /\ LET k == Top(t).k
     IN \/ Status(k) = "Initializing" /\ Wait(t, k, "initializing?")
        \/ Status(k) # "Initializing" /\ Leave(t, Unlock(cls, k), IsErroneous(k)) /\ UNCHANGED <<ret, waiting>>
  /\ UNCHANGED <<table, bounds, aborted, history>>

(* Mutant of Skip: the superclass is skipped when another      *)
(* thread is initializing it.                                              *)
SkipStarted(p) == Status(p) \in {"Initializing", "Initialized"}

(* A supertype that need not be initialized any more *)
Skip(p) == IF p.desc \in Interfaces THEN cls[p].done ELSE Status(p) = "Initialized"

(* Superclass, then direct interfaces, without the monitor; a failure      *)
(* makes the class erroneous.  An interface does not initialize its own.   *)
InitializeSupers(t) ==
  /\ At(t, "supers")
  /\ LET f == Top(t)
         k == f.k
         up == IF k.desc \in Interfaces THEN <<>> ELSE cls[k].up
         p == up[f.i + 1]
         sub == Of(IF p.desc \in Interfaces THEN "iface" ELSE "init", p)
     IN \/ /\ exc[t] /\ CanLock(t, k)
           /\ Leave(t, Set(cls, k, "ErrorResolved"), TRUE) /\ NotifyAll(k)
        \/ /\ ~ exc[t] /\ f.i < Len(up)
           /\ Call(t, IF Skip(p) THEN <<>> ELSE <<sub>>, "supers") /\ UNCHANGED <<cls, exc, waiting>>
        \/ ~ exc[t] /\ f.i = Len(up) /\ Goto(t, "clinit") /\ UNCHANGED <<cls, exc, waiting>>
  /\ UNCHANGED <<table, ret, bounds, aborted, history>>

(* Super-interfaces first; itself only if it has default methods; then the *)
(* mark that spares others the walk.                                       *)
InitializeDefaultInterfaceRecursive(t) ==
  LET f == Top(t)
      k == f.k
      up == cls[k].up
      p == up[f.i + 1]
  IN /\ \/ At(t, "iface") /\ exc[t] /\ Return(t) /\ UNCHANGED cls
        \/ /\ At(t, "iface") /\ ~ exc[t] /\ f.i < Len(up)
           /\ Call(t, IF Skip(p) THEN <<>> ELSE <<Of("iface", p)>>, "iface") /\ UNCHANGED cls
        \/ /\ At(t, "iface") /\ ~ exc[t] /\ f.i = Len(up)
           /\ Call(t, IF k.desc \in HasDefault THEN <<Of("init", k)>> ELSE <<>>, "mark") /\ UNCHANGED cls
        \/ At(t, "mark") /\ exc[t] /\ Return(t) /\ UNCHANGED cls
        \/ /\ At(t, "mark") /\ ~ exc[t] /\ CanLock(t, k)
           /\ cls' = [cls EXCEPT ![k].done = TRUE] /\ Return(t)
     /\ UNCHANGED <<table, ret, exc, waiting, bounds, aborted, history>>

(* <clinit> without any monitor: it may use a class, and may throw. *)
RunClinit(t) ==
  /\ At(t, "clinit")
  /\ LET f == Top(t)
     IN /\ ran' = [ran EXCEPT ![f.l][f.d] = @ + 1]
        /\ \/ Fail /\ Throw(t) /\ Goto(t, "ran")
           \/ /\ IF Uses[f.d] = NULL THEN Goto(t, "ran")
                 ELSE Call(t, <<FindOf(Uses[f.d], f.l), Frame("use", Uses[f.d], f.l, NULL)>>, "ran")
              /\ UNCHANGED <<exc, faults>>
  /\ UNCHANGED <<cls, table, ret, waiting, spurious, aborted, given, denied>>

(* Mutant of Outcome: after a failure <clinit> may be tried again. *)
OutcomeRetry(t) == IF exc[t] THEN "Verified" ELSE "Initialized"

Outcome(t) == IF exc[t] THEN "ErrorResolved" ELSE "Initialized"

FinishInitialize(t) ==
  /\ At(t, "ran")
  /\ LET k == Top(t).k
     IN /\ CanLock(t, k)
        /\ Leave(t, Set(cls, k, Outcome(t)), FALSE)
        /\ NotifyAll(k)
  /\ UNCHANGED <<table, ret, bounds, aborted, history>>

-----------------------------------------------------------------------------
(* The callers: FindClass of JNI and an operation that initializes *)

Begin(t, d, l) ==
  /\ stack[t] = <<>>
  /\ stack' = [stack EXCEPT ![t] = <<FindOf(d, l), Frame("use", d, l, NULL), Frame("caller", d, l, NULL)>>]
  /\ UNCHANGED <<cls, table, ret, exc, waiting, bounds, aborted, history>>

Use(t) ==
  /\ At(t, "use")
  /\ LET f == Top(t)
     IN \/ ret[t] = NULL /\ Return(t) /\ UNCHANGED given
        \/ /\ ret[t] # NULL
           /\ Become(t, Of("init", ret[t]))
           /\ given' = [given EXCEPT ![f.l][f.d] = @ \cup {ret[t]}]
  /\ UNCHANGED <<cls, table, ret, exc, waiting, bounds, aborted, denied, ran>>

(* The caller handles the exception, if there is one. *)
Finish(t) ==
  /\ At(t, "caller")
  /\ Return(t)
  /\ exc' = [exc EXCEPT ![t] = FALSE]
  /\ UNCHANGED <<cls, table, ret, waiting, bounds, aborted, history>>

Step(t) ==
  /\ aborted = NULL
  /\ \/ FindClass(t) \/ FindClassInBaseDexClassLoader(t) \/ LoadClassInJava(t) \/ Found(t)
     \/ CreateArrayClass(t)
     \/ DefineClass(t) \/ LoadClass(t) \/ LoadSuperAndInterfaces(t) \/ LinkClass(t)
     \/ EnsureResolved(t)
     \/ VerifyClass(t) \/ AttemptSupertypeVerification(t) \/ Verified(t)
     \/ EnsureInitialized(t) \/ InitializeClass(t) \/ WaitForInitializeClass(t)
     \/ InitializeSupers(t) \/ InitializeDefaultInterfaceRecursive(t)
     \/ RunClinit(t) \/ FinishInitialize(t) \/ Use(t) \/ Finish(t) \/ Resume(t)

Next ==
  \E t \in Threads :
    \/ Step(t)
    \/ aborted = NULL /\ Spurious(t)
    \/ aborted = NULL /\ \E d \in Descs, l \in Loaders : Begin(t, d, l)

(* A thread in the class linker is scheduled. *)
Fairness == \A t \in Threads : WF_vars(Step(t))
Spec == Init /\ [][Next]_vars
FairSpec == Spec /\ Fairness

-----------------------------------------------------------------------------
(* Properties *)

(* Types; a monitor has an owner exactly while it is entered, and a thread *)
(* that has left the class linker holds no class's ObjectLock and leaves   *)
(* no exception pending.                                                   *)
TypeOK ==
  /\ DOMAIN cls \subseteq Classes
  /\ \A o \in DOMAIN cls :
       /\ cls[o].status \in Statuses /\ cls[o].tid \in Threads \cup {NULL}
       /\ ToSet(cls[o].up) \cup cls[o].ift \subseteq DOMAIN cls
       /\ cls[o].owner \in Threads \cup {NULL} /\ cls[o].count \in 0 .. 3
       /\ cls[o].count = 0 <=> cls[o].owner = NULL
       /\ cls[o].done \in BOOLEAN
  /\ \A l \in Loaders, d \in Descs : table[l][d] \in DOMAIN cls \cup {NULL}
  /\ \A t \in Threads :
       /\ ret[t] \in DOMAIN cls \cup {NULL} /\ exc[t] \in BOOLEAN
       /\ waiting[t] \in DOMAIN cls \cup {NULL}
       /\ stack[t] = <<>> => ~ exc[t] /\ \A o \in DOMAIN cls : cls[o].owner # t
  /\ faults \in 0 .. MaxFaults /\ spurious \in 0 .. MaxSpurious

(* Every FindClass of a descriptor with a loader that succeeds returns the *)
(* same class, in any thread, whoever won the race to define it: never the *)
(* temporary class that LinkClass retires, never one that is not resolved. *)
OneClass ==
  \A l \in Loaders, d \in Descs : \A o \in given[l][d] :
    o = table[l][d] /\ IsResolved(o) /\ ~ IsTemp(o)

(* InitializeClass runs <clinit> of a class at most once, even after it    *)
(* failed and whoever waited for it.                                       *)
ClinitOnce == \A l \in Loaders, d \in Descs : ran[l][d] <= 1

Initialized(t, o) == Status(o) = "Initialized" \/ (Status(o) = "Initializing" /\ cls[o].tid = t)

(* What a class needs, for loading and in its <clinit>, besides itself;    *)
(* what it needs through others; the classes that need themselves so       *)
Needs(d) == ToSet(Supers[d]) \cup ({Uses[d]} \ {NULL, d})
Behind == [d \in Descs |-> {e \in Descs :
             \A S \in SUBSET Descs : d \in S /\ (\A x \in S : Needs(x) \subseteq S) => e \in S}]
Loops == {d \in Descs : \E e \in Needs(d) : d \in Behind[e]}

(* Its <clinit> has run; or, if it needs itself, has at least begun. *)
Begun(q) == Status(q) = "Initialized" \/ (q.desc \in Loops /\ Status(q) \in {"Initializing", "ErrorResolved"})

(* While InitializeClass runs <clinit>, the superclass is initialized, or  *)
(* is being initialized by the same thread, in whose <clinit> this one     *)
(* runs.  So are the interfaces with default methods, but for one whose    *)
(* <clinit> leads to a class that implements it: it is marked before it is *)
(* initialized, and other threads do not wait for it.  A caller of         *)
(* EnsureInitialized that gets no exception may use the class.             *)
InitSeen ==
  \A t \in Threads : \A j \in DOMAIN stack[t] :
    LET f == stack[t][j]
    IN /\ f.at = "ran" /\ f.d \notin Interfaces /\ aborted = NULL =>
            \A p \in ToSet(cls[f.k].up) :
              IF p.desc \in Interfaces THEN \A q \in cls[p].ift \cup {p} : q.desc \in HasDefault => Begun(q)
              ELSE Initialized(t, p)
       /\ f.at = "caller" /\ j = 1 /\ ~ exc[t] => Initialized(t, table[f.l][f.d])

(* The CHECKs of VerifyClass fail only after a wake-up that nobody         *)
(* notified, or when the superclass of the class, verified before, failed  *)
(* to initialize while the verifier ran; and CreateArrayClass takes a      *)
(* class that LinkClass retires for a component only after DefineClass     *)
(* failed to allocate a class for that descriptor and loader.              *)
FaultsOnly ==
  /\ aborted = "illegal verification state transition" => spurious < MaxSpurious
  /\ aborted = "superclass to be verified at runtime" =>
       \E t \in Threads : /\ At(t, "verifier")
                          /\ \E p \in SuperClass(Top(t).k) : Status(p) = "ErrorResolved"
  /\ \A o \in DOMAIN cls : o.desc \in Arrays =>
       \A c \in ToSet(cls[o].up) : Status(c) = "Retired" => <<c.loader, c.desc>> \in denied

(* t cannot go on before u has defined or initialized a class. *)
WaitsFor(t, u) ==
  /\ stack[t] # <<>>
  /\ LET o == Top(t).k
     IN \/ /\ Top(t).at \in {"lock", "temp", "spin"}
           /\ Status(o) \in {"Idx", "Loaded", "Resolving"} /\ o.by = u
        \/ Top(t).at = "initializing?" /\ OtherInitializes(t, o) /\ cls[o].tid = u
(* t is one of some threads that all wait for one of them, for classes     *)
(* that need each other.                                                   *)
Entangled(t) ==
  \E T \in SUBSET Threads :
    /\ t \in T /\ \A u \in T : \E w \in T : WaitsFor(u, w)
    /\ \E u \in T : Top(u).k.desc \in Loops

(* Every call of FindClass and EnsureInitialized returns: no thread waits  *)
(* for a class whose definition, verification or initialization has ended; *)
(* unless threads wait for each other, which takes classes that need each  *)
(* other.                                                                  *)
CallsReturn ==
  \A t \in Threads : stack[t] # <<>> ~> (stack[t] = <<>> \/ aborted # NULL \/ Entangled(t))
=============================================================================
