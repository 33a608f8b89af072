---------------------- MODULE ClassLinkerLoadingProofs ----------------------
(***************************************************************************)
(* Proofs about ClassLinker, for any number of threads and any hierarchy   *)
(* of classes.  The inductive invariant speaks of the class objects and    *)
(* their tables, of the monitors, and of the stack of each thread: what    *)
(* every frame can rely on, what it knows of the frame that it called, and *)
(* what the frame on top has just learnt.  This module states it and shows *)
(* that the actions of FindClass and DefineClass preserve it;              *)
(* ClassLinkerProofs goes on with the others and has the theorems.         *)
(***************************************************************************)
EXTENDS ClassLinker, SequenceTheorems, FiniteSetTheorems, TLAPS

(* The places in the code, by function *)
DefAts == {"load", "super", "resolved", "link", "retire", "publish"}
FindAts == DefAts \cup {"find", "ensure", "lock", "temp", "spin", "boot", "own", "java",
                        "found", "define", "array"}
Ver2 == {"supertypes", "attempted", "verifier"}
VerAts == Ver2 \cup {"verify", "verifying?", "woken"}
Ini2 == {"supers", "clinit", "ran"}
IniAts == Ini2 \cup {"init", "verified", "initializing?"}
IfaceAts == {"iface", "mark"}
OfAts == DefAts \cup VerAts \cup IniAts \cup IfaceAts
KAts == OfAts \cup {"ensure", "lock", "temp", "spin"}
Ats == FindAts \cup VerAts \cup IniAts \cup IfaceAts \cup {"use", "caller"}
(* Where an exception may be pending *)
Handlers == {"own", "java", "found", "array", "resolved", "attempted", "verified", "supers",
             "iface", "mark", "ran", "use", "caller"}

FrameRec == [at : Ats, d : Descs, l : Loaders, k : Classes \cup {NULL}, i : Nat, n : Nat]
ClassRec == [status : Statuses, tid : Threads \cup {NULL}, up : Seq(Classes), ift : SUBSET Classes,
             done : BOOLEAN, owner : Threads \cup {NULL}, count : Nat]

Copy(o) == [o EXCEPT !.gen = "copy"]
First(o) == [o EXCEPT !.gen = "first"]

(* Frames counted from the outermost one *)
Depth(t) == Len(stack[t])
Fr(t, b) == stack[t][Len(stack[t]) + 1 - b]

-----------------------------------------------------------------------------
(* The class objects and the tables *)

Res == {"Resolved", "Verifying", "Verified", "Initializing", "Initialized", "ErrorResolved"}
Was == {"Verified", "Initializing", "Initialized", "ErrorResolved"}
Late == {"Initializing", "Initialized", "ErrorResolved"}

Types ==
  /\ stack \in [Threads -> Seq(FrameRec)]
  /\ DOMAIN cls \subseteq Classes /\ IsFiniteSet(DOMAIN cls)
  /\ cls \in [DOMAIN cls -> ClassRec]
  /\ ret \in [Threads -> DOMAIN cls \cup {NULL}]
  /\ exc \in [Threads -> BOOLEAN]
  /\ waiting \in [Threads -> DOMAIN cls \cup {NULL}]
  /\ table \in [Loaders -> [Descs -> DOMAIN cls \cup {NULL}]]
  /\ given \in [Loaders -> [Descs -> SUBSET DOMAIN cls]]
  /\ ran \in [Loaders -> [Descs -> Nat]]
  /\ faults \in 0 .. MaxFaults /\ spurious \in 0 .. MaxSpurious

(* A class that a caller of FindClass may have *)
Good(o) == o \in DOMAIN cls /\ Status(o) \in Res /\ ~ IsTemp(o)

(* The interfaces with default methods among p and its interfaces have     *)
(* been initialized, or have begun to be.                                  *)
Ready(p) == \A q \in cls[p].ift \cup {p} : q.desc \in HasDefault => Begun(q)

(* The statuses an object goes through *)
StatusOK(o) ==
  /\ IsTemp(o) => Status(o) \in {"Idx", "Loaded", "ErrorUnresolved", "Retired"}
  /\ o.gen = "copy" => /\ o.desc \notin Interfaces \cup Arrays /\ First(o) \in DOMAIN cls
                       /\ Status(o) \in Res \cup {"Resolving", "ErrorUnresolved"}
  /\ ~ IsTemp(o) /\ o.gen = "first" => Status(o) \in Res \cup {"Idx", "Loaded", "ErrorUnresolved"}
  /\ o.desc \in Arrays => Status(o) = "Initialized" /\ cls[o].ift = {}
  /\ Status(o) = "Retired" => Copy(o) \in DOMAIN cls

(* Its supertypes *)
UpOK(o) ==
  /\ ToSet(cls[o].up) \cup cls[o].ift \subseteq DOMAIN cls
  /\ o.desc \notin Arrays =>
       /\ Len(cls[o].up) <= Len(Supers[o.desc])
       /\ \A j \in 1 .. Len(cls[o].up) :
            /\ Good(cls[o].up[j])
            /\ cls[o].up[j].desc = Supers[o.desc][j] /\ cls[o].up[j].desc # o.desc
  /\ \A q \in cls[o].ift :
       /\ Good(q) /\ q.desc \in Interfaces /\ q.desc \in Behind[o.desc]
       /\ \E j \in 1 .. Len(cls[o].up) : q = cls[o].up[j] \/ q \in cls[cls[o].up[j]].ift

(* Its entry in the table of its loader *)
EntryOK(o) ==
  LET x == table[o.loader][o.desc]
  IN /\ x \in DOMAIN cls /\ x.desc = o.desc /\ x.loader = o.loader /\ x.by = o.by
     /\ Copy(o) \in DOMAIN cls => x.gen = "copy"
     /\ o.desc \notin Arrays => o.desc \in Path[o.loader]

(* The mark of an interface, and what an array was made of *)
InitOK(o) ==
  /\ cls[o].done => o.desc \in Interfaces /\ Status(o) \in Res /\ Ready(o)
  /\ o.desc \in Arrays =>
       \A c \in ToSet(cls[o].up) : IsTemp(c) => Status(c) = "ErrorUnresolved" \/ <<c.loader, c.desc>> \in denied

ObjectOK(o) == StatusOK(o) /\ UpOK(o) /\ EntryOK(o) /\ InitOK(o)

TableOK(l, d) ==
  LET x == table[l][d]
  IN /\ x # NULL => x.desc = d /\ (x.loader # l => Status(x) \in Res)
     /\ \A o \in given[l][d] : o = x /\ Good(o)
     /\ ran[l][d] <= 1
     /\ ran[l][d] # 0 => \E o \in DOMAIN cls : /\ o.loader = l /\ o.desc = d /\ ~ IsTemp(o)
                                               /\ Status(o) \in Late

-----------------------------------------------------------------------------
(* The stacks *)

(* A frame of FindClass: the class that it was asked for is k, or is being *)
(* made to take the place of k.                                            *)
FindFrame(f) ==
  /\ f.at \in {"ensure", "lock", "temp"} =>
       /\ f.k.desc = f.d
       /\ IF IsTemp(f.k) THEN f.k.loader = f.l ELSE f.at = "ensure" /\ table[f.l][f.d] = f.k
  /\ f.at = "spin" => f.k.desc = f.d /\ ~ IsTemp(f.k) /\ table[f.l][f.d] = f.k
  /\ f.at \in {"boot", "own", "java"} => f.l = App /\ f.d \notin Arrays
  /\ f.at = "found" => f.l = App \/ f.d \in Arrays
  /\ f.at = "define" => f.d \in Path[f.l] \ Arrays
  /\ f.at = "array" => f.d \in Arrays /\ f.i \in {0, 1}

(* A frame of DefineClass: it has the class for itself. *)
DefFrame(t, f) ==
  /\ f.k.gen = "first" /\ f.k.by = t /\ f.k.desc \notin Arrays
  /\ f.at \in {"load", "super", "resolved", "link"} =>
       /\ Copy(f.k) \notin DOMAIN cls /\ cls[f.k].tid = t /\ table[f.l][f.d] = f.k
  /\ f.at = "load" => Status(f.k) = "Idx" /\ cls[f.k].up = <<>>
  /\ f.at \in {"super", "resolved"} =>
       Status(f.k) = "Idx" \/ (Status(f.k) = "ErrorUnresolved" /\ ~ IsTemp(f.k))
  /\ f.at = "resolved" => Len(cls[f.k].up) < Len(Supers[f.d])
  /\ f.at = "link" => Status(f.k) = "Loaded"
  /\ f.at \in {"retire", "publish"} =>
       /\ IsTemp(f.k) /\ Copy(f.k) \in DOMAIN cls /\ Status(Copy(f.k)) = "Resolving"
       /\ Status(f.k) = IF f.at = "retire" THEN "Loaded" ELSE "Retired"

(* A frame of VerifyClass: the supertypes up to i have been verified. *)
VerFrame(f) ==
  /\ Good(f.k) /\ (f.at \notin Ver2 => f.i = 0)
  /\ f.at = "woken" => Status(f.k) \in Was \cup {"Verifying"}
  /\ f.at \in Ver2 =>
       /\ Status(f.k) = "Verifying" /\ f.i <= Len(Supertypes(f.k))
       /\ f.at = "attempted" => f.i > 0
       /\ f.at = "verifier" => \A p \in SuperClass(f.k) : Status(p) \in Was
       /\ \A j \in 1 .. f.i : j < f.i \/ f.at # "attempted" => Status(Supertypes(f.k)[j]) \in Was

Ups(k) == IF k.desc \in Interfaces THEN <<>> ELSE cls[k].up

(* A supertype: its interfaces, if it is one *)
Passed(p) == p.desc \in Interfaces => Ready(p)

(* A frame of InitializeClass: the class is this thread's to initialize. *)
IniFrame(t, f) ==
  /\ Good(f.k)
  /\ f.at = "initializing?" => Status(f.k) \in Late
  /\ f.at \in Ini2 => Status(f.k) = "Initializing" /\ cls[f.k].tid = t
  /\ f.at = "supers" => f.i <= Len(Ups(f.k)) /\ \A j \in 1 .. Len(Ups(f.k)) : j < f.i => Passed(Ups(f.k)[j])
  /\ f.at \in {"clinit", "ran"} => \A j \in 1 .. Len(Ups(f.k)) : Passed(Ups(f.k)[j])
  /\ f.at \in {"supers", "clinit"} => ran[f.l][f.d] = 0

IfaceFrame(f) ==
  /\ Good(f.k) /\ f.k.desc \in Interfaces
  /\ f.at = "iface" => f.i <= Len(cls[f.k].up) /\ \A j \in 1 .. Len(cls[f.k].up) : j < f.i => Ready(cls[f.k].up[j])
  /\ f.at = "mark" => \A j \in 1 .. Len(cls[f.k].up) : Ready(cls[f.k].up[j])

FrameOK(t, f) ==
  /\ f \in FrameRec
  /\ f.at \in KAts => f.k \in DOMAIN cls
  /\ f.at \in OfAts => f.d = f.k.desc /\ f.l = f.k.loader
  /\ FindFrame(f)
  /\ f.at \in DefAts => DefFrame(t, f)
  /\ f.at \in VerAts => VerFrame(f)
  /\ f.at \in IniAts => IniFrame(t, f)
  /\ f.at \in IfaceAts => IfaceFrame(f)

(* Frame f is of a call that frame g made. *)
LinkOK(g, f) ==
  /\ g.at \in Handlers
  /\ g.at \in {"own", "java", "found", "array", "resolved", "use"} =>
       f.at \in FindAts /\ f.d = (CASE g.at = "array" -> Supers[g.d][1]
                                    [] g.at = "resolved" -> Supers[g.d][Len(cls[g.k].up) + 1]
                                    [] OTHER -> g.d)
                        /\ f.l = IF g.at = "own" THEN Boot ELSE g.l
  /\ g.at = "found" <=> f.at = "array"
  /\ g.at = "array" => g.i = 1
  /\ g.at = "attempted" => f.at \in VerAts /\ f.k = Supertypes(g.k)[g.i]
  /\ g.at = "verified" => f.at \in VerAts /\ f.k = g.k
  /\ g.at = "supers" => /\ g.i > 0 /\ f.k = Ups(g.k)[g.i]
                        /\ f.at \in IF f.k.desc \in Interfaces THEN IfaceAts ELSE IniAts
  /\ g.at = "iface" => g.i > 0 /\ f.at \in IfaceAts /\ f.k = cls[g.k].up[g.i]
  /\ g.at = "mark" => f.at \in IniAts /\ f.k = g.k
  /\ g.at = "ran" => f.at \in IniAts \cup {"use"}
  /\ g.at = "caller" => \/ f.at = "use" /\ f.d = g.d /\ f.l = g.l
                        \/ f.at \in IniAts /\ f.k = table[g.l][g.d]

(* Frame g is somewhere below frame f. *)
BelowOK(g, f) ==
  /\ g.n = 0 /\ f.at # "caller"
  /\ f.d \in Behind[g.d]
  /\ g.at \in {"verified", "attempted"} => f.at \in VerAts
  /\ g.at \in DefAts /\ f.at \in DefAts => g.k # f.k
  /\ g.at \in Ver2 /\ f.at \in Ver2 => g.k # f.k
  /\ g.at \in Ini2 /\ f.at \in Ini2 => g.k # f.k

(* FindClass failed, and no temporary class will come. *)
Dead(l, d) ==
  \/ <<l, d>> \in denied
  \/ table[l][d] = NULL /\ (d \in Arrays \/ d \notin Path[l])
  \/ table[l][d] # NULL /\ (IsTemp(table[l][d]) => Status(table[l][d]) = "ErrorUnresolved")

(* What the innermost frame has learnt from the call that returned *)
TopOK(t, f) ==
  /\ exc[t] => f.at \in Handlers /\ (f.at = "array" => f.i = 1)
  /\ f.n > 0 => f.at \in {"temp", "woken", "initializing?"}
  /\ f.at \in {"own", "java", "found", "use"} /\ ret[t] # NULL /\ ~ (f.at = "found" /\ exc[t]) =>
       /\ Good(ret[t]) /\ ret[t].desc = f.d /\ ~ exc[t]
       /\ f.at # "found" => ret[t] = table[IF f.at = "own" THEN Boot ELSE f.l][f.d]
  /\ f.at \in {"found", "use"} /\ ret[t] = NULL => exc[t]
  /\ (f.at = "java" /\ ret[t] = NULL) \/ (f.at = "found" /\ exc[t]) =>
       table[f.l][f.d] # NULL \/ f.d \notin Path[f.l] \/ f.d \in Arrays \/ <<f.l, f.d>> \in denied
  /\ f.at = "array" /\ f.i = 1 => IF ret[t] = NULL THEN Dead(f.l, Supers[f.d][1]) ELSE Good(ret[t])
  /\ f.at = "resolved" /\ ~ exc[t] =>
       /\ ret[t] # NULL /\ Good(ret[t]) /\ ret[t].desc = Supers[f.d][Len(cls[f.k].up) + 1]
       /\ ret[t] = table[f.l][ret[t].desc]
  /\ f.at = "attempted" /\ exc[t] => Status(Supertypes(f.k)[f.i]) = "ErrorResolved"
  /\ f.at = "verified" /\ exc[t] => Status(f.k) = "ErrorResolved"
  /\ f.at = "supers" /\ ~ exc[t] /\ f.i > 0 => Passed(Ups(f.k)[f.i])
  /\ f.at = "iface" /\ ~ exc[t] /\ f.i > 0 => Ready(cls[f.k].up[f.i])
  /\ f.at = "mark" /\ ~ exc[t] /\ f.d \in HasDefault => Begun(f.k)
  /\ f.at = "caller" /\ ~ exc[t] => table[f.l][f.d] # NULL /\ Status(table[f.l][f.d]) = "Initialized"
  /\ f.at = "woken" /\ waiting[t] = NULL /\ Status(f.k) = "Verifying" => spurious < MaxSpurious
  /\ waiting[t] # NULL => f.n > 0 /\ waiting[t] = f.k

StackOK(t) ==
  /\ \A b \in 1 .. Depth(t) : FrameOK(t, Fr(t, b))
  /\ \A b \in 1 .. Depth(t) : b > 1 => LinkOK(Fr(t, b - 1), Fr(t, b))
  /\ \A b, c \in 1 .. Depth(t) : b < c => BelowOK(Fr(t, b), Fr(t, c))
  /\ Depth(t) > 0 => Fr(t, 1).at = "caller" /\ TopOK(t, Fr(t, Depth(t)))
  /\ Depth(t) = 0 => ~ exc[t] /\ waiting[t] = NULL

-----------------------------------------------------------------------------
(* The monitors, and what one thread has for itself *)

(* The classes whose monitors a frame has entered *)
Grip(f) ==
  (IF f.at \in DefAts \cup {"temp", "verifying?", "woken", "verified", "initializing?"} THEN {f.k} ELSE {})
    \cup (IF f.at \in {"retire", "publish"} THEN {Copy(f.k)} ELSE {})
Held(t, o) == {b \in 1 .. Depth(t) : o \in Grip(Fr(t, b))}
Waits(t, o) == Depth(t) > 0 /\ Fr(t, Depth(t)).n > 0 /\ Fr(t, Depth(t)).k = o

MonitorOK(t, o) ==
  IF Waits(t, o)
  THEN cls[o].owner # t /\ Fr(t, Depth(t)).n = Cardinality(Held(t, o))
  ELSE IF Held(t, o) = {} THEN cls[o].owner # t
       ELSE cls[o].owner = t /\ cls[o].count = Cardinality(Held(t, o))

Monitors ==
  /\ \A o \in DOMAIN cls : cls[o].count = 0 <=> cls[o].owner = NULL
  /\ \A t \in Threads : \A o \in DOMAIN cls : MonitorOK(t, o)

(* A class is verified by one thread. *)
Verifiers ==
  \A t, u \in Threads : t # u =>
    \A b \in 1 .. Depth(t), c \in 1 .. Depth(u) :
      Fr(t, b).at \in Ver2 /\ Fr(u, c).at \in Ver2 => Fr(t, b).k # Fr(u, c).k

(* A class that is being initialized has a thread that does it. *)
Initializers ==
  \A o \in DOMAIN cls : Status(o) = "Initializing" =>
    /\ cls[o].tid \in Threads
    /\ \E b \in 1 .. Depth(cls[o].tid) : Fr(cls[o].tid, b).at \in Ini2 /\ Fr(cls[o].tid, b).k = o

(* Below frame b, the thread is initializing p. *)
Within(t, b, p) == \E c \in 1 .. b - 1 : Fr(t, c).at \in Ini2 /\ Fr(t, c).k = p

(* The superclasses that frame f, at level b, is done with are initialized, *)
(* but for those in whose <clinit> it runs.                                *)
DoneWith(t, b, f) ==
  f.at \in Ini2 =>
    \A j \in 1 .. Len(Ups(f.k)) :
      /\ Ups(f.k)[j].desc \notin Interfaces
      /\ f.at = "supers" => j < f.i \/ (j = f.i /\ b = Depth(t) /\ ~ exc[t])
      => Status(Ups(f.k)[j]) = "Initialized" \/ Within(t, b, Ups(f.k)[j])
Orders == \A t \in Threads : \A b \in 1 .. Depth(t) : DoneWith(t, b, Fr(t, b))

Aborts == aborted = "illegal verification state transition" => spurious < MaxSpurious

Objects == \A o \in DOMAIN cls : ObjectOK(o)
Tables == \A l \in Loaders, d \in Descs : TableOK(l, d)
Stacks == \A t \in Threads : StackOK(t)

IInv == Types /\ Objects /\ Tables /\ Stacks /\ Monitors /\ Verifiers /\ Initializers /\ Orders /\ Aborts

-----------------------------------------------------------------------------
(* LEMMAS: needs, listings of sets, supertypes *)

LEMMA NeedsFacts ==
  ASSUME NEW d \in Descs
  PROVE  /\ Needs(d) \subseteq Descs
         /\ \A j \in 1 .. Len(Supers[d]) : Supers[d][j] \in Needs(d)
         /\ Uses[d] # NULL => Uses[d] = d \/ Uses[d] \in Needs(d)
  <1>1. Supers[d] \in Seq(Descs) /\ Uses[d] \in Descs \cup {NULL}
    BY HierarchyAssumption
  <1>2. ToSet(Supers[d]) \subseteq Descs /\ \A j \in 1 .. Len(Supers[d]) : Supers[d][j] \in ToSet(Supers[d])
    BY <1>1 DEF ToSet
  <1>. QED BY <1>1, <1>2 DEF Needs

(* A set of descriptors with all that they need *)
Closed(S) == S \subseteq Descs /\ \A x \in S : Needs(x) \subseteq S

LEMMA BehindIs ==
  ASSUME NEW d \in Descs, NEW e
  PROVE  e \in Behind[d] <=> e \in Descs /\ \A S : Closed(S) /\ d \in S => e \in S
  <1>1. Behind[d] = {x \in Descs : \A S \in SUBSET Descs : d \in S /\ (\A y \in S : Needs(y) \subseteq S) => x \in S}
    BY DEF Behind
  <1>2. e \in Behind[d] <=>
          e \in Descs /\ \A S \in SUBSET Descs : d \in S /\ (\A y \in S : Needs(y) \subseteq S) => e \in S
    BY <1>1
  <1>. QED BY <1>2, Zenon DEF Closed

(* What a class needs through others: itself, what it needs, what that needs *)
LEMMA BehindFacts ==
  ASSUME NEW d \in Descs
  PROVE  /\ Behind[d] \subseteq Descs /\ d \in Behind[d] /\ Needs(d) \subseteq Behind[d]
         /\ \A e \in Behind[d] : Behind[e] \subseteq Behind[d]
         /\ \A e \in Behind[d] : Needs(e) \subseteq Behind[d]
  <1>1. Behind[d] \subseteq Descs
    BY BehindIs
  <1>2. d \in Behind[d]
    BY BehindIs
  <1>3. ASSUME NEW e \in Behind[d], NEW x \in Behind[e] PROVE x \in Behind[d]
    <2>1. e \in Descs /\ x \in Descs
      BY <1>1, <1>3, BehindIs
    <2>2. ASSUME NEW S, Closed(S), d \in S PROVE x \in S
      <3>1. e \in S
        BY <1>3, <2>2, BehindIs
      <3>. QED BY <1>3, <2>1, <2>2, <3>1, BehindIs
    <2>. QED BY <2>1, <2>2, BehindIs
  <1>4. ASSUME NEW e \in Behind[d], NEW x \in Needs(e) PROVE x \in Behind[d]
    <2>1. e \in Descs /\ x \in Descs
      BY <1>1, <1>4, NeedsFacts
    <2>2. ASSUME NEW S, Closed(S), d \in S PROVE x \in S
      <3>1. e \in S
        BY <1>4, <2>2, BehindIs
      <3>. QED BY <1>4, <2>2, <3>1 DEF Closed
    <2>. QED BY <2>1, <2>2, BehindIs
  <1>. QED BY <1>1, <1>2, <1>3, <1>4

(* A class behind another is needed by one of those that the other needs. *)
LEMMA BehindThrough ==
  ASSUME NEW d \in Descs, NEW e \in Behind[d], e # d
  PROVE  \E x \in Needs(d) : e \in Behind[x]
  <1>1. PICK S : S = {d} \cup UNION {Behind[x] : x \in Needs(d)}
    OBVIOUS
  <1>2. Needs(d) \subseteq Descs
    BY NeedsFacts
  <1>3. S \subseteq Descs
    BY <1>1, <1>2, BehindFacts
  <1>4. ASSUME NEW y \in S, NEW z \in Needs(y) PROVE z \in S
    <2>1. CASE y = d
      <3>1. z \in Descs /\ z \in Needs(d)
        BY <1>2, <1>4, <2>1
      <3>2. z \in Behind[z]
        BY <3>1, BehindFacts
      <3>. QED BY <1>1, <3>1, <3>2
    <2>2. CASE \E x \in Needs(d) : y \in Behind[x]
      <3>1. PICK x \in Needs(d) : y \in Behind[x]
        BY <2>2
      <3>2. z \in Behind[x]
        BY <1>2, <1>4, <3>1, BehindFacts
      <3>. QED BY <1>1, <3>1, <3>2
    <2>. QED BY <1>1, <1>4, <2>1, <2>2
  <1>5. Closed(S) /\ d \in S
    BY <1>1, <1>3, <1>4 DEF Closed
  <1>6. e \in S
    BY <1>5, BehindIs
  <1>. QED BY <1>1, <1>6

(* SetToSeq lists a finite set. *)
LEMMA ListFacts ==
  ASSUME NEW S, IsFiniteSet(S)
  PROVE  /\ SetToSeq(S) \in Seq(S) /\ Len(SetToSeq(S)) = Cardinality(S) /\ Cardinality(S) \in Nat
         /\ \A x \in S : \E j \in 1 .. Len(SetToSeq(S)) : SetToSeq(S)[j] = x
  <1>1. PICK m \in Nat : m = Cardinality(S)
    BY FS_CardinalityType
  <1>2. PICK h \in Bijection(1 .. m, S) : TRUE
    BY <1>1, FS_CardinalityType DEF ExistsBijection
  <1>3. \E g \in [1 .. m -> S] : IsInjective(g)
    BY <1>2 DEF Bijection, Injection
  <1>4. SetToSeq(S) = CHOOSE g \in [1 .. m -> S] : IsInjective(g)
    BY <1>1 DEF SetToSeq
  <1>5. PICK g \in [1 .. m -> S] : g = SetToSeq(S) /\ IsInjective(g)
    BY <1>3, <1>4, Zenon
  <1>6. g \in Injection(1 .. m, S)
    BY <1>5 DEF Injection
  <1>7. IsFiniteSet(1 .. m) /\ Cardinality(1 .. m) = m
    BY FS_Interval
  <1>8. g \in Surjection(1 .. m, S)
    BY <1>1, <1>6, <1>7, FS_Injection
  <1>9. g \in Seq(S) /\ Len(g) = m
    BY <1>5
  <1>10. \A x \in S : \E j \in 1 .. m : g[j] = x
    BY <1>8 DEF Surjection
  <1>. QED BY <1>1, <1>5, <1>9, <1>10

(* Supertypes lists the superclass and the interfaces with default methods. *)
LEMMA SupertypesFacts ==
  ASSUME Types, NEW k \in DOMAIN cls, UpOK(k)
  PROVE  /\ Supertypes(k) \in Seq(DOMAIN cls) /\ Len(Supertypes(k)) \in Nat
         /\ \A j \in 1 .. Len(Supertypes(k)) :
              \/ Supertypes(k)[j] \in SuperClass(k)
              \/ Supertypes(k)[j] \in cls[k].ift /\ Supertypes(k)[j].desc \in HasDefault
         /\ k.desc \notin Interfaces =>
              \A p \in SuperClass(k) : \E j \in 1 .. Cardinality(SuperClass(k)) :
                j \in 1 .. Len(Supertypes(k)) /\ Supertypes(k)[j] = p
         /\ Cardinality(SuperClass(k)) \in Nat
  <1>1. CASE k.desc \in Interfaces
    <2>1. Supertypes(k) = <<>>
      BY <1>1 DEF Supertypes
    <2>2. SuperClass(k) \subseteq DOMAIN cls /\ IsFiniteSet(DOMAIN cls)
      BY DEF UpOK, SuperClass, Types
    <2>3. Cardinality(SuperClass(k)) \in Nat
      BY <2>2, FS_Subset, FS_CardinalityType
    <2>. QED BY <1>1, <2>1, <2>3
  <1>2. CASE k.desc \notin Interfaces
    <2>1. PICK S, T : S = SuperClass(k) /\ T = {p \in cls[k].ift : p.desc \in HasDefault}
      OBVIOUS
    <2>2. S \subseteq DOMAIN cls /\ T \subseteq DOMAIN cls /\ IsFiniteSet(DOMAIN cls)
      BY <2>1 DEF UpOK, SuperClass, Types
    <2>3. IsFiniteSet(S) /\ IsFiniteSet(T)
      BY <2>2, FS_Subset
    <2>4. PICK p \in Seq(S), q \in Seq(T) : p = SetToSeq(S) /\ q = SetToSeq(T) /\ Len(p) = Cardinality(S)
      BY <2>3, ListFacts
    <2>5. Supertypes(k) = p \o q
      BY <1>2, <2>1, <2>4 DEF Supertypes
    <2>6. \A x \in S : \E j \in 1 .. Len(p) : p[j] = x
      BY <2>3, <2>4, ListFacts
    <2>7. p \in Seq(DOMAIN cls) /\ q \in Seq(DOMAIN cls)
      BY <2>2, <2>4
    <2>8. /\ p \o q \in Seq(DOMAIN cls) /\ Len(p \o q) = Len(p) + Len(q) /\ Len(p) \in Nat /\ Len(q) \in Nat
          /\ \A j \in 1 .. Len(p) + Len(q) : (p \o q)[j] = IF j <= Len(p) THEN p[j] ELSE q[j - Len(p)]
      BY <2>7
    <2>9. ASSUME NEW j \in 1 .. Len(p) + Len(q)
          PROVE  (p \o q)[j] \in S \/ (p \o q)[j] \in T
      <3>1. CASE j <= Len(p)
        BY <2>4, <2>8, <2>9, <3>1
      <3>2. CASE ~ (j <= Len(p))
        <4>1. j - Len(p) \in 1 .. Len(q)
          BY <2>8, <2>9, <3>2
        <4>. QED BY <2>4, <2>8, <2>9, <3>2, <4>1
      <3>. QED BY <3>1, <3>2
    <2>10. ASSUME NEW x \in S PROVE \E j \in 1 .. Len(p) : j \in 1 .. Len(p) + Len(q) /\ (p \o q)[j] = x
      <3>1. PICK j \in 1 .. Len(p) : p[j] = x
        BY <2>6, <2>10
      <3>2. j \in 1 .. Len(p) + Len(q) /\ (p \o q)[j] = x
        BY <2>8, <3>1
      <3>. QED BY <3>2
    <2>11. T \subseteq cls[k].ift /\ \A x \in T : x.desc \in HasDefault
      BY <2>1
    <2>12. \A x \in S : \E j \in 1 .. Cardinality(S) : j \in 1 .. Len(p) + Len(q) /\ (p \o q)[j] = x
      BY <2>4, <2>10
    <2>13. Cardinality(S) \in Nat
      BY <2>4, <2>8
    <2>. QED BY <2>1, <2>5, <2>8, <2>9, <2>11, <2>12, <2>13
  <1>. QED BY <1>1, <1>2

-----------------------------------------------------------------------------
(* Stacks: what calls and returns do to the frames *)

(* The step of t leaves the frames below the innermost one alone. *)
Rewrites(t, D) ==
  /\ D \in Nat /\ D > 0 /\ D = Depth(t) /\ stack' \in [Threads -> Seq(FrameRec)]
  /\ \A u \in Threads : u # t => stack'[u] = stack[u]
  /\ Depth(t)' \in Nat /\ Depth(t)' >= D - 1
  /\ \A b \in 1 .. D - 1 : Fr(t, b)' = Fr(t, b)

LEMMA TopFr ==
  ASSUME Types, NEW t \in Threads, stack[t] # <<>>
  PROVE  /\ Depth(t) \in Nat /\ Depth(t) > 0 /\ Fr(t, Depth(t)) = Top(t) /\ Top(t) \in FrameRec
         /\ \A b \in 1 .. Depth(t) : Fr(t, b) \in FrameRec
  <1>1. PICK s \in Seq(FrameRec) : s = stack[t] /\ s # <<>>
    BY DEF Types
  <1>2. Len(s) \in Nat /\ Len(s) > 0 /\ Head(s) = s[1] /\ s[1] \in FrameRec
        /\ \A b \in 1 .. Len(s) : s[b] \in FrameRec
    BY <1>1
  <1>3. Len(s) + 1 - Len(s) = 1 /\ \A b \in 1 .. Len(s) : Len(s) + 1 - b \in 1 .. Len(s)
    BY <1>2
  <1>. QED BY <1>1, <1>2, <1>3 DEF Depth, Fr, Top

(* Short sequences *)
LEMMA OneSeq ==
  ASSUME NEW S, NEW x \in S
  PROVE  <<x>> \in Seq(S) /\ Len(<<x>>) = 1 /\ <<x>>[1] = x
  OBVIOUS

LEMMA TwoSeq ==
  ASSUME NEW S, NEW x \in S, NEW y \in S
  PROVE  /\ <<x>> \o <<y>> \in Seq(S) /\ Len(<<x>> \o <<y>>) = 2
         /\ (<<x>> \o <<y>>)[1] = x /\ (<<x>> \o <<y>>)[2] = y
  <1>1. PICK p \in Seq(S) : p = <<x>> /\ Len(p) = 1 /\ p[1] = x
    BY OneSeq
  <1>2. PICK q \in Seq(S) : q = <<y>> /\ Len(q) = 1 /\ q[1] = y
    BY OneSeq
  <1>3. p \o q \in Seq(S) /\ Len(p \o q) = 2 /\ (p \o q)[1] = p[1] /\ (p \o q)[2] = q[1]
    BY <1>1, <1>2
  <1>. QED BY <1>1, <1>2, <1>3

LEMMA ThreeSeq ==
  ASSUME NEW S, NEW x \in S, NEW y \in S, NEW z \in S
  PROVE  /\ <<x, y>> \o <<z>> \in Seq(S) /\ Len(<<x, y>> \o <<z>>) = 3
         /\ (<<x, y>> \o <<z>>)[1] = x /\ (<<x, y>> \o <<z>>)[2] = y /\ (<<x, y>> \o <<z>>)[3] = z
  <1>1. <<x, y>> \in Seq(S) /\ Len(<<x, y>>) = 2 /\ <<x, y>>[1] = x /\ <<x, y>>[2] = y
    OBVIOUS
  <1>2. PICK p \in Seq(S) : p = <<x, y>> /\ Len(p) = 2 /\ p[1] = x /\ p[2] = y
    BY <1>1
  <1>3. PICK q \in Seq(S) : q = <<z>> /\ Len(q) = 1 /\ q[1] = z
    BY OneSeq
  <1>4. /\ p \o q \in Seq(S) /\ Len(p \o q) = 3
        /\ (p \o q)[1] = p[1] /\ (p \o q)[2] = p[2] /\ (p \o q)[3] = q[1]
    BY <1>2, <1>3
  <1>. QED BY <1>2, <1>3, <1>4

(* Frames *)
LEMMA CallerFrame ==
  ASSUME NEW f \in FrameRec, NEW at \in Ats, NEW g, g = Onward(f, at)
  PROVE  /\ g \in FrameRec /\ g.at = at /\ g.d = f.d /\ g.l = f.l /\ g.k = f.k /\ g.i = f.i + 1 /\ g.n = f.n
  <1>1. PICK i : i = f.i + 1
    OBVIOUS
  <1>2. i \in Nat
    BY <1>1 DEF FrameRec
  <1>3. g = [f EXCEPT !.at = at, !.i = i]
    BY <1>1, Zenon DEF FrameRec, Onward
  <1>. QED BY <1>1, <1>2, <1>3, Zenon DEF FrameRec

LEMMA GotoFrame ==
  ASSUME NEW f \in FrameRec, NEW at \in Ats, NEW g, g = [f EXCEPT !.at = at]
  PROVE  /\ g \in FrameRec /\ g.at = at /\ g.d = f.d /\ g.l = f.l /\ g.k = f.k /\ g.i = f.i /\ g.n = f.n
  BY DEF FrameRec

Paused(f, at, m) == [f EXCEPT !.at = at, !.n = m]

LEMMA WaitFrame ==
  ASSUME NEW f \in FrameRec, NEW at \in Ats, NEW m \in Nat, NEW g, g = Paused(f, at, m)
  PROVE  /\ g \in FrameRec /\ g.at = at /\ g.d = f.d /\ g.l = f.l /\ g.k = f.k /\ g.i = f.i /\ g.n = m
  BY Zenon DEF FrameRec, Paused

LEMMA NewFrame ==
  ASSUME NEW at \in Ats, NEW d \in Descs, NEW l \in Loaders, NEW k \in Classes \cup {NULL}, NEW g,
         g = Frame(at, d, l, k)
  PROVE  /\ g \in FrameRec /\ g.at = at /\ g.d = d /\ g.l = l /\ g.k = k /\ g.i = 0 /\ g.n = 0
  BY DEF Frame, FrameRec

(* The new frames s take the place of the innermost one. *)
LEMMA RewriteFr ==
  ASSUME Types, NEW t \in Threads, stack[t] # <<>>, NEW s \in Seq(FrameRec),
         stack' = [stack EXCEPT ![t] = s \o Tail(@)]
  PROVE  \E D \in Nat :
           /\ Rewrites(t, D) /\ Depth(t)' = D - 1 + Len(s)
           /\ \A j \in 1 .. Len(s) : Fr(t, D - 1 + Len(s) + 1 - j)' = s[j]
  <1>1. PICK r \in Seq(FrameRec) : r = stack[t] /\ r # <<>>
    BY DEF Types
  <1>2. PICK D \in Nat : D = Len(r) /\ D > 0
    BY <1>1
  <1>3. PICK q : q = Tail(r)
    OBVIOUS
  <1>4. q \in Seq(FrameRec) /\ Len(q) = D - 1 /\ \A j \in 1 .. D - 1 : q[j] = r[j + 1]
    BY <1>1, <1>2, <1>3
  <1>5. PICK m \in Nat : m = Len(s)
    OBVIOUS
  <1>6. PICK v \in Seq(FrameRec) : v = s \o q
    BY <1>4, ConcatProperties
  <1>7. /\ Len(v) = m + (D - 1)
        /\ \A j \in 1 .. m + (D - 1) : v[j] = IF j <= m THEN s[j] ELSE q[j - m]
    BY <1>4, <1>5, <1>6
  <1>8. /\ stack' = [stack EXCEPT ![t] = v] /\ stack \in [Threads -> Seq(FrameRec)]
        /\ stack'[t] = v
    BY <1>1, <1>3, <1>6 DEF Types
  <1>9. stack' \in [Threads -> Seq(FrameRec)] /\ \A u \in Threads : u # t => stack'[u] = stack[u]
    BY <1>8
  <1>10. Depth(t)' = D - 1 + m /\ Depth(t) = D /\ D - 1 + m \in Nat /\ D - 1 + m >= D - 1
    <2>1. m + (D - 1) = D - 1 + m /\ D - 1 + m \in Nat /\ D - 1 + m >= D - 1
      BY <1>2, <1>5
    <2>. QED BY <1>1, <1>2, <1>7, <1>8, <2>1 DEF Depth
  <1>11. ASSUME NEW b \in 1 .. D - 1 PROVE Fr(t, b)' = Fr(t, b)
    <2>1. m + (D - 1) + 1 - b \in 1 .. m + (D - 1) /\ ~ (m + (D - 1) + 1 - b <= m)
          /\ m + (D - 1) + 1 - b - m = D - b /\ D - b \in 1 .. D - 1 /\ D - b + 1 = D + 1 - b
      BY <1>2, <1>5, <1>11
    <2>2. v[m + (D - 1) + 1 - b] = r[D + 1 - b]
      BY <1>4, <1>7, <2>1
    <2>. QED BY <1>1, <1>2, <1>7, <1>8, <2>2 DEF Fr
  <1>12. ASSUME NEW j \in 1 .. m PROVE Fr(t, D - 1 + m + 1 - j)' = s[j]
    <2>1. m + (D - 1) + 1 - (D - 1 + m + 1 - j) = j /\ j \in 1 .. m + (D - 1) /\ j <= m
      BY <1>2, <1>5, <1>12
    <2>. QED BY <1>7, <1>8, <2>1 DEF Fr
  <1>13. Rewrites(t, D)
    BY <1>2, <1>9, <1>10, <1>11 DEF Rewrites
  <1>. QED BY <1>5, <1>10, <1>12, <1>13

LEMMA BecomeFr ==
  ASSUME Types, NEW t \in Threads, stack[t] # <<>>, NEW g \in FrameRec, Become(t, g)
  PROVE  \E D \in Nat : Rewrites(t, D) /\ Depth(t)' = D /\ Fr(t, D)' = g
  <1>1. PICK s \in Seq(FrameRec) : s = <<g>> /\ Len(s) = 1 /\ s[1] = g
    BY OneSeq
  <1>2. stack' = [stack EXCEPT ![t] = s \o Tail(@)]
    BY <1>1 DEF Become
  <1>3. PICK D \in Nat : /\ Rewrites(t, D) /\ Depth(t)' = D - 1 + 1
                         /\ \A j \in 1 .. 1 : Fr(t, D - 1 + 1 + 1 - j)' = s[j]
    BY <1>1, <1>2, RewriteFr
  <1>4. D - 1 + 1 = D /\ D - 1 + 1 + 1 - 1 = D /\ 1 \in 1 .. 1
    BY <1>3
  <1>. QED BY <1>1, <1>3, <1>4

LEMMA ReturnFr ==
  ASSUME Types, NEW t \in Threads, stack[t] # <<>>, Return(t)
  PROVE  \E D \in Nat : Rewrites(t, D) /\ Depth(t)' = D - 1
  <1>1. PICK s \in Seq(FrameRec) : s = <<>> /\ Len(s) = 0
    BY EmptySeq
  <1>2. PICK r \in Seq(FrameRec) : r = stack[t] /\ r # <<>>
    BY DEF Types
  <1>3. s \o Tail(r) = Tail(r)
    BY <1>1, <1>2
  <1>4. stack' = [stack EXCEPT ![t] = s \o Tail(@)]
    BY <1>2, <1>3 DEF Return
  <1>5. PICK D \in Nat : Rewrites(t, D) /\ Depth(t)' = D - 1 + 0
    BY <1>1, <1>4, RewriteFr
  <1>. QED BY <1>5

LEMMA CallFr ==
  ASSUME Types, NEW t \in Threads, stack[t] # <<>>, NEW at \in Ats, NEW u \in FrameRec,
         Call(t, <<u>>, at)
  PROVE  \E D \in Nat, g \in FrameRec :
           /\ Rewrites(t, D) /\ Depth(t)' = D + 1 /\ Fr(t, D)' = g /\ Fr(t, D + 1)' = u
           /\ g = Onward(Top(t), at)
  <1>1. PICK f \in FrameRec : f = Top(t) /\ f = Head(stack[t])
    BY TopFr DEF Top
  <1>2. PICK g : g = Onward(f, at)
    OBVIOUS
  <1>3. g \in FrameRec
    BY <1>2, CallerFrame
  <1>4. /\ <<u>> \o <<g>> \in Seq(FrameRec) /\ Len(<<u>> \o <<g>>) = 2
        /\ (<<u>> \o <<g>>)[1] = u /\ (<<u>> \o <<g>>)[2] = g
    BY <1>3, TwoSeq
  <1>5. PICK s \in Seq(FrameRec) : s = <<u>> \o <<g>> /\ Len(s) = 2 /\ s[1] = u /\ s[2] = g
    BY <1>4, Zenon
  <1>6. stack' = [stack EXCEPT ![t] = <<u>> \o <<Onward(Top(t), at)>> \o Tail(@)]
    BY Zenon DEF Call
  <1>7. stack' = [stack EXCEPT ![t] = s \o Tail(@)]
    BY <1>1, <1>2, <1>5, <1>6, Zenon
  <1>8. PICK D \in Nat : /\ Rewrites(t, D) /\ Depth(t)' = D - 1 + Len(s)
                         /\ \A j \in 1 .. Len(s) : Fr(t, D - 1 + Len(s) + 1 - j)' = s[j]
    BY <1>7, RewriteFr
  <1>10. /\ Rewrites(t, D) /\ Depth(t)' = D - 1 + 2
         /\ \A j \in 1 .. 2 : Fr(t, D - 1 + 2 + 1 - j)' = s[j]
    BY <1>5, <1>8, Zenon
  <1>11. D - 1 + 2 = D + 1 /\ D - 1 + 2 + 1 - 1 = D + 1 /\ D - 1 + 2 + 1 - 2 = D /\ 1 \in 1 .. 2 /\ 2 \in 1 .. 2
    BY <1>10
  <1>. QED BY <1>1, <1>2, <1>3, <1>5, <1>10, <1>11

LEMMA CallNoneFr ==
  ASSUME Types, NEW t \in Threads, stack[t] # <<>>, NEW at \in Ats, Call(t, <<>>, at)
  PROVE  \E g \in FrameRec : Become(t, g) /\ g = Onward(Top(t), at)
  <1>1. PICK f \in FrameRec : f = Top(t) /\ f = Head(stack[t])
    BY TopFr DEF Top
  <1>2. PICK g : g = Onward(f, at)
    OBVIOUS
  <1>3. g \in FrameRec
    BY <1>2, CallerFrame
  <1>4. <<>> \o <<g>> = <<g>>
    BY <1>3
  <1>5. Become(t, g)
    <2>1. stack' = [stack EXCEPT ![t] = <<>> \o <<Onward(Top(t), at)>> \o Tail(@)]
      BY Zenon DEF Call
    <2>. QED BY <1>1, <1>2, <1>4, <2>1, Zenon DEF Become
  <1>. QED BY <1>1, <1>2, <1>3, <1>5

LEMMA CallTwoFr ==
  ASSUME Types, NEW t \in Threads, stack[t] # <<>>, NEW at \in Ats, NEW u \in FrameRec, NEW v \in FrameRec,
         Call(t, <<u, v>>, at)
  PROVE  \E D \in Nat, g \in FrameRec :
           /\ Rewrites(t, D) /\ Depth(t)' = D + 2
           /\ Fr(t, D)' = g /\ Fr(t, D + 1)' = v /\ Fr(t, D + 2)' = u
           /\ g = Onward(Top(t), at)
  <1>1. PICK f \in FrameRec : f = Top(t) /\ f = Head(stack[t])
    BY TopFr DEF Top
  <1>2. PICK g : g = Onward(f, at)
    OBVIOUS
  <1>3. g \in FrameRec
    BY <1>2, CallerFrame
  <1>4. /\ <<u, v>> \o <<g>> \in Seq(FrameRec) /\ Len(<<u, v>> \o <<g>>) = 3
        /\ (<<u, v>> \o <<g>>)[1] = u /\ (<<u, v>> \o <<g>>)[2] = v /\ (<<u, v>> \o <<g>>)[3] = g
    BY <1>3, ThreeSeq
  <1>5. PICK s \in Seq(FrameRec) : s = <<u, v>> \o <<g>> /\ Len(s) = 3 /\ s[1] = u /\ s[2] = v /\ s[3] = g
    BY <1>4, Zenon
  <1>6. stack' = [stack EXCEPT ![t] = <<u, v>> \o <<Onward(Top(t), at)>> \o Tail(@)]
    BY Zenon DEF Call
  <1>7. stack' = [stack EXCEPT ![t] = s \o Tail(@)]
    BY <1>1, <1>2, <1>5, <1>6, Zenon
  <1>8. PICK D \in Nat : /\ Rewrites(t, D) /\ Depth(t)' = D - 1 + Len(s)
                         /\ \A j \in 1 .. Len(s) : Fr(t, D - 1 + Len(s) + 1 - j)' = s[j]
    BY <1>7, RewriteFr
  <1>10. /\ Rewrites(t, D) /\ Depth(t)' = D - 1 + 3
         /\ \A j \in 1 .. 3 : Fr(t, D - 1 + 3 + 1 - j)' = s[j]
    BY <1>5, <1>8, Zenon
  <1>11. D - 1 + 3 = D + 2 /\ D - 1 + 3 + 1 - 1 = D + 2 /\ D - 1 + 3 + 1 - 2 = D + 1 /\ D - 1 + 3 + 1 - 3 = D
         /\ 1 \in 1 .. 3 /\ 2 \in 1 .. 3 /\ 3 \in 1 .. 3
    BY <1>10
  <1>. QED BY <1>1, <1>2, <1>3, <1>5, <1>10, <1>11

-----------------------------------------------------------------------------
(* What a step may do to the classes and the tables, and what it leaves *)

(* A class object goes forward. *)
Evolves(o) ==
  /\ Status(o) \in Res => Status(o)' \in Res /\ cls'[o].up = cls[o].up /\ cls'[o].ift = cls[o].ift
  /\ Status(o) \in Was => Status(o)' \in Was
  /\ Status(o) \in Late => Status(o)' \in Late
  /\ Status(o) \in {"Initialized", "ErrorResolved"} => Status(o)' = Status(o)
  /\ Status(o) = "Verifying" => Status(o)' \in Was \cup {"Verifying"}
  /\ Status(o)' = "Verifying" => Status(o) \in {"Resolved", "Verifying"}
  /\ IsTemp(o) /\ Status(o) = "ErrorUnresolved" => Status(o)' = "ErrorUnresolved"

(* An entry of a table stays, but for a temporary class. *)
EntryEvolves(l, d) ==
  /\ table[l][d] = NULL /\ table'[l][d] # NULL => ~ IsTemp(table'[l][d]) \/ d \in Path[l] \ Arrays
  /\ table[l][d] # NULL => \/ table'[l][d] = table[l][d]
                           \/ /\ IsTemp(table[l][d]) /\ table[l][d].loader = l
                              /\ table'[l][d] = Copy(table[l][d])

Grows ==
  /\ DOMAIN cls \subseteq DOMAIN cls'
  /\ \A o \in DOMAIN cls : Evolves(o)
  /\ \A l \in Loaders, d \in Descs : EntryEvolves(l, d)
  /\ faults' <= faults /\ spurious' <= spurious /\ denied \subseteq denied'

(* Only the objects of K change, but for their monitors. *)
Kept(o) ==
  /\ cls'[o].status = cls[o].status /\ cls'[o].tid = cls[o].tid /\ cls'[o].up = cls[o].up
  /\ cls'[o].ift = cls[o].ift /\ cls'[o].done = cls[o].done
Touches(K) ==
  /\ DOMAIN cls \subseteq DOMAIN cls' /\ DOMAIN cls' \subseteq DOMAIN cls \cup K
  /\ \A o \in DOMAIN cls : o \notin K => Kept(o)
  /\ \A l \in Loaders, d \in Descs :
       table[l][d] # NULL /\ table[l][d] \notin K => table'[l][d] = table[l][d]

(* What frame f of thread u has for itself, the step leaves alone. *)
Own(u, f) ==
  /\ f.at \in DefAts => DefFrame(u, f)' /\ cls'[f.k].up = cls[f.k].up
  /\ f.at \in Ver2 \cup Ini2 => Status(f.k)' = Status(f.k) /\ cls'[f.k].tid = cls[f.k].tid
  /\ f.at \in {"supers", "clinit"} => ran'[f.l][f.d] = ran[f.l][f.d]

LEMMA CopyFacts ==
  ASSUME NEW x \in Classes
  PROVE  /\ Copy(x) \in Classes /\ Copy(x).desc = x.desc /\ Copy(x).loader = x.loader /\ Copy(x).by = x.by
         /\ Copy(x).gen = "copy" /\ Copy(x) # NULL /\ x # NULL /\ ~ IsTemp(Copy(x))
         /\ First(x) \in Classes /\ First(x).desc = x.desc /\ First(x).loader = x.loader /\ First(x).by = x.by
         /\ First(x).gen = "first"
         /\ (x.gen = "first" => First(Copy(x)) = x) /\ (x.gen = "copy" => Copy(First(x)) = x /\ Copy(x) = x)
  <1>1. /\ Copy(x) \in Classes /\ Copy(x).desc = x.desc /\ Copy(x).loader = x.loader /\ Copy(x).by = x.by
        /\ Copy(x).gen = "copy"
    BY DEF Classes, Copy
  <1>2. /\ First(x) \in Classes /\ First(x).desc = x.desc /\ First(x).loader = x.loader /\ First(x).by = x.by
        /\ First(x).gen = "first"
    BY DEF Classes, First
  <1>3. x.gen = "first" => First(Copy(x)) = x
    BY DEF Classes, Copy, First
  <1>4. x.gen = "copy" => Copy(First(x)) = x /\ Copy(x) = x
    BY DEF Classes, Copy, First
  <1>5. x # NULL /\ \A y \in Classes : y # NULL
    BY ConstantsAssumption
  <1>6. ~ IsTemp(Copy(x))
    BY <1>1 DEF IsTemp
  <1>. QED BY <1>1, <1>2, <1>3, <1>4, <1>5, <1>6

LEMMA GoodStable ==
  ASSUME Grows, NEW o, Good(o)
  PROVE  Good(o)'
  BY DEF Good, Grows, Evolves, IsTemp

LEMMA BegunStable ==
  ASSUME Grows, NEW q \in DOMAIN cls, Begun(q)
  PROVE  Begun(q)'
  <1>1. Evolves(q)
    BY DEF Grows
  <1>2. CASE Status(q) = "Initialized"
    BY <1>1, <1>2 DEF Begun, Evolves
  <1>3. CASE q.desc \in Loops /\ Status(q) \in {"Initializing", "ErrorResolved"}
    <2>1. Status(q)' \in Late
      BY <1>1, <1>3 DEF Evolves, Late
    <2>. QED BY <1>3, <2>1 DEF Begun, Late
  <1>. QED BY <1>2, <1>3 DEF Begun

LEMMA ReadyStable ==
  ASSUME Objects, Grows, NEW p \in DOMAIN cls, Status(p) \in Res
  PROVE  (Ready(p) => Ready(p)') /\ (Passed(p) => Passed(p)')
  <1>1. cls'[p].ift = cls[p].ift /\ cls[p].ift \subseteq DOMAIN cls
    BY DEF Grows, Evolves, Objects, ObjectOK, UpOK
  <1>2. ASSUME NEW q \in DOMAIN cls, Begun(q) PROVE Begun(q)'
    BY <1>2, BegunStable
  <1>. QED BY <1>1, <1>2 DEF Ready, Passed

LEMMA SupertypesStable ==
  ASSUME Grows, NEW k \in DOMAIN cls, Status(k) \in Res
  PROVE  Supertypes(k)' = Supertypes(k) /\ Ups(k)' = Ups(k) /\ SuperClass(k)' = SuperClass(k)
  <1>1. PICK a, b : a = cls[k].up /\ b = cls[k].ift
    OBVIOUS
  <1>2. cls'[k].up = a /\ cls'[k].ift = b
    BY <1>1 DEF Grows, Evolves
  <1>. QED BY <1>1, <1>2, Zenon DEF Supertypes, SuperClass, Ups

LEMMA DeadStable ==
  ASSUME Types, Types', Grows, NEW l \in Loaders, NEW d \in Descs, Dead(l, d)
  PROVE  Dead(l, d)'
  <1>1. CASE <<l, d>> \in denied
    BY <1>1 DEF Dead, Grows
  <1>2. CASE table[l][d] = NULL /\ (d \in Arrays \/ d \notin Path[l])
    BY <1>2 DEF Dead, Grows, EntryEvolves
  <1>3. CASE table[l][d] # NULL /\ (IsTemp(table[l][d]) => Status(table[l][d]) = "ErrorUnresolved")
    <2>1. PICK x \in DOMAIN cls : x = table[l][d]
      BY <1>3 DEF Types
    <2>2. IsTemp(x) => Status(x)' = "ErrorUnresolved"
      BY <1>3, <2>1 DEF Grows, Evolves
    <2>3. table'[l][d] = x \/ (table'[l][d] = Copy(x) /\ ~ IsTemp(Copy(x)))
      BY <1>3, <2>1 DEF Grows, EntryEvolves, IsTemp, Copy, Types, Classes
    <2>4. x # NULL /\ Copy(x) # NULL
      BY <2>1, ConstantsAssumption DEF Types, Classes, Copy
    <2>. QED BY <2>2, <2>3, <2>4 DEF Dead
  <1>. QED BY <1>1, <1>2, <1>3 DEF Dead

LEMMA OwnOther ==
  ASSUME Types, NEW u \in Threads, NEW f, FrameOK(u, f), NEW K, Touches(K),
         f.at \in DefAts => f.k \notin K /\ Copy(f.k) \notin K,
         f.at \in Ver2 \cup Ini2 => f.k \notin K,
         f.at \in {"supers", "clinit"} => ran'[f.l][f.d] = ran[f.l][f.d]
  PROVE  Own(u, f)
  <1>1. ASSUME f.at \in DefAts PROVE DefFrame(u, f)' /\ cls'[f.k].up = cls[f.k].up
    <2>1. f.k \in DOMAIN cls /\ DefFrame(u, f) /\ f.l \in Loaders /\ f.d \in Descs /\ f.k \in Classes
      BY <1>1 DEF FrameOK, KAts, OfAts, FrameRec, Types
    <2>2. Kept(f.k) /\ (Copy(f.k) \in DOMAIN cls <=> Copy(f.k) \in DOMAIN cls')
      BY <1>1, <2>1 DEF Touches
    <2>3. Copy(f.k) \in DOMAIN cls => Kept(Copy(f.k))
      BY <1>1, <2>1 DEF Touches
    <2>4. table[f.l][f.d] = f.k => table'[f.l][f.d] = f.k
      BY <1>1, <2>1, ConstantsAssumption DEF Touches
    <2>. QED BY <2>1, <2>2, <2>3, <2>4 DEF DefFrame, Kept, Status
  <1>2. ASSUME f.at \in Ver2 \cup Ini2 PROVE Kept(f.k)
    BY <1>2 DEF Touches, FrameOK, KAts, OfAts, VerAts, IniAts
  <1>. QED BY <1>1, <1>2 DEF Own, Kept, Status

LEMMA FrameStable ==
  ASSUME Types, Objects, Grows, NEW u \in Threads, NEW f, FrameOK(u, f), Own(u, f)
  PROVE  FrameOK(u, f)'
  <1>1. /\ f \in FrameRec /\ (f.at \in KAts => f.k \in DOMAIN cls /\ f.k \in DOMAIN cls')
        /\ (f.at \in OfAts => f.d = f.k.desc /\ f.l = f.k.loader)
    BY DEF FrameOK, Grows
  <1>2. FindFrame(f)'
    <2>1. FindFrame(f) /\ f.l \in Loaders /\ f.d \in Descs
      BY <1>1 DEF FrameOK, FrameRec
    <2>2. f.at \in {"ensure", "lock", "temp", "spin"} => f.k \in DOMAIN cls /\ f.k # NULL
      BY <1>1, ConstantsAssumption DEF KAts, Types
    <2>3. ASSUME f.at \in {"ensure", "lock", "temp", "spin"}, ~ IsTemp(f.k), table[f.l][f.d] = f.k
          PROVE  table'[f.l][f.d] = f.k
      BY <2>1, <2>2, <2>3 DEF Grows, EntryEvolves
    <2>. QED BY <2>1, <2>2, <2>3 DEF FindFrame
  <1>3. f.at \in DefAts => DefFrame(u, f)'
    BY DEF Own
  <1>4. ASSUME f.at \in VerAts PROVE VerFrame(f)'
    <2>1. VerFrame(f) /\ f.k \in DOMAIN cls /\ UpOK(f.k) /\ f.i \in Nat /\ Status(f.k) \in Res
      BY <1>1, <1>4 DEF FrameOK, KAts, OfAts, Objects, ObjectOK, FrameRec, VerFrame, Good
    <2>2. Good(f.k)'
      BY <2>1, GoodStable DEF VerFrame
    <2>3. Supertypes(f.k)' = Supertypes(f.k)
      BY <2>1, SupertypesStable
    <2>4. Supertypes(f.k) \in Seq(DOMAIN cls) /\ Len(Supertypes(f.k)) \in Nat
      BY <2>1, SupertypesFacts
    <2>5. \A x \in DOMAIN cls : Status(x) \in Was => Status(x)' \in Was
      BY DEF Grows, Evolves
    <2>6. ASSUME f.at \in Ver2
          PROVE  \A j \in 1 .. f.i : j < f.i \/ f.at # "attempted" => Status(Supertypes(f.k)[j])' \in Was
      <3>1. f.i <= Len(Supertypes(f.k))
            /\ \A j \in 1 .. f.i : j < f.i \/ f.at # "attempted" => Status(Supertypes(f.k)[j]) \in Was
        BY <2>1, <2>6 DEF VerFrame
      <3>2. \A j \in 1 .. f.i : Supertypes(f.k)[j] \in DOMAIN cls
        BY <2>1, <2>4, <3>1
      <3>. QED BY <2>3, <2>5, <3>1, <3>2 DEF Status
    <2>7. f.at \in Ver2 => Status(f.k)' = Status(f.k)
      BY DEF Own
    <2>8. f.at = "woken" => Status(f.k)' \in Was \cup {"Verifying"}
      BY <2>1 DEF VerFrame, Grows, Evolves
    <2>9. ASSUME f.at = "verifier" PROVE \A p \in SuperClass(f.k)' : Status(p)' \in Was
      <3>1. SuperClass(f.k)' = SuperClass(f.k) /\ SuperClass(f.k) \subseteq DOMAIN cls
        BY <2>1, SupertypesStable DEF UpOK, SuperClass
      <3>2. \A p \in SuperClass(f.k) : Status(p) \in Was
        BY <2>1, <2>9 DEF VerFrame, Ver2
      <3>. QED BY <2>5, <3>1, <3>2
    <2>. QED BY <2>1, <2>2, <2>3, <2>6, <2>7, <2>8, <2>9 DEF VerFrame
  <1>5. ASSUME NEW k \in DOMAIN cls, Status(k) \in Res, k.desc \notin Arrays
        PROVE  /\ \A j \in 1 .. Len(cls[k].up) : cls[k].up[j] \in DOMAIN cls /\ Status(cls[k].up[j]) \in Res
               /\ cls'[k].up = cls[k].up /\ Ups(k)' = Ups(k) /\ (Ups(k) = cls[k].up \/ Ups(k) = <<>>)
    <2>1. \A j \in 1 .. Len(cls[k].up) : Good(cls[k].up[j])
      BY <1>5 DEF Objects, ObjectOK, UpOK
    <2>2. cls'[k].up = cls[k].up
      BY <1>5 DEF Grows, Evolves
    <2>. QED BY <1>5, <2>1, <2>2, SupertypesStable DEF Ups, Good
  <1>8. ASSUME NEW p \in DOMAIN cls, Status(p) \in Res
        PROVE  (Ready(p) => Ready(p)') /\ (Passed(p) => Passed(p)')
    BY <1>8, ReadyStable
  <1>6. ASSUME f.at \in IniAts PROVE IniFrame(u, f)'
    <2>1. IniFrame(u, f) /\ f.k \in DOMAIN cls /\ Status(f.k) \in Res
      BY <1>1, <1>6 DEF FrameOK, KAts, OfAts, IniFrame, Good
    <2>2. Good(f.k)'
      BY <2>1, GoodStable DEF IniFrame
    <2>3. f.at \in Ini2 => Status(f.k)' = Status(f.k) /\ cls'[f.k].tid = cls[f.k].tid
      BY DEF Own
    <2>4. f.at = "initializing?" => Status(f.k)' \in Late
      BY <2>1 DEF IniFrame, Grows, Evolves
    <2>5. f.at \in {"supers", "clinit"} => ran'[f.l][f.d] = 0
      BY <2>1 DEF IniFrame, Own
    <2>6. f.at \in Ini2 => f.k.desc \notin Arrays
      BY <2>1 DEF IniFrame, Objects, ObjectOK, StatusOK
    <2>8. Ups(f.k)' = Ups(f.k)
      BY <2>1, SupertypesStable
    <2>7. ASSUME f.at \in Ini2, NEW j \in 1 .. Len(Ups(f.k)), Passed(Ups(f.k)[j])
          PROVE  Passed(Ups(f.k)[j])'
      <3>1. PICK p \in DOMAIN cls : p = Ups(f.k)[j] /\ Status(p) \in Res
        BY <1>5, <2>1, <2>6, <2>7
      <3>2. Passed(p)'
        BY <1>8, <2>7, <3>1
      <3>. QED BY <2>8, <3>1, <3>2
    <2>. QED BY <2>1, <2>2, <2>3, <2>4, <2>5, <2>7, <2>8 DEF IniFrame, Ini2
  <1>7. ASSUME f.at \in IfaceAts PROVE IfaceFrame(f)'
    <2>1. IfaceFrame(f) /\ f.k \in DOMAIN cls /\ Status(f.k) \in Res /\ f.k.desc \notin Arrays
      BY <1>1, <1>7, HierarchyAssumption DEF FrameOK, KAts, OfAts, IfaceFrame, Good
    <2>2. Good(f.k)'
      BY <2>1, GoodStable DEF IfaceFrame
    <2>3. cls'[f.k].up = cls[f.k].up
      BY <1>5, <2>1
    <2>4. ASSUME NEW j \in 1 .. Len(cls[f.k].up), Ready(cls[f.k].up[j])
          PROVE  Ready(cls[f.k].up[j])'
      <3>1. PICK p \in DOMAIN cls : p = cls[f.k].up[j] /\ Status(p) \in Res
        BY <1>5, <2>1, <2>4
      <3>2. Ready(p)'
        BY <1>8, <2>4, <3>1
      <3>. QED BY <2>3, <3>1, <3>2
    <2>. QED BY <2>1, <2>2, <2>3, <2>4 DEF IfaceFrame
  <1>. QED BY <1>1, <1>2, <1>3, <1>4, <1>6, <1>7 DEF FrameOK

LEMMA LinkStable ==
  ASSUME Types, Objects, Grows, NEW u \in Threads, NEW g, NEW f, FrameOK(u, g), FrameOK(u, f), Own(u, g),
         LinkOK(g, f)
  PROVE  LinkOK(g, f)'
  <1>1. g \in FrameRec /\ f \in FrameRec
    BY DEF FrameOK
  <1>2. g.at = "resolved" => cls'[g.k].up = cls[g.k].up
    BY DEF Own, DefAts
  <1>3. g.at \in {"attempted", "supers", "iface"} => g.k \in DOMAIN cls /\ Status(g.k) \in Res
    BY DEF FrameOK, VerFrame, IniFrame, IfaceFrame, Good, VerAts, Ver2, IniAts, Ini2, IfaceAts
  <1>4. g.at \in {"attempted", "supers", "iface"} =>
          Supertypes(g.k)' = Supertypes(g.k) /\ Ups(g.k)' = Ups(g.k) /\ cls'[g.k].up = cls[g.k].up
    BY <1>3, SupertypesStable DEF Grows, Evolves
  <1>5. ASSUME f.at \in IniAts, f.k = table[g.l][g.d] PROVE f.k = table'[g.l][g.d]
    <2>1. Good(f.k) /\ f.k # NULL
      BY <1>5, ConstantsAssumption DEF FrameOK, IniFrame, Good, Types
    <2>2. g.l \in Loaders /\ g.d \in Descs
      BY <1>1 DEF FrameRec
    <2>. QED BY <1>5, <2>1, <2>2 DEF Grows, EntryEvolves, Good
  <1>. QED BY <1>2, <1>4, <1>5 DEF LinkOK

(* A thread that waits is told only when the class has changed. *)
Wakes(u) ==
  \/ waiting'[u] = waiting[u]
  \/ waiting'[u] = NULL /\ (cls'[waiting[u]].status # "Verifying" \/ Status(waiting[u]) = "Resolved")

LEMMA TopStable ==
  ASSUME Types, Types', Objects, Grows, NEW u \in Threads, NEW f, FrameOK(u, f), Own(u, f), TopOK(u, f),
         ret'[u] = ret[u], exc'[u] = exc[u],
         waiting'[u] = waiting[u] \/ (waiting'[u] = NULL /\ (Status(f.k)' # "Verifying" \/ Status(f.k) = "Resolved"))
  PROVE  TopOK(u, f)'
  <1>1. f \in FrameRec /\ f.l \in Loaders /\ f.d \in Descs /\ f.i \in Nat /\ f.n \in Nat
    BY DEF FrameOK, FrameRec
  <1>2. /\ exc[u] => f.at \in Handlers /\ (f.at = "array" => f.i = 1)
        /\ f.n > 0 => f.at \in {"temp", "woken", "initializing?"}
    BY DEF TopOK
  <1>3. ASSUME NEW o, Good(o), NEW l \in Loaders, NEW d \in Descs, o = table[l][d] PROVE o = table'[l][d]
    <2>1. o # NULL
      BY <1>3, ConstantsAssumption DEF Good, Types
    <2>. QED BY <1>3, <2>1 DEF Grows, EntryEvolves, Good
  <1>4. ASSUME f.at \in {"own", "java", "found", "use"}, ret[u] # NULL, ~ (f.at = "found" /\ exc[u])
        PROVE  /\ Good(ret[u])' /\ ret'[u].desc = f.d /\ ~ exc'[u]
               /\ f.at # "found" => ret'[u] = table'[IF f.at = "own" THEN Boot ELSE f.l][f.d]
    <2>1. /\ Good(ret[u]) /\ ret[u].desc = f.d /\ ~ exc[u]
          /\ f.at # "found" => ret[u] = table[IF f.at = "own" THEN Boot ELSE f.l][f.d]
      BY <1>4 DEF TopOK
    <2>2. PICK o : o = ret[u] /\ o = ret'[u]
      OBVIOUS
    <2>3. Good(o)'
      BY <2>1, <2>2, GoodStable
    <2>4. (IF f.at = "own" THEN Boot ELSE f.l) \in Loaders
      BY <1>1 DEF Loaders
    <2>5. f.at # "found" => o = table'[IF f.at = "own" THEN Boot ELSE f.l][f.d]
      BY <1>1, <1>3, <2>1, <2>2, <2>4
    <2>. QED BY <2>1, <2>2, <2>3, <2>5
  <1>5. f.at \in {"found", "use"} /\ ret[u] = NULL => exc[u]
    BY DEF TopOK
  <1>6. (f.at = "java" /\ ret[u] = NULL) \/ (f.at = "found" /\ exc[u]) =>
          table'[f.l][f.d] # NULL \/ f.d \notin Path[f.l] \/ f.d \in Arrays \/ <<f.l, f.d>> \in denied'
    <2>1. ASSUME table[f.l][f.d] # NULL PROVE table'[f.l][f.d] # NULL
      <3>1. PICK x \in Classes : x = table[f.l][f.d]
        BY <1>1, <2>1 DEF Types
      <3>. QED BY <1>1, <2>1, <3>1, CopyFacts DEF Grows, EntryEvolves
    <2>2. denied \subseteq denied'
      BY DEF Grows
    <2>. QED BY <2>1, <2>2 DEF TopOK
  <1>7. f.at = "array" /\ f.i = 1 => IF ret'[u] = NULL THEN Dead(f.l, Supers[f.d][1])' ELSE Good(ret[u])'
    <2>1. f.at = "array" => Supers[f.d][1] \in Descs
      BY <1>1, HierarchyAssumption DEF FrameOK, FindFrame
    <2>2. PICK o : o = ret[u] /\ o = ret'[u]
      OBVIOUS
    <2>3. Good(o) => Good(o)'
      BY GoodStable
    <2>4. f.at = "array" /\ f.i = 1 => IF o = NULL THEN Dead(f.l, Supers[f.d][1]) ELSE Good(o)
      BY <2>2 DEF TopOK
    <2>5. ASSUME f.at = "array", Dead(f.l, Supers[f.d][1]) PROVE Dead(f.l, Supers[f.d][1])'
      BY <1>1, <2>1, <2>5, DeadStable
    <2>. QED BY <2>2, <2>3, <2>4, <2>5
  <1>8. ASSUME f.at = "resolved", ~ exc[u]
        PROVE  /\ ret'[u] # NULL /\ Good(ret[u])' /\ ret'[u].desc = Supers[f.d][Len(cls'[f.k].up) + 1]
               /\ ret'[u] = table'[f.l][ret'[u].desc]
    <2>1. PICK o : o = ret[u] /\ o = ret'[u]
      OBVIOUS
    <2>2. o # NULL /\ Good(o) /\ o.desc = Supers[f.d][Len(cls[f.k].up) + 1] /\ o = table[f.l][o.desc]
      BY <1>8, <2>1 DEF TopOK
    <2>3. cls'[f.k].up = cls[f.k].up
      BY <1>8 DEF Own, DefAts
    <2>4. o.desc \in Descs
      BY <2>2 DEF Good, Types, Classes
    <2>. QED BY <1>1, <1>3, <2>1, <2>2, <2>3, <2>4, GoodStable
  <1>9. f.at \in {"attempted", "verified", "supers", "iface", "mark"} =>
          f.k \in DOMAIN cls /\ Status(f.k) \in Res /\ UpOK(f.k)
    BY DEF FrameOK, VerFrame, IniFrame, IfaceFrame, Good, VerAts, Ver2, IniAts, Ini2, IfaceAts, Objects, ObjectOK
  <1>10. \A x \in DOMAIN cls : Status(x) \in {"Initialized", "ErrorResolved"} => Status(x)' = Status(x)
    BY DEF Grows, Evolves
  <1>11. ASSUME f.at = "attempted", exc[u] PROVE Status(Supertypes(f.k)[f.i])' = "ErrorResolved"
    <2>1. Supertypes(f.k)' = Supertypes(f.k) /\ Supertypes(f.k) \in Seq(DOMAIN cls) /\ Len(Supertypes(f.k)) \in Nat
      BY <1>9, <1>11, SupertypesStable, SupertypesFacts
    <2>2. f.i > 0 /\ f.i <= Len(Supertypes(f.k))
      BY <1>11 DEF FrameOK, VerFrame, VerAts, Ver2
    <2>3. PICK x \in DOMAIN cls : x = Supertypes(f.k)[f.i] /\ x = Supertypes(f.k)'[f.i]
      BY <1>1, <2>1, <2>2
    <2>4. Status(x) = "ErrorResolved"
      BY <1>11, <2>3 DEF TopOK
    <2>. QED BY <1>10, <2>3, <2>4 DEF Status
  <1>12. f.at = "verified" /\ exc[u] => Status(f.k)' = "ErrorResolved"
    BY <1>9, <1>10 DEF TopOK
  <1>13. ASSUME NEW k \in DOMAIN cls, Status(k) \in Res, k.desc \notin Arrays, NEW j \in 1 .. Len(cls[k].up)
         PROVE  /\ (Ready(cls[k].up[j]) => Ready(cls[k].up[j])') /\ (Passed(cls[k].up[j]) => Passed(cls[k].up[j])')
                /\ cls'[k].up = cls[k].up
    <2>1. PICK p \in DOMAIN cls : p = cls[k].up[j] /\ Status(p) \in Res
      BY <1>13 DEF Objects, ObjectOK, UpOK, Good
    <2>2. (Ready(p) => Ready(p)') /\ (Passed(p) => Passed(p)')
      BY <2>1, ReadyStable
    <2>3. cls'[k].up = cls[k].up
      BY <1>13 DEF Grows, Evolves
    <2>. QED BY <2>1, <2>2, <2>3
  <1>14. ASSUME f.at = "supers", ~ exc[u], f.i > 0 PROVE Passed(Ups(f.k)[f.i])'
    <2>1. Passed(Ups(f.k)[f.i]) /\ f.i <= Len(Ups(f.k))
      BY <1>14 DEF TopOK, FrameOK, IniFrame, IniAts, Ini2
    <2>2. f.k.desc \notin Arrays
      BY <1>9, <1>14 DEF FrameOK, IniFrame, IniAts, Ini2, Objects, ObjectOK, StatusOK
    <2>3. Ups(f.k)' = Ups(f.k)
      BY <1>9, <1>14, SupertypesStable
    <2>4. Ups(f.k) = cls[f.k].up
      <3>1. CASE f.k.desc \in Interfaces
        BY <1>1, <1>14, <2>1, <3>1 DEF Ups
      <3>. QED BY <3>1 DEF Ups
    <2>5. f.i \in 1 .. Len(cls[f.k].up)
      BY <1>1, <1>14, <2>1, <2>4
    <2>. QED BY <1>9, <1>13, <1>14, <2>1, <2>2, <2>3, <2>4, <2>5
  <1>15. ASSUME f.at = "iface", ~ exc[u], f.i > 0 PROVE Ready(cls[f.k].up[f.i])'
    <2>1. Ready(cls[f.k].up[f.i]) /\ f.i <= Len(cls[f.k].up) /\ f.k.desc \notin Arrays
      BY <1>15, HierarchyAssumption DEF TopOK, FrameOK, IfaceFrame, IfaceAts
    <2>2. f.i \in 1 .. Len(cls[f.k].up)
      BY <1>1, <1>15, <2>1
    <2>. QED BY <1>9, <1>13, <1>15, <2>1, <2>2
  <1>16. f.at = "mark" /\ ~ exc[u] /\ f.d \in HasDefault => Begun(f.k)'
    BY <1>9, BegunStable DEF TopOK
  <1>17. ASSUME f.at = "caller", ~ exc[u]
         PROVE  table'[f.l][f.d] # NULL /\ Status(table[f.l][f.d])' = "Initialized"
    <2>1. PICK x \in DOMAIN cls : x = table[f.l][f.d] /\ Status(x) = "Initialized"
      BY <1>1, <1>17 DEF TopOK, Types
    <2>2. ~ IsTemp(x)
      BY <2>1 DEF Objects, ObjectOK, StatusOK
    <2>3. x = table'[f.l][f.d] /\ x # NULL
      BY <1>1, <1>3, <2>1, <2>2, ConstantsAssumption DEF Good, Res, Types
    <2>. QED BY <1>10, <2>1, <2>3 DEF Status
  <1>18. ASSUME f.at = "woken", waiting'[u] = NULL, Status(f.k)' = "Verifying" PROVE spurious' < MaxSpurious
    <2>1. f.k \in DOMAIN cls /\ Status(f.k) \in Was \cup {"Verifying"}
      BY <1>18 DEF FrameOK, VerFrame, VerAts, Good
    <2>2. Status(f.k) = "Verifying"
      BY <1>18, <2>1 DEF Grows, Evolves, Was
    <2>3. waiting[u] = NULL
      BY <1>18, <2>2
    <2>. QED BY <1>18, <2>2, <2>3, ConstantsAssumption DEF TopOK, Grows, Types
  <1>19. waiting'[u] # NULL => f.n > 0 /\ waiting'[u] = f.k
    BY DEF TopOK
  <1>. QED BY <1>2, <1>4, <1>5, <1>6, <1>7, <1>8, <1>11, <1>12, <1>14, <1>15, <1>16, <1>17, <1>18, <1>19 DEF TopOK

(* The frames of a thread *)
InStack(u, f) == \E b \in 1 .. Depth(u) : Fr(u, b) = f

LEMMA InStackFacts ==
  ASSUME Types, Stacks, NEW u \in Threads
  PROVE  /\ Depth(u) \in Nat
         /\ \A f : InStack(u, f) => FrameOK(u, f)
         /\ \A b \in 1 .. Depth(u) : InStack(u, Fr(u, b)) /\ FrameOK(u, Fr(u, b))
         /\ Depth(u) > 0 => InStack(u, Fr(u, Depth(u))) /\ TopOK(u, Fr(u, Depth(u)))
  <1>1. Depth(u) \in Nat
    BY DEF Types, Depth
  <1>. QED BY <1>1 DEF Stacks, StackOK, InStack

LEMMA StackStable ==
  ASSUME Types, Types', Objects, Grows, Stacks, NEW u \in Threads,
         stack'[u] = stack[u], ret'[u] = ret[u], exc'[u] = exc[u],
         \A f : InStack(u, f) => Own(u, f), Wakes(u)
  PROVE  StackOK(u)'
  <1>1. Depth(u)' = Depth(u) /\ \A b : Fr(u, b)' = Fr(u, b)
    BY DEF Depth, Fr
  <1>2. ASSUME NEW b \in 1 .. Depth(u) PROVE FrameOK(u, Fr(u, b))'
    <2>1. PICK f : f = Fr(u, b) /\ f = Fr(u, b)'
      BY <1>1
    <2>2. FrameOK(u, f) /\ Own(u, f)
      BY <1>2, <2>1, InStackFacts
    <2>3. FrameOK(u, f)'
      BY <2>2, FrameStable
    <2>. QED BY <2>1, <2>3
  <1>3. ASSUME NEW b \in 1 .. Depth(u), b > 1 PROVE LinkOK(Fr(u, b - 1), Fr(u, b))'
    <2>1. PICK f : f = Fr(u, b) /\ f = Fr(u, b)'
      BY <1>1
    <2>2. PICK g : g = Fr(u, b - 1) /\ g = Fr(u, b - 1)'
      BY <1>1
    <2>3. b - 1 \in 1 .. Depth(u)
      BY <1>3, InStackFacts
    <2>4. FrameOK(u, f) /\ FrameOK(u, g) /\ Own(u, g) /\ LinkOK(g, f)
      BY <1>3, <2>1, <2>2, <2>3, InStackFacts DEF Stacks, StackOK
    <2>5. LinkOK(g, f)'
      BY <2>4, LinkStable
    <2>. QED BY <2>1, <2>2, <2>5
  <1>4. \A b, c \in 1 .. Depth(u) : b < c => BelowOK(Fr(u, b), Fr(u, c))'
    <2>1. ASSUME NEW b \in 1 .. Depth(u), NEW c \in 1 .. Depth(u), b < c
          PROVE  BelowOK(Fr(u, b), Fr(u, c))'
      <3>1. PICK f, g : f = Fr(u, b) /\ f = Fr(u, b)' /\ g = Fr(u, c) /\ g = Fr(u, c)'
        BY <1>1
      <3>2. BelowOK(f, g)
        BY <2>1, <3>1 DEF Stacks, StackOK
      <3>3. BelowOK(f, g)'
        BY <3>2 DEF BelowOK
      <3>. QED BY <3>1, <3>3
    <2>. QED BY <2>1
  <1>5. ASSUME Depth(u) > 0 PROVE Fr(u, 1)'.at = "caller" /\ TopOK(u, Fr(u, Depth(u)))'
    <2>1. PICK f : f = Fr(u, Depth(u)) /\ f = Fr(u, Depth(u))'
      BY <1>1
    <2>2. FrameOK(u, f) /\ Own(u, f) /\ TopOK(u, f)
      BY <1>5, <2>1, InStackFacts
    <2>3. waiting[u] # NULL => waiting[u] = f.k
      BY <2>2 DEF TopOK
    <2>4. waiting'[u] = waiting[u] \/ (waiting'[u] = NULL /\ (Status(f.k)' # "Verifying" \/ Status(f.k) = "Resolved"))
      BY <2>3 DEF Wakes, Status
    <2>5. TopOK(u, f)'
      BY <2>2, <2>4, TopStable
    <2>. QED BY <1>1, <1>5, <2>1, <2>5 DEF Stacks, StackOK
  <1>6. Depth(u) = 0 => ~ exc'[u] /\ waiting'[u] = NULL
    BY DEF Stacks, StackOK, Wakes
  <1>. QED BY <1>1, <1>2, <1>3, <1>4, <1>5, <1>6 DEF StackOK

(* The objects and entries that a step leaves alone *)
LEMMA UpStable ==
  ASSUME Types, Objects, Grows, NEW o \in DOMAIN cls, cls'[o].up = cls[o].up, cls'[o].ift = cls[o].ift
  PROVE  UpOK(o)'
  <1>1. UpOK(o) /\ DOMAIN cls \subseteq DOMAIN cls'
    BY DEF Objects, ObjectOK, Grows
  <1>2. PICK a, b : a = cls[o].up /\ a = cls'[o].up /\ b = cls[o].ift /\ b = cls'[o].ift
    OBVIOUS
  <1>3. \A x : Good(x) => Good(x)'
    BY GoodStable
  <1>4. ToSet(a) \cup b \subseteq DOMAIN cls
    BY <1>1, <1>2 DEF UpOK
  <1>5. a \in Seq(Classes) /\ Len(a) \in Nat /\ \A j \in 1 .. Len(a) : a[j] \in DOMAIN cls
    <2>1. a \in Seq(Classes)
      BY <1>2 DEF Types, ClassRec
    <2>. QED BY <1>4, <2>1 DEF ToSet
  <1>6. ASSUME NEW q \in b
        PROVE  /\ Good(q)' /\ q.desc \in Interfaces /\ q.desc \in Behind[o.desc]
               /\ \E j \in 1 .. Len(a) : q = a[j] \/ q \in cls'[a[j]].ift
    <2>1. /\ Good(q) /\ q.desc \in Interfaces /\ q.desc \in Behind[o.desc]
          /\ \E j \in 1 .. Len(a) : q = a[j] \/ q \in cls[a[j]].ift
      BY <1>1, <1>2, <1>6 DEF UpOK
    <2>2. PICK j \in 1 .. Len(a) : q = a[j] \/ q \in cls[a[j]].ift
      BY <2>1
    <2>3. ASSUME q \in cls[a[j]].ift, q # a[j] PROVE q \in cls'[a[j]].ift
      <3>1. CASE o.desc \notin Arrays
        <4>1. Good(a[j])
          BY <1>1, <1>2, <2>2, <3>1 DEF UpOK
        <4>2. cls'[a[j]].ift = cls[a[j]].ift
          BY <1>5, <2>2, <4>1 DEF Good, Grows, Evolves
        <4>. QED BY <2>3, <4>2
      <3>2. CASE o.desc \in Arrays
        <4>1. cls[o].ift = {}
          BY <3>2 DEF Objects, ObjectOK, StatusOK
        <4>. QED BY <1>2, <1>6, <4>1
      <3>. QED BY <3>1, <3>2
    <2>. QED BY <1>3, <2>1, <2>2, <2>3
  <1>7. o.desc \notin Arrays =>
          /\ Len(a) <= Len(Supers[o.desc])
          /\ \A j \in 1 .. Len(a) : Good(a[j])' /\ a[j].desc = Supers[o.desc][j] /\ a[j].desc # o.desc
    <2>1. o.desc \notin Arrays =>
            /\ Len(a) <= Len(Supers[o.desc])
            /\ \A j \in 1 .. Len(a) : Good(a[j]) /\ a[j].desc = Supers[o.desc][j] /\ a[j].desc # o.desc
      BY <1>1, <1>2 DEF UpOK
    <2>. QED BY <1>3, <2>1
  <1>8. /\ cls'[o].up = a /\ cls'[o].ift = b /\ ToSet(a) \cup b \subseteq DOMAIN cls'
        /\ \A j : Good(cls[o].up[j])' <=> Good(a[j])'
    BY <1>1, <1>2, <1>4 DEF Good
  <1>. QED BY <1>6, <1>7, <1>8 DEF UpOK, Good

LEMMA EntryStable ==
  ASSUME Types, Types', Objects, Grows, NEW o \in DOMAIN cls,
         Copy(o) \in DOMAIN cls' => Copy(o) \in DOMAIN cls \/ table'[o.loader][o.desc].gen = "copy"
  PROVE  EntryOK(o)'
  <1>1. o \in Classes /\ o.loader \in Loaders /\ o.desc \in Descs
    BY DEF Types, Classes
  <1>2. PICK x \in DOMAIN cls : x = table[o.loader][o.desc] /\ x.desc = o.desc /\ x.loader = o.loader /\ x.by = o.by
                                /\ (Copy(o) \in DOMAIN cls => x.gen = "copy")
    BY DEF Objects, ObjectOK, EntryOK
  <1>3. PICK y : y = table'[o.loader][o.desc]
    OBVIOUS
  <1>4. x \in Classes /\ x # NULL
    BY <1>2, CopyFacts DEF Types
  <1>5. y = x \/ (y = Copy(x) /\ Copy(x) # NULL)
    BY <1>1, <1>2, <1>3, <1>4, CopyFacts DEF Grows, EntryEvolves
  <1>6. y \in DOMAIN cls'
    <2>1. y \in DOMAIN cls' \cup {NULL}
      BY <1>1, <1>3 DEF Types
    <2>. QED BY <1>4, <1>5, <2>1
  <1>7. y.desc = o.desc /\ y.loader = o.loader /\ y.by = o.by
    BY <1>2, <1>4, <1>5, CopyFacts
  <1>8. Copy(o) \in DOMAIN cls' => y.gen = "copy"
    BY <1>2, <1>3, <1>4, <1>5, CopyFacts
  <1>9. o.desc \notin Arrays => o.desc \in Path[o.loader]
    BY DEF Objects, ObjectOK, EntryOK
  <1>. QED BY <1>3, <1>6, <1>7, <1>8, <1>9 DEF EntryOK

(* The mark of an interface stays. *)
LEMMA InitStable ==
  ASSUME Types, Types', Objects, Grows, NEW o \in DOMAIN cls, cls'[o].up = cls[o].up,
         cls'[o].done = cls[o].done
  PROVE  InitOK(o)'
  <1>1. InitOK(o)
    BY DEF Objects, ObjectOK
  <1>3. cls'[o].done => o.desc \in Interfaces /\ Status(o)' \in Res /\ Ready(o)'
    <2>1. cls[o].done => Status(o) \in Res /\ Ready(o) /\ o.desc \in Interfaces
      BY <1>1 DEF InitOK
    <2>. QED BY <2>1, ReadyStable DEF Grows, Evolves
  <1>4. ASSUME o.desc \in Arrays, NEW c \in ToSet(cls[o].up), IsTemp(c)
        PROVE  Status(c)' = "ErrorUnresolved" \/ <<c.loader, c.desc>> \in denied'
    <2>1. c \in DOMAIN cls
      BY <1>4 DEF Objects, ObjectOK, UpOK
    <2>2. Status(c) = "ErrorUnresolved" \/ <<c.loader, c.desc>> \in denied
      BY <1>1, <1>4 DEF InitOK
    <2>. QED BY <1>4, <2>1, <2>2 DEF Grows, Evolves
  <1>. QED BY <1>3, <1>4 DEF InitOK

LEMMA ObjectStable ==
  ASSUME Types, Types', Objects, Grows, NEW o \in DOMAIN cls, Kept(o),
         Copy(o) \in DOMAIN cls' => Copy(o) \in DOMAIN cls \/ table'[o.loader][o.desc].gen = "copy"
  PROVE  ObjectOK(o)'
  <1>1. StatusOK(o)'
    <2>1. StatusOK(o)
      BY DEF Objects, ObjectOK
    <2>. QED BY <2>1 DEF StatusOK, Kept, Status, Grows
  <1>2. UpOK(o)'
    BY UpStable DEF Kept
  <1>3. EntryOK(o)'
    BY EntryStable
  <1>4. InitOK(o)'
    BY InitStable DEF Kept, Status
  <1>. QED BY <1>1, <1>2, <1>3, <1>4 DEF ObjectOK

LEMMA TableStable ==
  ASSUME Types, Types', Objects, Tables, Grows, NEW l \in Loaders, NEW d \in Descs,
         table'[l][d] # NULL /\ table'[l][d] # table[l][d] =>
           /\ table'[l][d].desc = d
           /\ table'[l][d].loader # l => Status(table[l][d])' \in Res,
         given'[l][d] = given[l][d], ran'[l][d] = ran[l][d]
  PROVE  TableOK(l, d)'
  <1>1. PICK x \in DOMAIN cls \cup {NULL} : x = table[l][d]
    BY DEF Types
  <1>2. PICK y \in DOMAIN cls' \cup {NULL} : y = table'[l][d]
    BY DEF Types
  <1>3. TableOK(l, d)
    BY DEF Tables
  <1>4. y # NULL => y.desc = d /\ (y.loader # l => Status(y)' \in Res)
    <2>1. CASE y = x
      <3>1. x # NULL => x.desc = d /\ (x.loader # l => Status(x) \in Res)
        BY <1>1, <1>3 DEF TableOK
      <3>2. x \in DOMAIN cls => (Status(x) \in Res => Status(x)' \in Res)
        BY DEF Grows, Evolves
      <3>. QED BY <1>1, <2>1, <3>1, <3>2
    <2>2. CASE y # x
      BY <1>1, <1>2, <2>2 DEF Status
    <2>. QED BY <2>1, <2>2
  <1>5. ASSUME NEW o \in given[l][d] PROVE o = y /\ Good(o)'
    <2>1. o = x /\ Good(o) /\ o # NULL
      BY <1>1, <1>3, <1>5, ConstantsAssumption DEF TableOK, Good, Types
    <2>2. y = x
      BY <1>1, <1>2, <2>1 DEF Grows, EntryEvolves, Good
    <2>. QED BY <2>1, <2>2, GoodStable
  <1>6. ASSUME ran[l][d] # 0
        PROVE  \E o \in DOMAIN cls' : o.loader = l /\ o.desc = d /\ ~ IsTemp(o) /\ Status(o)' \in Late
    BY <1>3, <1>6 DEF TableOK, Grows, Evolves
  <1>7. ran[l][d] <= 1
    BY <1>3 DEF TableOK
  <1>. QED BY <1>2, <1>4, <1>5, <1>6, <1>7 DEF TableOK, Status

-----------------------------------------------------------------------------
(* The stack of the thread that takes the step *)

(* A frame below the innermost one *)
Lower(t, f) == \E b \in 1 .. Depth(t) - 1 : Fr(t, b) = f

(* Frame g takes the place of frame f: the same call goes on. *)
Kin(f, g) ==
  /\ g.d = f.d /\ (f.at # "use" => g.l = f.l) /\ g.at # "caller" /\ f.at # "caller"
  /\ f.at \in FindAts => g.at \in FindAts /\ (g.at = "array" <=> f.at = "array")
  /\ f.at \in VerAts => g.at \in VerAts
  /\ f.at \in IniAts \cup {"use"} => g.at \in IniAts
  /\ f.at \in IfaceAts <=> g.at \in IfaceAts
  /\ f.at \in VerAts \cup IniAts \cup IfaceAts => g.k = f.k
  /\ f.at = "use" => g.k = table'[f.l][f.d]

(* No other frame has the class for itself. *)
Alone(f, g) ==
  /\ g.at \in DefAts => (f.at \in DefAts /\ g.k = f.k) \/ g.k \notin DOMAIN cls
  /\ g.at \in Ver2 => (f.at \in Ver2 /\ g.k = f.k) \/ Status(g.k) # "Verifying"
  /\ g.at \in Ini2 => \/ f.at \in Ini2 /\ g.k = f.k
                      \/ Status(g.k) # "Initializing" /\ g.at = "supers" /\ g.i = 0

(* Frame u is called from frame f. *)
Push(f, u) ==
  /\ u.at \notin DefAts \cup Ver2 \cup Ini2 \cup {"caller"} /\ u.n = 0 /\ Grip(u) = {}
  /\ u.d \in Behind[f.d]
  /\ f.at \in VerAts => u.at \in VerAts

LEMMA BelowTop ==
  ASSUME Types, Stacks, NEW t \in Threads, NEW D \in Nat, D = Depth(t), D > 0
  PROVE  /\ FrameOK(t, Fr(t, D)) /\ TopOK(t, Fr(t, D))
         /\ \A b \in 1 .. D : FrameOK(t, Fr(t, b))
         /\ \A b \in 1 .. D - 1 : BelowOK(Fr(t, b), Fr(t, D)) /\ Lower(t, Fr(t, b))
         /\ D > 1 => D - 1 \in 1 .. D - 1 /\ LinkOK(Fr(t, D - 1), Fr(t, D))
         /\ Fr(t, 1).at = "caller"
         /\ Fr(t, D).at # "caller" => D > 1
         /\ \A b \in 1 .. D - 1 : Fr(t, b).at \in Handlers
  <1>1. StackOK(t) /\ D \in 1 .. D /\ (\A b \in 1 .. D - 1 : b \in 1 .. D /\ b < D /\ b + 1 \in 1 .. D /\ b + 1 > 1 /\ b + 1 - 1 = b)
    BY DEF Stacks
  <1>2. \A b \in 1 .. D - 1 : BelowOK(Fr(t, b), Fr(t, D)) /\ Lower(t, Fr(t, b))
    BY <1>1 DEF StackOK, Lower
  <1>3. \A b \in 1 .. D - 1 : LinkOK(Fr(t, b), Fr(t, b + 1))
    BY <1>1 DEF StackOK
  <1>4. \A b \in 1 .. D - 1 : Fr(t, b).at \in Handlers
    BY <1>3 DEF LinkOK
  <1>5. D > 1 => D - 1 \in 1 .. D - 1 /\ D - 1 + 1 = D
    OBVIOUS
  <1>6. Fr(t, 1).at = "caller" /\ TopOK(t, Fr(t, D)) /\ \A b \in 1 .. D : FrameOK(t, Fr(t, b))
    BY <1>1 DEF StackOK
  <1>7. Fr(t, D).at # "caller" => D > 1
    BY <1>6
  <1>. QED BY <1>1, <1>2, <1>3, <1>4, <1>5, <1>6, <1>7

(* The frames below stay as they are. *)
LEMMA OwnStack ==
  ASSUME Types, Objects, Grows, Stacks, NEW t \in Threads, NEW D, Rewrites(t, D),
         \A f : Lower(t, f) => Own(t, f),
         \A b \in D .. Depth(t)' : FrameOK(t, Fr(t, b))',
         \A b \in D .. Depth(t)' : b > 1 => LinkOK(Fr(t, b - 1), Fr(t, b))',
         \A b, c \in 1 .. Depth(t)' : c >= D /\ b < c => BelowOK(Fr(t, b), Fr(t, c))',
         Depth(t)' > 0 => Fr(t, 1)'.at = "caller" /\ TopOK(t, Fr(t, Depth(t)))',
         Depth(t)' = 0 => ~ exc'[t] /\ waiting'[t] = NULL
  PROVE  StackOK(t)'
  <1>1. /\ D \in Nat /\ D > 0 /\ D = Depth(t) /\ Depth(t)' \in Nat /\ Depth(t)' >= D - 1
        /\ \A b \in 1 .. D - 1 : Fr(t, b)' = Fr(t, b)
    BY DEF Rewrites
  <1>2. ASSUME NEW b \in 1 .. Depth(t)' PROVE FrameOK(t, Fr(t, b))'
    <2>1. CASE b \in 1 .. D - 1
      <3>1. PICK f : f = Fr(t, b) /\ f = Fr(t, b)'
        BY <1>1, <2>1
      <3>2. FrameOK(t, f) /\ Own(t, f)
        <4>1. b \in 1 .. D
          BY <1>1, <2>1
        <4>. QED BY <1>1, <2>1, <3>1, <4>1, BelowTop
      <3>3. FrameOK(t, f)'
        BY <3>2, FrameStable
      <3>. QED BY <3>1, <3>3
    <2>2. b \in 1 .. D - 1 \/ b \in D .. Depth(t)'
      BY <1>1, <1>2
    <2>. QED BY <2>1, <2>2
  <1>3. ASSUME NEW b \in 1 .. Depth(t)', b > 1 PROVE LinkOK(Fr(t, b - 1), Fr(t, b))'
    <2>1. CASE b \in 1 .. D - 1
      <3>0. b - 1 \in 1 .. D - 1 /\ b \in 1 .. D /\ b - 1 \in 1 .. D
        BY <1>1, <1>3, <2>1
      <3>1. PICK f : f = Fr(t, b) /\ f = Fr(t, b)'
        BY <1>1, <2>1
      <3>2. PICK g : g = Fr(t, b - 1) /\ g = Fr(t, b - 1)'
        BY <1>1, <3>0
      <3>3. FrameOK(t, f) /\ FrameOK(t, g) /\ Own(t, g)
        BY <1>1, <3>0, <3>1, <3>2, BelowTop
      <3>4. LinkOK(g, f)
        BY <1>1, <1>3, <3>0, <3>1, <3>2 DEF Stacks, StackOK
      <3>5. LinkOK(g, f)'
        BY <3>3, <3>4, LinkStable
      <3>. QED BY <3>1, <3>2, <3>5
    <2>2. b \in 1 .. D - 1 \/ b \in D .. Depth(t)'
      BY <1>1, <1>3
    <2>. QED BY <1>3, <2>1, <2>2
  <1>4. ASSUME NEW b \in 1 .. Depth(t)', NEW c \in 1 .. Depth(t)', b < c
        PROVE  BelowOK(Fr(t, b), Fr(t, c))'
    <2>1. CASE c \in 1 .. D - 1
      <3>0. b \in 1 .. D - 1 /\ b \in 1 .. D /\ c \in 1 .. D
        BY <1>1, <1>4, <2>1
      <3>1. PICK f : f = Fr(t, b) /\ f = Fr(t, b)'
        BY <1>1, <3>0
      <3>2. PICK g : g = Fr(t, c) /\ g = Fr(t, c)'
        BY <1>1, <2>1
      <3>3. BelowOK(f, g)
        BY <1>1, <1>4, <3>0, <3>1, <3>2 DEF Stacks, StackOK
      <3>4. BelowOK(f, g)'
        BY <3>3 DEF BelowOK
      <3>. QED BY <3>1, <3>2, <3>4
    <2>2. c \in 1 .. D - 1 \/ c >= D
      BY <1>1, <1>4
    <2>. QED BY <1>4, <2>1, <2>2
  <1>. QED BY <1>2, <1>3, <1>4 DEF StackOK

(* What the frames below say of f, they say of g. *)
LEMMA KinBelow ==
  ASSUME NEW t \in Threads, NEW h, NEW f, NEW g, FrameOK(t, h), FrameOK(t, f), BelowOK(h, f), Kin(f, g), Alone(f, g)
  PROVE  BelowOK(h, g)'
  <1>1. h.at \in DefAts => h.k \in DOMAIN cls
    BY DEF FrameOK, KAts, OfAts
  <1>2. h.at \in Ver2 => Status(h.k) = "Verifying"
    BY DEF FrameOK, VerAts, VerFrame
  <1>3. h.at \in Ini2 => Status(h.k) = "Initializing"
    BY DEF FrameOK, IniAts, IniFrame
  <1>4. /\ h.n = 0 /\ g.at # "caller" /\ g.d \in Behind[h.d]
        /\ h.at \in {"verified", "attempted"} => g.at \in VerAts
    BY DEF BelowOK, Kin
  <1>5. h.at \in DefAts /\ g.at \in DefAts => h.k # g.k
    BY <1>1 DEF BelowOK, Alone
  <1>6. h.at \in Ver2 /\ g.at \in Ver2 => h.k # g.k
    BY <1>2 DEF BelowOK, Alone
  <1>7. h.at \in Ini2 /\ g.at \in Ini2 => h.k # g.k
    BY <1>3 DEF BelowOK, Alone
  <1>. QED BY <1>4, <1>5, <1>6, <1>7 DEF BelowOK

LEMMA KinLink ==
  ASSUME NEW h, NEW f, NEW g, f.at \in Ats, LinkOK(h, f)', Kin(f, g)
  PROVE  LinkOK(h, g)'
  <1>1. /\ h.at \in Handlers /\ (h.at = "array" => h.i = 1) /\ (h.at = "found" <=> g.at = "array")
    BY DEF LinkOK, Kin, Ats, FindAts, DefAts, VerAts, Ver2, IniAts, Ini2, IfaceAts
  <1>2. h.at \in {"own", "java", "found", "array", "resolved", "use"} => f.at \in FindAts /\ g.at \in FindAts
    BY DEF LinkOK, Kin
  <1>3. h.at \in {"attempted", "verified", "supers", "iface", "mark"} =>
          g.k = f.k /\ (f.at \in VerAts => g.at \in VerAts) /\ (f.at \in IniAts => g.at \in IniAts)
          /\ (f.at \in IfaceAts => g.at \in IfaceAts)
    BY DEF LinkOK, Kin
  <1>4. h.at = "caller" => g.at \in IniAts /\ g.k = table'[h.l][h.d]
    BY DEF LinkOK, Kin
  <1>5. h.at = "ran" => g.at \in IniAts
    BY DEF LinkOK, Kin
  <1>6. g.d = f.d /\ (f.at \in FindAts => g.l = f.l)
    <2>1. "use" \notin FindAts
      BY DEF FindAts, DefAts
    <2>. QED BY <2>1 DEF Kin
  <1>. QED BY <1>1, <1>2, <1>3, <1>4, <1>5, <1>6 DEF LinkOK

LEMMA BecomeStack ==
  ASSUME Types, Objects, Grows, Stacks, NEW t \in Threads, NEW D, Rewrites(t, D), Depth(t)' = D,
         \A f : Lower(t, f) => Own(t, f),
         NEW f, f = Fr(t, D), NEW g, g = Fr(t, D)', Kin(f, g), Alone(f, g), FrameOK(t, g)', TopOK(t, g)'
  PROVE  StackOK(t)'
  <1>1. /\ D \in Nat /\ D > 0 /\ D = Depth(t)
        /\ \A b \in 1 .. D - 1 : Fr(t, b)' = Fr(t, b)
    BY DEF Rewrites
  <1>2. D > 1 /\ D - 1 \in 1 .. D - 1 /\ D - 1 \in 1 .. D /\ 1 \in 1 .. D - 1
    BY <1>1, BelowTop DEF Kin
  <1>3. FrameOK(t, f) /\ f.at \in Ats
    BY <1>1, BelowTop DEF FrameOK, FrameRec
  <1>4. LinkOK(Fr(t, D - 1), Fr(t, D))'
    <2>1. PICK h : h = Fr(t, D - 1) /\ h = Fr(t, D - 1)'
      BY <1>1, <1>2
    <2>2. LinkOK(h, f) /\ FrameOK(t, h) /\ Own(t, h)
      BY <1>1, <1>2, <2>1, BelowTop
    <2>3. LinkOK(h, f)'
      BY <1>3, <2>2, LinkStable
    <2>4. LinkOK(h, g)'
      BY <1>3, <2>3, KinLink
    <2>. QED BY <2>1, <2>4
  <1>5. ASSUME NEW b \in 1 .. D - 1 PROVE BelowOK(Fr(t, b), Fr(t, D))'
    <2>1. PICK h : h = Fr(t, b) /\ h = Fr(t, b)'
      BY <1>1, <1>5
    <2>2. BelowOK(h, f) /\ FrameOK(t, h)
      <3>1. b \in 1 .. D
        BY <1>1, <1>5
      <3>. QED BY <1>1, <1>5, <2>1, <3>1, BelowTop
    <2>3. BelowOK(h, g)'
      BY <1>3, <2>2, KinBelow
    <2>. QED BY <2>1, <2>3
  <1>6. /\ \A b \in D .. D : FrameOK(t, Fr(t, b))' /\ LinkOK(Fr(t, b - 1), Fr(t, b))'
        /\ \A b, c \in 1 .. D : c >= D /\ b < c => BelowOK(Fr(t, b), Fr(t, c))'
    <2>1. \A b \in D .. D : b = D
      BY <1>1
    <2>2. \A b, c \in 1 .. D : c >= D /\ b < c => c = D /\ b \in 1 .. D - 1
      BY <1>1
    <2>. QED BY <1>4, <1>5, <2>1, <2>2
  <1>7. Fr(t, 1)'.at = "caller"
    BY <1>1, <1>2, BelowTop
  <1>. QED BY <1>1, <1>6, <1>7, OwnStack

LEMMA ReturnStack ==
  ASSUME Types, Objects, Grows, Stacks, NEW t \in Threads, NEW D, Rewrites(t, D), Depth(t)' = D - 1, D > 1,
         \A f : Lower(t, f) => Own(t, f), NEW h, h = Fr(t, D - 1), TopOK(t, h)'
  PROVE  StackOK(t)'
  <1>1. /\ D \in Nat /\ D > 0 /\ D = Depth(t) /\ D - 1 \in 1 .. D - 1 /\ 1 \in 1 .. D - 1
        /\ \A b \in 1 .. D - 1 : Fr(t, b)' = Fr(t, b)
    BY DEF Rewrites
  <1>2. /\ \A b \in D .. D - 1 : FALSE
        /\ \A b, c \in 1 .. D - 1 : ~ (c >= D)
    BY <1>1
  <1>3. Fr(t, 1)'.at = "caller" /\ Fr(t, D - 1)' = h
    BY <1>1, BelowTop
  <1>. QED BY <1>1, <1>2, <1>3, OwnStack

LEMMA PushBelow ==
  ASSUME NEW h \in FrameRec, NEW f \in FrameRec, NEW u \in FrameRec, BelowOK(h, f), Push(f, u)
  PROVE  BelowOK(h, u)'
  <1>1. h.d \in Descs /\ f.d \in Behind[h.d] /\ u.d \in Behind[f.d]
    BY DEF FrameRec, BelowOK, Push
  <1>2. h.n = 0 /\ u.at # "caller" /\ u.d \in Behind[h.d]
    BY <1>1, BehindFacts DEF BelowOK, Push
  <1>3. /\ h.at \in {"verified", "attempted"} => u.at \in VerAts
        /\ u.at \notin DefAts /\ u.at \notin Ver2 /\ u.at \notin Ini2
    BY DEF BelowOK, Push
  <1>. QED BY <1>2, <1>3 DEF BelowOK

(* Frame f becomes g and calls u. *)
Calls(f, g, u) ==
  /\ g.n = 0 /\ (g.at = "supers" => f.at = "supers")
  /\ g.at \in {"verified", "attempted"} => u.at \in VerAts

LEMMA CallBelow ==
  ASSUME NEW f \in FrameRec, NEW g \in FrameRec, NEW u \in FrameRec, g.d = f.d, Push(f, u), Calls(f, g, u)
  PROVE  BelowOK(g, u)'
  BY DEF BelowOK, Push, Calls

LEMMA CallStack ==
  ASSUME Types, Objects, Grows, Stacks, NEW t \in Threads, NEW D, Rewrites(t, D), Depth(t)' = D + 1,
         \A f : Lower(t, f) => Own(t, f),
         NEW f, f = Fr(t, D), NEW g, g = Fr(t, D)', NEW u, u = Fr(t, D + 1)', Kin(f, g), Alone(f, g),
         Push(f, u), Calls(f, g, u), FrameOK(t, g)', FrameOK(t, u)', LinkOK(g, u)', TopOK(t, u)'
  PROVE  StackOK(t)'
  <1>1. /\ D \in Nat /\ D > 0 /\ D = Depth(t)
        /\ \A b \in 1 .. D - 1 : Fr(t, b)' = Fr(t, b)
    BY DEF Rewrites
  <1>2. D > 1 /\ D - 1 \in 1 .. D - 1 /\ D - 1 \in 1 .. D /\ 1 \in 1 .. D - 1
    BY <1>1, BelowTop DEF Kin
  <1>3. FrameOK(t, f) /\ f.at \in Ats /\ f \in FrameRec /\ g \in FrameRec /\ u \in FrameRec
    BY <1>1, BelowTop DEF FrameOK, FrameRec
  <1>4. LinkOK(Fr(t, D - 1), Fr(t, D))'
    <2>1. PICK h : h = Fr(t, D - 1) /\ h = Fr(t, D - 1)'
      BY <1>1, <1>2
    <2>2. LinkOK(h, f) /\ FrameOK(t, h) /\ Own(t, h)
      BY <1>1, <1>2, <2>1, BelowTop
    <2>3. LinkOK(h, f)'
      BY <1>3, <2>2, LinkStable
    <2>4. LinkOK(h, g)'
      BY <1>3, <2>3, KinLink
    <2>. QED BY <2>1, <2>4
  <1>5. ASSUME NEW b \in 1 .. D - 1 PROVE BelowOK(Fr(t, b), Fr(t, D))' /\ BelowOK(Fr(t, b), Fr(t, D + 1))'
    <2>1. PICK h : h = Fr(t, b) /\ h = Fr(t, b)'
      BY <1>1, <1>5
    <2>2. BelowOK(h, f) /\ FrameOK(t, h) /\ h \in FrameRec
      <3>1. b \in 1 .. D
        BY <1>1, <1>5
      <3>. QED BY <1>1, <1>5, <2>1, <3>1, BelowTop DEF FrameOK
    <2>3. BelowOK(h, g)'
      BY <1>3, <2>2, KinBelow
    <2>4. BelowOK(h, u)'
      BY <1>3, <2>2, PushBelow
    <2>. QED BY <2>1, <2>3, <2>4
  <1>6. BelowOK(Fr(t, D), Fr(t, D + 1))'
    BY <1>3, CallBelow DEF Kin
  <1>7. LinkOK(Fr(t, D), Fr(t, D + 1))' /\ FrameOK(t, Fr(t, D))' /\ FrameOK(t, Fr(t, D + 1))'
    OBVIOUS
  <1>8. /\ \A b \in D .. D + 1 : FrameOK(t, Fr(t, b))' /\ LinkOK(Fr(t, b - 1), Fr(t, b))'
        /\ \A b, c \in 1 .. D + 1 : c >= D /\ b < c => BelowOK(Fr(t, b), Fr(t, c))'
    <2>1. (\A b \in D .. D + 1 : b = D \/ b = D + 1) /\ D + 1 - 1 = D
      BY <1>1
    <2>2. \A b, c \in 1 .. D + 1 : c >= D /\ b < c =>
            /\ c = D \/ c = D + 1
            /\ b \in 1 .. D - 1 \/ (b = D /\ c = D + 1)
      BY <1>1
    <2>3. ASSUME NEW b \in D .. D + 1 PROVE FrameOK(t, Fr(t, b))' /\ LinkOK(Fr(t, b - 1), Fr(t, b))'
      <3>1. CASE b = D
        BY <1>4, <1>7, <3>1, Zenon
      <3>2. CASE b = D + 1
        <4>1. b - 1 = D
          BY <1>1, <3>2
        <4>. QED BY <1>7, <3>2, <4>1, Zenon
      <3>. QED BY <2>1, <2>3, <3>1, <3>2
    <2>4. ASSUME NEW b \in 1 .. D + 1, NEW c \in 1 .. D + 1, c >= D /\ b < c
          PROVE  BelowOK(Fr(t, b), Fr(t, c))'
      BY <1>5, <1>6, <2>2, <2>4
    <2>. QED BY <2>3, <2>4
  <1>9. Fr(t, 1)'.at = "caller"
    BY <1>1, <1>2, BelowTop
  <1>10. D + 1 # 0
    BY <1>1
  <1>. QED BY <1>1, <1>8, <1>9, <1>10, OwnStack

LEMMA CallTwoStack ==
  ASSUME Types, Objects, Grows, Stacks, NEW t \in Threads, NEW D, Rewrites(t, D), Depth(t)' = D + 2,
         \A f : Lower(t, f) => Own(t, f),
         NEW f, f = Fr(t, D), NEW g, g = Fr(t, D)', NEW v, v = Fr(t, D + 1)', NEW u, u = Fr(t, D + 2)',
         Kin(f, g), Alone(f, g), Push(f, v), Calls(f, g, v), Push(f, u), Calls(f, g, u), BelowOK(v, u)',
         FrameOK(t, g)', FrameOK(t, v)', FrameOK(t, u)', LinkOK(g, v)', LinkOK(v, u)', TopOK(t, u)'
  PROVE  StackOK(t)'
  <1>1. /\ D \in Nat /\ D > 0 /\ D = Depth(t)
        /\ \A b \in 1 .. D - 1 : Fr(t, b)' = Fr(t, b)
    BY DEF Rewrites
  <1>2. D > 1 /\ D - 1 \in 1 .. D - 1 /\ D - 1 \in 1 .. D /\ 1 \in 1 .. D - 1
    BY <1>1, BelowTop DEF Kin
  <1>3. FrameOK(t, f) /\ f.at \in Ats /\ f \in FrameRec /\ g \in FrameRec /\ u \in FrameRec /\ v \in FrameRec
    BY <1>1, BelowTop DEF FrameOK, FrameRec
  <1>4. LinkOK(Fr(t, D - 1), Fr(t, D))'
    <2>1. PICK h : h = Fr(t, D - 1) /\ h = Fr(t, D - 1)'
      BY <1>1, <1>2
    <2>2. LinkOK(h, f) /\ FrameOK(t, h) /\ Own(t, h)
      BY <1>1, <1>2, <2>1, BelowTop
    <2>3. LinkOK(h, f)'
      BY <1>3, <2>2, LinkStable
    <2>4. LinkOK(h, g)'
      BY <1>3, <2>3, KinLink
    <2>. QED BY <2>1, <2>4
  <1>5. ASSUME NEW b \in 1 .. D - 1
        PROVE  /\ BelowOK(Fr(t, b), Fr(t, D))' /\ BelowOK(Fr(t, b), Fr(t, D + 1))'
               /\ BelowOK(Fr(t, b), Fr(t, D + 2))'
    <2>1. PICK h : h = Fr(t, b) /\ h = Fr(t, b)'
      BY <1>1, <1>5
    <2>2. BelowOK(h, f) /\ FrameOK(t, h) /\ h \in FrameRec
      <3>1. b \in 1 .. D
        BY <1>1, <1>5
      <3>. QED BY <1>1, <1>5, <2>1, <3>1, BelowTop DEF FrameOK
    <2>3. BelowOK(h, g)'
      BY <1>3, <2>2, KinBelow
    <2>4. BelowOK(h, u)' /\ BelowOK(h, v)'
      BY <1>3, <2>2, PushBelow
    <2>. QED BY <2>1, <2>3, <2>4
  <1>6. BelowOK(Fr(t, D), Fr(t, D + 1))' /\ BelowOK(Fr(t, D), Fr(t, D + 2))' /\ BelowOK(Fr(t, D + 1), Fr(t, D + 2))'
    BY <1>3, CallBelow DEF Kin
  <1>7. /\ LinkOK(Fr(t, D), Fr(t, D + 1))' /\ LinkOK(Fr(t, D + 1), Fr(t, D + 2))'
        /\ FrameOK(t, Fr(t, D))' /\ FrameOK(t, Fr(t, D + 1))' /\ FrameOK(t, Fr(t, D + 2))'
    OBVIOUS
  <1>8. /\ \A b \in D .. D + 2 : FrameOK(t, Fr(t, b))' /\ LinkOK(Fr(t, b - 1), Fr(t, b))'
        /\ \A b, c \in 1 .. D + 2 : c >= D /\ b < c => BelowOK(Fr(t, b), Fr(t, c))'
    <2>1. (\A b \in D .. D + 2 : b = D \/ b = D + 1 \/ b = D + 2) /\ D + 1 - 1 = D /\ D + 2 - 1 = D + 1
      BY <1>1
    <2>2. \A b, c \in 1 .. D + 2 : c >= D /\ b < c =>
            /\ c = D \/ c = D + 1 \/ c = D + 2
            /\ b \in 1 .. D - 1 \/ (b = D /\ c = D + 1) \/ (b = D /\ c = D + 2) \/ (b = D + 1 /\ c = D + 2)
      BY <1>1
    <2>3. ASSUME NEW b \in D .. D + 2 PROVE FrameOK(t, Fr(t, b))' /\ LinkOK(Fr(t, b - 1), Fr(t, b))'
      <3>1. CASE b = D
        BY <1>4, <1>7, <3>1, Zenon
      <3>2. CASE b = D + 1
        <4>1. b - 1 = D
          BY <1>1, <3>2
        <4>. QED BY <1>7, <3>2, <4>1, Zenon
      <3>3. CASE b = D + 2
        <4>1. b - 1 = D + 1
          BY <1>1, <3>3
        <4>. QED BY <1>7, <3>3, <4>1, Zenon
      <3>. QED BY <2>1, <2>3, <3>1, <3>2, <3>3
    <2>4. ASSUME NEW b \in 1 .. D + 2, NEW c \in 1 .. D + 2, c >= D /\ b < c
          PROVE  BelowOK(Fr(t, b), Fr(t, c))'
      BY <1>5, <1>6, <2>2, <2>4
    <2>. QED BY <2>3, <2>4
  <1>9. Fr(t, 1)'.at = "caller"
    BY <1>1, <1>2, BelowTop
  <1>10. D + 2 # 0
    BY <1>1
  <1>. QED BY <1>1, <1>8, <1>9, <1>10, OwnStack

-----------------------------------------------------------------------------
(* The monitors, the verifiers and the initializers after a step *)

(* The frames at level D and above are new; those above D are fresh calls. *)
Fresh(t, D) ==
  \A b \in D + 1 .. Depth(t)' : /\ Grip(Fr(t, b)') = {} /\ Fr(t, b)'.n = 0
                                /\ Fr(t, b)'.at \notin Ver2 \cup Ini2

(* The monitors entered at level D change from F to H. *)
Mon(t, F, H) ==
  \A o \in DOMAIN cls' :
    /\ o \notin DOMAIN cls => IF o \in H THEN cls'[o].owner = t /\ cls'[o].count = 1
                              ELSE cls'[o].owner = NULL /\ cls'[o].count = 0
    /\ o \in DOMAIN cls /\ (o \in F <=> o \in H) =>
         cls'[o].owner = cls[o].owner /\ cls'[o].count = cls[o].count
    /\ o \in DOMAIN cls /\ o \notin F /\ o \in H =>
         /\ cls[o].owner \in {NULL, t}
         /\ cls'[o].owner = t /\ cls'[o].count = cls[o].count + 1
    /\ o \in DOMAIN cls /\ o \in F /\ o \notin H =>
         /\ cls'[o].owner = IF cls[o].count = 1 THEN NULL ELSE cls[o].owner
         /\ cls'[o].count = cls[o].count - 1

LEMMA GripFacts ==
  ASSUME Types, NEW u \in Threads, NEW f, FrameOK(u, f)
  PROVE  Grip(f) \subseteq DOMAIN cls
  <1>1. f.at \in DefAts \cup {"temp", "verifying?", "woken", "verified", "initializing?"} => f.k \in DOMAIN cls
    BY DEF FrameOK, KAts, OfAts, DefAts, VerAts, IniAts
  <1>2. f.at \in {"retire", "publish"} => Copy(f.k) \in DOMAIN cls
    BY DEF FrameOK, DefAts, DefFrame
  <1>. QED BY <1>1, <1>2 DEF Grip

LEMMA HeldFinite ==
  ASSUME NEW S, NEW n \in Nat, S \subseteq 1 .. n
  PROVE  IsFiniteSet(S) /\ Cardinality(S) \in Nat
         /\ (Cardinality(S) = 0 <=> S = {})
  <1>1. IsFiniteSet(1 .. n)
    BY FS_Interval
  <1>2. IsFiniteSet(S)
    BY <1>1, FS_Subset
  <1>. QED BY <1>2, FS_CardinalityType, FS_EmptySet

LEMMA HeldAdd ==
  ASSUME NEW S, NEW n \in Nat, S \subseteq 1 .. n, NEW D, D \notin S
  PROVE  Cardinality(S \cup {D}) = Cardinality(S) + 1 /\ Cardinality(S) \in Nat
  BY HeldFinite, FS_AddElement

(* The levels at which t has entered the monitor of o, below the innermost frame *)
Beneath(t, D, o) == {b \in 1 .. D - 1 : o \in Grip(Fr(t, b))}

LEMMA HeldSplit ==
  ASSUME NEW t \in Threads, NEW D \in Nat, D = Depth(t), D > 0, NEW o
  PROVE  /\ Beneath(t, D, o) \subseteq 1 .. D /\ D \notin Beneath(t, D, o)
         /\ o \in Grip(Fr(t, D)) => Held(t, o) = Beneath(t, D, o) \cup {D}
         /\ o \notin Grip(Fr(t, D)) => Held(t, o) = Beneath(t, D, o)
  <1>1. \A b : b \in 1 .. D <=> b \in 1 .. D - 1 \/ b = D
    OBVIOUS
  <1>. QED BY <1>1 DEF Held, Beneath

LEMMA HeldStep ==
  ASSUME NEW t \in Threads, NEW D, Rewrites(t, D), Fresh(t, D), NEW o, NEW H,
         IF Depth(t)' >= D THEN H = Grip(Fr(t, D)') ELSE H = {}
  PROVE  /\ o \in H => Held(t, o)' = Beneath(t, D, o) \cup {D}
         /\ o \notin H => Held(t, o)' = Beneath(t, D, o)
  <1>1. /\ D \in Nat /\ D > 0 /\ Depth(t)' \in Nat /\ Depth(t)' >= D - 1
        /\ \A b \in 1 .. D - 1 : Fr(t, b)' = Fr(t, b)
    BY DEF Rewrites
  <1>2. PICK E \in Nat : E = Depth(t)'
    BY <1>1
  <1>3. Held(t, o)' = {b \in 1 .. E : o \in Grip(Fr(t, b)')}
    BY <1>2 DEF Held, Grip, Copy
  <1>4. ASSUME NEW b \in D + 1 .. E PROVE o \notin Grip(Fr(t, b)')
    BY <1>2, <1>4 DEF Fresh
  <1>5. CASE E >= D
    <2>1. \A b : b \in 1 .. E <=> b \in 1 .. D - 1 \/ b = D \/ b \in D + 1 .. E
      BY <1>1, <1>5
    <2>2. \A b \in 1 .. E : o \in Grip(Fr(t, b)') <=> b \in Beneath(t, D, o) \/ (b = D /\ o \in H)
      <3>1. ASSUME NEW b \in 1 .. D - 1 PROVE o \in Grip(Fr(t, b)') <=> b \in Beneath(t, D, o)
        BY <1>1, <3>1 DEF Beneath
      <3>2. o \in Grip(Fr(t, D)') <=> o \in H
        BY <1>2, <1>5
      <3>3. D \notin Beneath(t, D, o) /\ \A b \in D + 1 .. E : b # D /\ b \notin Beneath(t, D, o)
        BY <1>1 DEF Beneath
      <3>4. \A b \in 1 .. D - 1 : b # D
        BY <1>1
      <3>. QED BY <1>4, <2>1, <3>1, <3>2, <3>3, <3>4
    <2>3. Beneath(t, D, o) \subseteq 1 .. E /\ D \in 1 .. E
      BY <1>1, <1>5 DEF Beneath
    <2>. QED BY <1>3, <2>2, <2>3
  <1>6. CASE E = D - 1
    <2>1. H = {} /\ ~ (E >= D)
      BY <1>1, <1>2, <1>6
    <2>2. \A b \in 1 .. E : o \in Grip(Fr(t, b)') <=> b \in Beneath(t, D, o)
      BY <1>1, <1>6 DEF Beneath
    <2>3. Beneath(t, D, o) \subseteq 1 .. E
      BY <1>6 DEF Beneath
    <2>. QED BY <1>3, <2>1, <2>2, <2>3
  <1>. QED BY <1>1, <1>2, <1>5, <1>6

LEMMA MonitorOther ==
  ASSUME Types, Stacks, Monitors, NEW t \in Threads, NEW u \in Threads, u # t, stack'[u] = stack[u],
         NEW o \in DOMAIN cls',
         \/ o \in DOMAIN cls /\ cls'[o].owner = cls[o].owner /\ cls'[o].count = cls[o].count
         \/ (o \in DOMAIN cls => cls[o].owner \in {NULL, t}) /\ cls'[o].owner \in {NULL, t}
  PROVE  MonitorOK(u, o)'
  <1>1. Depth(u)' = Depth(u) /\ (\A b : Fr(u, b)' = Fr(u, b)) /\ NULL \notin Threads
    BY ConstantsAssumption DEF Depth, Fr
  <1>2. Held(u, o)' = Held(u, o) /\ (Waits(u, o)' <=> Waits(u, o))
    BY <1>1 DEF Held, Waits, Grip, Copy
  <1>3. CASE o \in DOMAIN cls
    <2>1. MonitorOK(u, o)
      BY <1>3 DEF Monitors
    <2>. QED BY <1>1, <1>2, <1>3, <2>1 DEF MonitorOK
  <1>4. CASE o \notin DOMAIN cls
    <2>1. Held(u, o) = {}
      <3>1. \A b \in 1 .. Depth(u) : Grip(Fr(u, b)) \subseteq DOMAIN cls
        BY InStackFacts, GripFacts
      <3>. QED BY <1>4, <3>1 DEF Held
    <2>2. ~ Waits(u, o)
      <3>1. ASSUME Waits(u, o) PROVE FALSE
        <4>1. PICK f : f = Fr(u, Depth(u)) /\ f.n > 0 /\ f.k = o /\ Depth(u) > 0
          BY <3>1 DEF Waits
        <4>2. FrameOK(u, f) /\ TopOK(u, f)
          BY <4>1, InStackFacts
        <4>3. f.at \in {"temp", "woken", "initializing?"}
          BY <4>1, <4>2 DEF TopOK
        <4>. QED BY <1>4, <4>1, <4>2, <4>3 DEF FrameOK, KAts, OfAts, VerAts, IniAts
      <3>. QED BY <3>1
    <2>3. cls'[o].owner # u
      BY <1>1, <1>4
    <2>. QED BY <1>2, <2>1, <2>2, <2>3 DEF MonitorOK
  <1>. QED BY <1>3, <1>4

LEMMA MonitorStep ==
  ASSUME Types, Types', Stacks, Monitors, NEW t \in Threads, NEW D, Rewrites(t, D), Fresh(t, D),
         NEW H, IF Depth(t)' >= D THEN H = Grip(Fr(t, D)') /\ Fr(t, D)'.n = 0 ELSE H = {},
         Fr(t, D).n = 0, DOMAIN cls \subseteq DOMAIN cls', Mon(t, Grip(Fr(t, D)), H)
  PROVE  Monitors'
  <1>1. /\ D \in Nat /\ D > 0 /\ D = Depth(t) /\ Depth(t)' \in Nat /\ Depth(t)' >= D - 1
        /\ \A b \in 1 .. D - 1 : Fr(t, b)' = Fr(t, b)
        /\ \A u \in Threads : u # t => stack'[u] = stack[u]
    BY DEF Rewrites
  <1>2. NULL \notin Threads /\ t # NULL
    BY ConstantsAssumption
  <1>3. PICK F : F = Grip(Fr(t, D)) /\ F \subseteq DOMAIN cls
    BY <1>1, BelowTop, GripFacts
  <1>4. ASSUME NEW o \in DOMAIN cls
        PROVE  /\ cls[o].count \in Nat /\ (cls[o].count = 0 <=> cls[o].owner = NULL)
               /\ Held(t, o) = {} => cls[o].owner # t
               /\ Held(t, o) # {} => cls[o].owner = t /\ cls[o].count = Cardinality(Held(t, o))
    <2>1. ~ Waits(t, o)
      BY <1>1 DEF Waits
    <2>2. MonitorOK(t, o)
      BY DEF Monitors
    <2>3. cls[o].count \in Nat
      BY DEF Types, ClassRec
    <2>. QED BY <2>1, <2>2, <2>3 DEF Monitors, MonitorOK
  <1>5. ASSUME NEW o \in DOMAIN cls'
        PROVE  /\ cls'[o].count = 0 <=> cls'[o].owner = NULL
               /\ Held(t, o)' = {} => cls'[o].owner # t
               /\ Held(t, o)' # {} => cls'[o].owner = t /\ cls'[o].count = Cardinality(Held(t, o)')
               /\ \/ o \in DOMAIN cls /\ cls'[o].owner = cls[o].owner /\ cls'[o].count = cls[o].count
                  \/ (o \in DOMAIN cls => cls[o].owner \in {NULL, t}) /\ cls'[o].owner \in {NULL, t}
    <2>1. PICK B : B = Beneath(t, D, o)
      OBVIOUS
    <2>2. /\ B \subseteq 1 .. D /\ D \notin B
          /\ o \in F => Held(t, o) = B \cup {D}
          /\ o \notin F => Held(t, o) = B
      BY <1>1, <1>3, <2>1, HeldSplit
    <2>3. /\ o \in H => Held(t, o)' = B \cup {D}
          /\ o \notin H => Held(t, o)' = B
      BY <2>1, HeldStep
    <2>4. /\ Cardinality(B) \in Nat /\ Cardinality(B \cup {D}) = Cardinality(B) + 1
          /\ (Cardinality(B) = 0 <=> B = {})
      BY <1>1, <2>2, HeldFinite, HeldAdd
    <2>5. B \cup {D} # {}
      OBVIOUS
    <2>6. CASE o \notin DOMAIN cls
      <3>1. B = {}
        <4>1. \A b \in 1 .. D - 1 : Grip(Fr(t, b)) \subseteq DOMAIN cls
          BY <1>1, BelowTop, GripFacts
        <4>. QED BY <2>1, <2>6, <4>1 DEF Beneath
      <3>2. Cardinality(B) = 0
        BY <2>4, <3>1
      <3>3. IF o \in H THEN cls'[o].owner = t /\ cls'[o].count = 1
            ELSE cls'[o].owner = NULL /\ cls'[o].count = 0
        BY <1>5, <2>6 DEF Mon
      <3>4. ASSUME o \in H PROVE Held(t, o)' # {} /\ Cardinality(Held(t, o)') = 1
        <4>1. Held(t, o)' = B \cup {D}
          BY <2>3, <3>4
        <4>2. Cardinality(B \cup {D}) = 1
          BY <2>4, <3>2
        <4>. QED BY <2>5, <4>1, <4>2, Zenon
      <3>5. o \notin H => Held(t, o)' = {}
        BY <2>3, <3>1
      <3>. QED BY <1>2, <2>6, <3>3, <3>4, <3>5
    <2>7. CASE o \in DOMAIN cls /\ (o \in F <=> o \in H)
      <3>1. cls'[o].owner = cls[o].owner /\ cls'[o].count = cls[o].count
        BY <1>3, <1>5, <2>7 DEF Mon
      <3>2. Held(t, o)' = Held(t, o)
        BY <2>2, <2>3, <2>7
      <3>. QED BY <1>4, <2>7, <3>1, <3>2
    <2>8. CASE o \in DOMAIN cls /\ o \notin F /\ o \in H
      <3>1. /\ cls[o].owner \in {NULL, t}
            /\ cls'[o].owner = t /\ cls'[o].count = cls[o].count + 1
        BY <1>3, <1>5, <2>8 DEF Mon
      <3>2. cls[o].count = Cardinality(B) /\ cls[o].count \in Nat
        BY <1>2, <1>4, <2>2, <2>4, <2>8, <3>1
      <3>3. Held(t, o)' # {} /\ Cardinality(Held(t, o)') = cls[o].count + 1
        <4>1. Held(t, o)' = B \cup {D}
          BY <2>3, <2>8
        <4>2. Cardinality(B \cup {D}) = cls[o].count + 1
          BY <2>4, <3>2
        <4>. QED BY <2>5, <4>1, <4>2, Zenon
      <3>4. cls[o].count + 1 # 0
        BY <3>2
      <3>. QED BY <1>2, <2>8, <3>1, <3>3, <3>4
    <2>9. CASE o \in DOMAIN cls /\ o \in F /\ o \notin H
      <3>1. /\ cls'[o].owner = IF cls[o].count = 1 THEN NULL ELSE cls[o].owner
            /\ cls'[o].count = cls[o].count - 1
        BY <1>3, <1>5, <2>9 DEF Mon
      <3>2. cls[o].owner = t /\ cls[o].count = Cardinality(B) + 1
        BY <1>4, <2>2, <2>4, <2>5, <2>9
      <3>. QED BY <1>2, <2>3, <2>4, <2>9, <3>1, <3>2
    <2>. QED BY <2>6, <2>7, <2>8, <2>9
  <1>6. ASSUME NEW o \in DOMAIN cls' PROVE ~ Waits(t, o)'
    <2>1. ASSUME Depth(t)' > 0 PROVE Fr(t, Depth(t))'.n = 0
      <3>1. PICK E \in Nat : E = Depth(t)'
        BY <1>1
      <3>2. CASE E = D - 1
        <4>1. E \in 1 .. D - 1 /\ Fr(t, E)' = Fr(t, E)
          BY <1>1, <2>1, <3>1, <3>2
        <4>2. Fr(t, E).n = 0
          BY <1>1, <4>1, BelowTop DEF BelowOK
        <4>3. Fr(t, Depth(t))' = Fr(t, E)'
          BY <3>1
        <4>. QED BY <4>1, <4>2, <4>3
      <3>3. CASE E = D
        BY <1>1, <3>1, <3>3
      <3>4. CASE E \in D + 1 .. E
        BY <3>1, <3>4 DEF Fresh
      <3>. QED BY <1>1, <3>1, <3>2, <3>3, <3>4
    <2>2. ASSUME Waits(t, o)' PROVE FALSE
      BY <2>1, <2>2 DEF Waits
    <2>. QED BY <2>2
  <1>7. ASSUME NEW o \in DOMAIN cls' PROVE MonitorOK(t, o)'
    BY <1>5, <1>6, <1>7 DEF MonitorOK
  <1>8. ASSUME NEW u \in Threads, u # t, NEW o \in DOMAIN cls' PROVE MonitorOK(u, o)'
    BY <1>1, <1>5, <1>8, MonitorOther
  <1>9. \A o \in DOMAIN cls' : cls'[o].count = 0 <=> cls'[o].owner = NULL
    BY <1>5
  <1>. QED BY <1>7, <1>8, <1>9 DEF Monitors

LEMMA VerifierStep ==
  ASSUME Types, Stacks, Verifiers, NEW t \in Threads, NEW D, Rewrites(t, D), Fresh(t, D),
         Depth(t)' >= D => Alone(Fr(t, D), Fr(t, D)')
  PROVE  Verifiers'
  <1>1. /\ D \in Nat /\ D > 0 /\ D = Depth(t) /\ Depth(t)' \in Nat /\ Depth(t)' >= D - 1
        /\ \A b \in 1 .. D - 1 : Fr(t, b)' = Fr(t, b)
        /\ \A u \in Threads : u # t => stack'[u] = stack[u]
    BY DEF Rewrites
  <1>2. ASSUME NEW u \in Threads, u # t, NEW b \in 1 .. Depth(t)', NEW c \in 1 .. Depth(u)',
               Fr(t, b)'.at \in Ver2, Fr(u, c)'.at \in Ver2
        PROVE  Fr(t, b)'.k # Fr(u, c)'.k
    <2>1. Depth(u)' = Depth(u) /\ Fr(u, c)' = Fr(u, c)
      BY <1>1, <1>2 DEF Depth, Fr
    <2>2. PICK h : h = Fr(u, c) /\ h.at \in Ver2
      BY <1>2, <2>1
    <2>3. Status(h.k) = "Verifying"
      <3>1. FrameOK(u, h)
        BY <1>2, <2>1, <2>2, InStackFacts
      <3>. QED BY <2>2, <3>1 DEF FrameOK, VerAts, VerFrame
    <2>4. ASSUME NEW e \in 1 .. D, Fr(t, e).at \in Ver2 PROVE Fr(t, e).k # h.k
      BY <1>1, <1>2, <2>1, <2>2, <2>4 DEF Verifiers
    <2>5. CASE b \in 1 .. D - 1
      <3>1. b \in 1 .. D /\ Fr(t, b)' = Fr(t, b)
        BY <1>1, <2>5
      <3>. QED BY <1>2, <2>1, <2>2, <2>4, <3>1
    <2>6. CASE b = D
      <3>1. D \in 1 .. D /\ Depth(t)' >= D
        BY <1>1, <1>2, <2>6
      <3>2. \/ Fr(t, D).at \in Ver2 /\ Fr(t, D)'.k = Fr(t, D).k
            \/ Status(Fr(t, D)'.k) # "Verifying"
        BY <1>2, <2>6, <3>1 DEF Alone
      <3>3. Fr(t, D)'.k # h.k
        BY <2>3, <2>4, <3>1, <3>2
      <3>. QED BY <2>1, <2>2, <2>6, <3>3
    <2>7. CASE b \in D + 1 .. Depth(t)'
      BY <1>2, <2>7 DEF Fresh
    <2>8. b \in 1 .. D - 1 \/ b = D \/ b \in D + 1 .. Depth(t)'
      BY <1>1, <1>2
    <2>. QED BY <2>5, <2>6, <2>7, <2>8
  <1>3. ASSUME NEW u \in Threads, NEW v \in Threads, u # v, u # t, v # t,
               NEW b \in 1 .. Depth(u)', NEW c \in 1 .. Depth(v)',
               Fr(u, b)'.at \in Ver2, Fr(v, c)'.at \in Ver2
        PROVE  Fr(u, b)'.k # Fr(v, c)'.k
    <2>1. /\ Depth(u)' = Depth(u) /\ Fr(u, b)' = Fr(u, b)
          /\ Depth(v)' = Depth(v) /\ Fr(v, c)' = Fr(v, c)
      BY <1>1, <1>3 DEF Depth, Fr
    <2>. QED BY <1>3, <2>1 DEF Verifiers
  <1>4. ASSUME NEW u \in Threads, NEW v \in Threads, u # v,
               NEW b \in 1 .. Depth(u)', NEW c \in 1 .. Depth(v)',
               Fr(u, b)'.at \in Ver2, Fr(v, c)'.at \in Ver2
        PROVE  Fr(u, b)'.k # Fr(v, c)'.k
    <2>1. CASE u = t
      BY <1>2, <1>4, <2>1
    <2>2. CASE v = t
      BY <1>2, <1>4, <2>2
    <2>. QED BY <1>3, <1>4, <2>1, <2>2
  <1>. QED BY <1>4 DEF Verifiers

(* A class goes on being initialized, unless it was by the innermost frame, or *)
(* a frame begins to initialize it.                                            *)
Ini(t, D, f) ==
  \A o \in DOMAIN cls' : Status(o)' = "Initializing" =>
    \/ /\ o \in DOMAIN cls /\ Status(o) = "Initializing" /\ cls'[o].tid = cls[o].tid
       /\ f.at \in Ini2 /\ f.k = o => Depth(t)' >= D /\ Fr(t, D)'.at \in Ini2 /\ Fr(t, D)'.k = o
    \/ cls'[o].tid = t /\ Depth(t)' >= D /\ Fr(t, D)'.at \in Ini2 /\ Fr(t, D)'.k = o

LEMMA InitializerStep ==
  ASSUME Types, Initializers, NEW t \in Threads, NEW D, Rewrites(t, D), NEW f, f = Fr(t, D), Ini(t, D, f)
  PROVE  Initializers'
  <1>1. /\ D \in Nat /\ D > 0 /\ D = Depth(t) /\ Depth(t)' \in Nat /\ Depth(t)' >= D - 1
        /\ \A b \in 1 .. D - 1 : Fr(t, b)' = Fr(t, b)
        /\ \A u \in Threads : u # t => stack'[u] = stack[u]
    BY DEF Rewrites
  <1>2. ASSUME Depth(t)' >= D PROVE D \in 1 .. Depth(t)'
    BY <1>1, <1>2
  <1>3. ASSUME NEW o \in DOMAIN cls', Status(o)' = "Initializing"
        PROVE  \E u \in Threads : /\ cls'[o].tid = u
                                  /\ \E b \in 1 .. Depth(u)' : Fr(u, b)'.at \in Ini2 /\ Fr(u, b)'.k = o
    <2>1. CASE cls'[o].tid = t /\ Depth(t)' >= D /\ Fr(t, D)'.at \in Ini2 /\ Fr(t, D)'.k = o
      <3>1. \E b \in 1 .. Depth(t)' : Fr(t, b)'.at \in Ini2 /\ Fr(t, b)'.k = o
        BY <1>2, <2>1
      <3>. QED BY <2>1, <3>1
    <2>2. CASE /\ o \in DOMAIN cls /\ Status(o) = "Initializing" /\ cls'[o].tid = cls[o].tid
               /\ f.at \in Ini2 /\ f.k = o => Depth(t)' >= D /\ Fr(t, D)'.at \in Ini2 /\ Fr(t, D)'.k = o
      <3>1. PICK u \in Threads : u = cls[o].tid
        BY <2>2 DEF Initializers
      <3>2. PICK b \in 1 .. Depth(u) : Fr(u, b).at \in Ini2 /\ Fr(u, b).k = o
        BY <2>2, <3>1 DEF Initializers
      <3>3. \E c \in 1 .. Depth(u)' : Fr(u, c)'.at \in Ini2 /\ Fr(u, c)'.k = o
        <4>1. CASE u # t
          <5>1. Depth(u)' = Depth(u) /\ Fr(u, b)' = Fr(u, b)
            BY <1>1, <4>1 DEF Depth, Fr
          <5>. QED BY <3>2, <5>1
        <4>2. CASE u = t /\ b \in 1 .. D - 1
          <5>1. b \in 1 .. Depth(t)' /\ Fr(t, b)' = Fr(t, b)
            BY <1>1, <4>2
          <5>. QED BY <3>2, <4>2, <5>1
        <4>3. CASE u = t /\ b = D
          <5>1. Depth(t)' >= D /\ Fr(t, D)'.at \in Ini2 /\ Fr(t, D)'.k = o
            BY <2>2, <3>2, <4>3
          <5>. QED BY <1>2, <4>3, <5>1
        <4>. QED BY <1>1, <3>2, <4>1, <4>2, <4>3
      <3>. QED BY <2>2, <3>1, <3>3
    <2>. QED BY <1>3, <2>1, <2>2 DEF Ini
  <1>. QED BY <1>3 DEF Initializers, Status, Depth, Fr

(* An initialized superclass stays initialized; a frame below stays where it is. *)
LEMMA OrderKeep ==
  ASSUME Types, Objects, Grows, NEW u \in Threads, NEW b \in Nat, NEW f, FrameOK(u, f),
         \A c \in 1 .. b - 1 : Fr(u, c)' = Fr(u, c)
  PROVE  /\ f.at \in Ini2 => Ups(f.k)' = Ups(f.k)
         /\ \A p : Within(u, b, p) => Within(u, b, p)'
         /\ f.at \in Ini2 => \A j \in 1 .. Len(Ups(f.k)) :
              Status(Ups(f.k)[j]) = "Initialized" => Status(Ups(f.k)[j])' = "Initialized"
  <1>1. \A p : Within(u, b, p) => Within(u, b, p)'
    BY DEF Within
  <1>2. ASSUME f.at \in Ini2
        PROVE  /\ Ups(f.k)' = Ups(f.k)
               /\ \A j \in 1 .. Len(Ups(f.k)) :
                    Status(Ups(f.k)[j]) = "Initialized" => Status(Ups(f.k)[j])' = "Initialized"
    <2>1. f.k \in DOMAIN cls /\ Status(f.k) = "Initializing"
      BY <1>2 DEF FrameOK, IniAts, IniFrame, KAts, OfAts
    <2>2. f.k.desc \notin Arrays /\ Ups(f.k)' = Ups(f.k)
      BY <2>1, SupertypesStable DEF Objects, ObjectOK, StatusOK, Res
    <2>3. ASSUME NEW j \in 1 .. Len(Ups(f.k)), Status(Ups(f.k)[j]) = "Initialized"
          PROVE  Status(Ups(f.k)[j])' = "Initialized"
      <3>1. Ups(f.k) = cls[f.k].up \/ Ups(f.k) = <<>>
        BY DEF Ups
      <3>2. PICK p \in DOMAIN cls : p = Ups(f.k)[j]
        BY <2>1, <2>2, <2>3, <3>1 DEF Objects, ObjectOK, UpOK, Good
      <3>3. Status(p)' = "Initialized"
        BY <2>3, <3>2 DEF Grows, Evolves
      <3>. QED BY <2>2, <3>2, <3>3
    <2>. QED BY <2>2, <2>3
  <1>. QED BY <1>1, <1>2

(* Frame g is done with no superclass that frame f, in whose place it is, was not. *)
Advance(t, f, g) ==
  /\ f.at = "supers" => ~ exc[t]
  /\ g.at = "supers" => f.at = "supers" /\ g.i = f.i + 1
  /\ f.at = "supers" /\ g.at # "supers" => f.i >= Len(Ups(f.k))

(* The superclass that frame f, at level b, has just called for *)
Called(t, b, f) ==
  f.at = "supers" /\ f.i \in 1 .. Len(Ups(f.k)) /\ Ups(f.k)[f.i].desc \notin Interfaces /\ ~ exc'[t] =>
    Status(Ups(f.k)[f.i])' = "Initialized" \/ Within(t, b, Ups(f.k)[f.i])

LEMMA OrderStep ==
  ASSUME Types, Objects, Grows, Stacks, Orders, NEW t \in Threads, NEW D, Rewrites(t, D), Fresh(t, D),
         \A u \in Threads : u # t => exc'[u] = exc[u],
         NEW f, f = Fr(t, D), NEW g, Depth(t)' >= D => g = Fr(t, D)' /\ Alone(f, g),
         f.at \in Ini2 /\ Depth(t)' >= D => Advance(t, f, g) /\ (Depth(t)' = D => Called(t, D, g)),
         Depth(t)' < D /\ D > 1 => Called(t, D - 1, Fr(t, D - 1))
  PROVE  Orders'
  <1>1. /\ D \in Nat /\ D > 0 /\ D = Depth(t) /\ Depth(t)' \in Nat /\ Depth(t)' >= D - 1
        /\ \A b \in 1 .. D - 1 : Fr(t, b)' = Fr(t, b)
        /\ \A u \in Threads : u # t => stack'[u] = stack[u]
    BY DEF Rewrites
  <1>2. ASSUME NEW u \in Threads, u # t, NEW b \in 1 .. Depth(u)' PROVE DoneWith(u, b, Fr(u, b))'
    <2>1. Depth(u)' = Depth(u) /\ \A c : Fr(u, c)' = Fr(u, c)
      BY <1>1, <1>2 DEF Depth, Fr
    <2>2. PICK h : h = Fr(u, b) /\ h = Fr(u, b)'
      BY <2>1
    <2>3. FrameOK(u, h) /\ DoneWith(u, b, h)
      BY <1>2, <2>1, <2>2, InStackFacts DEF Orders
    <2>4. DoneWith(u, b, h)'
      BY <1>2, <2>1, <2>3, OrderKeep DEF DoneWith
    <2>. QED BY <2>2, <2>4
  <1>3. ASSUME NEW b \in 1 .. D - 1 PROVE DoneWith(t, b, Fr(t, b))'
    <2>1. b \in 1 .. D /\ b \in Nat /\ b # D /\ \A c \in 1 .. b - 1 : Fr(t, c)' = Fr(t, c)
      BY <1>1, <1>3
    <2>2. PICK h : h = Fr(t, b) /\ h = Fr(t, b)'
      BY <1>1, <1>3
    <2>3. FrameOK(t, h) /\ DoneWith(t, b, h)
      BY <1>1, <2>1, <2>2, BelowTop DEF Orders
    <2>4. b = Depth(t)' => Depth(t)' < D /\ D > 1 /\ b = D - 1
      BY <1>1, <1>3
    <2>5. b = Depth(t)' => Called(t, b, h)
      BY <2>2, <2>4
    <2>6. /\ h.at \in Ini2 => Ups(h.k)' = Ups(h.k)
          /\ \A p : Within(t, b, p) => Within(t, b, p)'
          /\ h.at \in Ini2 => \A j \in 1 .. Len(Ups(h.k)) :
               Status(Ups(h.k)[j]) = "Initialized" => Status(Ups(h.k)[j])' = "Initialized"
      BY <2>1, <2>3, OrderKeep
    <2>7. ASSUME h.at \in Ini2, NEW j \in 1 .. Len(Ups(h.k)), Ups(h.k)[j].desc \notin Interfaces,
                 h.at = "supers" => j < h.i \/ (j = h.i /\ b = Depth(t)' /\ ~ exc'[t])
          PROVE  Status(Ups(h.k)[j])' = "Initialized" \/ Within(t, b, Ups(h.k)[j])'
      <3>1. CASE h.at = "supers" => j < h.i
        BY <2>3, <2>6, <2>7, <3>1 DEF DoneWith
      <3>2. CASE h.at = "supers" /\ j = h.i /\ b = Depth(t)' /\ ~ exc'[t]
        BY <2>5, <2>6, <2>7, <3>2 DEF Called
      <3>. QED BY <2>7, <3>1, <3>2
    <2>8. DoneWith(t, b, h)'
      BY <2>6, <2>7 DEF DoneWith
    <2>. QED BY <2>2, <2>8
  <1>4. ASSUME Depth(t)' >= D PROVE DoneWith(t, D, g)'
    <2>1. \A c \in 1 .. D - 1 : Fr(t, c)' = Fr(t, c)
      BY <1>1
    <2>2. FrameOK(t, f) /\ DoneWith(t, D, f) /\ D = Depth(t)
      <3>1. D \in 1 .. D
        BY <1>1
      <3>. QED BY <1>1, <3>1, BelowTop DEF Orders
    <2>3. CASE g.at \in Ini2 /\ f.at \in Ini2 /\ g.k = f.k
      <3>1. /\ Ups(f.k)' = Ups(f.k)
            /\ \A p : Within(t, D, p) => Within(t, D, p)'
            /\ \A j \in 1 .. Len(Ups(f.k)) :
                 Status(Ups(f.k)[j]) = "Initialized" => Status(Ups(f.k)[j])' = "Initialized"
        BY <1>1, <2>1, <2>2, <2>3, OrderKeep
      <3>2. f.i \in Nat /\ Len(Ups(f.k)) \in Nat
        <4>1. f.k \in DOMAIN cls /\ f.i \in Nat
          BY <2>2, <2>3 DEF FrameOK, FrameRec, IniAts, KAts, OfAts
        <4>2. cls[f.k].up \in Seq(Classes)
          BY <4>1 DEF Types, ClassRec
        <4>. QED BY <4>1, <4>2 DEF Ups
      <3>3. Advance(t, f, g) /\ (Depth(t)' = D => Called(t, D, g))
        BY <1>4, <2>3
      <3>4. ASSUME NEW j \in 1 .. Len(Ups(f.k)), Ups(f.k)[j].desc \notin Interfaces,
                   g.at = "supers" => j < g.i \/ (j = g.i /\ D = Depth(t)' /\ ~ exc'[t])
            PROVE  Status(Ups(f.k)[j])' = "Initialized" \/ Within(t, D, Ups(f.k)[j])'
        <4>1. CASE g.at = "supers" => j < g.i
          <5>1. f.at = "supers" => (j < f.i \/ j = f.i) /\ ~ exc[t]
            BY <3>2, <3>3, <3>4, <4>1 DEF Advance
          <5>. QED BY <2>2, <2>3, <3>1, <3>4, <5>1 DEF DoneWith
        <4>2. CASE g.at = "supers" /\ j = g.i /\ D = Depth(t)' /\ ~ exc'[t]
          BY <2>3, <3>1, <3>3, <3>4, <4>2 DEF Called
        <4>. QED BY <3>4, <4>1, <4>2
      <3>. QED BY <2>3, <3>1, <3>4 DEF DoneWith
    <2>4. CASE g.at = "supers" /\ g.i = 0
      <3>1. ASSUME NEW n, NEW j \in 1 .. n PROVE ~ (j < 0) /\ j # 0
        BY <3>1
      <3>. QED BY <2>4, <3>1 DEF DoneWith
    <2>5. CASE g.at \notin Ini2
      BY <2>5 DEF DoneWith
    <2>. QED BY <1>4, <2>3, <2>4, <2>5 DEF Alone
  <1>5. ASSUME NEW b \in 1 .. Depth(t)' PROVE DoneWith(t, b, Fr(t, b))'
    <2>1. CASE b \in 1 .. D - 1
      BY <1>3, <2>1
    <2>2. CASE b = D
      <3>1. Depth(t)' >= D
        BY <1>1, <1>5, <2>2
      <3>2. PICK h : h = g /\ h = Fr(t, b)'
        BY <2>2, <3>1
      <3>3. DoneWith(t, b, h)'
        BY <1>4, <2>2, <3>1, <3>2
      <3>. QED BY <3>2, <3>3
    <2>3. CASE b \in D + 1 .. Depth(t)'
      <3>1. PICK h : h = Fr(t, b)'
        OBVIOUS
      <3>2. h.at \notin Ini2
        BY <2>3, <3>1 DEF Fresh
      <3>3. DoneWith(t, b, h)'
        BY <3>2 DEF DoneWith
      <3>. QED BY <3>1, <3>3
    <2>. QED BY <1>1, <1>5, <2>1, <2>2, <2>3
  <1>. QED BY <1>2, <1>5 DEF Orders

-----------------------------------------------------------------------------
(* A whole step of thread t *)

(* The classes, the tables and what the other threads rely on *)
Ctx(t) ==
  /\ Types' /\ Objects' /\ Tables' /\ Aborts' /\ Grows
  /\ \A u \in Threads : u # t => /\ ret'[u] = ret[u] /\ exc'[u] = exc[u] /\ Wakes(u)
                                 /\ \A f : InStack(u, f) => Own(u, f)
  /\ \A f : Lower(t, f) => Own(t, f)

LEMMA Assemble ==
  ASSUME IInv, NEW t \in Threads, Ctx(t), \A u \in Threads : u # t => stack'[u] = stack[u],
         StackOK(t)', Monitors', Verifiers', Initializers', Orders'
  PROVE  IInv'
  <1>1. ASSUME NEW u \in Threads, u # t PROVE StackOK(u)'
    BY <1>1, StackStable DEF IInv, Ctx
  <1>2. Stacks'
    BY <1>1 DEF Stacks
  <1>. QED BY <1>2 DEF IInv, Ctx

LEMMA BecomeStep ==
  ASSUME IInv, NEW t \in Threads, stack[t] # <<>>, NEW f, f = Top(t), f.n = 0, NEW g \in FrameRec,
         Become(t, g), g.n = 0, Ctx(t), Kin(f, g), Alone(f, g), FrameOK(t, g)', TopOK(t, g)',
         Mon(t, Grip(f), Grip(g)), f.at \in Ini2 => Advance(t, f, g) /\ Called(t, Depth(t), g),
         \A o \in DOMAIN cls' : Status(o)' = "Initializing" =>
           \/ /\ o \in DOMAIN cls /\ Status(o) = "Initializing" /\ cls'[o].tid = cls[o].tid
              /\ f.at \in Ini2 /\ f.k = o => g.at \in Ini2 /\ g.k = o
           \/ cls'[o].tid = t /\ g.at \in Ini2 /\ g.k = o
  PROVE  IInv'
  <1>1. PICK D \in Nat : Rewrites(t, D) /\ Depth(t)' = D /\ Fr(t, D)' = g
    BY BecomeFr DEF IInv
  <1>2. D = Depth(t) /\ D > 0 /\ \A u \in Threads : u # t => stack'[u] = stack[u]
    BY <1>1 DEF Rewrites
  <1>3. Fr(t, D) = f
    BY <1>2, TopFr DEF IInv
  <1>4. StackOK(t)'
    BY <1>1, <1>3, BecomeStack DEF IInv, Ctx
  <1>5. Fresh(t, D) /\ Depth(t)' >= D
    <2>1. \A b \in D + 1 .. D : FALSE
      OBVIOUS
    <2>2. Depth(t)' = D
      BY <1>1
    <2>. QED BY <2>1, <2>2 DEF Fresh
  <1>6. Monitors'
    BY <1>1, <1>3, <1>5, MonitorStep DEF IInv, Ctx, Grows
  <1>7. Verifiers'
    BY <1>1, <1>3, <1>5, VerifierStep DEF IInv
  <1>8. Ini(t, D, f)
    BY <1>1, <1>5 DEF Ini
  <1>9. Initializers'
    BY <1>1, <1>3, <1>8, InitializerStep DEF IInv
  <1>10. Orders'
    <2>1. Depth(t)' = D /\ Depth(t)' >= D /\ ~ (Depth(t)' < D)
      BY <1>1, <1>5
    <2>. QED BY <1>1, <1>2, <1>3, <1>5, <2>1, OrderStep DEF IInv, Ctx
  <1>. QED BY <1>2, <1>4, <1>6, <1>7, <1>9, <1>10, Assemble

(* The innermost frame: where it is, an exception may not be pending. *)
LEMMA TopFacts ==
  ASSUME IInv, NEW t \in Threads, stack[t] # <<>>, NEW f, f = Top(t)
  PROVE  /\ FrameOK(t, f) /\ TopOK(t, f) /\ f \in FrameRec /\ f.d \in Descs /\ f.l \in Loaders
         /\ f.i \in Nat /\ f.n \in Nat /\ f.k \in Classes \cup {NULL} /\ f.at \in Ats
         /\ Depth(t) \in Nat /\ Depth(t) > 0 /\ f = Fr(t, Depth(t))
         /\ f.n = 0 => waiting[t] = NULL
         /\ f.at \notin Handlers => ~ exc[t]
  <1>1. Depth(t) \in Nat /\ Depth(t) > 0 /\ Fr(t, Depth(t)) = f /\ f \in FrameRec
    BY TopFr DEF IInv
  <1>2. FrameOK(t, f) /\ TopOK(t, f)
    BY <1>1, BelowTop DEF IInv
  <1>3. /\ f.n = 0 => waiting[t] = NULL
        /\ f.at \notin Handlers => ~ exc[t]
    BY <1>1, <1>2 DEF TopOK, FrameRec
  <1>. QED BY <1>1, <1>2, <1>3 DEF FrameRec

(* The caller of the innermost frame *)
LEMMA CallerFacts ==
  ASSUME IInv, NEW t \in Threads, stack[t] # <<>>, NEW f, f = Top(t), f.at # "caller",
         NEW h, h = Fr(t, Depth(t) - 1)
  PROVE  /\ LinkOK(h, f) /\ BelowOK(h, f) /\ FrameOK(t, h) /\ h \in FrameRec /\ h.n = 0 /\ Lower(t, h)
         /\ InStack(t, h) /\ h.at \in Handlers /\ Depth(t) > 1
         /\ Ctx(t) => LinkOK(h, f)' /\ FrameOK(t, h)' /\ Own(t, h)
  <1>1. Depth(t) \in Nat /\ Depth(t) > 0 /\ Fr(t, Depth(t)) = f
    BY TopFacts
  <1>2. Depth(t) > 1 /\ Depth(t) - 1 \in 1 .. Depth(t) - 1 /\ Depth(t) - 1 \in 1 .. Depth(t)
    BY <1>1, BelowTop DEF IInv
  <1>3. LinkOK(h, f) /\ BelowOK(h, f) /\ FrameOK(t, h) /\ Lower(t, h) /\ h.at \in Handlers /\ FrameOK(t, f)
    BY <1>1, <1>2, BelowTop DEF IInv
  <1>4. h \in FrameRec /\ h.n = 0 /\ InStack(t, h)
    BY <1>2, <1>3 DEF FrameOK, BelowOK, InStack
  <1>5. ASSUME Ctx(t) PROVE LinkOK(h, f)' /\ FrameOK(t, h)' /\ Own(t, h)
    <2>1. Own(t, h) /\ Grows
      BY <1>3, <1>5 DEF Ctx
    <2>. QED BY <1>3, <2>1, LinkStable, FrameStable DEF IInv
  <1>. QED BY <1>2, <1>3, <1>4, <1>5

LEMMA ReturnStep ==
  ASSUME IInv, NEW t \in Threads, stack[t] # <<>>, NEW f, f = Top(t), f.n = 0, f.at # "caller", Return(t), Ctx(t),
         NEW h, h = Fr(t, Depth(t) - 1), TopOK(t, h)', Mon(t, Grip(f), {}),
         h.at = "supers" /\ f.at \in IniAts =>
           exc'[t] \/ Status(f.k)' = "Initialized" \/ Within(t, Depth(t) - 1, f.k),
         \A o \in DOMAIN cls' : Status(o)' = "Initializing" =>
           /\ o \in DOMAIN cls /\ Status(o) = "Initializing" /\ cls'[o].tid = cls[o].tid
           /\ ~ (f.at \in Ini2 /\ f.k = o)
  PROVE  IInv'
  <1>1. PICK D \in Nat : Rewrites(t, D) /\ Depth(t)' = D - 1
    BY ReturnFr DEF IInv
  <1>2. D = Depth(t) /\ D > 0 /\ \A u \in Threads : u # t => stack'[u] = stack[u]
    BY <1>1 DEF Rewrites
  <1>3. Fr(t, D) = f /\ D > 1
    BY <1>2, TopFr, BelowTop DEF IInv
  <1>4. StackOK(t)'
    BY <1>1, <1>2, <1>3, ReturnStack DEF IInv, Ctx
  <1>5. Fresh(t, D) /\ ~ (Depth(t)' >= D)
    <2>1. (\A b \in D + 1 .. D - 1 : FALSE) /\ ~ (D - 1 >= D)
      OBVIOUS
    <2>2. Depth(t)' = D - 1
      BY <1>1
    <2>. QED BY <2>1, <2>2 DEF Fresh
  <1>6. Monitors'
    BY <1>1, <1>3, <1>5, MonitorStep DEF IInv, Ctx, Grows
  <1>7. Verifiers'
    BY <1>1, <1>3, <1>5, VerifierStep DEF IInv
  <1>8. Ini(t, D, f)
    BY <1>1, <1>5 DEF Ini
  <1>9. Initializers'
    BY <1>1, <1>3, <1>8, InitializerStep DEF IInv
  <1>10. Orders'
    <2>1. LinkOK(h, f)' /\ FrameOK(t, h) /\ Depth(t)' < D
      BY <1>1, <1>5, CallerFacts
    <2>2. ASSUME h.at = "supers", Ups(h.k)[h.i].desc \notin Interfaces PROVE f.k = Ups(h.k)[h.i] /\ f.k = Ups(h.k)'[h.i] /\ f.at \in IniAts
      <3>1. h.k \in DOMAIN cls /\ Status(h.k) \in Res
        BY <2>1, <2>2 DEF FrameOK, IniAts, Ini2, IniFrame, Good
      <3>2. Ups(h.k)' = Ups(h.k)
        BY <3>1, SupertypesStable DEF Ctx
      <3>. QED BY <2>1, <2>2, <3>2 DEF LinkOK
    <2>3. Called(t, D - 1, h)
      BY <1>2, <2>2 DEF Called, Status
    <2>. QED BY <1>1, <1>2, <1>3, <1>5, <2>1, <2>3, OrderStep DEF IInv, Ctx
  <1>. QED BY <1>2, <1>4, <1>6, <1>7, <1>9, <1>10, Assemble

LEMMA CallStep ==
  ASSUME IInv, NEW t \in Threads, stack[t] # <<>>, NEW f, f = Top(t), f.n = 0, NEW at \in Ats, NEW u \in FrameRec,
         Call(t, <<u>>, at), Ctx(t), NEW g, g = Onward(f, at),
         Kin(f, g), Alone(f, g), Push(f, u), Calls(f, g, u), FrameOK(t, g)', FrameOK(t, u)',
         LinkOK(g, u)', TopOK(t, u)', Mon(t, Grip(f), Grip(g)), f.at \in Ini2 => Advance(t, f, g),
         \A o \in DOMAIN cls' : Status(o)' = "Initializing" =>
           /\ o \in DOMAIN cls /\ Status(o) = "Initializing" /\ cls'[o].tid = cls[o].tid
           /\ f.at \in Ini2 /\ f.k = o => g.at \in Ini2 /\ g.k = o
  PROVE  IInv'
  <1>0. PICK D \in Nat, x \in FrameRec :
          /\ Rewrites(t, D) /\ Depth(t)' = D + 1 /\ Fr(t, D)' = x /\ Fr(t, D + 1)' = u
          /\ x = Onward(Top(t), at)
    BY CallFr DEF IInv
  <1>1. Rewrites(t, D) /\ Depth(t)' = D + 1 /\ Fr(t, D)' = g /\ Fr(t, D + 1)' = u
    BY <1>0, Zenon
  <1>2. D = Depth(t) /\ D > 0 /\ \A v \in Threads : v # t => stack'[v] = stack[v]
    BY <1>1 DEF Rewrites
  <1>3. Fr(t, D) = f
    BY <1>2, TopFr DEF IInv
  <1>4. StackOK(t)'
    BY <1>1, <1>3, CallStack DEF IInv, Ctx
  <1>5. Fresh(t, D) /\ Depth(t)' >= D
    <2>1. (\A b \in D + 1 .. D + 1 : b = D + 1) /\ D + 1 >= D
      OBVIOUS
    <2>2. Grip(u) = {} /\ u.n = 0 /\ u.at \notin Ver2 \cup Ini2
      BY DEF Push
    <2>3. Depth(t)' = D + 1 /\ Fr(t, D + 1)' = u
      BY <1>1
    <2>4. \A b \in D + 1 .. Depth(t)' : Fr(t, b)' = u
      BY <2>1, <2>3
    <2>. QED BY <2>1, <2>2, <2>3, <2>4 DEF Fresh
  <1>6. Monitors'
    <2>1. g.n = 0 /\ DOMAIN cls \subseteq DOMAIN cls'
      BY DEF Calls, Ctx, Grows
    <2>. QED BY <1>1, <1>3, <1>5, <2>1, MonitorStep DEF IInv, Ctx
  <1>7. Verifiers'
    BY <1>1, <1>3, <1>5, VerifierStep DEF IInv
  <1>8. Ini(t, D, f)
    BY <1>1, <1>5 DEF Ini
  <1>9. Initializers'
    BY <1>1, <1>3, <1>8, InitializerStep DEF IInv
  <1>10. Orders'
    <2>1. Depth(t)' # D /\ Depth(t)' >= D /\ ~ (Depth(t)' < D)
      BY <1>1, <1>2
    <2>. QED BY <1>1, <1>2, <1>3, <1>5, <2>1, OrderStep DEF IInv, Ctx
  <1>. QED BY <1>2, <1>4, <1>6, <1>7, <1>9, <1>10, Assemble

LEMMA CallTwoStep ==
  ASSUME IInv, NEW t \in Threads, stack[t] # <<>>, NEW f, f = Top(t), f.n = 0, NEW at \in Ats,
         NEW u \in FrameRec, NEW v \in FrameRec,
         Call(t, <<u, v>>, at), Ctx(t), NEW g, g = Onward(f, at),
         Kin(f, g), Alone(f, g), Push(f, u), Calls(f, g, u), Push(f, v), Calls(f, g, v), BelowOK(v, u)',
         FrameOK(t, g)', FrameOK(t, u)', FrameOK(t, v)',
         LinkOK(g, v)', LinkOK(v, u)', TopOK(t, u)', Mon(t, Grip(f), Grip(g)), f.at \in Ini2 => Advance(t, f, g),
         \A o \in DOMAIN cls' : Status(o)' = "Initializing" =>
           /\ o \in DOMAIN cls /\ Status(o) = "Initializing" /\ cls'[o].tid = cls[o].tid
           /\ f.at \in Ini2 /\ f.k = o => g.at \in Ini2 /\ g.k = o
  PROVE  IInv'
  <1>0. PICK D \in Nat, x \in FrameRec :
          /\ Rewrites(t, D) /\ Depth(t)' = D + 2 /\ Fr(t, D)' = x /\ Fr(t, D + 1)' = v /\ Fr(t, D + 2)' = u
          /\ x = Onward(Top(t), at)
    BY CallTwoFr DEF IInv
  <1>1. Rewrites(t, D) /\ Depth(t)' = D + 2 /\ Fr(t, D)' = g /\ Fr(t, D + 1)' = v /\ Fr(t, D + 2)' = u
    BY <1>0, Zenon
  <1>2. D = Depth(t) /\ D > 0 /\ \A w \in Threads : w # t => stack'[w] = stack[w]
    BY <1>1 DEF Rewrites
  <1>3. Fr(t, D) = f
    BY <1>2, TopFr DEF IInv
  <1>4. StackOK(t)'
    BY <1>1, <1>3, CallTwoStack DEF IInv, Ctx
  <1>5. Fresh(t, D) /\ Depth(t)' >= D
    <2>1. (\A b \in D + 1 .. D + 2 : b = D + 1 \/ b = D + 2) /\ D + 2 >= D
      OBVIOUS
    <2>2. /\ Grip(u) = {} /\ u.n = 0 /\ u.at \notin Ver2 \cup Ini2
          /\ Grip(v) = {} /\ v.n = 0 /\ v.at \notin Ver2 \cup Ini2
      BY DEF Push
    <2>3. Depth(t)' = D + 2 /\ Fr(t, D + 1)' = v /\ Fr(t, D + 2)' = u
      BY <1>1
    <2>4. \A b \in D + 1 .. Depth(t)' : Fr(t, b)' = u \/ Fr(t, b)' = v
      BY <2>1, <2>3
    <2>. QED BY <2>1, <2>2, <2>3, <2>4 DEF Fresh
  <1>6. Monitors'
    <2>1. g.n = 0 /\ DOMAIN cls \subseteq DOMAIN cls'
      BY DEF Calls, Ctx, Grows
    <2>. QED BY <1>1, <1>3, <1>5, <2>1, MonitorStep DEF IInv, Ctx
  <1>7. Verifiers'
    BY <1>1, <1>3, <1>5, VerifierStep DEF IInv
  <1>8. Ini(t, D, f)
    BY <1>1, <1>5 DEF Ini
  <1>9. Initializers'
    BY <1>1, <1>3, <1>8, InitializerStep DEF IInv
  <1>10. Orders'
    <2>1. Depth(t)' # D /\ Depth(t)' >= D /\ ~ (Depth(t)' < D)
      BY <1>1, <1>2
    <2>. QED BY <1>1, <1>2, <1>3, <1>5, <2>1, OrderStep DEF IInv, Ctx
  <1>. QED BY <1>2, <1>4, <1>6, <1>7, <1>9, <1>10, Assemble

(* Steps that change at most monitors of classes *)
Quiet ==
  /\ DOMAIN cls' = DOMAIN cls /\ (\A o \in DOMAIN cls : Kept(o)) /\ table' = table
  /\ faults' <= faults /\ spurious' <= spurious /\ denied \subseteq denied' /\ aborted' = aborted

LEMMA QuietGrows ==
  ASSUME Types, Types', Quiet
  PROVE  Grows /\ Touches({})
  <1>1. \A o \in DOMAIN cls : Evolves(o)
    BY DEF Quiet, Kept, Evolves, Status
  <1>2. \A l \in Loaders, d \in Descs : EntryEvolves(l, d)
    BY DEF Quiet, EntryEvolves
  <1>. QED BY <1>1, <1>2 DEF Grows, Touches, Quiet

LEMMA QuietOwn ==
  ASSUME Types, Types', Quiet, ran' = ran, NEW u \in Threads, NEW f, FrameOK(u, f)
  PROVE  Own(u, f)
  BY QuietGrows, OwnOther

LEMMA AbortsStable ==
  ASSUME Types, Types', Grows, Aborts, aborted' = aborted
  PROVE  Aborts'
  <1>1. spurious \in Nat /\ spurious' \in Nat /\ spurious' <= spurious /\ MaxSpurious \in Nat
    BY ConstantsAssumption DEF Grows, Types
  <1>2. spurious < MaxSpurious => spurious' < MaxSpurious
    BY <1>1
  <1>. QED BY <1>2, Zenon DEF Aborts

LEMMA QuietCtx ==
  ASSUME IInv, Types', Quiet, given' = given, ran' = ran, NEW t \in Threads,
         \A u \in Threads : u # t => ret'[u] = ret[u] /\ exc'[u] = exc[u] /\ Wakes(u)
  PROVE  Ctx(t)
  <1>1. Grows /\ Touches({})
    BY QuietGrows DEF IInv
  <1>2. Objects'
    <2>1. ASSUME NEW o \in DOMAIN cls PROVE ObjectOK(o)'
      BY <1>1, <2>1, ObjectStable DEF Quiet, IInv
    <2>. QED BY <2>1 DEF Objects, Quiet
  <1>3. Tables'
    <2>1. ASSUME NEW l \in Loaders, NEW d \in Descs PROVE TableOK(l, d)'
      BY <1>1, <2>1, TableStable DEF Quiet, IInv
    <2>. QED BY <2>1 DEF Tables
  <1>4. Aborts'
    BY <1>1, AbortsStable DEF IInv, Quiet
  <1>5. ASSUME NEW u \in Threads, NEW f, InStack(u, f) PROVE Own(u, f)
    BY <1>5, QuietOwn, InStackFacts DEF IInv
  <1>6. ASSUME NEW f, Lower(t, f) PROVE Own(t, f)
    <2>1. InStack(t, f)
      <3>1. PICK b \in 1 .. Depth(t) - 1 : Fr(t, b) = f
        BY <1>6 DEF Lower
      <3>2. b \in 1 .. Depth(t)
        BY <3>1, InStackFacts DEF IInv
      <3>. QED BY <3>1, <3>2 DEF InStack
    <2>. QED BY <1>5, <2>1
  <1>. QED BY <1>1, <1>2, <1>3, <1>4, <1>5, <1>6 DEF Ctx

(* Steps that change no class at all *)
Still ==
  /\ UNCHANGED <<cls, table, waiting, spurious, aborted, given, ran>>
  /\ faults' \in Nat /\ faults' <= faults /\ denied \subseteq denied'
Others(t) ==
  /\ ret' \in [Threads -> DOMAIN cls' \cup {NULL}] /\ exc' \in [Threads -> BOOLEAN]
  /\ \A u \in Threads : u # t => ret'[u] = ret[u] /\ exc'[u] = exc[u]

LEMMA StillCtx ==
  ASSUME IInv, Still, NEW t \in Threads, Others(t), stack' \in [Threads -> Seq(FrameRec)]
  PROVE  Types' /\ Quiet /\ Ctx(t)
  <1>1. Types'
    BY ConstantsAssumption DEF IInv, Types, Still, Others
  <1>2. Quiet
    BY DEF Quiet, Still, Kept, IInv, Types
  <1>3. \A u \in Threads : Wakes(u)
    BY DEF Wakes, Still
  <1>. QED BY <1>1, <1>2, <1>3, QuietCtx DEF Still, Others

(* A frame that the state before the step allows *)
LEMMA QuietFrame ==
  ASSUME IInv, Types', Quiet, ran' = ran, NEW t \in Threads, NEW g, FrameOK(t, g)
  PROVE  FrameOK(t, g)'
  BY QuietGrows, QuietOwn, FrameStable DEF IInv

LEMMA QuietIni ==
  ASSUME Quiet
  PROVE  \A o \in DOMAIN cls' : Status(o)' = "Initializing" =>
           o \in DOMAIN cls /\ Status(o) = "Initializing" /\ cls'[o].tid = cls[o].tid
  BY DEF Quiet, Kept, Status

LEMMA PureBecome ==
  ASSUME IInv, NEW t \in Threads, stack[t] # <<>>, NEW f, f = Top(t), f.n = 0, NEW g \in FrameRec,
         Become(t, g), g.n = 0, Still, Others(t), Kin(f, g), Alone(f, g), FrameOK(t, g), TopOK(t, g)',
         Grip(g) = Grip(f), f.at \in Ini2 => g.at \in Ini2 /\ g.k = f.k /\ Advance(t, f, g) /\ Called(t, Depth(t), g)
  PROVE  IInv'
  <1>1. stack' \in [Threads -> Seq(FrameRec)]
    BY BecomeFr DEF IInv, Rewrites
  <1>2. Types' /\ Quiet /\ Ctx(t)
    BY <1>1, StillCtx
  <1>3. FrameOK(t, g)'
    BY <1>2, QuietFrame DEF Still
  <1>4. Mon(t, Grip(f), Grip(g))
    BY DEF Mon, Still
  <1>. QED BY <1>2, <1>3, <1>4, BecomeStep, QuietIni

LEMMA PureReturn ==
  ASSUME IInv, NEW t \in Threads, stack[t] # <<>>, NEW f, f = Top(t), f.n = 0, f.at \notin Ini2 \cup {"caller"},
         Return(t), Still, Others(t), Grip(f) = {}, NEW h, h = Fr(t, Depth(t) - 1), TopOK(t, h)',
         f.at \in IniAts => h.at # "supers"
  PROVE  IInv'
  <1>1. stack' \in [Threads -> Seq(FrameRec)]
    BY ReturnFr DEF IInv, Rewrites
  <1>2. Types' /\ Quiet /\ Ctx(t)
    BY <1>1, StillCtx
  <1>3. Mon(t, Grip(f), {})
    BY DEF Mon, Still
  <1>. QED BY <1>2, <1>3, ReturnStep, QuietIni

LEMMA PureCall ==
  ASSUME IInv, NEW t \in Threads, stack[t] # <<>>, NEW f, f = Top(t), f.n = 0, NEW at \in Ats, NEW u \in FrameRec,
         Call(t, <<u>>, at), Still, Others(t), NEW g, g = Onward(f, at),
         Kin(f, g), Alone(f, g), Push(f, u), Calls(f, g, u), FrameOK(t, g), FrameOK(t, u),
         LinkOK(g, u)', TopOK(t, u)', Grip(g) = Grip(f), f.at \in Ini2 => g.at \in Ini2 /\ Advance(t, f, g)
  PROVE  IInv'
  <1>1. stack' \in [Threads -> Seq(FrameRec)]
    BY CallFr DEF IInv, Rewrites
  <1>2. Types' /\ Quiet /\ Ctx(t)
    BY <1>1, StillCtx
  <1>3. FrameOK(t, g)' /\ FrameOK(t, u)'
    BY <1>2, QuietFrame DEF Still
  <1>4. Mon(t, Grip(f), Grip(g))
    BY DEF Mon, Still
  <1>5. g.k = f.k
    <2>1. f \in FrameRec
      BY TopFr DEF IInv
    <2>. QED BY <2>1, CallerFrame
  <1>6. \A o \in DOMAIN cls' : Status(o)' = "Initializing" =>
           /\ o \in DOMAIN cls /\ Status(o) = "Initializing" /\ cls'[o].tid = cls[o].tid
           /\ f.at \in Ini2 /\ f.k = o => g.at \in Ini2 /\ g.k = o
    BY <1>2, <1>5, QuietIni
  <1>. QED BY <1>2, <1>3, <1>4, <1>6, CallStep

LEMMA PlainTop ==
  ASSUME NEW t \in Threads, NEW g \in FrameRec, g.at \notin Handlers \cup {"woken"}, g.n = 0,
         ~ exc'[t], waiting'[t] = NULL
  PROVE  TopOK(t, g)'
  BY DEF TopOK, Handlers

LEMMA OthersFacts ==
  ASSUME Types, DOMAIN cls \subseteq DOMAIN cls', NEW t \in Threads, NEW x \in DOMAIN cls' \cup {NULL},
         NEW b \in BOOLEAN, ret' = ret \/ ret' = [ret EXCEPT ![t] = x], exc' = exc \/ exc' = [exc EXCEPT ![t] = b]
  PROVE  /\ Others(t)
         /\ ret' = [ret EXCEPT ![t] = x] => ret'[t] = x
         /\ exc' = [exc EXCEPT ![t] = b] => exc'[t] = b
  <1>1. /\ ret \in [Threads -> DOMAIN cls \cup {NULL}] /\ exc \in [Threads -> BOOLEAN]
        /\ ret \in [Threads -> DOMAIN cls' \cup {NULL}]
    BY DEF Types
  <1>2. ret' \in [Threads -> DOMAIN cls' \cup {NULL}] /\ \A u \in Threads : u # t => ret'[u] = ret[u]
    BY <1>1
  <1>3. exc' \in [Threads -> BOOLEAN] /\ \A u \in Threads : u # t => exc'[u] = exc[u]
    BY <1>1
  <1>. QED BY <1>1, <1>2, <1>3 DEF Others

(* FindClass fails. *)
LEMMA FindNullTop ==
  ASSUME NEW t \in Threads, NEW h \in FrameRec, NEW f \in FrameRec, LinkOK(h, f)', f.at \in FindAts, h.n = 0,
         exc'[t], ret'[t] = NULL, waiting'[t] = NULL,
         f.at = "array" => f.d \in Arrays, f.at # "array" => Dead(f.l, f.d)'
  PROVE  TopOK(t, h)'
  <1>1. h.at \in {"own", "java", "found", "array", "resolved", "use"}
    BY DEF LinkOK, FindAts, DefAts, VerAts, Ver2, IniAts, Ini2, IfaceAts, Handlers
  <1>2. CASE h.at \in {"own", "resolved", "use"}
    BY <1>2 DEF TopOK, Handlers
  <1>3. CASE h.at = "found"
    <2>1. f.at = "array" /\ f.d = h.d
      BY <1>3 DEF LinkOK
    <2>. QED BY <1>3, <2>1 DEF TopOK, Handlers
  <1>4. CASE h.at = "java"
    <2>1. f.d = h.d /\ f.l = h.l /\ f.at # "array"
      BY <1>4 DEF LinkOK
    <2>2. table'[h.l][h.d] # NULL \/ h.d \notin Path[h.l] \/ h.d \in Arrays \/ <<h.l, h.d>> \in denied'
      BY <2>1 DEF Dead
    <2>. QED BY <1>4, <2>2 DEF TopOK, Handlers
  <1>5. CASE h.at = "array"
    <2>1. f.d = Supers[h.d][1] /\ f.l = h.l /\ f.at # "array" /\ h.i = 1
      BY <1>5 DEF LinkOK
    <2>2. Dead(h.l, Supers[h.d][1])'
      BY <2>1
    <2>. QED BY <1>5, <2>1, <2>2 DEF TopOK, Handlers
  <1>. QED BY <1>1, <1>2, <1>3, <1>4, <1>5

(* FindClass returns a class. *)
LEMMA FindClassTop ==
  ASSUME NEW t \in Threads, NEW h \in FrameRec, NEW f \in FrameRec, LinkOK(h, f)', f.at \in FindAts, h.n = 0,
         ~ exc'[t], waiting'[t] = NULL, NEW o, o = ret'[t], o # NULL, Good(o)', o.desc = f.d,
         f.at # "array" => o = table'[f.l][f.d]
  PROVE  TopOK(t, h)'
  <1>1. h.at \in {"own", "java", "found", "array", "resolved", "use"}
    BY DEF LinkOK, FindAts, DefAts, VerAts, Ver2, IniAts, Ini2, IfaceAts, Handlers
  <1>2. CASE h.at \in {"own", "java", "use"}
    <2>1. f.d = h.d /\ f.l = (IF h.at = "own" THEN Boot ELSE h.l) /\ f.at # "array"
      BY <1>2 DEF LinkOK
    <2>. QED BY <1>2, <2>1 DEF TopOK, Handlers
  <1>3. CASE h.at = "found"
    <2>1. f.d = h.d
      BY <1>3 DEF LinkOK
    <2>. QED BY <1>3, <2>1 DEF TopOK, Handlers
  <1>4. CASE h.at = "array"
    BY <1>4 DEF TopOK, Handlers
  <1>5. CASE h.at = "resolved"
    <2>1. f.d = Supers[h.d][Len(cls'[h.k].up) + 1] /\ f.l = h.l /\ f.at # "array"
      BY <1>5 DEF LinkOK
    <2>. QED BY <1>5, <2>1 DEF TopOK, Handlers
  <1>. QED BY <1>1, <1>2, <1>3, <1>4, <1>5

LEMMA FindAtFacts ==
  /\ FindAts \cap Ini2 = {} /\ FindAts \cap Ver2 = {} /\ "caller" \notin FindAts /\ FindAts \subseteq Ats
  /\ FindAts \cap (VerAts \cup IniAts \cup IfaceAts \cup {"use"}) = {} /\ DefAts \subseteq FindAts
  BY DEF FindAts, DefAts, VerAts, Ver2, IniAts, Ini2, IfaceAts, Ats

NoneInitializes ==
  \A o \in DOMAIN cls' : Status(o)' = "Initializing" =>
    o \in DOMAIN cls /\ Status(o) = "Initializing" /\ cls'[o].tid = cls[o].tid

LEMMA NullReturn ==
  ASSUME IInv, NEW t \in Threads, stack[t] # <<>>, NEW f, f = Top(t), f.n = 0, f.at \in FindAts, Return(t), Ctx(t),
         ret'[t] = NULL, exc'[t], waiting'[t] = NULL, Mon(t, Grip(f), {}), NoneInitializes,
         f.at = "array" \/ Dead(f.l, f.d)'
  PROVE  IInv'
  <1>1. PICK h : h = Fr(t, Depth(t) - 1)
    OBVIOUS
  <1>2. f \in FrameRec /\ FrameOK(t, f) /\ f.at # "caller" /\ f.at \notin Ini2
    BY TopFacts, FindAtFacts
  <1>3. LinkOK(h, f)' /\ h \in FrameRec /\ h.n = 0
    BY <1>1, <1>2, CallerFacts
  <1>4. f.at = "array" => f.d \in Arrays
    BY <1>2 DEF FrameOK, FindFrame
  <1>5. TopOK(t, h)'
    BY <1>2, <1>3, <1>4, FindNullTop
  <1>6. f.at \notin IniAts
    BY FindAtFacts
  <1>. QED BY <1>1, <1>2, <1>5, <1>6, ReturnStep DEF NoneInitializes

LEMMA ClassReturn ==
  ASSUME IInv, NEW t \in Threads, stack[t] # <<>>, NEW f, f = Top(t), f.n = 0, f.at \in FindAts, Return(t), Ctx(t),
         ~ exc'[t], waiting'[t] = NULL, Mon(t, Grip(f), {}), NoneInitializes,
         NEW o, o = ret'[t], o # NULL, Good(o)', o.desc = f.d, f.at = "array" \/ o = table'[f.l][f.d]
  PROVE  IInv'
  <1>1. PICK h : h = Fr(t, Depth(t) - 1)
    OBVIOUS
  <1>2. f \in FrameRec /\ FrameOK(t, f) /\ f.at # "caller" /\ f.at \notin Ini2
    BY TopFacts, FindAtFacts
  <1>3. LinkOK(h, f)' /\ h \in FrameRec /\ h.n = 0
    BY <1>1, <1>2, CallerFacts
  <1>4. TopOK(t, h)'
    BY <1>2, <1>3, FindClassTop
  <1>5. f.at \notin IniAts
    BY FindAtFacts
  <1>. QED BY <1>1, <1>2, <1>4, <1>5, ReturnStep DEF NoneInitializes

(* Without a change to a class *)
LEMMA PureNull ==
  ASSUME IInv, NEW t \in Threads, stack[t] # <<>>, NEW f, f = Top(t), f.n = 0, f.at \in FindAts, ReturnNull(t), Still,
         Grip(f) = {}, f.at = "array" \/ Dead(f.l, f.d)'
  PROVE  IInv'
  <1>1. Others(t) /\ ret'[t] = NULL /\ exc'[t]
    BY OthersFacts DEF ReturnNull, Throw, Still, IInv
  <1>2. Return(t) /\ stack' \in [Threads -> Seq(FrameRec)]
    BY ReturnFr DEF ReturnNull, IInv, Rewrites
  <1>3. Types' /\ Quiet /\ Ctx(t)
    BY <1>1, <1>2, StillCtx
  <1>4. Mon(t, Grip(f), {})
    BY DEF Mon, Still
  <1>5. NoneInitializes
    BY <1>3, QuietIni DEF NoneInitializes
  <1>6. waiting'[t] = NULL
    BY TopFacts DEF Still
  <1>. QED BY <1>1, <1>2, <1>3, <1>4, <1>5, <1>6, NullReturn

LEMMA PureClass ==
  ASSUME IInv, NEW t \in Threads, stack[t] # <<>>, NEW f, f = Top(t), f.n = 0, f.at \in FindAts, Return(t), Still, Others(t),
         Grip(f) = {}, ~ exc'[t], NEW o, o = ret'[t], Good(o), o.desc = f.d, f.at = "array" \/ o = table[f.l][f.d]
  PROVE  IInv'
  <1>2. stack' \in [Threads -> Seq(FrameRec)]
    BY ReturnFr DEF IInv, Rewrites
  <1>3. Types' /\ Quiet /\ Ctx(t)
    BY <1>2, StillCtx
  <1>4. Mon(t, Grip(f), {})
    BY DEF Mon, Still
  <1>5. NoneInitializes
    BY <1>3, QuietIni DEF NoneInitializes
  <1>6. waiting'[t] = NULL /\ table' = table
    BY TopFacts DEF Still
  <1>7. Good(o)' /\ o # NULL
    BY <1>3, GoodStable, ConstantsAssumption DEF Ctx, Good, IInv, Types
  <1>. QED BY <1>3, <1>4, <1>5, <1>6, <1>7, ClassReturn

(* FindClass goes on. *)
PlainFind == {"find", "ensure", "lock", "spin", "boot", "own", "java", "found", "define"}

LEMMA PlainFacts ==
  /\ PlainFind \subseteq FindAts /\ PlainFind \cap DefAts = {}
  /\ \A f : f.at \in PlainFind => Grip(f) = {}
  BY DEF PlainFind, FindAts, DefAts, Grip

LEMMA FindKin ==
  ASSUME NEW f, NEW g, f.at \in FindAts \ {"array"}, g.at \in FindAts \ {"array"}, g.d = f.d, g.l = f.l
  PROVE  Kin(f, g)
  BY FindAtFacts DEF Kin

LEMMA FreeAlone ==
  ASSUME NEW f, NEW g, g.at \notin DefAts \cup Ver2 \cup Ini2
  PROVE  Alone(f, g)
  BY DEF Alone

LEMMA PureFind ==
  ASSUME IInv, NEW t \in Threads, stack[t] # <<>>, NEW f, f = Top(t), f.n = 0, f.at \in PlainFind, NEW g \in FrameRec,
         Become(t, g), g.n = 0, g.at \in PlainFind, g.d = f.d, g.l = f.l, Still, Others(t),
         FrameOK(t, g), TopOK(t, g)'
  PROVE  IInv'
  <1>1. Kin(f, g) /\ Alone(f, g)
    BY FindKin, FreeAlone, FindAtFacts DEF PlainFind, FindAts, DefAts, Ver2, Ini2
  <1>2. Grip(g) = Grip(f) /\ f.at \notin Ini2
    BY PlainFacts, FindAtFacts
  <1>. QED BY <1>1, <1>2, PureBecome

(* FindClass calls itself, or one of its parts. *)
LEMMA PureFindCall ==
  ASSUME IInv, NEW t \in Threads, stack[t] # <<>>, NEW f, f = Top(t), f.n = 0, f.at \in PlainFind,
         NEW at \in PlainFind, NEW u \in FrameRec, u.at \in PlainFind \cup {"array"}, u.n = 0, u.d = f.d,
         Call(t, <<u>>, at), Still, Others(t), NEW g, g = Onward(f, at),
         FrameOK(t, g), FrameOK(t, u), LinkOK(g, u)', TopOK(t, u)'
  PROVE  IInv'
  <1>1. f \in FrameRec /\ f.d \in Descs
    BY TopFacts
  <1>2. at \in Ats
    BY PlainFacts, FindAtFacts
  <1>3. g \in FrameRec /\ g.at = at /\ g.d = f.d /\ g.l = f.l /\ g.n = 0 /\ g.k = f.k
    BY <1>1, <1>2, CallerFrame
  <1>4. Kin(f, g) /\ Alone(f, g)
    BY <1>3, FindKin, FreeAlone DEF PlainFind, FindAts, DefAts, Ver2, Ini2
  <1>5. Push(f, u) /\ Calls(f, g, u)
    <2>1. f.d \in Behind[f.d]
      BY <1>1, BehindFacts
    <2>. QED BY <1>3, <2>1 DEF PlainFind, Push, Calls, Grip, DefAts, VerAts, Ver2, Ini2, IfaceAts
  <1>6. Grip(g) = Grip(f) /\ f.at \notin Ini2
    BY <1>3 DEF PlainFind, Grip, DefAts, Ini2
  <1>. QED BY <1>2, <1>4, <1>5, <1>6, PureCall

(* FindClass goes on from an entry of a table. *)
LEMMA EnsureFrame ==
  ASSUME Types, Objects, Tables, NEW t \in Threads, NEW l \in Loaders, NEW d \in Descs, NEW o, o = table[l][d], o # NULL,
         NEW g, g = Frame("ensure", d, l, o)
  PROVE  /\ g \in FrameRec /\ g.at = "ensure" /\ g.d = d /\ g.l = l /\ g.k = o /\ g.i = 0 /\ g.n = 0
         /\ FrameOK(t, g)
  <1>1. o \in DOMAIN cls /\ o \in Classes /\ o.desc = d /\ (o.loader # l => Status(o) \in Res)
    BY DEF Types, Tables, TableOK
  <1>2. g \in FrameRec /\ g.at = "ensure" /\ g.d = d /\ g.l = l /\ g.k = o /\ g.i = 0 /\ g.n = 0
    <2>1. "ensure" \in Ats /\ o \in Classes \cup {NULL}
      BY <1>1 DEF Ats, FindAts
    <2>. QED BY <2>1, NewFrame
  <1>3. IsTemp(o) => o.loader = l
    BY <1>1 DEF Objects, ObjectOK, StatusOK, Res
  <1>4. FindFrame(g)
    BY <1>1, <1>2, <1>3 DEF FindFrame
  <1>. QED BY <1>1, <1>2, <1>4 DEF FrameOK, KAts, OfAts, DefAts, VerAts, Ver2, IniAts, Ini2, IfaceAts

LEMMA PlainFrame ==
  ASSUME NEW t \in Threads, NEW g \in FrameRec, g.at \in {"find", "boot", "own", "java", "found", "define", "array"},
         FindFrame(g)
  PROVE  FrameOK(t, g)
  BY DEF FrameOK, KAts, OfAts, DefAts, VerAts, Ver2, IniAts, Ini2, IfaceAts

LEMMA UseFrame ==
  ASSUME NEW t \in Threads, NEW g \in FrameRec, g.at \in {"use", "caller"}
  PROVE  FrameOK(t, g)
  BY DEF FrameOK, FindFrame, KAts, OfAts, DefAts, VerAts, Ver2, IniAts, Ini2, IfaceAts

-----------------------------------------------------------------------------
(* The actions of FindClass *)

LEMMA AtTop ==
  ASSUME NEW t, NEW at, At(t, at)
  PROVE  stack[t] # <<>> /\ Top(t).at = at /\ Top(t).n = 0
  BY DEF At

LEMMA GotoFacts ==
  ASSUME IInv, NEW t \in Threads, stack[t] # <<>>, NEW f, f = Top(t), NEW at \in Ats, Goto(t, at)
  PROVE  \E g \in FrameRec : /\ Become(t, g) /\ g.at = at /\ g.d = f.d /\ g.l = f.l /\ g.k = f.k
                             /\ g.i = f.i /\ g.n = f.n
  <1>1. PICK g : g = [f EXCEPT !.at = at]
    OBVIOUS
  <1>2. f \in FrameRec
    BY TopFacts
  <1>3. Become(t, g)
    BY <1>1 DEF Goto
  <1>. QED BY <1>1, <1>2, <1>3, GotoFrame

LEMMA UnchangedOthers ==
  ASSUME Types, UNCHANGED <<ret, exc>>, DOMAIN cls \subseteq DOMAIN cls', NEW t \in Threads
  PROVE  Others(t) /\ ret'[t] = ret[t] /\ exc'[t] = exc[t]
  BY DEF Types, Others

LEMMA StillFacts ==
  ASSUME Types, UNCHANGED <<cls, table, waiting, spurious, aborted, history>>, UNCHANGED faults \/ Fail
  PROVE  /\ Still /\ (Fail => faults' < MaxFaults) /\ table' = table /\ cls' = cls /\ waiting' = waiting
         /\ DOMAIN cls \subseteq DOMAIN cls'
  BY ConstantsAssumption DEF Still, Types, history, Fail

LEMMA FindClassStep ==
  ASSUME IInv, NEW t \in Threads, FindClass(t)
  PROVE  IInv'
  <1>0. PICK f : f = Top(t)
    OBVIOUS
  <1>1. stack[t] # <<>> /\ f.at = "find" /\ f.n = 0
    BY <1>0, AtTop DEF FindClass
  <1>2. FrameOK(t, f) /\ f \in FrameRec /\ f.d \in Descs /\ f.l \in Loaders /\ waiting[t] = NULL /\ ~ exc[t]
        /\ f.i \in Nat /\ f.k \in Classes \cup {NULL}
    BY <1>0, <1>1, TopFacts DEF Handlers
  <1>3. Still /\ table' = table /\ waiting' = waiting /\ cls' = cls /\ DOMAIN cls \subseteq DOMAIN cls'
    BY StillFacts DEF FindClass, IInv, bounds
  <1>4. PICK o : o = table[f.l][f.d]
    OBVIOUS
  <1>5. "find" \in PlainFind /\ "find" \in FindAts /\ Grip(f) = {}
    BY <1>1, PlainFacts DEF PlainFind
  <1>6. CASE o # NULL /\ Become(t, Ensure(o, f)) /\ UNCHANGED <<ret, exc>>
    <2>1. PICK g : g = Frame("ensure", f.d, f.l, o) /\ Become(t, g)
      BY <1>6 DEF Ensure
    <2>2. /\ g \in FrameRec /\ g.at = "ensure" /\ g.d = f.d /\ g.l = f.l /\ g.n = 0 /\ FrameOK(t, g)
      BY <1>2, <1>4, <1>6, <2>1, EnsureFrame DEF IInv
    <2>3. Others(t) /\ exc'[t] = exc[t]
      BY <1>3, <1>6, UnchangedOthers DEF IInv
    <2>4. TopOK(t, g)'
      BY <1>2, <1>3, <2>2, <2>3, PlainTop DEF Handlers
    <2>. QED BY <1>0, <1>1, <1>3, <1>5, <2>1, <2>2, <2>3, <2>4, PureFind DEF PlainFind
  <1>7. CASE /\ o = NULL /\ f.d \in Arrays
             /\ Call(t, <<Frame("array", f.d, f.l, NULL)>>, "found") /\ UNCHANGED <<ret, exc>>
    <2>1. PICK u, g : u = Frame("array", f.d, f.l, NULL) /\ g = Onward(f, "found")
      OBVIOUS
    <2>2. "array" \in Ats /\ "found" \in Ats /\ NULL \in Classes \cup {NULL}
      BY DEF Ats, FindAts
    <2>3. u \in FrameRec /\ u.at = "array" /\ u.d = f.d /\ u.l = f.l /\ u.i = 0 /\ u.n = 0
      BY <1>2, <2>1, <2>2, NewFrame
    <2>4. g \in FrameRec /\ g.at = "found" /\ g.d = f.d /\ g.l = f.l /\ g.n = 0 /\ g.k = f.k
      BY <1>1, <1>2, <2>1, <2>2, CallerFrame
    <2>5. FrameOK(t, u) /\ FrameOK(t, g)
      <3>1. FindFrame(u) /\ FindFrame(g)
        BY <1>7, <2>3, <2>4 DEF FindFrame
      <3>. QED BY <2>3, <2>4, <3>1, PlainFrame
    <2>6. Others(t) /\ exc'[t] = exc[t]
      BY <1>3, <1>7, UnchangedOthers DEF IInv
    <2>9. LinkOK(g, u)'
      BY <2>3, <2>4 DEF LinkOK, Handlers, FindAts
    <2>10. TopOK(t, u)'
      BY <1>2, <1>3, <2>3, <2>6 DEF TopOK, Handlers
    <2>. QED BY <1>0, <1>1, <1>3, <1>7, <2>1, <2>3, <2>5, <2>6, <2>9, <2>10, PureFindCall DEF PlainFind
  <1>8. CASE /\ o = NULL /\ f.d \notin Arrays /\ f.l = App /\ Goto(t, "boot") /\ UNCHANGED <<ret, exc>>
    <2>1. PICK g \in FrameRec : /\ Become(t, g) /\ g.at = "boot" /\ g.d = f.d /\ g.l = f.l /\ g.n = 0
      BY <1>0, <1>1, <1>8, GotoFacts DEF Ats, FindAts
    <2>2. FrameOK(t, g)
      BY <1>8, <2>1, PlainFrame DEF FindFrame
    <2>3. Others(t) /\ exc'[t] = exc[t]
      BY <1>3, <1>8, UnchangedOthers DEF IInv
    <2>4. TopOK(t, g)'
      BY <1>2, <1>3, <2>1, <2>3, PlainTop DEF Handlers
    <2>. QED BY <1>0, <1>1, <1>3, <1>5, <2>1, <2>2, <2>3, <2>4, PureFind DEF PlainFind
  <1>9. CASE /\ o = NULL /\ f.d \in Path[Boot] \ Arrays /\ f.l = Boot
             /\ Goto(t, "define") /\ UNCHANGED <<ret, exc>>
    <2>1. PICK g \in FrameRec : /\ Become(t, g) /\ g.at = "define" /\ g.d = f.d /\ g.l = f.l /\ g.n = 0
      BY <1>0, <1>1, <1>9, GotoFacts DEF Ats, FindAts
    <2>2. FrameOK(t, g)
      BY <1>9, <2>1, PlainFrame DEF FindFrame
    <2>3. Others(t) /\ exc'[t] = exc[t]
      BY <1>3, <1>9, UnchangedOthers DEF IInv
    <2>4. TopOK(t, g)'
      BY <1>2, <1>3, <2>1, <2>3, PlainTop DEF Handlers
    <2>. QED BY <1>0, <1>1, <1>3, <1>5, <2>1, <2>2, <2>3, <2>4, PureFind DEF PlainFind
  <1>10. CASE o = NULL /\ f.d \notin Path[Boot] \cup Arrays /\ f.l = Boot /\ ReturnNull(t)
    <2>1. Dead(f.l, f.d)'
      BY <1>3, <1>4, <1>10 DEF Dead
    <2>. QED BY <1>0, <1>1, <1>3, <1>5, <1>10, <2>1, PureNull
  <1>. QED BY <1>0, <1>4, <1>6, <1>7, <1>8, <1>9, <1>10 DEF FindClass

LEMMA FindClassInBaseDexClassLoaderStep ==
  ASSUME IInv, NEW t \in Threads, FindClassInBaseDexClassLoader(t)
  PROVE  IInv'
  <1>0. PICK f : f = Top(t)
    OBVIOUS
  <1>1. stack[t] # <<>> /\ f.at \in {"boot", "own"} /\ f.n = 0
    BY <1>0, AtTop DEF FindClassInBaseDexClassLoader
  <1>2. /\ FrameOK(t, f) /\ TopOK(t, f) /\ f \in FrameRec /\ f.d \in Descs /\ f.l \in Loaders /\ waiting[t] = NULL
        /\ f.i \in Nat /\ f.k \in Classes \cup {NULL} /\ (f.at = "boot" => ~ exc[t])
    BY <1>0, <1>1, TopFacts DEF Handlers
  <1>3. /\ f.l = App /\ f.d \notin Arrays /\ FindFrame(f)
    BY <1>1, <1>2 DEF FrameOK, FindFrame
  <1>4. Still /\ table' = table /\ waiting' = waiting /\ cls' = cls /\ DOMAIN cls \subseteq DOMAIN cls'
    BY StillFacts DEF FindClassInBaseDexClassLoader, IInv, bounds
  <1>5. /\ "boot" \in PlainFind /\ "own" \in PlainFind /\ "found" \in PlainFind /\ "java" \in PlainFind /\ f.at \in PlainFind
        /\ PlainFind \subseteq Ats /\ "define" \in PlainFind /\ "ensure" \in PlainFind /\ Boot \in Loaders /\ App \in Loaders
        /\ "own" \in Ats /\ "java" \in Ats
    BY <1>1 DEF PlainFind, Ats, FindAts, Loaders
  <1>6. PICK b : b = table[Boot][f.d]
    OBVIOUS
  <1>7. CASE /\ At(t, "boot") /\ f.d \in Path[Boot]
             /\ Call(t, <<IF b # NULL THEN Frame("ensure", f.d, Boot, b)
                          ELSE Frame("define", f.d, Boot, NULL)>>, "own")
             /\ UNCHANGED <<ret, exc>>
    <2>1. PICK u, g : /\ u = IF b # NULL THEN Frame("ensure", f.d, Boot, b) ELSE Frame("define", f.d, Boot, NULL)
                      /\ g = Onward(f, "own")
      OBVIOUS
    <2>2. /\ u \in FrameRec /\ u.at \in {"ensure", "define"} /\ u.d = f.d /\ u.l = Boot /\ u.n = 0 /\ FrameOK(t, u)
      <3>1. CASE b # NULL
        BY <1>2, <1>5, <1>6, <2>1, <3>1, EnsureFrame DEF IInv
      <3>2. CASE b = NULL
        <4>1. /\ u \in FrameRec /\ u.at = "define" /\ u.d = f.d /\ u.l = Boot /\ u.n = 0
          BY <1>2, <1>5, <2>1, <3>2, NewFrame
        <4>2. FindFrame(u)
          BY <1>3, <1>7, <4>1 DEF FindFrame
        <4>. QED BY <4>1, <4>2, PlainFrame
      <3>. QED BY <3>1, <3>2
    <2>3. g \in FrameRec /\ g.at = "own" /\ g.d = f.d /\ g.l = f.l /\ g.n = 0
      <3>1. f \in FrameRec /\ f.n = 0 /\ "own" \in Ats
        BY <1>1, <1>2, <1>5
      <3>. QED BY <2>1, <3>1, CallerFrame
    <2>4. FrameOK(t, g)
      BY <1>3, <2>3, PlainFrame DEF FindFrame
    <2>5. Others(t) /\ exc'[t] = exc[t]
      BY <1>4, <1>7, UnchangedOthers DEF IInv
    <2>6. LinkOK(g, u)'
      BY <2>2, <2>3 DEF LinkOK, Handlers, FindAts
    <2>7. ~ exc[t]
      BY <1>0, <1>2, <1>7, AtTop
    <2>8. TopOK(t, u)'
      BY <1>2, <1>4, <2>2, <2>5, <2>7, PlainTop DEF Handlers
    <2>9. Call(t, <<u>>, "own") /\ u.at \in PlainFind \cup {"array"}
      BY <1>5, <1>7, <2>1, <2>2
    <2>. QED BY <1>0, <1>1, <1>4, <1>5, <2>1, <2>2, <2>4, <2>5, <2>6, <2>8, <2>9, PureFindCall
  <1>8. CASE /\ At(t, "boot") /\ f.d \notin Path[Boot]
             /\ Goto(t, "own") /\ ret' = [ret EXCEPT ![t] = NULL] /\ UNCHANGED exc
    <2>1. PICK g \in FrameRec : /\ Become(t, g) /\ g.at = "own" /\ g.d = f.d /\ g.l = f.l /\ g.n = 0
      BY <1>0, <1>1, <1>5, <1>8, GotoFacts
    <2>2. FrameOK(t, g)
      BY <1>3, <2>1, PlainFrame DEF FindFrame
    <2>3. Others(t) /\ ret'[t] = NULL /\ exc' = exc
      BY <1>4, <1>8, OthersFacts DEF IInv
    <2>4. ~ exc[t]
      BY <1>0, <1>2, <1>8, AtTop
    <2>5. TopOK(t, g)'
      BY <1>2, <1>4, <2>1, <2>3, <2>4 DEF TopOK, Handlers
    <2>. QED BY <1>0, <1>1, <1>4, <1>5, <2>1, <2>2, <2>3, <2>5, PureFind
  <1>9. CASE At(t, "own") /\ ret[t] # NULL /\ Goto(t, "found") /\ UNCHANGED <<ret, exc>>
    <2>0. f.at = "own"
      BY <1>0, <1>9, AtTop
    <2>1. PICK g \in FrameRec : /\ Become(t, g) /\ g.at = "found" /\ g.d = f.d /\ g.l = f.l /\ g.n = 0
      BY <1>0, <1>1, <1>5, <1>9, GotoFacts
    <2>2. FrameOK(t, g)
      BY <1>3, <2>1, PlainFrame DEF FindFrame
    <2>3. Others(t) /\ ret'[t] = ret[t] /\ exc'[t] = exc[t]
      BY <1>4, <1>9, UnchangedOthers DEF IInv
    <2>4. Good(ret[t]) /\ ret[t].desc = f.d /\ ~ exc[t]
      BY <1>2, <1>9, <2>0 DEF TopOK
    <2>5. Good(ret[t])'
      BY <1>4, <2>3, <2>4 DEF Good, Status
    <2>6. TopOK(t, g)'
      BY <1>2, <1>4, <1>9, <2>1, <2>3, <2>4, <2>5 DEF TopOK, Handlers
    <2>. QED BY <1>0, <1>1, <1>4, <1>5, <2>1, <2>2, <2>3, <2>6, PureFind
  <1>10. CASE /\ At(t, "own") /\ ret[t] = NULL
              /\ IF f.d \in Path[App] THEN Call(t, <<Frame("define", f.d, App, NULL)>>, "java")
                 ELSE Goto(t, "java")
              /\ exc' = [exc EXCEPT ![t] = FALSE] /\ UNCHANGED ret
    <2>1. Others(t) /\ ret'[t] = NULL /\ ~ exc'[t]
      BY <1>4, <1>10, OthersFacts DEF IInv
    <2>2. CASE f.d \in Path[App]
      <3>1. PICK u, g : u = Frame("define", f.d, App, NULL) /\ g = Onward(f, "java")
        OBVIOUS
      <3>2. u \in FrameRec /\ u.at = "define" /\ u.d = f.d /\ u.l = App /\ u.n = 0
        BY <1>2, <1>5, <3>1, NewFrame
      <3>3. g \in FrameRec /\ g.at = "java" /\ g.d = f.d /\ g.l = f.l /\ g.n = 0
        <4>1. f \in FrameRec /\ f.n = 0 /\ "java" \in Ats
          BY <1>1, <1>2, <1>5
        <4>. QED BY <3>1, <4>1, CallerFrame
      <3>4. FrameOK(t, g) /\ FrameOK(t, u)
        <4>1. FindFrame(u) /\ FindFrame(g)
          BY <1>3, <2>2, <3>2, <3>3 DEF FindFrame
        <4>. QED BY <3>2, <3>3, <4>1, PlainFrame
      <3>5. LinkOK(g, u)'
        BY <1>3, <3>2, <3>3 DEF LinkOK, Handlers, FindAts
      <3>6. TopOK(t, u)'
        BY <1>2, <1>4, <2>1, <3>2, PlainTop DEF Handlers
      <3>. QED BY <1>0, <1>1, <1>4, <1>5, <1>10, <2>1, <2>2, <3>1, <3>2, <3>4, <3>5, <3>6, PureFindCall
    <2>3. CASE f.d \notin Path[App]
      <3>1. PICK g \in FrameRec : /\ Become(t, g) /\ g.at = "java" /\ g.d = f.d /\ g.l = f.l /\ g.n = 0
        BY <1>0, <1>1, <1>5, <1>10, <2>3, GotoFacts
      <3>2. FrameOK(t, g)
        BY <1>3, <3>1, PlainFrame DEF FindFrame
      <3>3. TopOK(t, g)'
        BY <1>2, <1>3, <1>4, <2>1, <2>3, <3>1 DEF TopOK, Handlers
      <3>. QED BY <1>0, <1>1, <1>4, <1>5, <2>1, <3>1, <3>2, <3>3, PureFind
    <2>. QED BY <2>2, <2>3
  <1>. QED BY <1>0, <1>6, <1>7, <1>8, <1>9, <1>10 DEF FindClassInBaseDexClassLoader

LEMMA LoadClassInJavaStep ==
  ASSUME IInv, NEW t \in Threads, LoadClassInJava(t)
  PROVE  IInv'
  <1>0. PICK f : f = Top(t)
    OBVIOUS
  <1>1. stack[t] # <<>> /\ f.at = "java" /\ f.n = 0
    BY <1>0, AtTop DEF LoadClassInJava
  <1>2. /\ FrameOK(t, f) /\ TopOK(t, f) /\ f \in FrameRec /\ f.d \in Descs /\ f.l \in Loaders /\ waiting[t] = NULL
    BY <1>0, <1>1, TopFacts
  <1>3. /\ f.l = App /\ f.d \notin Arrays
    BY <1>1, <1>2 DEF FrameOK, FindFrame
  <1>4. Still /\ table' = table /\ waiting' = waiting /\ cls' = cls /\ DOMAIN cls \subseteq DOMAIN cls'
    BY StillFacts DEF LoadClassInJava, IInv, bounds
  <1>5. "found" \in PlainFind /\ f.at \in PlainFind /\ "found" \in Ats
    BY <1>1 DEF PlainFind, Ats, FindAts
  <1>6. PICK g \in FrameRec : /\ Become(t, g) /\ g.at = "found" /\ g.d = f.d /\ g.l = f.l /\ g.n = 0
    BY <1>0, <1>1, <1>5, GotoFacts DEF LoadClassInJava
  <1>7. FrameOK(t, g)
    BY <1>3, <1>6, PlainFrame DEF FindFrame
  <1>8. PICK o : o = table[App][f.d]
    OBVIOUS
  <1>9. CASE ret[t] # NULL /\ UNCHANGED <<ret, exc>>
    <2>3. Others(t) /\ ret'[t] = ret[t] /\ exc'[t] = exc[t]
      BY <1>4, <1>9, UnchangedOthers DEF IInv
    <2>4. Good(ret[t]) /\ ret[t].desc = f.d /\ ~ exc[t]
      BY <1>1, <1>2, <1>9 DEF TopOK
    <2>5. Good(ret[t])'
      BY <1>4, <2>3, <2>4 DEF Good, Status
    <2>6. TopOK(t, g)'
      BY <1>2, <1>4, <1>6, <1>9, <2>3, <2>4, <2>5 DEF TopOK, Handlers
    <2>. QED BY <1>0, <1>1, <1>4, <1>5, <1>6, <1>7, <2>3, <2>6, PureFind
  <1>10. CASE ret[t] = NULL /\ Throw(t) /\ UNCHANGED ret
    <2>1. Others(t) /\ ret'[t] = NULL /\ exc'[t]
      BY <1>4, <1>10, OthersFacts DEF IInv, Throw
    <2>2. table'[f.l][f.d] # NULL \/ f.d \notin Path[f.l] \/ f.d \in Arrays \/ <<f.l, f.d>> \in denied'
      BY <1>1, <1>2, <1>4, <1>10 DEF TopOK, Still
    <2>3. TopOK(t, g)'
      BY <1>2, <1>4, <1>6, <2>1, <2>2 DEF TopOK, Handlers
    <2>. QED BY <1>0, <1>1, <1>4, <1>5, <1>6, <1>7, <2>1, <2>3, PureFind
  <1>11. CASE /\ ret[t] = NULL /\ o # NULL
              /\ IsResolved(o) /\ ~ IsErroneous(o)
              /\ ret' = [ret EXCEPT ![t] = o] /\ exc' = [exc EXCEPT ![t] = FALSE]
    <2>0. o \in DOMAIN cls /\ o.desc = f.d
      BY <1>2, <1>3, <1>8, <1>11 DEF IInv, Types, Tables, TableOK
    <2>1. Others(t) /\ ret'[t] = o /\ ~ exc'[t]
      BY <1>4, <1>11, <2>0, OthersFacts DEF IInv
    <2>2. Good(o)
      BY <1>11, <2>0 DEF Good, IsResolved, Res, IInv, Objects, ObjectOK, StatusOK
    <2>3. Good(o)'
      BY <1>4, <2>2 DEF Good, Status
    <2>4. TopOK(t, g)'
      BY <1>2, <1>4, <1>6, <1>11, <2>0, <2>1, <2>3 DEF TopOK, Handlers
    <2>. QED BY <1>0, <1>1, <1>4, <1>5, <1>6, <1>7, <2>1, <2>4, PureFind
  <1>. QED BY <1>0, <1>8, <1>9, <1>10, <1>11 DEF LoadClassInJava

-----------------------------------------------------------------------------
(* What the steps do to the class objects *)

Map(c) == c \in [DOMAIN c -> ClassRec] /\ DOMAIN c \subseteq Classes /\ IsFiniteSet(DOMAIN c)

(* The objects of e are those of c, but for o. *)
Alters(c, e, o) ==
  DOMAIN e = DOMAIN c /\ Map(e) /\ o \in DOMAIN e /\ \A x \in DOMAIN c : x # o => e[x] = c[x]
SameStatus(r, s) == r.status = s.status /\ r.tid = s.tid /\ r.up = s.up /\ r.ift = s.ift /\ r.done = s.done
SameMonitor(r, s) == r.owner = s.owner /\ r.count = s.count

LEMMA AltersFacts ==
  ASSUME NEW c, Map(c), NEW o \in DOMAIN c, NEW r \in ClassRec, NEW e, e = [c EXCEPT ![o] = r]
  PROVE  Alters(c, e, o) /\ e[o] = r
  BY DEF Alters, Map

LEMMA LockFacts ==
  ASSUME NEW c, Map(c), NEW o \in DOMAIN c, NEW t \in Threads, NEW e, e = Lock(c, t, o)
  PROVE  Alters(c, e, o) /\ SameStatus(e[o], c[o]) /\ e[o].owner = t /\ e[o].count = c[o].count + 1
  <1>1. PICK m : m = c[o].count + 1
    OBVIOUS
  <1>2. m \in Nat /\ t \in Threads \cup {NULL} /\ c[o] \in ClassRec /\ c \in [DOMAIN c -> ClassRec]
    BY <1>1 DEF ClassRec, Map
  <1>3. e = [c EXCEPT ![o] = [@ EXCEPT !.owner = t, !.count = m]]
    BY <1>1, <1>2, Zenon DEF Lock, ClassRec
  <1>4. PICK r : r = [c[o] EXCEPT !.owner = t, !.count = m]
    OBVIOUS
  <1>5. r \in ClassRec /\ r.owner = t /\ r.count = m /\ SameStatus(r, c[o])
    BY <1>2, <1>4, Zenon DEF ClassRec, SameStatus
  <1>6. e = [c EXCEPT ![o] = r]
    BY <1>3, <1>4, Zenon
  <1>7. Alters(c, e, o) /\ e[o] = r
    BY <1>5, <1>6, AltersFacts
  <1>. QED BY <1>1, <1>5, <1>7

LEMMA UnlockFacts ==
  ASSUME NEW c, Map(c), NEW o \in DOMAIN c, c[o].count > 0, NEW e, e = Unlock(c, o)
  PROVE  /\ Alters(c, e, o) /\ SameStatus(e[o], c[o])
         /\ e[o].owner = (IF c[o].count = 1 THEN NULL ELSE c[o].owner) /\ e[o].count = c[o].count - 1
  <1>1. PICK m, w : m = c[o].count - 1 /\ w = IF c[o].count = 1 THEN NULL ELSE c[o].owner
    OBVIOUS
  <1>2. m \in Nat /\ w \in Threads \cup {NULL} /\ c[o] \in ClassRec /\ c \in [DOMAIN c -> ClassRec]
    BY <1>1 DEF ClassRec, Map
  <1>3. e = [c EXCEPT ![o] = [@ EXCEPT !.owner = w, !.count = m]]
    BY <1>1, <1>2, Zenon DEF Unlock, ClassRec
  <1>4. PICK r : r = [c[o] EXCEPT !.owner = w, !.count = m]
    OBVIOUS
  <1>5. r \in ClassRec /\ r.owner = w /\ r.count = m /\ SameStatus(r, c[o])
    BY <1>2, <1>4, Zenon DEF ClassRec, SameStatus
  <1>6. e = [c EXCEPT ![o] = r]
    BY <1>3, <1>4, Zenon
  <1>7. Alters(c, e, o) /\ e[o] = r
    BY <1>5, <1>6, AltersFacts
  <1>. QED BY <1>1, <1>5, <1>7

LEMMA SetFacts ==
  ASSUME NEW c, Map(c), NEW o \in DOMAIN c, NEW s \in Statuses, NEW e, e = Set(c, o, s)
  PROVE  /\ Alters(c, e, o) /\ SameMonitor(e[o], c[o]) /\ e[o].status = s /\ e[o].tid = c[o].tid
         /\ e[o].up = c[o].up /\ e[o].ift = c[o].ift /\ e[o].done = c[o].done
  <1>1. PICK r : r = [c[o] EXCEPT !.status = s]
    OBVIOUS
  <1>2. c[o] \in ClassRec /\ c \in [DOMAIN c -> ClassRec]
    BY DEF Map
  <1>3. /\ r \in ClassRec /\ SameMonitor(r, c[o]) /\ r.status = s /\ r.tid = c[o].tid
        /\ r.up = c[o].up /\ r.ift = c[o].ift /\ r.done = c[o].done
    BY <1>1, <1>2 DEF ClassRec, SameMonitor
  <1>4. e = [c EXCEPT ![o] = r]
    BY <1>1, <1>2, Zenon DEF Set
  <1>5. Alters(c, e, o) /\ e[o] = r
    BY <1>3, <1>4, AltersFacts
  <1>. QED BY <1>3, <1>5

(* The objects of e are those of c, and k. *)
Adds(c, e, k, r) ==
  DOMAIN e = DOMAIN c \cup {k} /\ Map(e) /\ e[k] = r /\ \A x \in DOMAIN c : x # k => e[x] = c[x]

LEMMA AllocFacts ==
  ASSUME NEW c, Map(c), NEW k \in Classes, NEW r \in ClassRec, NEW e, e = Alloc(c, k, r)
  PROVE  Adds(c, e, k, r)
  <1>1. DOMAIN e = DOMAIN c \cup {k} /\ e[k] = r /\ \A x \in DOMAIN c : x # k => e[x] = c[x]
    BY DEF Alloc
  <1>2. e \in [DOMAIN c \cup {k} -> ClassRec]
    BY DEF Alloc, Map
  <1>3. IsFiniteSet(DOMAIN c \cup {k})
    BY FS_AddElement DEF Map
  <1>. QED BY <1>1, <1>2, <1>3 DEF Map, Adds

Made(r, w, s, p) ==
  /\ r \in ClassRec /\ r.status = s /\ r.tid = w /\ r.up = p /\ r.ift = {} /\ r.done = FALSE
  /\ r.owner = NULL /\ r.count = 0

LEMMA NewClassFacts ==
  ASSUME NEW w \in Threads \cup {NULL}, NEW s \in Statuses, NEW p \in Seq(Classes), NEW r, r = NewClass(w, s, p)
  PROVE  Made(r, w, s, p)
  BY DEF NewClass, ClassRec, Made

LEMMA ClsMap ==
  ASSUME Types
  PROVE  Map(cls)
  BY DEF Types, Map

(* Only the objects of K change, and what the other threads have is not among them. *)
Apart(f, K) ==
  /\ f.at \in DefAts => f.k \notin K /\ Copy(f.k) \notin K
  /\ f.at \in Ver2 \cup Ini2 => f.k \notin K

LEMMA LowerInStack ==
  ASSUME Types, Stacks, NEW t \in Threads, NEW f, Lower(t, f)
  PROVE  InStack(t, f)
  <1>1. PICK b \in 1 .. Depth(t) - 1 : Fr(t, b) = f
    BY DEF Lower
  <1>2. b \in 1 .. Depth(t)
    BY <1>1, InStackFacts
  <1>. QED BY <1>1, <1>2 DEF InStack

LEMMA TouchCtx ==
  ASSUME IInv, Types', Grows, NEW K, Touches(K), NEW t \in Threads, given' = given, ran' = ran, Aborts',
         \A o \in DOMAIN cls' : o \in K => ObjectOK(o)',
         \A o \in DOMAIN cls : o \notin K /\ Copy(o) \in DOMAIN cls' =>
           Copy(o) \in DOMAIN cls \/ table'[o.loader][o.desc].gen = "copy",
         \A l \in Loaders, d \in Descs :
           table'[l][d] # NULL /\ table'[l][d] # table[l][d] =>
             /\ table'[l][d].desc = d
             /\ table'[l][d].loader # l => Status(table[l][d])' \in Res,
         \A u \in Threads : u # t => ret'[u] = ret[u] /\ exc'[u] = exc[u] /\ Wakes(u),
         \A u \in Threads : \A f : u # t /\ InStack(u, f) => Apart(f, K),
         \A f : Lower(t, f) => Own(t, f) \/ Apart(f, K)
  PROVE  Ctx(t)
  <1>1. Objects'
    <2>1. ASSUME NEW o \in DOMAIN cls', o \notin K PROVE ObjectOK(o)'
      <3>1. o \in DOMAIN cls /\ Kept(o)
        BY <2>1 DEF Touches
      <3>. QED BY <2>1, <3>1, ObjectStable DEF IInv
    <2>. QED BY <2>1 DEF Objects
  <1>2. Tables'
    <2>1. ASSUME NEW l \in Loaders, NEW d \in Descs PROVE TableOK(l, d)'
      BY <2>1, TableStable DEF IInv
    <2>. QED BY <2>1 DEF Tables
  <1>3. ASSUME NEW u \in Threads, NEW f, InStack(u, f), Apart(f, K) PROVE Own(u, f)
    <2>1. FrameOK(u, f)
      BY <1>3, InStackFacts DEF IInv
    <2>. QED BY <1>3, <2>1, OwnOther DEF Apart, IInv
  <1>4. \A f : Lower(t, f) => Own(t, f)
    BY <1>3, LowerInStack DEF IInv
  <1>. QED BY <1>1, <1>2, <1>3, <1>4 DEF Ctx

LEMMA FoundStep ==
  ASSUME IInv, NEW t \in Threads, Found(t)
  PROVE  IInv'
  <1>0. PICK f : f = Top(t)
    OBVIOUS
  <1>1. stack[t] # <<>> /\ f.at = "found" /\ f.n = 0
    BY <1>0, AtTop DEF Found
  <1>2. /\ FrameOK(t, f) /\ TopOK(t, f) /\ f \in FrameRec /\ f.d \in Descs /\ f.l \in Loaders /\ waiting[t] = NULL
    BY <1>0, <1>1, TopFacts
  <1>3. /\ f.at \in PlainFind /\ f.at \in FindAts /\ "ensure" \in PlainFind /\ Grip(f) = {}
    BY <1>1 DEF PlainFind, FindAts, Grip, DefAts
  <1>4. PICK old : old = table[f.l][f.d]
    OBVIOUS
  <1>5. PICK other : other = IF old = NULL THEN FALSE ELSE ~ IsErroneous(old)
    OBVIOUS
  <1>6. cls' = cls /\ waiting' = waiting /\ DOMAIN cls \subseteq DOMAIN cls' /\ aborted' = aborted
        /\ spurious' = spurious /\ faults' = faults /\ given' = given /\ ran' = ran /\ denied' = denied
    BY DEF Found, bounds, history
  <1>7. ASSUME table' = table PROVE Still
    BY <1>6, <1>7, StillFacts DEF IInv, history
  <1>8. ASSUME old # NULL, Become(t, Ensure(old, f)), table' = table, ~ exc'[t], Others(t)
        PROVE  IInv'
    <2>1. PICK g : g = Frame("ensure", f.d, f.l, old) /\ Become(t, g)
      BY <1>8 DEF Ensure
    <2>2. /\ g \in FrameRec /\ g.at = "ensure" /\ g.d = f.d /\ g.l = f.l /\ g.n = 0 /\ FrameOK(t, g)
      BY <1>2, <1>4, <1>8, <2>1, EnsureFrame DEF IInv
    <2>3. TopOK(t, g)'
      BY <1>2, <1>6, <1>8, <2>2, PlainTop DEF Handlers
    <2>. QED BY <1>0, <1>1, <1>3, <1>7, <1>8, <2>1, <2>2, <2>3, PureFind
  <1>9. CASE /\ exc[t] /\ other
             /\ Become(t, Ensure(old, f)) /\ exc' = [exc EXCEPT ![t] = FALSE]
             /\ UNCHANGED <<ret, table>>
    <2>1. old # NULL
      BY <1>5, <1>9
    <2>2. Others(t) /\ ~ exc'[t]
      BY <1>6, <1>9, OthersFacts DEF IInv
    <2>. QED BY <1>8, <1>9, <2>1, <2>2
  <1>10. CASE exc[t] /\ ~ other /\ ReturnNull(t) /\ UNCHANGED table
    <2>1. Dead(f.l, f.d)'
      <3>1. CASE old = NULL
        BY <1>1, <1>2, <1>4, <1>6, <1>10, <3>1 DEF TopOK, Dead
      <3>2. CASE old # NULL
        <4>1. old \in DOMAIN cls /\ IsErroneous(old)
          BY <1>2, <1>4, <1>5, <1>10, <3>2 DEF IInv, Types
        <4>2. IsTemp(old) => Status(old) = "ErrorUnresolved"
          BY <4>1 DEF IInv, Objects, ObjectOK, StatusOK, IsErroneous
        <4>. QED BY <1>4, <1>6, <1>10, <3>2, <4>2 DEF Dead, Status
      <3>. QED BY <3>1, <3>2
    <2>. QED BY <1>0, <1>1, <1>3, <1>7, <1>10, <2>1, PureNull
  <1>11. CASE /\ ~ exc[t] /\ old \in {NULL, ret[t]}
              /\ table' = [table EXCEPT ![f.l][f.d] = ret[t]]
              /\ Return(t) /\ UNCHANGED <<ret, exc>>
    <2>1. PICK o : o = ret[t]
      OBVIOUS
    <2>2. o # NULL /\ Good(o) /\ o.desc = f.d /\ o \in DOMAIN cls /\ ~ IsTemp(o) /\ Status(o) \in Res
      BY <1>1, <1>2, <1>11, <2>1 DEF TopOK, Good
    <2>3. stack' \in [Threads -> Seq(FrameRec)]
      BY <1>1, <1>11, ReturnFr DEF IInv, Rewrites
    <2>4. /\ table \in [Loaders -> [Descs -> DOMAIN cls \cup {NULL}]]
          /\ table' \in [Loaders -> [Descs -> DOMAIN cls \cup {NULL}]]
          /\ table'[f.l][f.d] = o
          /\ \A l \in Loaders, d \in Descs : l # f.l \/ d # f.d => table'[l][d] = table[l][d]
      <3>1. table \in [Loaders -> [Descs -> DOMAIN cls \cup {NULL}]]
        BY DEF IInv, Types
      <3>. QED BY <1>2, <1>11, <2>1, <2>2, <3>1
    <2>5. \A l \in Loaders, d \in Descs : table'[l][d] = table[l][d] \/ (l = f.l /\ d = f.d /\ table[l][d] = NULL /\ table'[l][d] = o)
      BY <1>2, <1>4, <1>11, <2>1, <2>4
    <2>6. Types'
      BY <1>6, <1>11, <2>3, <2>4 DEF IInv, Types
    <2>7. Grows
      <3>1. \A x \in DOMAIN cls : Evolves(x)
        BY <1>6 DEF Evolves, Status
      <3>2. \A l \in Loaders, d \in Descs : EntryEvolves(l, d)
        BY <2>2, <2>5 DEF EntryEvolves
      <3>. QED BY <1>6, <3>1, <3>2 DEF Grows, IInv, Types
    <2>8. Touches({})
      BY <1>6, <2>5 DEF Touches, Kept
    <2>9. Aborts'
      BY <1>6, <2>6, <2>7, AbortsStable DEF IInv
    <2>10. \A l \in Loaders, d \in Descs :
             table'[l][d] # NULL /\ table'[l][d] # table[l][d] =>
               /\ table'[l][d].desc = d
               /\ table'[l][d].loader # l => Status(table[l][d])' \in Res
      BY <1>6, <2>2, <2>5 DEF Status
    <2>11. \A u \in Threads : ret'[u] = ret[u] /\ exc'[u] = exc[u] /\ Wakes(u)
      BY <1>6, <1>11 DEF Wakes
    <2>12. \A g : Apart(g, {})
      BY DEF Apart
    <2>13. Ctx(t)
      BY <1>6, <2>6, <2>7, <2>8, <2>9, <2>10, <2>11, <2>12, TouchCtx
    <2>14. Mon(t, Grip(f), {})
      BY <1>3, <1>6 DEF Mon
    <2>15. NoneInitializes
      BY <1>6 DEF NoneInitializes, Status
    <2>16. Good(o)'
      BY <2>2, <2>7, GoodStable
    <2>. QED BY <1>0, <1>1, <1>2, <1>3, <1>6, <1>11, <2>1, <2>2, <2>4, <2>13, <2>14, <2>15, <2>16, ClassReturn
  <1>12. CASE /\ ~ exc[t] /\ old \notin {NULL, ret[t]}
              /\ Become(t, Ensure(old, f)) /\ UNCHANGED <<ret, exc, table>>
    <2>1. Others(t) /\ ~ exc'[t]
      BY <1>6, <1>12, UnchangedOthers DEF IInv
    <2>. QED BY <1>8, <1>12, <2>1
  <1>. QED BY <1>0, <1>4, <1>5, <1>9, <1>10, <1>11, <1>12 DEF Found

(* A class that is not in its table is not there at all. *)
LEMMA NotYet ==
  ASSUME Types, Objects, NEW k \in Classes, table[k.loader][k.desc] = NULL
  PROVE  k \notin DOMAIN cls /\ Copy(k) \notin DOMAIN cls /\ First(k) \notin DOMAIN cls
  <1>1. ASSUME NEW o \in DOMAIN cls, o.loader = k.loader, o.desc = k.desc PROVE FALSE
    BY <1>1, ConstantsAssumption DEF Objects, ObjectOK, EntryOK, Types
  <1>. QED BY <1>1, CopyFacts

LEMMA ClassFacts ==
  ASSUME NEW d \in Descs, NEW l \in Loaders, NEW t \in Threads, NEW gen \in {"first", "copy"}, NEW k, k = Class(d, l, t, gen)
  PROVE  k \in Classes /\ k.desc = d /\ k.loader = l /\ k.by = t /\ k.gen = gen /\ k # NULL
  BY ConstantsAssumption DEF Class, Classes

LEMMA CreateArrayClassStep ==
  ASSUME IInv, NEW t \in Threads, CreateArrayClass(t)
  PROVE  IInv'
  <1>0. PICK f : f = Top(t)
    OBVIOUS
  <1>1. stack[t] # <<>> /\ f.at = "array" /\ f.n = 0
    BY <1>0, AtTop DEF CreateArrayClass
  <1>2. /\ FrameOK(t, f) /\ TopOK(t, f) /\ f \in FrameRec /\ f.d \in Descs /\ f.l \in Loaders /\ waiting[t] = NULL
        /\ f.i \in Nat /\ f.k \in Classes \cup {NULL}
    BY <1>0, <1>1, TopFacts
  <1>3. f.d \in Arrays /\ Grip(f) = {} /\ f.at \in FindAts
    BY <1>1, <1>2 DEF FrameOK, FindFrame, Grip, DefAts, FindAts
  <1>4. PICK component \in Descs : component = Supers[f.d][1] /\ component \in Behind[f.d]
    <2>1. Supers[f.d] \in Seq(Descs) /\ Supers[f.d] # <<>>
      BY <1>2, <1>3, HierarchyAssumption
    <2>2. Supers[f.d][1] \in Descs /\ Supers[f.d][1] \in ToSet(Supers[f.d])
      BY <2>1 DEF ToSet
    <2>3. Supers[f.d][1] \in Behind[f.d]
      BY <1>2, <2>2, BehindFacts DEF Needs
    <2>. QED BY <2>2, <2>3
  <1>5. PICK c : c = IF ret[t] # NULL THEN ret[t] ELSE table[f.l][component]
    OBVIOUS
  <1>6. waiting' = waiting /\ aborted' = aborted /\ spurious' = spurious /\ given' = given /\ ran' = ran /\ denied' = denied
    BY DEF CreateArrayClass, history
  <1>7. CASE /\ f.i = 0 /\ Call(t, <<FindOf(component, f.l)>>, "array")
             /\ UNCHANGED <<cls, table, ret, exc, faults>>
    <2>1. PICK u, g : u = Frame("find", component, f.l, NULL) /\ g = Onward(f, "array") /\ Call(t, <<u>>, "array")
      BY <1>7 DEF FindOf
    <2>2. "array" \in Ats /\ "find" \in Ats /\ NULL \in Classes \cup {NULL}
      BY DEF Ats, FindAts
    <2>3. u \in FrameRec /\ u.at = "find" /\ u.d = component /\ u.l = f.l /\ u.n = 0
      BY <1>2, <2>1, <2>2, NewFrame
    <2>4. g \in FrameRec /\ g.at = "array" /\ g.d = f.d /\ g.l = f.l /\ g.n = 0 /\ g.k = f.k /\ g.i = 1
      BY <1>1, <1>2, <1>7, <2>1, <2>2, CallerFrame
    <2>5. FrameOK(t, u) /\ FrameOK(t, g)
      <3>1. FindFrame(u) /\ FindFrame(g)
        BY <1>3, <2>3, <2>4 DEF FindFrame
      <3>. QED BY <2>3, <2>4, <3>1, PlainFrame
    <2>6. Still /\ DOMAIN cls \subseteq DOMAIN cls'
      BY <1>6, <1>7, StillFacts DEF IInv, history
    <2>7. Others(t) /\ exc'[t] = exc[t]
      BY <1>7, <2>6, UnchangedOthers DEF IInv
    <2>8. ~ exc[t]
      BY <1>1, <1>2, <1>7 DEF TopOK
    <2>9. Kin(f, g) /\ Alone(f, g)
      BY <1>1, <2>4, FreeAlone DEF Kin, FindAts, DefAts, VerAts, IniAts, IfaceAts, Ver2, Ini2
    <2>10. Push(f, u) /\ Calls(f, g, u)
      BY <1>1, <1>4, <2>3, <2>4 DEF Push, Calls, Grip, DefAts, VerAts, Ver2, Ini2, IfaceAts
    <2>11. LinkOK(g, u)'
      BY <1>4, <2>3, <2>4 DEF LinkOK, Handlers, FindAts
    <2>12. TopOK(t, u)'
      BY <1>2, <1>6, <2>3, <2>7, <2>8, PlainTop DEF Handlers
    <2>13. Grip(g) = Grip(f) /\ f.at \notin Ini2
      BY <1>1, <2>4 DEF Grip, DefAts, Ini2
    <2>. QED BY <1>0, <1>1, <2>1, <2>2, <2>3, <2>5, <2>6, <2>7, <2>9, <2>10, <2>11, <2>12, <2>13, PureCall
  <1>8. CASE f.i = 1 /\ ReturnNull(t) /\ UNCHANGED <<cls, table>> /\ (UNCHANGED faults \/ Fail)
    <2>1. Still
      BY <1>6, <1>8, StillFacts DEF IInv, history
    <2>. QED BY <1>0, <1>1, <1>3, <1>8, <2>1, PureNull
  <1>9. ASSUME f.i = 1, c # NULL
        PROVE  c \in DOMAIN cls /\ c \in Classes /\ c.loader \in Loaders
               /\ (IsTemp(c) => Status(c) = "ErrorUnresolved" \/ <<c.loader, c.desc>> \in denied)
    <2>1. c \in DOMAIN cls /\ c \in Classes
      BY <1>2, <1>5, <1>9 DEF IInv, Types
    <2>2. IF ret[t] = NULL THEN Dead(f.l, component) ELSE Good(ret[t])
      BY <1>1, <1>2, <1>4, <1>9 DEF TopOK
    <2>3. ASSUME IsTemp(c) PROVE Status(c) = "ErrorUnresolved" \/ <<c.loader, c.desc>> \in denied
      <3>1. ret[t] = NULL /\ c = table[f.l][component] /\ Dead(f.l, component)
        BY <1>5, <2>2, <2>3 DEF Good
      <3>2. Status(c) \notin Res
        BY <2>1, <2>3 DEF IInv, Objects, ObjectOK, StatusOK, Res
      <3>3. c.loader = f.l /\ c.desc = component
        BY <1>2, <1>9, <3>1, <3>2 DEF IInv, Tables, TableOK
      <3>. QED BY <1>9, <2>3, <3>1, <3>3 DEF Dead
    <2>. QED BY <2>1, <2>3 DEF Classes
  <1>10. CASE /\ f.i = 1 /\ c # NULL /\ exc' = [exc EXCEPT ![t] = FALSE] /\ Return(t)
              /\ table[c.loader][f.d] # NULL /\ ret' = [ret EXCEPT ![t] = table[c.loader][f.d]]
              /\ UNCHANGED <<cls, table>> /\ UNCHANGED faults
    <2>1. PICK o : o = table[c.loader][f.d]
      OBVIOUS
    <2>2. o \in DOMAIN cls /\ o.desc = f.d
      BY <1>2, <1>9, <1>10, <2>1 DEF IInv, Types, Tables, TableOK
    <2>3. Good(o)
      BY <1>3, <2>2 DEF Good, IInv, Objects, ObjectOK, StatusOK, Res, IsTemp
    <2>4. Still /\ DOMAIN cls \subseteq DOMAIN cls' /\ cls' = cls
      BY <1>6, <1>10, StillFacts DEF IInv, history
    <2>5. Others(t) /\ ret'[t] = o /\ ~ exc'[t]
      BY <1>10, <2>1, <2>2, <2>4, OthersFacts DEF IInv
    <2>. QED BY <1>0, <1>1, <1>3, <1>10, <2>2, <2>3, <2>4, <2>5, PureClass
  <1>11. CASE /\ f.i = 1 /\ c # NULL /\ exc' = [exc EXCEPT ![t] = FALSE] /\ Return(t)
              /\ table[c.loader][f.d] = NULL /\ ret' = [ret EXCEPT ![t] = Class(f.d, c.loader, t, "first")]
              /\ cls' = Alloc(cls, Class(f.d, c.loader, t, "first"), NewClass(NULL, "Initialized", <<c>>))
              /\ table' = [table EXCEPT ![c.loader][f.d] = Class(f.d, c.loader, t, "first")]
              /\ UNCHANGED faults
    <2>1. PICK k : k = Class(f.d, c.loader, t, "first")
      OBVIOUS
    <2>2. k \in Classes /\ k.desc = f.d /\ k.loader = c.loader /\ k.by = t /\ k.gen = "first" /\ k # NULL
      BY <1>2, <1>9, <1>11, <2>1, ClassFacts
    <2>3. k \notin DOMAIN cls /\ Copy(k) \notin DOMAIN cls
      BY <1>11, <2>2, NotYet DEF IInv
    <2>4. PICK r : r = NewClass(NULL, "Initialized", <<c>>)
      OBVIOUS
    <2>5. PICK up \in Seq(Classes) : up = <<c>> /\ ToSet(up) = {c}
      <3>1. <<c>> \in Seq(Classes) /\ ToSet(<<c>>) = {c}
        BY <1>9, <1>11 DEF ToSet
      <3>. QED BY <3>1
    <2>6. /\ r \in ClassRec /\ r.status = "Initialized" /\ r.up = up /\ r.ift = {} /\ r.done = FALSE
          /\ r.owner = NULL /\ r.count = 0
      <3>1. "Initialized" \in Statuses /\ NULL \in Threads \cup {NULL}
        BY DEF Statuses
      <3>2. r = NewClass(NULL, "Initialized", up)
        BY <2>4, <2>5, Zenon
      <3>3. Made(r, NULL, "Initialized", up)
        BY <3>1, <3>2, NewClassFacts
      <3>. QED BY <3>3 DEF Made
    <2>7. /\ DOMAIN cls' = DOMAIN cls \cup {k} /\ Map(cls') /\ cls'[k] = r /\ \A x \in DOMAIN cls : cls'[x] = cls[x]
      <3>1. Map(cls) /\ cls' = Alloc(cls, k, r)
        BY <1>11, <2>1, <2>4, ClsMap, Zenon DEF IInv
      <3>2. k \in Classes /\ r \in ClassRec /\ k \notin DOMAIN cls
        BY <2>2, <2>3, <2>6
      <3>3. DOMAIN cls' = DOMAIN cls \cup {k} /\ Map(cls') /\ cls'[k] = r /\ \A x \in DOMAIN cls : x # k => cls'[x] = cls[x]
        <4>1. Adds(cls, cls', k, r)
          BY <3>1, <3>2, AllocFacts
        <4>. QED BY <4>1 DEF Adds
      <3>. QED BY <3>2, <3>3
    <2>8. /\ table' \in [Loaders -> [Descs -> DOMAIN cls' \cup {NULL}]]
          /\ table'[c.loader][f.d] = k
          /\ \A l \in Loaders, d \in Descs : l # c.loader \/ d # f.d => table'[l][d] = table[l][d]
      <3>1. table \in [Loaders -> [Descs -> DOMAIN cls' \cup {NULL}]]
        BY <2>7 DEF IInv, Types
      <3>2. table' = [table EXCEPT ![c.loader][f.d] = k] /\ k \in DOMAIN cls' /\ c.loader \in Loaders
        BY <1>9, <1>11, <2>1, <2>7
      <3>. QED BY <1>2, <3>1, <3>2
    <2>9. Others(t) /\ ret'[t] = k /\ ~ exc'[t]
      <3>1. DOMAIN cls \subseteq DOMAIN cls' /\ k \in DOMAIN cls' \cup {NULL}
        BY <2>7
      <3>. QED BY <1>11, <2>1, <3>1, OthersFacts DEF IInv
    <2>10. stack' \in [Threads -> Seq(FrameRec)]
      BY <1>1, <1>11, ReturnFr DEF IInv, Rewrites
    <2>11. Types'
      <3>1. DOMAIN cls' \subseteq Classes /\ IsFiniteSet(DOMAIN cls') /\ cls' \in [DOMAIN cls' -> ClassRec]
        BY <2>7 DEF Map
      <3>2. ret' \in [Threads -> DOMAIN cls' \cup {NULL}] /\ exc' \in [Threads -> BOOLEAN]
        BY <2>9 DEF Others
      <3>3. DOMAIN cls \subseteq DOMAIN cls'
        BY <2>7
      <3>4. waiting' \in [Threads -> DOMAIN cls' \cup {NULL}] /\ given' \in [Loaders -> [Descs -> SUBSET DOMAIN cls']]
        BY <1>6, <3>3 DEF IInv, Types
      <3>. QED BY <1>6, <1>11, <2>8, <2>10, <3>1, <3>2, <3>4 DEF IInv, Types
    <2>12. Grows
      <3>1. \A x \in DOMAIN cls : Evolves(x)
        BY <2>7 DEF Evolves, Status
      <3>2. ~ IsTemp(k)
        BY <1>3, <2>2 DEF IsTemp
      <3>3. \A l \in Loaders, d \in Descs : EntryEvolves(l, d)
        BY <1>11, <2>8, <3>2 DEF EntryEvolves
      <3>. QED BY <1>6, <1>11, <2>7, <3>1, <3>3 DEF Grows, IInv, Types
    <2>13. Touches({k})
      BY <1>11, <2>7, <2>8 DEF Touches, Kept
    <2>14. Aborts'
      BY <1>6, <2>11, <2>12, AbortsStable DEF IInv
    <2>15. ObjectOK(k)'
      <3>1. ~ IsTemp(k) /\ k.desc \in Arrays /\ k.desc \notin Interfaces /\ k.desc \notin HasDefault /\ Status(k)' = "Initialized"
        BY <1>3, <2>2, <2>6, <2>7, HierarchyAssumption DEF IsTemp, Status
      <3>2. StatusOK(k)'
        BY <2>2, <2>6, <2>7, <3>1 DEF StatusOK, Res
      <3>3. UpOK(k)'
        <4>1. c \in DOMAIN cls'
          BY <1>9, <1>11, <2>7
        <4>. QED BY <2>5, <2>6, <2>7, <3>1, <4>1 DEF UpOK
      <3>4. EntryOK(k)'
        <4>1. Copy(k) \notin DOMAIN cls'
          BY <2>2, <2>3, <2>7, CopyFacts
        <4>. QED BY <2>2, <2>7, <2>8, <3>1, <4>1 DEF EntryOK
      <3>5. Ready(k)'
        BY <2>6, <2>7, <3>1 DEF Ready
      <3>6. IsTemp(c) => Status(c)' = "ErrorUnresolved" \/ <<c.loader, c.desc>> \in denied'
        BY <1>6, <1>9, <1>11, <2>7 DEF Status
      <3>7. InitOK(k)'
        BY <2>5, <2>6, <2>7, <3>1, <3>5, <3>6 DEF InitOK
      <3>. QED BY <3>2, <3>3, <3>4, <3>7 DEF ObjectOK
    <2>16. ASSUME NEW o \in DOMAIN cls, Copy(o) \in DOMAIN cls' PROVE Copy(o) \in DOMAIN cls
      BY <2>2, <2>7, <2>16, CopyFacts DEF IInv, Types
    <2>17. \A l \in Loaders, d \in Descs :
             table'[l][d] # NULL /\ table'[l][d] # table[l][d] =>
               table'[l][d].desc = d /\ (table'[l][d].loader # l => Status(table[l][d])' \in Res)
      BY <2>2, <2>8
    <2>18. ASSUME NEW u \in Threads, NEW g, InStack(u, g) PROVE Apart(g, {k})
      <3>1. FrameOK(u, g)
        BY <2>18, InStackFacts DEF IInv
      <3>2. g.at \in DefAts \cup Ver2 \cup Ini2 => g.k \in DOMAIN cls /\ g.k \in Classes
        BY <3>1 DEF FrameOK, KAts, OfAts, VerAts, IniAts, IInv, Types
      <3>. QED BY <2>2, <2>3, <3>2, CopyFacts DEF Apart
    <2>19. \A u \in Threads : u # t => ret'[u] = ret[u] /\ exc'[u] = exc[u] /\ Wakes(u)
      BY <1>6, <2>9 DEF Wakes, Others
    <2>20. \A g : Lower(t, g) => Apart(g, {k})
      BY <2>18, LowerInStack DEF IInv
    <2>21. Ctx(t)
      <3>1. \A o \in DOMAIN cls' : o \in {k} => ObjectOK(o)'
        BY <2>15
      <3>. QED BY <1>6, <2>11, <2>12, <2>13, <2>14, <2>16, <2>17, <2>18, <2>19, <2>20, <3>1, TouchCtx
    <2>22. Mon(t, Grip(f), {})
      BY <1>3, <2>3, <2>6, <2>7 DEF Mon
    <2>23. NoneInitializes
      BY <2>6, <2>7 DEF NoneInitializes, Status
    <2>24. Good(k)'
      BY <1>3, <2>2, <2>6, <2>7 DEF Good, Status, Res, IsTemp
    <2>. QED BY <1>0, <1>1, <1>2, <1>3, <1>6, <1>11, <2>2, <2>9, <2>21, <2>22, <2>23, <2>24, ClassReturn
  <1>. QED
    <2>1. f.i = 0 \/ f.i = 1
      BY <1>0 DEF CreateArrayClass
    <2>. QED BY <1>0, <1>4, <1>5, <1>7, <1>8, <1>10, <1>11, <2>1 DEF CreateArrayClass

-----------------------------------------------------------------------------
(* Steps that change one class *)

LEMMA TypesStep ==
  ASSUME Types, Map(cls'), DOMAIN cls \subseteq DOMAIN cls', NEW t, Others(t), stack' \in [Threads -> Seq(FrameRec)],
         table' \in [Loaders -> [Descs -> DOMAIN cls' \cup {NULL}]], waiting' \in [Threads -> DOMAIN cls' \cup {NULL}],
         given' = given, ran' = ran, spurious' = spurious, faults' \in Nat, faults' <= faults
  PROVE  Types'
  <1>1. DOMAIN cls' \subseteq Classes /\ IsFiniteSet(DOMAIN cls') /\ cls' \in [DOMAIN cls' -> ClassRec]
    BY DEF Map
  <1>2. ret' \in [Threads -> DOMAIN cls' \cup {NULL}] /\ exc' \in [Threads -> BOOLEAN]
    BY DEF Others
  <1>3. given' \in [Loaders -> [Descs -> SUBSET DOMAIN cls']] /\ ran' \in [Loaders -> [Descs -> Nat]]
    BY DEF Types
  <1>4. faults' \in 0 .. MaxFaults /\ spurious' \in 0 .. MaxSpurious
    BY ConstantsAssumption DEF Types
  <1>. QED BY <1>1, <1>2, <1>3, <1>4 DEF Types

(* Only k changes, and becomes s. *)
Turns(k, s) ==
  /\ DOMAIN cls' = DOMAIN cls /\ Map(cls') /\ k \in DOMAIN cls
  /\ \A x \in DOMAIN cls : x # k => Kept(x)
  /\ cls'[k].status = s /\ cls'[k].up = cls[k].up /\ cls'[k].ift = cls[k].ift /\ cls'[k].done = cls[k].done

LEMMA NotifyFacts ==
  ASSUME Types, NEW k, NotifyAll(k)
  PROVE  /\ waiting' \in [Threads -> DOMAIN cls \cup {NULL}]
         /\ \A u \in Threads : /\ waiting[u] = NULL => waiting'[u] = NULL
                               /\ waiting'[u] = waiting[u] \/ (waiting'[u] = NULL /\ waiting[u] = k)
  BY DEF Types, NotifyAll

LEMMA TurnsGrows ==
  ASSUME Types, NEW k, NEW s, Turns(k, s), Evolves(k), table' = table, spurious' = spurious, faults' <= faults,
         denied' = denied
  PROVE  Grows /\ Touches({k})
  <1>1. \A x \in DOMAIN cls : Evolves(x)
    BY DEF Evolves, Turns, Kept, Status
  <1>2. \A l \in Loaders, d \in Descs : EntryEvolves(l, d)
    BY DEF EntryEvolves
  <1>. QED BY <1>1, <1>2 DEF Grows, Touches, Turns, Types

LEMMA TurnsCtx ==
  ASSUME IInv, NEW t \in Threads, NEW k, NEW s, Turns(k, s), Others(t), stack' \in [Threads -> Seq(FrameRec)],
         table' = table, given' = given, ran' = ran, spurious' = spurious, aborted' = aborted,
         denied' = denied, faults' \in Nat, faults' <= faults,
         waiting' = waiting \/ (NotifyAll(k) /\ (s # "Verifying" \/ Status(k) = "Resolved")),
         Evolves(k), StatusOK(k)',
         \A u \in Threads : \A f : u # t /\ InStack(u, f) => Apart(f, {k}),
         \A f : Lower(t, f) => Own(t, f) \/ Apart(f, {k})
  PROVE  Types' /\ Grows /\ Ctx(t) /\ (waiting[t] = NULL => waiting'[t] = NULL)
  <1>1. Grows /\ Touches({k})
    BY TurnsGrows DEF IInv
  <1>2. waiting' \in [Threads -> DOMAIN cls \cup {NULL}] /\ (waiting[t] = NULL => waiting'[t] = NULL)
    BY NotifyFacts DEF IInv, Types
  <1>3. Types'
    <2>1. DOMAIN cls' = DOMAIN cls /\ Map(cls')
      BY DEF Turns
    <2>2. table' \in [Loaders -> [Descs -> DOMAIN cls' \cup {NULL}]] /\ waiting' \in [Threads -> DOMAIN cls' \cup {NULL}]
      BY <1>2, <2>1 DEF IInv, Types
    <2>. QED BY <2>1, <2>2, TypesStep DEF IInv
  <1>4. Aborts'
    BY <1>1, <1>3, AbortsStable DEF IInv
  <1>5. ObjectOK(k)'
    <2>1. k \in DOMAIN cls /\ ObjectOK(k) /\ DOMAIN cls' = DOMAIN cls /\ cls'[k].up = cls[k].up /\ cls'[k].ift = cls[k].ift
          /\ cls'[k].done = cls[k].done /\ Status(k)' = s
      BY DEF Turns, IInv, Objects, Status
    <2>2. UpOK(k)'
      BY <1>1, <2>1, UpStable DEF IInv
    <2>3. EntryOK(k)'
      BY <1>1, <1>3, <2>1, EntryStable DEF IInv
    <2>4. InitOK(k)'
      BY <1>1, <1>3, <2>1, InitStable DEF IInv
    <2>. QED BY <2>2, <2>3, <2>4 DEF ObjectOK
  <1>6. \A u \in Threads : u # t => ret'[u] = ret[u] /\ exc'[u] = exc[u] /\ Wakes(u)
    <2>1. ASSUME NEW u \in Threads PROVE Wakes(u)
      <3>1. CASE waiting' = waiting
        BY <3>1 DEF Wakes
      <3>2. CASE NotifyAll(k) /\ (s # "Verifying" \/ Status(k) = "Resolved")
        BY <3>2, NotifyFacts DEF Wakes, Turns, IInv
      <3>. QED BY <3>1, <3>2
    <2>. QED BY <2>1 DEF Others
  <1>7. \A o \in DOMAIN cls' : o \in {k} => ObjectOK(o)'
    BY <1>5
  <1>8. \A o \in DOMAIN cls : o \notin {k} /\ Copy(o) \in DOMAIN cls' =>
           Copy(o) \in DOMAIN cls \/ table'[o.loader][o.desc].gen = "copy"
    BY DEF Turns
  <1>9. Ctx(t)
    BY <1>1, <1>3, <1>4, <1>6, <1>7, <1>8, TouchCtx
  <1>. QED BY <1>1, <1>2, <1>3, <1>9

LEMMA TurnsIni ==
  ASSUME NEW k, NEW s, Turns(k, s), s # "Initializing"
  PROVE  NoneInitializes
  BY DEF Turns, NoneInitializes, Kept, Status

(* What no frame has for itself *)
LEMMA ResApart ==
  ASSUME IInv, NEW k \in DOMAIN cls, Status(k) \in {"Resolved", "Verified"}, NEW u \in Threads, NEW f, InStack(u, f)
  PROVE  Apart(f, {k})
  <1>1. FrameOK(u, f)
    BY InStackFacts DEF IInv
  <1>2. f.at \in DefAts => DefFrame(u, f) /\ f.at \in {"load", "super", "resolved", "link", "retire", "publish"}
    BY <1>1 DEF FrameOK, DefAts
  <1>3. f.at \in DefAts => f.k # k /\ Copy(f.k) # k
    BY <1>2 DEF DefFrame
  <1>4. f.at \in Ver2 => f.k # k
    BY <1>1 DEF FrameOK, VerAts, VerFrame
  <1>5. f.at \in Ini2 => f.k # k
    BY <1>1 DEF FrameOK, IniAts, IniFrame
  <1>. QED BY <1>3, <1>4, <1>5 DEF Apart

LEMMA LowerFacts ==
  ASSUME IInv, NEW t \in Threads, stack[t] # <<>>, NEW f, f = Top(t), NEW g, Lower(t, g)
  PROVE  BelowOK(g, f) /\ FrameOK(t, g)
  <1>1. Depth(t) \in Nat /\ Depth(t) > 0 /\ f = Fr(t, Depth(t))
    BY TopFacts
  <1>2. PICK b \in 1 .. Depth(t) - 1 : Fr(t, b) = g
    BY DEF Lower
  <1>3. b \in 1 .. Depth(t)
    BY <1>1, <1>2
  <1>. QED BY <1>1, <1>2, <1>3, BelowTop DEF IInv

(* What the innermost frame verifies or initializes, no other frame does. *)
LEMMA TopApart ==
  ASSUME IInv, NEW t \in Threads, stack[t] # <<>>, NEW f, f = Top(t), f.at \in Ver2 \cup Ini2, NEW u \in Threads, NEW g,
         (u # t /\ InStack(u, g)) \/ (u = t /\ Lower(t, g))
  PROVE  Apart(g, {f.k})
  <1>1. Depth(t) \in Nat /\ Depth(t) > 0 /\ f = Fr(t, Depth(t)) /\ FrameOK(t, f)
    BY TopFacts
  <1>2. FrameOK(u, g) /\ (u = t => BelowOK(g, f))
    BY InStackFacts, LowerFacts DEF IInv
  <1>3. g.at \in DefAts => DefFrame(u, g) /\ g.at \in {"load", "super", "resolved", "link", "retire", "publish"}
    BY <1>2 DEF FrameOK, DefAts
  <1>4. g.at \in Ver2 => Status(g.k) = "Verifying"
    BY <1>2 DEF FrameOK, VerAts, VerFrame
  <1>5. g.at \in Ini2 => Status(g.k) = "Initializing" /\ cls[g.k].tid = u
    BY <1>2 DEF FrameOK, IniAts, IniFrame
  <1>6. f.k \in DOMAIN cls /\ (f.at \in Ver2 => Status(f.k) = "Verifying")
        /\ (f.at \in Ini2 => Status(f.k) = "Initializing" /\ cls[f.k].tid = t)
    BY <1>1 DEF FrameOK, VerAts, VerFrame, IniAts, IniFrame, KAts, OfAts
  <1>7. Ver2 \cap Ini2 = {}
    BY DEF Ver2, Ini2
  <1>8. g.at \in DefAts => g.k # f.k /\ Copy(g.k) # f.k
    BY <1>3, <1>6 DEF DefFrame
  <1>9. ASSUME g.at \in Ver2 PROVE g.k # f.k
    <2>1. CASE f.at \in Ini2
      BY <1>4, <1>6, <1>9, <2>1
    <2>2. CASE f.at \in Ver2 /\ u = t
      BY <1>2, <1>9, <2>2 DEF BelowOK
    <2>3. CASE f.at \in Ver2 /\ u # t
      <3>1. PICK b \in 1 .. Depth(u) : Fr(u, b) = g
        BY <2>3 DEF InStack
      <3>2. Depth(t) \in 1 .. Depth(t)
        BY <1>1
      <3>. QED BY <1>1, <1>9, <2>3, <3>1, <3>2 DEF IInv, Verifiers
    <2>. QED BY <2>1, <2>2, <2>3
  <1>10. ASSUME g.at \in Ini2 PROVE g.k # f.k
    <2>1. CASE f.at \in Ver2
      BY <1>5, <1>6, <1>10, <2>1
    <2>2. CASE f.at \in Ini2 /\ u = t
      BY <1>2, <1>10, <2>2 DEF BelowOK
    <2>3. CASE f.at \in Ini2 /\ u # t
      BY <1>5, <1>6, <1>10, <2>3
    <2>. QED BY <2>1, <2>2, <2>3
  <1>. QED BY <1>8, <1>9, <1>10 DEF Apart

(* The class that the innermost frame defines, and its copy, are its own. *)
LEMMA DefApart ==
  ASSUME IInv, NEW t \in Threads, stack[t] # <<>>, NEW f, f = Top(t), f.at \in DefAts, NEW u \in Threads, NEW g,
         (u # t /\ InStack(u, g)) \/ (u = t /\ Lower(t, g))
  PROVE  Apart(g, {f.k, Copy(f.k)})
  <1>1. FrameOK(t, f)
    BY TopFacts
  <1>2. FrameOK(u, g) /\ (u = t => BelowOK(g, f))
    BY InStackFacts, LowerFacts DEF IInv
  <1>3. f.k \in Classes /\ f.k.gen = "first" /\ f.k.by = t /\ Status(f.k) \notin {"Verifying", "Initializing"}
        /\ (Copy(f.k) \in DOMAIN cls => Status(Copy(f.k)) \notin {"Verifying", "Initializing"})
    BY <1>1 DEF FrameOK, KAts, OfAts, IInv, Types, DefFrame, DefAts
  <1>4. g.at \in DefAts => g.k \in Classes /\ g.k.gen = "first" /\ g.k.by = u
    BY <1>2 DEF FrameOK, KAts, OfAts, IInv, Types, DefFrame
  <1>5. ASSUME g.at \in DefAts PROVE g.k # f.k
    BY <1>2, <1>3, <1>4, <1>5 DEF BelowOK
  <1>6. ASSUME g.at \in DefAts PROVE g.k # Copy(f.k) /\ Copy(g.k) # f.k /\ Copy(g.k) # Copy(f.k)
    <2>1. /\ Copy(f.k).gen = "copy" /\ Copy(g.k).gen = "copy" /\ First(Copy(f.k)) = f.k /\ First(Copy(g.k)) = g.k
      BY <1>3, <1>4, <1>6, CopyFacts
    <2>. QED BY <1>3, <1>4, <1>5, <1>6, <2>1
  <1>7. g.at \in Ver2 => g.k \in DOMAIN cls /\ Status(g.k) = "Verifying"
    BY <1>2 DEF FrameOK, VerAts, VerFrame, KAts, OfAts
  <1>8. g.at \in Ini2 => g.k \in DOMAIN cls /\ Status(g.k) = "Initializing"
    BY <1>2 DEF FrameOK, IniAts, IniFrame, KAts, OfAts
  <1>. QED BY <1>3, <1>5, <1>6, <1>7, <1>8 DEF Apart

LEMMA ApartLess ==
  ASSUME NEW f, NEW K, NEW L, Apart(f, K), L \subseteq K
  PROVE  Apart(f, L)
  BY DEF Apart

(* The monitors that the innermost frame has entered are the thread's. *)
LEMMA TopHolds ==
  ASSUME IInv, NEW t \in Threads, stack[t] # <<>>, NEW f, f = Top(t), f.n = 0, NEW k, k \in Grip(f)
  PROVE  k \in DOMAIN cls /\ cls[k].owner = t /\ cls[k].count > 0 /\ cls[k].count \in Nat
  <1>1. Depth(t) \in Nat /\ Depth(t) > 0 /\ f = Fr(t, Depth(t)) /\ FrameOK(t, f)
    BY TopFacts
  <1>2. k \in DOMAIN cls
    BY <1>1, GripFacts DEF IInv
  <1>3. MonitorOK(t, k) /\ ~ Waits(t, k)
    BY <1>1, <1>2 DEF IInv, Monitors, Waits
  <1>4. Depth(t) \in Held(t, k)
    BY <1>1 DEF Held
  <1>5. Held(t, k) \subseteq 1 .. Depth(t)
    BY DEF Held
  <1>6. Cardinality(Held(t, k)) \in Nat /\ Cardinality(Held(t, k)) # 0
    BY <1>1, <1>4, <1>5, HeldFinite
  <1>. QED BY <1>2, <1>3, <1>4, <1>6 DEF MonitorOK

(* VerifyClass returns. *)
LEMMA VerReturn ==
  ASSUME IInv, NEW t \in Threads, stack[t] # <<>>, NEW f, f = Top(t), f.n = 0, f.at \in VerAts, Return(t), Ctx(t),
         waiting'[t] = NULL, Mon(t, Grip(f), {}), NoneInitializes, exc'[t] => Status(f.k)' = "ErrorResolved"
  PROVE  IInv'
  <1>1. PICK h : h = Fr(t, Depth(t) - 1)
    OBVIOUS
  <1>2. f \in FrameRec /\ FrameOK(t, f) /\ f.at # "caller" /\ f.at \notin Ini2
    BY TopFacts DEF VerAts, Ver2, Ini2
  <1>3. LinkOK(h, f)' /\ h \in FrameRec /\ h.n = 0 /\ h.at \in Handlers
    BY <1>1, <1>2, CallerFacts
  <1>4. h.at \in {"attempted", "verified"}
    BY <1>3 DEF LinkOK, Handlers, VerAts, Ver2, FindAts, DefAts, IfaceAts, IniAts, Ini2
  <1>5. h.at = "attempted" => Supertypes(h.k)'[h.i] = f.k
    BY <1>3 DEF LinkOK
  <1>6. h.at = "verified" => h.k = f.k
    BY <1>3 DEF LinkOK
  <1>7. TopOK(t, h)'
    BY <1>3, <1>4, <1>5, <1>6 DEF TopOK, Status
  <1>8. f.at \notin IniAts
    BY DEF VerAts, Ver2, IniAts, Ini2
  <1>. QED BY <1>1, <1>2, <1>7, <1>8, ReturnStep DEF NoneInitializes

(* The super-interfaces return. *)
LEMMA IfaceReturn ==
  ASSUME IInv, NEW t \in Threads, stack[t] # <<>>, NEW f, f = Top(t), f.n = 0, f.at \in IfaceAts, Return(t), Ctx(t),
         waiting'[t] = NULL, Mon(t, Grip(f), {}), NoneInitializes, ~ exc'[t] => Ready(f.k)'
  PROVE  IInv'
  <1>1. PICK h : h = Fr(t, Depth(t) - 1)
    OBVIOUS
  <1>2. f \in FrameRec /\ FrameOK(t, f) /\ f.at # "caller" /\ f.at \notin Ini2
    BY TopFacts DEF IfaceAts, Ini2
  <1>3. LinkOK(h, f)' /\ h \in FrameRec /\ h.n = 0 /\ h.at \in Handlers
    BY <1>1, <1>2, CallerFacts
  <1>4. h.at \in {"supers", "iface"}
    BY <1>3 DEF LinkOK, Handlers, VerAts, Ver2, FindAts, DefAts, IfaceAts, IniAts, Ini2
  <1>5. h.at = "supers" => Ups(h.k)'[h.i] = f.k
    BY <1>3 DEF LinkOK
  <1>6. h.at = "iface" => cls'[h.k].up[h.i] = f.k
    BY <1>3 DEF LinkOK
  <1>7. ~ exc'[t] => Passed(f.k)'
    BY DEF Passed
  <1>8. TopOK(t, h)'
    BY <1>3, <1>4, <1>5, <1>6, <1>7 DEF TopOK
  <1>9. f.at \notin IniAts
    BY DEF IfaceAts, IniAts, Ini2
  <1>. QED BY <1>1, <1>2, <1>8, <1>9, ReturnStep DEF NoneInitializes

(* A class that the thread is initializing is initialized on the way to itself *)
(* only below its <clinit>, and an interface only if it needs itself.         *)
LEMMA Recursive ==
  ASSUME IInv, NEW t \in Threads, stack[t] # <<>>, NEW f, f = Top(t), f.at \in IniAts \ Ini2,
         Status(f.k) = "Initializing", cls[f.k].tid = t, NEW h, h = Fr(t, Depth(t) - 1)
  PROVE  /\ h.at # "caller"
         /\ h.at = "supers" => Within(t, Depth(t) - 1, f.k)
         /\ h.at = "mark" => f.d \in Loops
  <1>1. Depth(t) \in Nat /\ Depth(t) > 0 /\ f = Fr(t, Depth(t)) /\ FrameOK(t, f) /\ f.at # "caller"
    BY TopFacts DEF IniAts, Ini2
  <1>2. f.k \in DOMAIN cls /\ f.d = f.k.desc /\ f.d \in Descs
    BY <1>1 DEF FrameOK, KAts, OfAts, FrameRec
  <1>3. LinkOK(h, f) /\ BelowOK(h, f) /\ FrameOK(t, h) /\ Depth(t) > 1
    BY <1>1, CallerFacts
  <1>4. PICK b \in 1 .. Depth(t) : Fr(t, b).at \in Ini2 /\ Fr(t, b).k = f.k
    BY <1>2 DEF IInv, Initializers
  <1>5. PICK e : e = Fr(t, b)
    OBVIOUS
  <1>6. b \in 1 .. Depth(t) - 1 /\ FrameOK(t, e) /\ e.at \in Ini2 /\ e.k = f.k
    BY <1>1, <1>4, <1>5, BelowTop DEF IInv
  <1>7. e.d = f.d
    BY <1>2, <1>6 DEF FrameOK, OfAts, IniAts
  <1>8. b = Depth(t) - 1 => e = h
    BY <1>5
  <1>9. ASSUME NEW c \in 1 .. Depth(t), b < c PROVE BelowOK(e, Fr(t, c))
    BY <1>4, <1>5, <1>9 DEF IInv, Stacks, StackOK
  <1>10. b # Depth(t) - 1 => b \in 1 .. (Depth(t) - 1) - 1 /\ b < Depth(t) - 1 /\ Depth(t) - 1 \in 1 .. Depth(t)
    BY <1>1, <1>3, <1>6
  <1>11. ASSUME h.at = "supers" PROVE Within(t, Depth(t) - 1, f.k)
    <2>1. h.k # f.k
      <3>1. /\ h.i > 0 /\ f.k = Ups(h.k)[h.i] /\ h.i <= Len(Ups(h.k)) /\ h.i \in Nat
            /\ h.k \in DOMAIN cls /\ Status(h.k) = "Initializing"
        BY <1>3, <1>11 DEF LinkOK, FrameOK, FrameRec, IniAts, Ini2, IniFrame, KAts, OfAts
      <3>2. Ups(h.k) = cls[h.k].up
        <4>1. CASE h.k.desc \in Interfaces
          BY <3>1, <4>1 DEF Ups
        <4>. QED BY <4>1 DEF Ups
      <3>3. h.k.desc \notin Arrays /\ h.i \in 1 .. Len(cls[h.k].up)
        BY <3>1, <3>2 DEF IInv, Objects, ObjectOK, StatusOK
      <3>4. cls[h.k].up[h.i].desc # h.k.desc
        BY <3>1, <3>3 DEF IInv, Objects, ObjectOK, UpOK
      <3>. QED BY <3>1, <3>2, <3>4
    <2>2. b # Depth(t) - 1
      BY <1>6, <1>8, <2>1
    <2>. QED BY <1>4, <1>10, <2>2 DEF Within
  <1>12. ASSUME h.at = "mark" PROVE f.d \in Loops
    <2>1. h.k = f.k /\ h.d = f.d /\ h.k.desc = f.d
      BY <1>2, <1>3, <1>12 DEF LinkOK, FrameOK, OfAts, IfaceAts
    <2>2. b # Depth(t) - 1
      BY <1>6, <1>8, <1>12 DEF Ini2
    <2>3. PICK c : c = Depth(t) - 2
      OBVIOUS
    <2>4. c \in 1 .. Depth(t) /\ c + 1 = Depth(t) - 1 /\ c + 1 \in 1 .. Depth(t) /\ c + 1 > 1 /\ (c + 1) - 1 = c
          /\ b <= c
      BY <1>1, <1>6, <1>10, <2>2, <2>3
    <2>5. PICK g : g = Fr(t, c)
      OBVIOUS
    <2>6. LinkOK(Fr(t, (c + 1) - 1), Fr(t, c + 1)) /\ FrameOK(t, g)
      BY <2>4, <2>5 DEF IInv, Stacks, StackOK
    <2>7. LinkOK(g, h)
      BY <2>4, <2>5, <2>6
    <2>8. /\ g.at \in {"supers", "iface"} /\ g.i > 0 /\ g.i \in Nat
          /\ h.k = IF g.at = "supers" THEN Ups(g.k)[g.i] ELSE cls[g.k].up[g.i]
      BY <1>12, <2>6, <2>7 DEF LinkOK, FrameOK, FrameRec, Handlers, FindAts, DefAts, VerAts, Ver2, IniAts, Ini2
    <2>9. /\ g.k \in DOMAIN cls /\ g.k.desc \notin Arrays /\ g.d = g.k.desc /\ g.d \in Descs
          /\ h.k = cls[g.k].up[g.i] /\ g.i <= Len(cls[g.k].up)
      <3>1. CASE g.at = "supers"
        <4>1. g.i <= Len(Ups(g.k)) /\ g.k \in DOMAIN cls /\ Status(g.k) = "Initializing" /\ g.d = g.k.desc /\ g.d \in Descs
          BY <2>6, <3>1 DEF FrameOK, FrameRec, IniAts, Ini2, IniFrame, KAts, OfAts
        <4>2. Ups(g.k) = cls[g.k].up
          <5>1. CASE g.k.desc \in Interfaces
            BY <2>8, <4>1, <5>1 DEF Ups
          <5>. QED BY <5>1 DEF Ups
        <4>3. g.k.desc \notin Arrays
          BY <4>1 DEF IInv, Objects, ObjectOK, StatusOK
        <4>. QED BY <2>8, <3>1, <4>1, <4>2, <4>3
      <3>2. CASE g.at = "iface"
        BY <2>6, <2>8, <3>2, HierarchyAssumption DEF FrameOK, FrameRec, IfaceAts, IfaceFrame, KAts, OfAts
      <3>. QED BY <2>8, <3>1, <3>2
    <2>10. g.i \in 1 .. Len(cls[g.k].up) /\ g.i \in 1 .. Len(Supers[g.d]) /\ f.d = Supers[g.d][g.i] /\ f.d # g.d
      <3>1. g.i \in 1 .. Len(cls[g.k].up) /\ Len(cls[g.k].up) \in Nat
        BY <2>8, <2>9 DEF IInv, Types, ClassRec
      <3>2. /\ cls[g.k].up[g.i].desc = Supers[g.d][g.i] /\ cls[g.k].up[g.i].desc # g.d
            /\ Len(cls[g.k].up) <= Len(Supers[g.d])
        <4>1. UpOK(g.k)
          BY <2>9 DEF IInv, Objects, ObjectOK
        <4>. QED BY <2>9, <3>1, <4>1 DEF UpOK
      <3>3. Len(Supers[g.d]) \in Nat
        BY <2>9, HierarchyAssumption
      <3>. QED BY <2>1, <2>9, <3>1, <3>2, <3>3
    <2>11. f.d \in Needs(g.d)
      BY <2>9, <2>10, NeedsFacts
    <2>12. g.d \in Behind[f.d]
      <3>1. b # c
        BY <1>5, <1>7, <2>5, <2>10
      <3>2. BelowOK(e, g)
        BY <1>1, <1>9, <2>4, <2>5, <3>1
      <3>. QED BY <1>7, <3>2 DEF BelowOK
    <2>13. PICK x \in Needs(f.d) : g.d \in Behind[x]
      BY <1>2, <2>10, <2>12, BehindThrough
    <2>14. f.d \in Behind[x]
      <3>1. x \in Descs
        BY <1>2, NeedsFacts
      <3>. QED BY <2>11, <2>13, <3>1, BehindFacts
    <2>. QED BY <1>2, <2>13, <2>14 DEF Loops
  <1>13. ASSUME h.at = "caller" PROVE FALSE
    <2>1. b # Depth(t) - 1
      BY <1>6, <1>8, <1>13 DEF Ini2
    <2>. QED BY <1>9, <1>10, <1>13, <2>1 DEF BelowOK
  <1>. QED BY <1>11, <1>12, <1>13

(* InitializeClass returns. *)
LEMMA IniReturn ==
  ASSUME IInv, NEW t \in Threads, stack[t] # <<>>, NEW f, f = Top(t), f.n = 0, f.at \in IniAts, Return(t), Ctx(t),
         waiting'[t] = NULL, Mon(t, Grip(f), {}), NoneInitializes, f.at \in Ini2 => Status(f.k)' # "Initializing",
         \/ exc'[t] \/ Status(f.k)' = "Initialized"
         \/ f.at \notin Ini2 /\ Status(f.k) = "Initializing" /\ cls[f.k].tid = t
  PROVE  IInv'
  <1>1. PICK h : h = Fr(t, Depth(t) - 1)
    OBVIOUS
  <1>2. f \in FrameRec /\ FrameOK(t, f) /\ f.at # "caller" /\ f.k \in DOMAIN cls
    BY TopFacts DEF IniAts, Ini2, FrameOK, KAts, OfAts
  <1>3. LinkOK(h, f)' /\ h \in FrameRec /\ h.n = 0 /\ h.at \in Handlers
    BY <1>1, <1>2, CallerFacts
  <1>4. h.at \in {"supers", "mark", "ran", "caller"}
    BY <1>3 DEF LinkOK, Handlers, VerAts, Ver2, FindAts, DefAts, IfaceAts, IniAts, Ini2
  <1>5. ASSUME ~ exc'[t], ~ (Status(f.k)' = "Initialized")
        PROVE  /\ h.at # "caller" /\ (h.at = "supers" => Within(t, Depth(t) - 1, f.k))
               /\ h.at = "mark" => f.k.desc \in Loops /\ Status(f.k)' \in {"Initializing", "ErrorResolved"}
    <2>1. f.at \notin Ini2 /\ Status(f.k) = "Initializing" /\ cls[f.k].tid = t
      BY <1>5
    <2>2. f.k.desc = f.d /\ Status(f.k)' \in Late
      BY <1>2, <2>1 DEF FrameOK, OfAts, Ctx, Grows, Evolves, Late
    <2>. QED BY <1>1, <1>5, <2>1, <2>2, Recursive DEF Late
  <1>6. h.at = "supers" => Ups(h.k)'[h.i] = f.k /\ f.k.desc \notin Interfaces
    BY <1>3 DEF LinkOK, IniAts, Ini2, IfaceAts
  <1>7. f.k.desc \notin Interfaces => Passed(f.k)'
    BY DEF Passed
  <1>8. h.at = "mark" => h.k = f.k
    BY <1>3 DEF LinkOK
  <1>9. h.at = "caller" => table'[h.l][h.d] = f.k
    BY <1>3 DEF LinkOK, IniAts, Ini2
  <1>10. f.k # NULL
    BY <1>2, ConstantsAssumption DEF IInv, Types
  <1>11. TopOK(t, h)'
    BY <1>3, <1>4, <1>5, <1>6, <1>7, <1>8, <1>9, <1>10 DEF TopOK, Status, Begun
  <1>. QED BY <1>1, <1>2, <1>5, <1>11, ReturnStep DEF NoneInitializes

-----------------------------------------------------------------------------
(* The actions of DefineClass *)

LEMMA DefineClassStep ==
  ASSUME IInv, NEW t \in Threads, DefineClass(t)
  PROVE  IInv'
  <1>0. PICK f : f = Top(t)
    OBVIOUS
  <1>1. stack[t] # <<>> /\ f.at = "define" /\ f.n = 0
    BY <1>0, AtTop DEF DefineClass
  <1>2. /\ FrameOK(t, f) /\ TopOK(t, f) /\ f \in FrameRec /\ f.d \in Descs /\ f.l \in Loaders /\ waiting[t] = NULL
        /\ f.i \in Nat /\ f.k \in Classes \cup {NULL} /\ ~ exc[t]
    BY <1>0, <1>1, TopFacts DEF Handlers
  <1>3. f.d \in Path[f.l] \ Arrays /\ Grip(f) = {} /\ f.at \in FindAts /\ f.at \in PlainFind /\ "ensure" \in PlainFind
    BY <1>1, <1>2 DEF FrameOK, FindFrame, Grip, DefAts, FindAts, PlainFind
  <1>4. waiting' = waiting /\ aborted' = aborted /\ spurious' = spurious /\ given' = given /\ ran' = ran
    BY DEF DefineClass, history
  <1>5. CASE Fail /\ ReturnNull(t) /\ denied' = denied \cup {<<f.l, f.d>>} /\ UNCHANGED <<cls, table>>
    <2>1. Still
      BY <1>4, <1>5 DEF Still, Fail, IInv, Types
    <2>2. Dead(f.l, f.d)'
      BY <1>5 DEF Dead
    <2>. QED BY <1>0, <1>1, <1>3, <1>5, <2>1, <2>2, PureNull
  <1>6. CASE /\ ~ InsertClass(f.l, f.d) /\ Become(t, Ensure(table[f.l][f.d], f))
             /\ UNCHANGED <<cls, table, ret, exc, faults, denied>>
    <2>1. PICK o, g : o = table[f.l][f.d] /\ g = Frame("ensure", f.d, f.l, o) /\ Become(t, g) /\ o # NULL
      BY <1>6 DEF Ensure, InsertClass
    <2>2. /\ g \in FrameRec /\ g.at = "ensure" /\ g.d = f.d /\ g.l = f.l /\ g.n = 0 /\ FrameOK(t, g)
      BY <1>2, <2>1, EnsureFrame DEF IInv
    <2>3. Still /\ DOMAIN cls \subseteq DOMAIN cls'
      BY <1>4, <1>6, StillFacts DEF IInv, history
    <2>4. Others(t) /\ exc'[t] = exc[t]
      BY <1>6, <2>3, UnchangedOthers DEF IInv
    <2>5. TopOK(t, g)'
      BY <1>2, <1>4, <2>2, <2>4, PlainTop DEF Handlers
    <2>. QED BY <1>0, <1>1, <1>3, <2>1, <2>2, <2>3, <2>4, <2>5, PureFind
  <1>7. CASE /\ InsertClass(f.l, f.d)
             /\ cls' = Lock(Alloc(cls, Class(f.d, f.l, t, "first"), NewClass(t, "Idx", <<>>)), t, Class(f.d, f.l, t, "first"))
             /\ table' = [table EXCEPT ![f.l][f.d] = Class(f.d, f.l, t, "first")]
             /\ Become(t, Of("load", Class(f.d, f.l, t, "first"))) /\ UNCHANGED <<ret, exc, faults, denied>>
    <2>1. PICK k : k = Class(f.d, f.l, t, "first")
      OBVIOUS
    <2>2. k \in Classes /\ k.desc = f.d /\ k.loader = f.l /\ k.by = t /\ k.gen = "first" /\ k # NULL
      BY <1>2, <2>1, ClassFacts
    <2>3. k \notin DOMAIN cls /\ Copy(k) \notin DOMAIN cls /\ table[f.l][f.d] = NULL
      BY <1>7, <2>2, NotYet DEF IInv, InsertClass
    <2>4. PICK r : r = NewClass(t, "Idx", <<>>)
      OBVIOUS
    <2>5. PICK up \in Seq(Classes) : up = <<>> /\ Len(up) = 0 /\ ToSet(up) = {}
      <3>1. <<>> \in Seq(Classes) /\ Len(<<>>) = 0 /\ ToSet(<<>>) = {}
        BY EmptySeq DEF ToSet
      <3>. QED BY <3>1
    <2>6. /\ r \in ClassRec /\ r.status = "Idx" /\ r.up = up /\ r.ift = {} /\ r.done = FALSE
          /\ r.owner = NULL /\ r.count = 0 /\ r.tid = t
      <3>1. "Idx" \in Statuses /\ t \in Threads \cup {NULL}
        BY DEF Statuses
      <3>2. r = NewClass(t, "Idx", up)
        BY <2>4, <2>5, Zenon
      <3>3. Made(r, t, "Idx", up)
        BY <3>1, <3>2, NewClassFacts
      <3>. QED BY <3>3 DEF Made
    <2>7. /\ DOMAIN cls' = DOMAIN cls \cup {k} /\ Map(cls') /\ \A x \in DOMAIN cls : cls'[x] = cls[x]
          /\ SameStatus(cls'[k], r) /\ cls'[k].owner = t /\ cls'[k].count = 1
      <3>1. PICK c1 : c1 = Alloc(cls, k, r)
        OBVIOUS
      <3>2. Map(cls) /\ cls' = Lock(c1, t, k) /\ k \in Classes /\ r \in ClassRec
        BY <1>7, <2>1, <2>2, <2>4, <2>6, <3>1, ClsMap, Zenon DEF IInv
      <3>3. Adds(cls, c1, k, r)
        BY <3>1, <3>2, AllocFacts
      <3>4. DOMAIN c1 = DOMAIN cls \cup {k} /\ Map(c1) /\ c1[k] = r /\ \A x \in DOMAIN cls : c1[x] = cls[x]
        BY <2>3, <3>3 DEF Adds
      <3>5. PICK e : e = cls'
        OBVIOUS
      <3>6. Alters(c1, e, k) /\ SameStatus(e[k], c1[k]) /\ e[k].owner = t /\ e[k].count = c1[k].count + 1
        BY <3>2, <3>4, <3>5, LockFacts
      <3>7. c1[k].count + 1 = 1
        BY <2>6, <3>4
      <3>8. DOMAIN e = DOMAIN c1 /\ Map(e) /\ \A x \in DOMAIN c1 : x # k => e[x] = c1[x]
        BY <3>6 DEF Alters
      <3>. QED BY <2>3, <3>4, <3>5, <3>6, <3>7, <3>8
    <2>8. /\ table' \in [Loaders -> [Descs -> DOMAIN cls' \cup {NULL}]]
          /\ table'[f.l][f.d] = k
          /\ \A l \in Loaders, d \in Descs : l # f.l \/ d # f.d => table'[l][d] = table[l][d]
      <3>1. table \in [Loaders -> [Descs -> DOMAIN cls' \cup {NULL}]]
        BY <2>7 DEF IInv, Types
      <3>2. table' = [table EXCEPT ![f.l][f.d] = k] /\ k \in DOMAIN cls'
        BY <1>7, <2>1, <2>7
      <3>. QED BY <1>2, <3>1, <3>2
    <2>9. Others(t) /\ exc'[t] = exc[t]
      BY <1>7, <2>7, UnchangedOthers DEF IInv
    <2>10. PICK g : g = Frame("load", k.desc, k.loader, k) /\ Become(t, g)
      BY <1>7, <2>1 DEF Of
    <2>11. g \in FrameRec /\ g.at = "load" /\ g.d = f.d /\ g.l = f.l /\ g.k = k /\ g.n = 0
      <3>1. "load" \in Ats /\ k \in Classes \cup {NULL} /\ k.desc \in Descs /\ k.loader \in Loaders
        BY <1>2, <2>2 DEF Ats, FindAts, DefAts
      <3>. QED BY <2>2, <2>10, <3>1, NewFrame
    <2>12. stack' \in [Threads -> Seq(FrameRec)]
      BY <1>1, <2>10, <2>11, BecomeFr DEF IInv, Rewrites
    <2>13. Types'
      <3>1. DOMAIN cls \subseteq DOMAIN cls' /\ waiting' \in [Threads -> DOMAIN cls' \cup {NULL}] /\ faults' \in Nat /\ faults' <= faults
        BY <1>4, <1>7, <2>7, ConstantsAssumption DEF IInv, Types
      <3>. QED BY <1>4, <2>7, <2>8, <2>9, <2>12, <3>1, TypesStep DEF IInv
    <2>14. Grows
      <3>1. \A x \in DOMAIN cls : Evolves(x)
        BY <2>7 DEF Evolves, Status
      <3>2. \A l \in Loaders, d \in Descs : EntryEvolves(l, d)
        BY <1>3, <2>3, <2>8 DEF EntryEvolves
      <3>. QED BY <1>4, <1>7, <2>7, <3>1, <3>2 DEF Grows, IInv, Types
    <2>15. Touches({k})
      BY <2>3, <2>7, <2>8 DEF Touches, Kept
    <2>16. Aborts'
      BY <1>4, <2>13, <2>14, AbortsStable DEF IInv
    <2>17. ObjectOK(k)'
      <3>1. k.desc \notin Arrays /\ Status(k)' = "Idx" /\ cls'[k].up = up /\ cls'[k].ift = {} /\ ~ cls'[k].done
        BY <1>3, <2>2, <2>6, <2>7 DEF SameStatus, Status
      <3>2. StatusOK(k)'
        BY <2>2, <3>1 DEF StatusOK
      <3>3. UpOK(k)'
        <4>1. Len(Supers[k.desc]) \in Nat
          BY <1>2, <2>2, HierarchyAssumption
        <4>2. 1 .. Len(cls'[k].up) = {} /\ Len(cls'[k].up) <= Len(Supers[k.desc])
          BY <2>5, <3>1, <4>1
        <4>. QED BY <2>5, <3>1, <4>2 DEF UpOK
      <3>4. EntryOK(k)'
        <4>1. Copy(k) \notin DOMAIN cls'
          BY <2>2, <2>3, <2>7, CopyFacts
        <4>. QED BY <1>3, <2>2, <2>7, <2>8, <4>1 DEF EntryOK
      <3>5. InitOK(k)'
        BY <3>1 DEF InitOK
      <3>. QED BY <3>2, <3>3, <3>4, <3>5 DEF ObjectOK
    <2>18. ASSUME NEW o \in DOMAIN cls, Copy(o) \in DOMAIN cls' PROVE Copy(o) \in DOMAIN cls
      BY <2>2, <2>7, <2>18, CopyFacts DEF IInv, Types
    <2>19. \A l \in Loaders, d \in Descs :
             table'[l][d] # NULL /\ table'[l][d] # table[l][d] =>
               table'[l][d].desc = d /\ (table'[l][d].loader # l => Status(table[l][d])' \in Res)
      BY <2>2, <2>8
    <2>20. ASSUME NEW u \in Threads, NEW x, InStack(u, x) PROVE Apart(x, {k})
      <3>1. FrameOK(u, x)
        BY <2>20, InStackFacts DEF IInv
      <3>2. x.at \in DefAts \cup Ver2 \cup Ini2 => x.k \in DOMAIN cls /\ x.k \in Classes
        BY <3>1 DEF FrameOK, KAts, OfAts, VerAts, IniAts, IInv, Types
      <3>. QED BY <2>2, <2>3, <3>2, CopyFacts DEF Apart
    <2>21. \A u \in Threads : u # t => ret'[u] = ret[u] /\ exc'[u] = exc[u] /\ Wakes(u)
      BY <1>4, <2>9 DEF Wakes, Others
    <2>22. \A x : Lower(t, x) => Apart(x, {k})
      BY <2>20, LowerInStack DEF IInv
    <2>23. Ctx(t)
      <3>1. \A o \in DOMAIN cls' : o \in {k} => ObjectOK(o)'
        BY <2>17
      <3>. QED BY <1>4, <2>13, <2>14, <2>15, <2>16, <2>18, <2>19, <2>20, <2>21, <2>22, <3>1, TouchCtx
    <2>24. Kin(f, g) /\ Alone(f, g)
      BY <1>1, <2>3, <2>11 DEF Kin, Alone, FindAts, DefAts, VerAts, IniAts, IfaceAts, Ver2, Ini2
    <2>25. FrameOK(t, g)'
      <3>1. DefFrame(t, g)'
        <4>1. Copy(k) \notin DOMAIN cls'
          BY <2>2, <2>3, <2>7, CopyFacts
        <4>2. cls'[k].tid = t /\ Status(k)' = "Idx" /\ cls'[k].up = <<>>
          BY <2>5, <2>6, <2>7 DEF SameStatus, Status
        <4>. QED BY <1>3, <2>2, <2>8, <2>11, <4>1, <4>2 DEF DefFrame
      <3>. QED BY <2>2, <2>7, <2>11, <3>1 DEF FrameOK, FindFrame, KAts, OfAts, DefAts, VerAts, IniAts, IfaceAts, Ver2, Ini2
    <2>26. TopOK(t, g)'
      BY <1>2, <1>4, <2>9, <2>11, PlainTop DEF Handlers
    <2>27. Mon(t, Grip(f), Grip(g))
      <3>1. Grip(g) = {k}
        BY <2>11 DEF Grip, DefAts
      <3>. QED BY <1>3, <2>3, <2>7, <3>1 DEF Mon
    <2>28. \A o \in DOMAIN cls' : Status(o)' = "Initializing" => o \in DOMAIN cls /\ Status(o) = "Initializing" /\ cls'[o].tid = cls[o].tid
      BY <2>6, <2>7 DEF Status, SameStatus
    <2>29. f.at \notin Ini2
      BY <1>1 DEF Ini2
    <2>. QED BY <1>0, <1>1, <2>10, <2>11, <2>23, <2>24, <2>25, <2>26, <2>27, <2>28, <2>29, BecomeStep
  <1>. QED BY <1>0, <1>5, <1>6, <1>7 DEF DefineClass

LEMMA RejectStep ==
  ASSUME IInv, NEW t \in Threads, stack[t] # <<>>, NEW f, f = Top(t), f.n = 0,
         f.at \in {"load", "super", "resolved", "link"}, Reject(t, f.k),
         UNCHANGED <<table, spurious, aborted, history>>, UNCHANGED faults \/ Fail
  PROVE  IInv'
  <1>1. PICK k : k = f.k
    OBVIOUS
  <1>2. /\ FrameOK(t, f) /\ f \in FrameRec /\ f.d \in Descs /\ f.l \in Loaders /\ waiting[t] = NULL /\ DefFrame(t, f)
        /\ k \in DOMAIN cls /\ k \in Classes /\ f.at \in DefAts /\ k.desc = f.d
    BY <1>1, TopFacts DEF FrameOK, KAts, OfAts, DefAts, IInv, Types
  <1>3. /\ Status(k) \in {"Idx", "Loaded", "ErrorUnresolved"} /\ table[f.l][f.d] = k /\ k.gen = "first" /\ k.desc \notin Arrays
    BY <1>1, <1>2 DEF DefFrame
  <1>4. Grip(f) = {k}
    BY <1>1 DEF Grip, DefAts
  <1>5. cls[k].owner = t /\ cls[k].count > 0 /\ cls[k].count \in Nat
    BY <1>4, TopHolds
  <1>6. PICK c1 : c1 = IF IsErroneous(k) THEN cls ELSE Set(cls, k, "ErrorUnresolved")
    OBVIOUS
  <1>7. /\ Map(c1) /\ DOMAIN c1 = DOMAIN cls /\ (\A x \in DOMAIN cls : x # k => c1[x] = cls[x]) /\ SameMonitor(c1[k], cls[k])
        /\ c1[k].status = "ErrorUnresolved" /\ c1[k].tid = cls[k].tid /\ c1[k].up = cls[k].up /\ c1[k].ift = cls[k].ift
        /\ c1[k].done = cls[k].done
    <2>1. Map(cls)
      BY ClsMap DEF IInv
    <2>2. CASE IsErroneous(k)
      BY <1>3, <1>6, <2>1, <2>2 DEF IsErroneous, Status, SameMonitor
    <2>3. CASE ~ IsErroneous(k)
      <3>1. c1 = Set(cls, k, "ErrorUnresolved") /\ "ErrorUnresolved" \in Statuses
        BY <1>6, <2>3 DEF Statuses
      <3>. QED BY <1>2, <2>1, <3>1, SetFacts DEF Alters
    <2>. QED BY <2>2, <2>3
  <1>8. /\ DOMAIN cls' = DOMAIN cls /\ Map(cls') /\ (\A x \in DOMAIN cls : x # k => cls'[x] = cls[x])
        /\ SameStatus(cls'[k], c1[k]) /\ cls'[k].count = cls[k].count - 1
        /\ cls'[k].owner = (IF cls[k].count = 1 THEN NULL ELSE cls[k].owner)
    <2>1. cls' = Unlock(c1, k) /\ c1[k].count > 0 /\ k \in DOMAIN c1 /\ Map(c1)
      BY <1>1, <1>2, <1>5, <1>6, <1>7 DEF Reject, SameMonitor
    <2>2. PICK e : e = cls'
      OBVIOUS
    <2>3. /\ Alters(c1, e, k) /\ SameStatus(e[k], c1[k])
          /\ e[k].owner = (IF c1[k].count = 1 THEN NULL ELSE c1[k].owner) /\ e[k].count = c1[k].count - 1
      BY <2>1, <2>2, UnlockFacts
    <2>4. DOMAIN e = DOMAIN c1 /\ Map(e) /\ \A x \in DOMAIN c1 : x # k => e[x] = c1[x]
      BY <2>3 DEF Alters
    <2>. QED BY <1>7, <2>2, <2>3, <2>4 DEF SameMonitor
  <1>9. Turns(k, "ErrorUnresolved")
    BY <1>2, <1>7, <1>8 DEF Turns, Kept, SameStatus
  <1>10. /\ NotifyAll(k) /\ Return(t) /\ ret' = [ret EXCEPT ![t] = NULL] /\ exc' = [exc EXCEPT ![t] = TRUE]
    BY <1>1 DEF Reject, ReturnNull, Throw
  <1>11. stack' \in [Threads -> Seq(FrameRec)]
    BY <1>10, ReturnFr DEF IInv, Rewrites
  <1>12. Others(t) /\ ret'[t] = NULL /\ exc'[t]
    BY <1>8, <1>10, OthersFacts DEF IInv
  <1>13. /\ table' = table /\ given' = given /\ ran' = ran /\ spurious' = spurious /\ aborted' = aborted
         /\ denied' = denied /\ faults' \in Nat /\ faults' <= faults
    BY ConstantsAssumption DEF history, Fail, IInv, Types
  <1>14. Evolves(k)
    BY <1>3, <1>9 DEF Evolves, Turns, Status, Res, Was, Late
  <1>15. StatusOK(k)'
    BY <1>2, <1>3, <1>9 DEF StatusOK, Turns, Status
  <1>16. ASSUME NEW u \in Threads, NEW g, (u # t /\ InStack(u, g)) \/ (u = t /\ Lower(t, g)) PROVE Apart(g, {k})
    <2>1. Apart(g, {f.k, Copy(f.k)})
      BY <1>2, <1>16, DefApart
    <2>2. {k} \subseteq {f.k, Copy(f.k)}
      BY <1>1
    <2>. QED BY <2>1, <2>2, ApartLess
  <1>17. Ctx(t) /\ waiting'[t] = NULL
    <2>1. "ErrorUnresolved" # "Verifying" /\ "ErrorUnresolved" # "Initialized"
      OBVIOUS
    <2>. QED BY <1>2, <1>9, <1>10, <1>11, <1>12, <1>13, <1>14, <1>15, <1>16, <2>1, TurnsCtx
  <1>18. Mon(t, Grip(f), {})
    BY <1>4, <1>8 DEF Mon
  <1>19. NoneInitializes
    BY <1>9, TurnsIni
  <1>20. Dead(f.l, f.d)'
    <2>1. k # NULL
      BY <1>2, ConstantsAssumption
    <2>. QED BY <1>3, <1>9, <1>13, <2>1 DEF Dead, Turns, Status
  <1>21. f.at \in FindAts
    BY <1>2 DEF FindAts
  <1>. QED BY <1>10, <1>12, <1>17, <1>18, <1>19, <1>20, <1>21, NullReturn

LEMMA DefTop ==
  ASSUME IInv, NEW t \in Threads, stack[t] # <<>>, NEW f, f = Top(t), f.n = 0, f.at \in DefAts
  PROVE  /\ FrameOK(t, f) /\ TopOK(t, f) /\ f \in FrameRec /\ f.d \in Descs /\ f.l \in Loaders /\ waiting[t] = NULL
         /\ DefFrame(t, f) /\ f.k \in DOMAIN cls /\ f.k \in Classes /\ f.k # NULL /\ f.d = f.k.desc /\ f.l = f.k.loader
         /\ f.i \in Nat /\ f.k.gen = "first" /\ f.k.desc \notin Arrays /\ f.at \in FindAts
         /\ f.at # "resolved" => ~ exc[t]
         /\ Grip(f) = {f.k} \cup (IF f.at \in {"retire", "publish"} THEN {Copy(f.k)} ELSE {})
         /\ \A u \in Threads : \A g :
              (u # t /\ InStack(u, g)) \/ (u = t /\ Lower(t, g)) => Apart(g, {f.k, Copy(f.k)})
  <1>1. /\ FrameOK(t, f) /\ TopOK(t, f) /\ f \in FrameRec /\ f.d \in Descs /\ f.l \in Loaders /\ waiting[t] = NULL
        /\ f.i \in Nat
    BY TopFacts
  <1>2. /\ DefFrame(t, f) /\ f.k \in DOMAIN cls /\ f.d = f.k.desc /\ f.l = f.k.loader /\ f.k \in Classes
    BY <1>1 DEF FrameOK, KAts, OfAts, IInv, Types
  <1>3. f.k # NULL /\ f.k.gen = "first" /\ f.k.desc \notin Arrays /\ f.at \in FindAts
    BY <1>2, ConstantsAssumption DEF DefFrame, FindAts
  <1>4. f.at # "resolved" => ~ exc[t]
    BY TopFacts DEF DefAts, Handlers
  <1>5. Grip(f) = {f.k} \cup (IF f.at \in {"retire", "publish"} THEN {Copy(f.k)} ELSE {})
    BY DEF Grip
  <1>6. ASSUME NEW u \in Threads, NEW g, (u # t /\ InStack(u, g)) \/ (u = t /\ Lower(t, g))
        PROVE  Apart(g, {f.k, Copy(f.k)})
    BY <1>6, DefApart
  <1>. QED BY <1>1, <1>2, <1>3, <1>4, <1>5, <1>6

LEMMA DefKin ==
  ASSUME NEW f, NEW g, f.at \in DefAts, g.at \in DefAts, g.d = f.d, g.l = f.l, g.k = f.k
  PROVE  Kin(f, g) /\ Alone(f, g)
  BY DEF Kin, Alone, FindAts, DefAts, VerAts, IniAts, IfaceAts, Ver2, Ini2

(* A frame of DefineClass *)
LEMMA DefOK ==
  ASSUME NEW t \in Threads, NEW g \in FrameRec, g.at \in DefAts, g.k \in DOMAIN cls, g.d = g.k.desc, g.l = g.k.loader, DefFrame(t, g)
  PROVE  FrameOK(t, g)
  BY DEF FrameOK, FindFrame, KAts, OfAts, DefAts, VerAts, IniAts, IfaceAts, Ver2, Ini2

LEMMA DefOKPrime ==
  ASSUME NEW t \in Threads, NEW g \in FrameRec, g.at \in DefAts, g.k \in DOMAIN cls', g.d = g.k.desc, g.l = g.k.loader, DefFrame(t, g)'
  PROVE  FrameOK(t, g)'
  BY DEF FrameOK, FindFrame, KAts, OfAts, DefAts, VerAts, IniAts, IfaceAts, Ver2, Ini2

LEMMA LoadClassStep ==
  ASSUME IInv, NEW t \in Threads, LoadClass(t)
  PROVE  IInv'
  <1>0. PICK f : f = Top(t)
    OBVIOUS
  <1>1. stack[t] # <<>> /\ f.at = "load" /\ f.n = 0
    BY <1>0, AtTop DEF LoadClass
  <1>2. f.at \in DefAts /\ "super" \in DefAts /\ "super" \in Ats
    BY <1>1 DEF DefAts, Ats, FindAts
  <1>3. /\ f \in FrameRec /\ waiting[t] = NULL /\ DefFrame(t, f) /\ f.k \in DOMAIN cls /\ f.d = f.k.desc /\ f.l = f.k.loader /\ ~ exc[t]
        /\ Grip(f) = {f.k}
    BY <1>0, <1>1, <1>2, DefTop
  <1>4. CASE Fail /\ Reject(t, f.k)
    BY <1>0, <1>1, <1>4, RejectStep DEF LoadClass
  <1>5. CASE Goto(t, "super") /\ UNCHANGED <<cls, ret, exc, waiting, faults>>
    <2>1. PICK g \in FrameRec : /\ Become(t, g) /\ g.at = "super" /\ g.d = f.d /\ g.l = f.l /\ g.n = 0 /\ g.k = f.k
      BY <1>0, <1>1, <1>2, <1>5, GotoFacts
    <2>2. Still /\ DOMAIN cls \subseteq DOMAIN cls'
      BY <1>5, StillFacts DEF IInv, LoadClass
    <2>3. Others(t) /\ exc'[t] = exc[t]
      BY <1>5, <2>2, UnchangedOthers DEF IInv
    <2>4. DefFrame(t, g)
      BY <1>1, <1>3, <2>1 DEF DefFrame
    <2>5. FrameOK(t, g)
      BY <1>2, <1>3, <2>1, <2>4, DefOK
    <2>6. TopOK(t, g)'
      BY <1>3, <1>5, <2>1, <2>3, PlainTop DEF Handlers
    <2>7. Kin(f, g) /\ Alone(f, g)
      BY <1>2, <2>1, DefKin
    <2>8. Grip(g) = Grip(f) /\ f.at \notin Ini2
      BY <1>1, <1>3, <2>1 DEF Grip, DefAts, Ini2
    <2>. QED BY <1>0, <1>1, <2>1, <2>2, <2>3, <2>5, <2>6, <2>7, <2>8, PureBecome
  <1>. QED BY <1>0, <1>4, <1>5 DEF LoadClass

LEMMA LoadSuperAndInterfacesStep ==
  ASSUME IInv, NEW t \in Threads, LoadSuperAndInterfaces(t)
  PROVE  IInv'
  <1>0. PICK f : f = Top(t)
    OBVIOUS
  <1>1. stack[t] # <<>> /\ f.at \in {"super", "resolved"} /\ f.n = 0
    BY <1>0, AtTop DEF LoadSuperAndInterfaces
  <1>2. f.at \in DefAts /\ "super" \in DefAts /\ "super" \in Ats /\ "resolved" \in DefAts /\ "resolved" \in Ats
        /\ "link" \in DefAts /\ "link" \in Ats /\ "find" \in Ats
    BY <1>1 DEF DefAts, Ats, FindAts
  <1>3. PICK k : k = f.k
    OBVIOUS
  <1>4. /\ f \in FrameRec /\ waiting[t] = NULL /\ DefFrame(t, f) /\ k \in DOMAIN cls /\ f.d = k.desc /\ f.l = k.loader
        /\ k \in Classes /\ k # NULL /\ f.d \in Descs /\ f.l \in Loaders /\ f.i \in Nat /\ TopOK(t, f)
        /\ k.gen = "first" /\ k.desc \notin Arrays
    BY <1>0, <1>1, <1>2, <1>3, DefTop
  <1>5. Grip(f) = {k}
    BY <1>1, <1>3 DEF Grip, DefAts
  <1>6. /\ Copy(k) \notin DOMAIN cls /\ cls[k].tid = t /\ table[f.l][f.d] = k
        /\ Status(k) = "Idx" \/ (Status(k) = "ErrorUnresolved" /\ ~ IsTemp(k))
    BY <1>1, <1>3, <1>4 DEF DefFrame
  <1>7. /\ table' = table /\ spurious' = spurious /\ aborted' = aborted /\ given' = given /\ ran' = ran
        /\ denied' = denied
    BY DEF LoadSuperAndInterfaces, history
  <1>8. /\ Supers[f.d] \in Seq(Descs) /\ Len(Supers[f.d]) \in Nat /\ cls[k].up \in Seq(Classes) /\ Len(cls[k].up) \in Nat
    BY <1>4, HierarchyAssumption DEF IInv, Types, ClassRec
  <1>9. CASE /\ At(t, "super") /\ Len(cls[k].up) < Len(Supers[f.d])
             /\ Call(t, <<FindOf(Supers[f.d][Len(cls[k].up) + 1], f.l)>>, "resolved")
             /\ UNCHANGED <<cls, ret, exc, waiting, faults>>
    <2>0. f.at = "super"
      BY <1>0, <1>9, AtTop
    <2>1. PICK next : next = Supers[f.d][Len(cls[k].up) + 1]
      OBVIOUS
    <2>2. next \in Descs /\ next \in Behind[f.d]
      <3>1. Len(cls[k].up) + 1 \in 1 .. Len(Supers[f.d])
        BY <1>8, <1>9
      <3>2. next \in Descs /\ next \in ToSet(Supers[f.d])
        BY <1>8, <2>1, <3>1 DEF ToSet
      <3>3. next \in Behind[f.d]
        BY <1>4, <3>2, BehindFacts DEF Needs
      <3>. QED BY <3>2, <3>3
    <2>3. PICK u, g : u = Frame("find", next, f.l, NULL) /\ g = Onward(f, "resolved") /\ Call(t, <<u>>, "resolved")
      BY <1>9, <2>1 DEF FindOf
    <2>4. NULL \in Classes \cup {NULL}
      OBVIOUS
    <2>5. u \in FrameRec /\ u.at = "find" /\ u.d = next /\ u.l = f.l /\ u.n = 0
      BY <1>2, <1>4, <2>2, <2>3, <2>4, NewFrame
    <2>6. g \in FrameRec /\ g.at = "resolved" /\ g.d = f.d /\ g.l = f.l /\ g.n = 0 /\ g.k = k
      <3>1. f \in FrameRec /\ f.n = 0 /\ "resolved" \in Ats
        BY <1>1, <1>2, <1>4
      <3>. QED BY <1>3, <2>3, <3>1, CallerFrame
    <2>7. FrameOK(t, u)
      BY <2>5, PlainFrame DEF FindFrame
    <2>8. FrameOK(t, g)
      <3>1. DefFrame(t, g)
        BY <1>3, <1>4, <1>6, <1>9, <2>6 DEF DefFrame
      <3>. QED BY <1>2, <1>4, <2>6, <3>1, DefOK
    <2>9. Still /\ DOMAIN cls \subseteq DOMAIN cls'
      BY <1>7, <1>9, StillFacts DEF IInv, history
    <2>10. Others(t) /\ exc'[t] = exc[t] /\ ~ exc[t]
      BY <1>0, <1>1, <1>9, <2>0, <2>9, UnchangedOthers, TopFacts DEF IInv, Handlers
    <2>11. Kin(f, g) /\ Alone(f, g)
      BY <1>2, <1>3, <2>6, DefKin
    <2>12. Push(f, u) /\ Calls(f, g, u)
      BY <2>0, <2>2, <2>5, <2>6 DEF Push, Calls, Grip, DefAts, VerAts, Ver2, Ini2, IfaceAts
    <2>13. LinkOK(g, u)'
      BY <1>9, <2>1, <2>5, <2>6 DEF LinkOK, Handlers, FindAts
    <2>14. TopOK(t, u)'
      BY <1>4, <1>9, <2>5, <2>10, PlainTop DEF Handlers
    <2>15. Grip(g) = Grip(f) /\ f.at \notin Ini2
      BY <1>5, <2>0, <2>6 DEF Grip, DefAts, Ini2
    <2>. QED BY <1>0, <1>1, <1>2, <2>3, <2>5, <2>7, <2>8, <2>9, <2>10, <2>11, <2>12, <2>13, <2>14, <2>15, PureCall
  <1>10. ASSUME Reject(t, k), UNCHANGED faults \/ Fail PROVE IInv'
    BY <1>0, <1>1, <1>3, <1>7, <1>10, RejectStep DEF history
  <1>11. CASE /\ At(t, "super") /\ Len(cls[k].up) = Len(Supers[f.d]) /\ cls' = Set(cls, k, "Loaded")
              /\ Goto(t, "link") /\ UNCHANGED <<ret, exc, waiting, faults>>
    <2>0. f.at = "super"
      BY <1>0, <1>11, AtTop
    <2>1. PICK g \in FrameRec : /\ Become(t, g) /\ g.at = "link" /\ g.d = f.d /\ g.l = f.l /\ g.n = 0 /\ g.k = k
      BY <1>0, <1>1, <1>2, <1>3, <1>11, GotoFacts
    <2>2. /\ DOMAIN cls' = DOMAIN cls /\ Map(cls') /\ (\A x \in DOMAIN cls : x # k => cls'[x] = cls[x])
          /\ SameMonitor(cls'[k], cls[k]) /\ cls'[k].status = "Loaded" /\ cls'[k].tid = cls[k].tid
          /\ cls'[k].up = cls[k].up /\ cls'[k].ift = cls[k].ift /\ cls'[k].done = cls[k].done
      <3>1. Map(cls) /\ "Loaded" \in Statuses
        BY ClsMap DEF IInv, Statuses
      <3>. QED BY <1>4, <1>11, <3>1, SetFacts DEF Alters
    <2>3. Turns(k, "Loaded")
      BY <1>4, <2>2 DEF Turns, Kept
    <2>4. stack' \in [Threads -> Seq(FrameRec)]
      BY <1>1, <2>1, BecomeFr DEF IInv, Rewrites
    <2>5. Others(t) /\ exc'[t] = exc[t] /\ ~ exc[t]
      BY <1>0, <1>1, <1>11, <2>0, <2>2, UnchangedOthers, TopFacts DEF IInv, Handlers
    <2>6. Evolves(k) /\ StatusOK(k)'
      BY <1>4, <1>6, <2>3 DEF Evolves, StatusOK, Turns, Status, Res, Was, Late
    <2>7. ASSUME NEW u \in Threads, NEW x, (u # t /\ InStack(u, x)) \/ (u = t /\ Lower(t, x)) PROVE Apart(x, {k})
      <3>1. Apart(x, {f.k, Copy(f.k)}) /\ {k} \subseteq {f.k, Copy(f.k)}
        BY <1>0, <1>1, <1>2, <1>3, <2>7, DefTop
      <3>. QED BY <3>1, ApartLess
    <2>8. Ctx(t) /\ waiting' = waiting
      <3>1. waiting' = waiting /\ faults' \in Nat /\ faults' <= faults /\ "Loaded" # "Initialized"
        BY <1>11, ConstantsAssumption DEF IInv, Types
      <3>. QED BY <1>7, <2>3, <2>4, <2>5, <2>6, <2>7, <3>1, TurnsCtx
    <2>9. FrameOK(t, g)'
      <3>1. DefFrame(t, g)'
        BY <1>3, <1>4, <1>6, <1>7, <2>1, <2>2 DEF DefFrame, Status
      <3>. QED BY <1>2, <1>4, <2>1, <2>2, <3>1, DefOKPrime
    <2>10. TopOK(t, g)'
      BY <1>4, <2>1, <2>5, <2>8, PlainTop DEF Handlers
    <2>11. Kin(f, g) /\ Alone(f, g)
      BY <1>2, <1>3, <2>1, DefKin
    <2>12. Mon(t, Grip(f), Grip(g))
      <3>1. Grip(g) = Grip(f)
        BY <1>5, <2>1 DEF Grip, DefAts
      <3>. QED BY <2>2, <3>1 DEF Mon, SameMonitor
    <2>13. NoneInitializes /\ f.at \notin Ini2
      BY <2>0, <2>3, TurnsIni DEF Ini2
    <2>. QED BY <1>0, <1>1, <2>1, <2>8, <2>9, <2>10, <2>11, <2>12, <2>13, BecomeStep DEF NoneInitializes
  <1>12. CASE /\ At(t, "resolved") /\ ~ exc[t] /\ cls' = [cls EXCEPT ![k].up = Append(@, ret[t])]
              /\ Goto(t, "super") /\ UNCHANGED <<ret, exc, waiting, faults>>
    <2>0. f.at = "resolved"
      BY <1>0, <1>12, AtTop
    <2>1. PICK g \in FrameRec : /\ Become(t, g) /\ g.at = "super" /\ g.d = f.d /\ g.l = f.l /\ g.n = 0 /\ g.k = k
      BY <1>0, <1>1, <1>2, <1>3, <1>12, GotoFacts
    <2>2. PICK p, m : p = ret[t] /\ m = Len(cls[k].up)
      OBVIOUS
    <2>3. Good(p) /\ p \in DOMAIN cls /\ p.desc = Supers[f.d][m + 1] /\ p = table[f.l][p.desc] /\ p \in Classes
      BY <1>3, <1>4, <1>12, <2>0, <2>2 DEF TopOK, Good, IInv, Types
    <2>4. p.desc # k.desc /\ p # k
      BY <1>4, <1>6, <2>3 DEF Good, Res
    <2>5. m \in Nat /\ m < Len(Supers[f.d])
      BY <1>3, <1>4, <1>8, <2>0, <2>2 DEF DefFrame
    <2>6. PICK up : up = Append(cls[k].up, p)
      OBVIOUS
    <2>7. up \in Seq(Classes) /\ Len(up) = m + 1 /\ up[m + 1] = p /\ \A j \in 1 .. m : up[j] = cls[k].up[j]
      BY <1>8, <2>2, <2>3, <2>6
    <2>8. /\ DOMAIN cls' = DOMAIN cls /\ Map(cls') /\ (\A x \in DOMAIN cls : x # k => cls'[x] = cls[x])
          /\ SameMonitor(cls'[k], cls[k]) /\ cls'[k].status = cls[k].status /\ cls'[k].tid = cls[k].tid
          /\ cls'[k].up = up /\ cls'[k].ift = cls[k].ift /\ cls'[k].done = cls[k].done
      <3>1. PICK r : r = [cls[k] EXCEPT !.up = up]
        OBVIOUS
      <3>2. cls[k] \in ClassRec /\ cls \in [DOMAIN cls -> ClassRec] /\ Map(cls)
        BY <1>4, ClsMap DEF IInv, Types
      <3>3. /\ r \in ClassRec /\ SameMonitor(r, cls[k]) /\ r.status = cls[k].status /\ r.tid = cls[k].tid
            /\ r.up = up /\ r.ift = cls[k].ift /\ r.done = cls[k].done
        BY <2>7, <3>1, <3>2 DEF ClassRec, SameMonitor
      <3>4. cls' = [cls EXCEPT ![k] = r]
        BY <1>12, <2>2, <2>6, <3>1, <3>2, Zenon
      <3>5. PICK e : e = cls'
        OBVIOUS
      <3>6. Alters(cls, e, k) /\ e[k] = r
        BY <1>4, <3>2, <3>3, <3>4, <3>5, AltersFacts
      <3>. QED BY <3>3, <3>5, <3>6 DEF Alters
    <2>9. stack' \in [Threads -> Seq(FrameRec)]
      BY <1>1, <2>1, BecomeFr DEF IInv, Rewrites
    <2>10. Others(t) /\ exc'[t] = exc[t] /\ waiting' = waiting /\ faults' = faults
      BY <1>12, <2>8, UnchangedOthers DEF IInv
    <2>11. Types'
      <3>1. /\ table' \in [Loaders -> [Descs -> DOMAIN cls' \cup {NULL}]] /\ waiting' \in [Threads -> DOMAIN cls' \cup {NULL}]
            /\ faults' \in Nat /\ faults' <= faults
        BY <1>7, <2>8, <2>10, ConstantsAssumption DEF IInv, Types
      <3>. QED BY <1>7, <2>8, <2>9, <2>10, <3>1, TypesStep DEF IInv
    <2>12. Grows /\ Touches({k})
      <3>1. ASSUME NEW x \in DOMAIN cls PROVE Evolves(x)
        BY <1>6, <2>8, <3>1 DEF Evolves, Status, Res, Was, Late
      <3>2. \A l \in Loaders, d \in Descs : EntryEvolves(l, d)
        BY <1>7 DEF EntryEvolves
      <3>3. faults' <= faults /\ spurious' <= spurious
        BY <1>7, <2>10, ConstantsAssumption DEF IInv, Types
      <3>. QED BY <1>7, <2>8, <3>1, <3>2, <3>3 DEF Grows, Touches, Kept
    <2>13. Aborts'
      BY <1>7, <2>11, <2>12, AbortsStable DEF IInv
    <2>14. ObjectOK(k)'
      <3>1. ObjectOK(k) /\ Status(k)' = Status(k)
        BY <1>4, <2>8 DEF IInv, Objects, Status
      <3>2. StatusOK(k)'
        BY <1>4, <2>8, <3>1 DEF ObjectOK, StatusOK, Status
      <3>3. EntryOK(k)'
        BY <1>4, <2>8, <2>11, <2>12, EntryStable DEF IInv
      <3>4. InitOK(k)'
        BY <1>4, <1>6, <2>8, <3>1 DEF ObjectOK, InitOK, Status, Res
      <3>5. ASSUME NEW j \in 1 .. m + 1
            PROVE  /\ up[j] \in DOMAIN cls /\ Good(up[j]) /\ up[j].desc = Supers[k.desc][j] /\ up[j].desc # k.desc
        <4>1. CASE j = m + 1
          BY <1>4, <2>3, <2>4, <2>7, <4>1
        <4>2. CASE j \in 1 .. m
          BY <1>4, <2>2, <2>7, <3>1, <4>2 DEF ObjectOK, UpOK, Good
        <4>. QED BY <2>5, <3>5, <4>1, <4>2
      <3>6. ToSet(up) \subseteq DOMAIN cls
        BY <2>7, <3>5 DEF ToSet
      <3>7. \A j \in 1 .. m + 1 : Good(up[j])'
        BY <2>12, <3>5, GoodStable
      <3>8. m + 1 <= Len(Supers[k.desc])
        BY <1>4, <1>8, <2>5
      <3>9. ASSUME NEW q \in cls[k].ift
            PROVE  /\ Good(q)' /\ q.desc \in Interfaces /\ q.desc \in Behind[k.desc] /\ q \in DOMAIN cls
                   /\ \E j \in 1 .. m + 1 : q = up[j] \/ q \in cls'[up[j]].ift
        <4>1. /\ Good(q) /\ q.desc \in Interfaces /\ q.desc \in Behind[k.desc]
              /\ \E j \in 1 .. m : q = cls[k].up[j] \/ q \in cls[cls[k].up[j]].ift
          BY <2>2, <3>1, <3>9 DEF ObjectOK, UpOK
        <4>2. PICK j \in 1 .. m : q = up[j] \/ q \in cls[up[j]].ift
          BY <2>7, <4>1
        <4>3. j \in 1 .. m + 1
          BY <2>5, <4>2
        <4>4. up[j] \in DOMAIN cls /\ up[j] # k
          BY <3>5, <4>3
        <4>5. cls'[up[j]] = cls[up[j]]
          BY <2>8, <4>4
        <4>. QED BY <2>12, <4>1, <4>2, <4>3, <4>5, GoodStable DEF Good
      <3>10. UpOK(k)'
        BY <1>4, <2>7, <2>8, <3>5, <3>6, <3>7, <3>8, <3>9 DEF UpOK
      <3>. QED BY <3>2, <3>3, <3>4, <3>10 DEF ObjectOK
    <2>15. ASSUME NEW u \in Threads, NEW x, (u # t /\ InStack(u, x)) \/ (u = t /\ Lower(t, x)) PROVE Apart(x, {k})
      <3>1. Apart(x, {f.k, Copy(f.k)}) /\ {k} \subseteq {f.k, Copy(f.k)}
        BY <1>0, <1>1, <1>2, <1>3, <2>15, DefTop
      <3>. QED BY <3>1, ApartLess
    <2>16. \A u \in Threads : u # t => ret'[u] = ret[u] /\ exc'[u] = exc[u] /\ Wakes(u)
      BY <2>10 DEF Wakes, Others
    <2>17. Ctx(t)
      <3>1. \A o \in DOMAIN cls' : o \in {k} => ObjectOK(o)'
        BY <2>14
      <3>. QED BY <1>7, <2>8, <2>11, <2>12, <2>13, <2>15, <2>16, <3>1, TouchCtx
    <2>18. FrameOK(t, g)'
      <3>1. DefFrame(t, g)'
        BY <1>4, <1>3, <1>6, <1>7, <2>1, <2>8 DEF DefFrame, Status
      <3>. QED BY <1>2, <1>4, <2>1, <2>8, <3>1, DefOKPrime
    <2>19. TopOK(t, g)'
      BY <1>4, <1>12, <2>1, <2>10, PlainTop DEF Handlers
    <2>20. Kin(f, g) /\ Alone(f, g)
      BY <1>2, <1>3, <2>1, DefKin
    <2>21. Mon(t, Grip(f), Grip(g))
      <3>1. Grip(g) = Grip(f)
        BY <1>5, <2>1 DEF Grip, DefAts
      <3>. QED BY <2>8, <3>1 DEF Mon, SameMonitor
    <2>22. f.at \notin Ini2 /\ NoneInitializes
      BY <2>0, <2>8 DEF Ini2, NoneInitializes, Status
    <2>. QED BY <1>0, <1>1, <2>1, <2>17, <2>18, <2>19, <2>20, <2>21, <2>22, BecomeStep DEF NoneInitializes
  <1>. QED BY <1>0, <1>3, <1>9, <1>10, <1>11, <1>12 DEF LoadSuperAndInterfaces

Inherited(k) == UNION {cls[p].ift : p \in ToSet(cls[k].up)}
Direct(k) == {p \in ToSet(cls[k].up) : p.desc \in Interfaces}

(* What SetupInterfaceLookupTable collects *)
LEMMA IftSplit == \A k : SetupInterfaceLookupTable(k) = Inherited(k) \cup Direct(k)
  BY DEF SetupInterfaceLookupTable, Inherited, Direct

(* The interfaces of a class are classes that a caller may have. *)
LEMMA IftFacts ==
  ASSUME IInv, NEW k \in DOMAIN cls, k.desc \notin Arrays, NEW ift, ift = SetupInterfaceLookupTable(k)
  PROVE  /\ ift \subseteq DOMAIN cls
         /\ \A q \in ift :
              /\ Good(q) /\ q.desc \in Interfaces /\ q.desc \in Behind[k.desc]
              /\ \E j \in 1 .. Len(cls[k].up) : q = cls[k].up[j] \/ q \in cls[cls[k].up[j]].ift
         /\ \A j \in 1 .. Len(cls[k].up) : cls[k].up[j] \in DOMAIN cls /\ cls[k].up[j] # k /\ Good(cls[k].up[j])
  <1>1. PICK up : up = cls[k].up
    OBVIOUS
  <1>2. up \in Seq(Classes) /\ ToSet(up) = {up[j] : j \in 1 .. Len(up)} /\ ToSet(up) \subseteq DOMAIN cls
        /\ k \in Classes
    <2>1. up \in Seq(Classes) /\ ToSet(up) \subseteq DOMAIN cls /\ k \in Classes
      BY <1>1 DEF IInv, Types, ClassRec, Objects, ObjectOK, UpOK
    <2>2. DOMAIN up = 1 .. Len(up)
      BY <2>1
    <2>3. ToSet(up) = {up[j] : j \in DOMAIN up}
      BY DEF ToSet
    <2>. QED BY <2>1, <2>2, <2>3
  <1>3. ASSUME NEW j \in 1 .. Len(up)
        PROVE  /\ up[j] \in DOMAIN cls /\ Good(up[j]) /\ up[j].desc # k.desc /\ up[j].desc \in Descs
               /\ up[j].desc \in Behind[k.desc] /\ k.desc \in Descs
    <2>1. /\ Len(up) <= Len(Supers[k.desc]) /\ up[j].desc = Supers[k.desc][j]
          /\ up[j].desc # k.desc /\ Good(up[j]) /\ up[j] \in DOMAIN cls
      BY <1>1, <1>2, <1>3 DEF IInv, Objects, ObjectOK, UpOK, Good
    <2>2. k.desc \in Descs /\ Supers[k.desc] \in Seq(Descs)
      BY <1>2, HierarchyAssumption DEF Classes
    <2>3. Supers[k.desc][j] \in Descs /\ Supers[k.desc][j] \in ToSet(Supers[k.desc])
      BY <1>2, <1>3, <2>1, <2>2 DEF ToSet
    <2>4. up[j].desc \in Behind[k.desc]
      BY <2>1, <2>2, <2>3, BehindFacts DEF Needs
    <2>. QED BY <2>1, <2>2, <2>3, <2>4
  <1>4. ASSUME NEW q \in ift
        PROVE  /\ Good(q) /\ q.desc \in Interfaces /\ q.desc \in Behind[k.desc]
               /\ \E j \in 1 .. Len(up) : q = up[j] \/ q \in cls[up[j]].ift
    <2>1. \/ q \in ToSet(up) /\ q.desc \in Interfaces
          \/ \E p \in ToSet(up) : q \in cls[p].ift
      <3>1. ift = Inherited(k) \cup Direct(k)
        BY IftSplit
      <3>2. q \in Inherited(k) \/ q \in Direct(k)
        BY <1>4, <3>1
      <3>3. q \in Inherited(k) => \E p \in ToSet(up) : q \in cls[p].ift
        BY <1>1 DEF Inherited
      <3>4. q \in Direct(k) => q \in ToSet(up) /\ q.desc \in Interfaces
        BY <1>1 DEF Direct
      <3>. QED BY <3>2, <3>3, <3>4
    <2>2. CASE q \in ToSet(up) /\ q.desc \in Interfaces
      <3>1. PICK j \in 1 .. Len(up) : q = up[j]
        BY <1>2, <2>2
      <3>. QED BY <1>3, <2>2, <3>1
    <2>3. CASE \E p \in ToSet(up) : q \in cls[p].ift
      <3>1. PICK j \in 1 .. Len(up) : q \in cls[up[j]].ift
        BY <1>2, <2>3
      <3>2. Good(q) /\ q.desc \in Interfaces /\ q.desc \in Behind[up[j].desc]
        BY <1>3, <3>1 DEF IInv, Objects, ObjectOK, UpOK
      <3>3. q.desc \in Behind[k.desc]
        BY <1>3, <3>2, BehindFacts
      <3>. QED BY <3>1, <3>2, <3>3
    <2>. QED BY <2>1, <2>2, <2>3
  <1>5. ift \subseteq DOMAIN cls
    BY <1>4 DEF Good
  <1>. QED BY <1>1, <1>3, <1>4, <1>5

(* So the object o that takes them may. *)
LEMMA IftUp ==
  ASSUME IInv, Grows, NEW k \in DOMAIN cls, k.desc \notin Arrays, NEW o, o.desc = k.desc,
         cls'[o].up = cls[k].up, cls'[o].ift = SetupInterfaceLookupTable(k),
         \A x \in DOMAIN cls : x # k => cls'[x].ift = cls[x].ift
  PROVE  UpOK(o)'
  <1>1. PICK ift, up : ift = SetupInterfaceLookupTable(k) /\ up = cls[k].up
    OBVIOUS
  <1>2. /\ ift \subseteq DOMAIN cls
        /\ \A q \in ift :
             /\ Good(q) /\ q.desc \in Interfaces /\ q.desc \in Behind[k.desc]
             /\ \E j \in 1 .. Len(up) : q = up[j] \/ q \in cls[up[j]].ift
        /\ \A j \in 1 .. Len(up) : up[j] \in DOMAIN cls /\ up[j] # k /\ Good(up[j])
    BY <1>1, IftFacts
  <1>3. /\ ToSet(up) \subseteq DOMAIN cls /\ Len(up) <= Len(Supers[k.desc])
        /\ \A j \in 1 .. Len(up) : up[j].desc = Supers[k.desc][j] /\ up[j].desc # k.desc
    BY <1>1 DEF IInv, Objects, ObjectOK, UpOK
  <1>4. ASSUME NEW j \in 1 .. Len(up) PROVE Good(up[j])' /\ cls'[up[j]].ift = cls[up[j]].ift
    BY <1>2, <1>4, GoodStable
  <1>5. ASSUME NEW q \in ift PROVE Good(q)' /\ \E j \in 1 .. Len(up) : q = up[j] \/ q \in cls'[up[j]].ift
    BY <1>2, <1>4, <1>5, GoodStable
  <1>6. DOMAIN cls \subseteq DOMAIN cls'
    BY DEF Grows
  <1>7. ToSet(up) \cup ift \subseteq DOMAIN cls'
    BY <1>2, <1>3, <1>6
  <1>. QED BY <1>1, <1>2, <1>3, <1>4, <1>5, <1>7 DEF UpOK

LEMMA SameClass ==
  ASSUME NEW x \in Classes, NEW y \in Classes, x.desc = y.desc, x.loader = y.loader, x.by = y.by, x.gen = y.gen
  PROVE  x = y
  BY DEF Classes

Linked(c, k, ift) == [c EXCEPT ![k].status = "Resolved", ![k].ift = ift]

LEMMA LinkPlain ==
  ASSUME IInv, NEW t \in Threads, NEW f, f = Top(t), NEW k, k = f.k, At(t, "link"), ~ IsTemp(k),
         cls' = Unlock(Linked(cls, k, SetupInterfaceLookupTable(k)), k),
         NotifyAll(k), ReturnClass(t, k), UNCHANGED <<table, faults, spurious, aborted, history>>
  PROVE  IInv'
  <1>1. stack[t] # <<>> /\ f.at = "link" /\ f.n = 0 /\ f.at \in DefAts
    BY AtTop DEF DefAts
  <1>2. /\ FrameOK(t, f) /\ f \in FrameRec /\ f.d \in Descs /\ f.l \in Loaders /\ waiting[t] = NULL
        /\ DefFrame(t, f) /\ k \in DOMAIN cls /\ k \in Classes /\ k # NULL /\ f.d = k.desc /\ f.l = k.loader
        /\ k.gen = "first" /\ k.desc \notin Arrays /\ f.at \in FindAts /\ ~ exc[t]
    BY <1>1, DefTop
  <1>3. Grip(f) = {k} /\ Status(k) = "Loaded" /\ table[f.l][f.d] = k
    BY <1>1, <1>2 DEF Grip, DefFrame
  <1>4. cls[k].owner = t /\ cls[k].count > 0 /\ cls[k].count \in Nat
    BY <1>1, <1>3, TopHolds
  <1>5. PICK ift : ift = SetupInterfaceLookupTable(k)
    OBVIOUS
  <1>6. ift \subseteq DOMAIN cls
    BY <1>2, <1>5, IftFacts
  <1>7. PICK c1 : c1 = Linked(cls, k, ift)
    OBVIOUS
  <1>8. /\ Map(c1) /\ DOMAIN c1 = DOMAIN cls /\ (\A x \in DOMAIN cls : x # k => c1[x] = cls[x]) /\ SameMonitor(c1[k], cls[k])
        /\ c1[k].status = "Resolved" /\ c1[k].tid = cls[k].tid /\ c1[k].up = cls[k].up /\ c1[k].ift = ift
        /\ c1[k].done = cls[k].done
    <2>1. PICK r : r = [cls[k] EXCEPT !.status = "Resolved", !.ift = ift]
      OBVIOUS
    <2>2. cls[k] \in ClassRec /\ cls \in [DOMAIN cls -> ClassRec] /\ Map(cls) /\ "Resolved" \in Statuses /\ ift \in SUBSET Classes
      BY <1>2, <1>6, ClsMap DEF IInv, Types, Statuses
    <2>3. /\ r \in ClassRec /\ SameMonitor(r, cls[k]) /\ r.status = "Resolved" /\ r.tid = cls[k].tid
          /\ r.up = cls[k].up /\ r.ift = ift /\ r.done = cls[k].done
      BY <2>1, <2>2, Zenon DEF ClassRec, SameMonitor
    <2>4. c1 = [cls EXCEPT ![k] = r]
      BY <1>7, <2>1, <2>2, Zenon DEF ClassRec, Linked
    <2>5. Alters(cls, c1, k) /\ c1[k] = r
      BY <1>2, <2>2, <2>3, <2>4, AltersFacts
    <2>. QED BY <2>3, <2>5 DEF Alters
  <1>9. /\ DOMAIN cls' = DOMAIN cls /\ Map(cls') /\ (\A x \in DOMAIN cls : x # k => cls'[x] = cls[x])
        /\ SameStatus(cls'[k], c1[k]) /\ cls'[k].count = cls[k].count - 1
        /\ cls'[k].owner = (IF cls[k].count = 1 THEN NULL ELSE cls[k].owner)
    <2>1. cls' = Unlock(c1, k) /\ c1[k].count > 0 /\ k \in DOMAIN c1 /\ Map(c1)
      BY <1>2, <1>4, <1>5, <1>7, <1>8 DEF SameMonitor
    <2>2. PICK e : e = cls'
      OBVIOUS
    <2>3. /\ Alters(c1, e, k) /\ SameStatus(e[k], c1[k])
          /\ e[k].owner = (IF c1[k].count = 1 THEN NULL ELSE c1[k].owner) /\ e[k].count = c1[k].count - 1
      BY <2>1, <2>2, UnlockFacts
    <2>4. DOMAIN e = DOMAIN c1 /\ Map(e) /\ \A x \in DOMAIN c1 : x # k => e[x] = c1[x]
      BY <2>3 DEF Alters
    <2>. QED BY <1>8, <2>2, <2>3, <2>4 DEF SameMonitor
  <1>10. /\ cls'[k].status = "Resolved" /\ cls'[k].tid = cls[k].tid /\ cls'[k].up = cls[k].up /\ cls'[k].ift = ift
         /\ cls'[k].done = cls[k].done /\ Status(k)' = "Resolved"
    BY <1>8, <1>9 DEF SameStatus, Status
  <1>11. /\ Return(t) /\ ret' = [ret EXCEPT ![t] = k] /\ exc' = exc
    BY DEF ReturnClass
  <1>12. stack' \in [Threads -> Seq(FrameRec)]
    BY <1>1, <1>11, ReturnFr DEF IInv, Rewrites
  <1>13. Others(t) /\ ret'[t] = k /\ ~ exc'[t]
    BY <1>2, <1>9, <1>11, OthersFacts DEF IInv
  <1>14. /\ table' = table /\ given' = given /\ ran' = ran /\ spurious' = spurious /\ aborted' = aborted /\ faults' = faults
         /\ denied' = denied
    BY DEF history
  <1>15. waiting' \in [Threads -> DOMAIN cls \cup {NULL}] /\ waiting'[t] = NULL
    BY <1>2, NotifyFacts DEF IInv
  <1>16. Types'
    <2>1. /\ table' \in [Loaders -> [Descs -> DOMAIN cls' \cup {NULL}]] /\ waiting' \in [Threads -> DOMAIN cls' \cup {NULL}]
          /\ faults' \in Nat /\ faults' <= faults
      BY <1>9, <1>14, <1>15, ConstantsAssumption DEF IInv, Types
    <2>. QED BY <1>9, <1>12, <1>13, <1>14, <2>1, TypesStep DEF IInv
  <1>17. Grows /\ Touches({k})
    <2>1. ASSUME NEW x \in DOMAIN cls PROVE Evolves(x)
      BY <1>3, <1>9, <1>10, <2>1 DEF Evolves, Status, Res, Was, Late
    <2>2. \A l \in Loaders, d \in Descs : EntryEvolves(l, d)
      BY <1>14 DEF EntryEvolves
    <2>3. faults' <= faults /\ spurious' <= spurious
      BY <1>14, ConstantsAssumption DEF IInv, Types
    <2>. QED BY <1>9, <1>14, <2>1, <2>2, <2>3 DEF Grows, Touches, Kept
  <1>18. Aborts'
    BY <1>14, <1>16, <1>17, AbortsStable DEF IInv
  <1>19. ObjectOK(k)'
    <2>1. StatusOK(k)'
      BY <1>2, <1>10 DEF StatusOK, Res
    <2>2. UpOK(k)'
      BY <1>2, <1>5, <1>9, <1>10, <1>17, IftUp
    <2>3. EntryOK(k)'
      BY <1>2, <1>9, <1>16, <1>17, EntryStable DEF IInv
    <2>4. InitOK(k)'
      BY <1>2, <1>10, <1>16, <1>17, InitStable DEF IInv
    <2>. QED BY <2>1, <2>2, <2>3, <2>4 DEF ObjectOK
  <1>20. ASSUME NEW u \in Threads, NEW x, (u # t /\ InStack(u, x)) \/ (u = t /\ Lower(t, x)) PROVE Apart(x, {k})
    <2>1. Apart(x, {f.k, Copy(f.k)}) /\ {k} \subseteq {f.k, Copy(f.k)}
      BY <1>1, <1>20, DefTop
    <2>. QED BY <2>1, ApartLess
  <1>21. \A u \in Threads : u # t => ret'[u] = ret[u] /\ exc'[u] = exc[u] /\ Wakes(u)
    BY <1>10, <1>13, NotifyFacts DEF Wakes, Others, IInv
  <1>22. Ctx(t)
    <2>1. \A o \in DOMAIN cls' : o \in {k} => ObjectOK(o)'
      BY <1>19
    <2>. QED BY <1>9, <1>14, <1>16, <1>17, <1>18, <1>20, <1>21, <2>1, TouchCtx
  <1>23. Mon(t, Grip(f), {})
    BY <1>3, <1>9 DEF Mon
  <1>24. NoneInitializes
    BY <1>9, <1>10 DEF NoneInitializes, Status
  <1>25. Good(k)'
    BY <1>2, <1>9, <1>10 DEF Good, Res
  <1>. QED BY <1>1, <1>2, <1>3, <1>11, <1>13, <1>14, <1>15, <1>22, <1>23, <1>24, <1>25, ClassReturn

Copied(r, ift, t) == [r EXCEPT !.status = "Resolving", !.ift = ift, !.owner = t, !.count = 1]

(* The copy of the right size takes the place of a temporary class. *)
LEMMA LinkTemp ==
  ASSUME IInv, NEW t \in Threads, NEW f, f = Top(t), NEW k, k = f.k, At(t, "link"), IsTemp(k),
         cls' = Alloc(cls, Copy(k), Copied(cls[k], SetupInterfaceLookupTable(k), t)),
         table' = [table EXCEPT ![f.l][f.d] = Copy(k)], Goto(t, "retire"),
         UNCHANGED <<ret, exc, waiting, faults, spurious, aborted, history>>
  PROVE  IInv'
  <1>1. stack[t] # <<>> /\ f.at = "link" /\ f.n = 0 /\ f.at \in DefAts /\ "retire" \in DefAts /\ "retire" \in Ats
    BY AtTop DEF DefAts, Ats, FindAts
  <1>2. /\ FrameOK(t, f) /\ f \in FrameRec /\ f.d \in Descs /\ f.l \in Loaders /\ waiting[t] = NULL
        /\ DefFrame(t, f) /\ k \in DOMAIN cls /\ k \in Classes /\ k # NULL /\ f.d = k.desc /\ f.l = k.loader
        /\ k.gen = "first" /\ k.desc \notin Arrays /\ f.at \in FindAts /\ ~ exc[t]
    BY <1>1, DefTop
  <1>3. Grip(f) = {k} /\ Status(k) = "Loaded" /\ table[f.l][f.d] = k /\ Copy(k) \notin DOMAIN cls /\ k.by = t
    BY <1>1, <1>2 DEF Grip, DefFrame
  <1>4. PICK copy : copy = Copy(k)
    OBVIOUS
  <1>5. /\ copy \in Classes /\ copy.desc = f.d /\ copy.loader = f.l /\ copy.by = t /\ copy.gen = "copy" /\ copy # NULL
        /\ First(copy) = k /\ Copy(copy) = copy /\ copy # k /\ ~ IsTemp(copy)
    BY <1>2, <1>3, <1>4, CopyFacts
  <1>6. PICK ift : ift = SetupInterfaceLookupTable(k)
    OBVIOUS
  <1>7. ift \subseteq DOMAIN cls
    BY <1>2, <1>6, IftFacts
  <1>8. PICK r : r = Copied(cls[k], ift, t)
    OBVIOUS
  <1>9. /\ r \in ClassRec /\ r.status = "Resolving" /\ r.tid = cls[k].tid /\ r.up = cls[k].up /\ r.ift = ift /\ r.done = cls[k].done
        /\ r.owner = t /\ r.count = 1
    <2>1. cls[k] \in ClassRec /\ "Resolving" \in Statuses /\ ift \in SUBSET Classes /\ t \in Threads \cup {NULL} /\ 1 \in Nat
      BY <1>2, <1>7 DEF IInv, Types, Statuses
    <2>. QED BY <1>8, <2>1, Zenon DEF ClassRec, Copied
  <1>10. DOMAIN cls' = DOMAIN cls \cup {copy} /\ Map(cls') /\ cls'[copy] = r /\ \A x \in DOMAIN cls : cls'[x] = cls[x]
    <2>1. Map(cls) /\ cls' = Alloc(cls, copy, r)
      BY <1>4, <1>6, <1>8, ClsMap DEF IInv
    <2>2. Adds(cls, cls', copy, r)
      BY <1>5, <1>9, <2>1, AllocFacts
    <2>. QED BY <1>3, <1>4, <2>2 DEF Adds
  <1>11. /\ table' \in [Loaders -> [Descs -> DOMAIN cls' \cup {NULL}]]
         /\ table'[f.l][f.d] = copy
         /\ \A l \in Loaders, d \in Descs : l # f.l \/ d # f.d => table'[l][d] = table[l][d]
    <2>1. table \in [Loaders -> [Descs -> DOMAIN cls' \cup {NULL}]]
      BY <1>10 DEF IInv, Types
    <2>2. table' = [table EXCEPT ![f.l][f.d] = copy] /\ copy \in DOMAIN cls'
      BY <1>4, <1>10
    <2>. QED BY <1>2, <2>1, <2>2
  <1>12. PICK g \in FrameRec : /\ Become(t, g) /\ g.at = "retire" /\ g.d = f.d /\ g.l = f.l /\ g.n = 0 /\ g.k = k
    BY <1>1, GotoFacts
  <1>13. stack' \in [Threads -> Seq(FrameRec)]
    BY <1>1, <1>12, BecomeFr DEF IInv, Rewrites
  <1>14. Others(t) /\ exc'[t] = exc[t] /\ DOMAIN cls \subseteq DOMAIN cls'
    BY <1>10, UnchangedOthers DEF IInv
  <1>15. waiting' = waiting /\ given' = given /\ ran' = ran /\ spurious' = spurious /\ aborted' = aborted /\ faults' = faults
         /\ denied' = denied
    BY DEF history
  <1>16. Types'
    <2>1. waiting' \in [Threads -> DOMAIN cls' \cup {NULL}] /\ faults' \in Nat /\ faults' <= faults
      BY <1>14, <1>15, ConstantsAssumption DEF IInv, Types
    <2>. QED BY <1>10, <1>11, <1>13, <1>14, <1>15, <2>1, TypesStep DEF IInv
  <1>17. Grows
    <2>1. \A x \in DOMAIN cls : Evolves(x)
      BY <1>10 DEF Evolves, Status
    <2>2. \A l \in Loaders, d \in Descs : EntryEvolves(l, d)
      BY <1>2, <1>3, <1>4, <1>11 DEF EntryEvolves
    <2>3. faults' <= faults /\ spurious' <= spurious
      BY <1>15, ConstantsAssumption DEF IInv, Types
    <2>. QED BY <1>14, <1>15, <2>1, <2>2, <2>3 DEF Grows
  <1>18. Touches({k, copy})
    BY <1>3, <1>10, <1>11 DEF Touches, Kept
  <1>19. Aborts'
    BY <1>15, <1>16, <1>17, AbortsStable DEF IInv
  <1>20. ObjectOK(k)'
    BY <1>2, <1>5, <1>10, <1>11, <1>16, <1>17, ObjectStable DEF IInv, Kept
  <1>21. ObjectOK(copy)'
    <2>1. k.desc \notin Interfaces \cup Arrays /\ ~ cls[k].done /\ f.d \in Path[f.l]
      BY <1>2 DEF IsTemp, IInv, Objects, ObjectOK, InitOK, EntryOK
    <2>2. Status(copy)' = "Resolving" /\ ~ cls'[copy].done /\ cls'[copy].up = cls[k].up /\ cls'[copy].ift = ift
      BY <1>9, <1>10, <2>1 DEF Status
    <2>3. StatusOK(copy)'
      BY <1>2, <1>5, <1>10, <2>1, <2>2 DEF StatusOK
    <2>4. UpOK(copy)'
      BY <1>2, <1>5, <1>6, <1>10, <1>17, <2>2, IftUp
    <2>5. EntryOK(copy)'
      BY <1>5, <1>10, <1>11, <2>1 DEF EntryOK
    <2>6. InitOK(copy)'
      BY <1>2, <1>5, <2>2 DEF InitOK
    <2>. QED BY <2>3, <2>4, <2>5, <2>6 DEF ObjectOK
  <1>22. ASSUME NEW o \in DOMAIN cls, o \notin {k, copy}, Copy(o) \in DOMAIN cls' PROVE Copy(o) \in DOMAIN cls
    <2>1. o \in Classes /\ (o.gen = "first" => First(Copy(o)) = o) /\ (o.gen = "copy" => Copy(o) = o)
      BY CopyFacts DEF IInv, Types
    <2>2. o.gen \in {"first", "copy"}
      BY <2>1 DEF Classes
    <2>3. Copy(o) # copy
      BY <1>5, <1>22, <2>1, <2>2
    <2>. QED BY <1>10, <1>22, <2>3
  <1>23. \A l \in Loaders, d \in Descs :
           table'[l][d] # NULL /\ table'[l][d] # table[l][d] =>
             table'[l][d].desc = d /\ (table'[l][d].loader # l => Status(table[l][d])' \in Res)
    BY <1>5, <1>11
  <1>24. ASSUME NEW u \in Threads, NEW x, (u # t /\ InStack(u, x)) \/ (u = t /\ Lower(t, x)) PROVE Apart(x, {k, copy})
    BY <1>1, <1>4, <1>24, DefTop
  <1>25. \A u \in Threads : u # t => ret'[u] = ret[u] /\ exc'[u] = exc[u] /\ Wakes(u)
    BY <1>14, <1>15 DEF Wakes, Others
  <1>26. Ctx(t)
    <2>1. \A o \in DOMAIN cls' : o \in {k, copy} => ObjectOK(o)'
      BY <1>20, <1>21
    <2>. QED BY <1>15, <1>16, <1>17, <1>18, <1>19, <1>22, <1>23, <1>24, <1>25, <2>1, TouchCtx
  <1>27. FrameOK(t, g)'
    <2>1. DefFrame(t, g)'
      BY <1>2, <1>3, <1>4, <1>9, <1>10, <1>12 DEF DefFrame, Status
    <2>. QED BY <1>1, <1>2, <1>10, <1>12, <2>1, DefOKPrime
  <1>28. TopOK(t, g)'
    BY <1>2, <1>12, <1>14, <1>15, PlainTop DEF Handlers
  <1>29. Kin(f, g) /\ Alone(f, g)
    BY <1>1, <1>12, DefKin
  <1>30. Mon(t, Grip(f), Grip(g))
    <2>1. Grip(g) = {k, copy}
      BY <1>4, <1>12 DEF Grip, DefAts
    <2>. QED BY <1>3, <1>4, <1>9, <1>10, <2>1 DEF Mon
  <1>31. NoneInitializes /\ f.at \notin Ini2
    BY <1>1, <1>9, <1>10 DEF NoneInitializes, Status, Ini2
  <1>. QED BY <1>1, <1>12, <1>26, <1>27, <1>28, <1>29, <1>30, <1>31, BecomeStep DEF NoneInitializes

(* The temporary class is retired. *)
LEMMA LinkRetire ==
  ASSUME IInv, NEW t \in Threads, NEW f, f = Top(t), NEW k, k = f.k, At(t, "retire"),
         cls' = Set(cls, k, "Retired"), NotifyAll(k), Goto(t, "publish"),
         UNCHANGED <<ret, exc, table, faults, spurious, aborted, history>>
  PROVE  IInv'
  <1>1. stack[t] # <<>> /\ f.at = "retire" /\ f.n = 0 /\ f.at \in DefAts /\ "publish" \in DefAts /\ "publish" \in Ats
    BY AtTop DEF DefAts, Ats, FindAts
  <1>2. /\ FrameOK(t, f) /\ f \in FrameRec /\ f.d \in Descs /\ f.l \in Loaders /\ waiting[t] = NULL
        /\ DefFrame(t, f) /\ k \in DOMAIN cls /\ k \in Classes /\ k # NULL /\ f.d = k.desc /\ f.l = k.loader
        /\ k.gen = "first" /\ k.desc \notin Arrays /\ f.at \in FindAts /\ ~ exc[t]
    BY <1>1, DefTop
  <1>3. Status(k) = "Loaded" /\ IsTemp(k) /\ Copy(k) \in DOMAIN cls /\ Status(Copy(k)) = "Resolving" /\ Copy(k) # k
    BY <1>1, <1>2 DEF DefFrame
  <1>4. PICK g \in FrameRec : /\ Become(t, g) /\ g.at = "publish" /\ g.d = f.d /\ g.l = f.l /\ g.n = 0 /\ g.k = k
    BY <1>1, GotoFacts
  <1>5. /\ DOMAIN cls' = DOMAIN cls /\ Map(cls') /\ (\A x \in DOMAIN cls : x # k => cls'[x] = cls[x])
        /\ SameMonitor(cls'[k], cls[k]) /\ cls'[k].status = "Retired" /\ cls'[k].tid = cls[k].tid
        /\ cls'[k].up = cls[k].up /\ cls'[k].ift = cls[k].ift /\ cls'[k].done = cls[k].done
    <2>1. Map(cls) /\ "Retired" \in Statuses
      BY ClsMap DEF IInv, Statuses
    <2>. QED BY <1>2, <2>1, SetFacts DEF Alters
  <1>6. Turns(k, "Retired")
    BY <1>2, <1>5 DEF Turns, Kept
  <1>7. stack' \in [Threads -> Seq(FrameRec)]
    BY <1>1, <1>4, BecomeFr DEF IInv, Rewrites
  <1>8. Others(t) /\ exc'[t] = exc[t]
    BY <1>5, UnchangedOthers DEF IInv
  <1>9. Evolves(k) /\ StatusOK(k)'
    BY <1>2, <1>3, <1>6 DEF Evolves, StatusOK, Turns, Status, Res, Was, Late
  <1>10. ASSUME NEW u \in Threads, NEW x, (u # t /\ InStack(u, x)) \/ (u = t /\ Lower(t, x)) PROVE Apart(x, {k})
    <2>1. Apart(x, {f.k, Copy(f.k)}) /\ {k} \subseteq {f.k, Copy(f.k)}
      BY <1>1, <1>10, DefTop
    <2>. QED BY <2>1, ApartLess
  <1>11. Ctx(t) /\ waiting'[t] = NULL
    <2>1. /\ faults' \in Nat /\ faults' <= faults /\ "Retired" # "Initialized" /\ "Retired" # "Verifying"
          /\ table' = table /\ given' = given /\ ran' = ran /\ spurious' = spurious /\ aborted' = aborted /\ denied' = denied
      BY ConstantsAssumption DEF IInv, Types, history
    <2>. QED BY <1>2, <1>6, <1>7, <1>8, <1>9, <1>10, <2>1, TurnsCtx
  <1>12. FrameOK(t, g)'
    <2>1. DefFrame(t, g)'
      BY <1>2, <1>3, <1>4, <1>5 DEF DefFrame, Status
    <2>. QED BY <1>1, <1>2, <1>4, <1>5, <2>1, DefOKPrime
  <1>13. TopOK(t, g)'
    BY <1>2, <1>4, <1>8, <1>11, PlainTop DEF Handlers
  <1>14. Kin(f, g) /\ Alone(f, g)
    BY <1>1, <1>4, DefKin
  <1>15. Mon(t, Grip(f), Grip(g))
    <2>1. Grip(g) = Grip(f)
      BY <1>1, <1>4 DEF Grip, DefAts
    <2>. QED BY <1>5, <2>1 DEF Mon, SameMonitor
  <1>16. NoneInitializes /\ f.at \notin Ini2
    BY <1>1, <1>6, TurnsIni DEF Ini2
  <1>. QED BY <1>1, <1>4, <1>11, <1>12, <1>13, <1>14, <1>15, <1>16, BecomeStep DEF NoneInitializes

(* The copy is there for everybody. *)
LEMMA LinkPublish ==
  ASSUME IInv, NEW t \in Threads, NEW f, f = Top(t), NEW k, k = f.k, At(t, "publish"),
         NEW copy, copy = Copy(k), cls' = Unlock(Unlock(Set(cls, copy, "Resolved"), copy), k),
         NotifyAll(copy), ReturnClass(t, copy), UNCHANGED <<table, faults, spurious, aborted, history>>
  PROVE  IInv'
  <1>1. stack[t] # <<>> /\ f.at = "publish" /\ f.n = 0 /\ f.at \in DefAts
    BY AtTop DEF DefAts
  <1>2. /\ FrameOK(t, f) /\ f \in FrameRec /\ f.d \in Descs /\ f.l \in Loaders /\ waiting[t] = NULL
        /\ DefFrame(t, f) /\ k \in DOMAIN cls /\ k \in Classes /\ k # NULL /\ f.d = k.desc /\ f.l = k.loader
        /\ k.gen = "first" /\ k.desc \notin Arrays /\ f.at \in FindAts /\ ~ exc[t]
    BY <1>1, DefTop
  <1>3. /\ Grip(f) = {k, copy} /\ Status(k) = "Retired" /\ copy \in DOMAIN cls /\ Status(copy) = "Resolving"
        /\ IsTemp(k) /\ k.by = t
    BY <1>1, <1>2 DEF Grip, DefFrame
  <1>4. /\ copy \in Classes /\ copy.desc = k.desc /\ copy.loader = k.loader /\ copy.by = k.by /\ copy.gen = "copy" /\ copy # NULL
        /\ First(copy) = k /\ copy # k /\ ~ IsTemp(copy)
    BY <1>2, CopyFacts
  <1>5. table[f.l][f.d] = copy
    <2>1. PICK x : x = table[k.loader][k.desc]
      OBVIOUS
    <2>2. x \in DOMAIN cls /\ x \in Classes /\ x.desc = k.desc /\ x.loader = k.loader /\ x.by = k.by /\ x.gen = "copy"
      BY <1>2, <1>3, <2>1 DEF IInv, Objects, ObjectOK, EntryOK, Types
    <2>3. x = copy
      BY <1>4, <2>2, SameClass
    <2>. QED BY <1>2, <2>1, <2>3
  <1>6. cls[k].owner = t /\ cls[k].count > 0 /\ cls[k].count \in Nat /\ cls[copy].owner = t /\ cls[copy].count > 0 /\ cls[copy].count \in Nat
    BY <1>1, <1>3, TopHolds
  <1>7. PICK c1, c2 : c1 = Set(cls, copy, "Resolved") /\ c2 = Unlock(c1, copy)
    OBVIOUS
  <1>8. /\ Map(c1) /\ DOMAIN c1 = DOMAIN cls /\ (\A x \in DOMAIN cls : x # copy => c1[x] = cls[x]) /\ SameMonitor(c1[copy], cls[copy])
        /\ c1[copy].status = "Resolved" /\ c1[copy].tid = cls[copy].tid /\ c1[copy].up = cls[copy].up /\ c1[copy].ift = cls[copy].ift
        /\ c1[copy].done = cls[copy].done
    <2>1. Map(cls) /\ "Resolved" \in Statuses
      BY ClsMap DEF IInv, Statuses
    <2>. QED BY <1>3, <1>7, <2>1, SetFacts DEF Alters
  <1>9. /\ DOMAIN c2 = DOMAIN cls /\ Map(c2) /\ (\A x \in DOMAIN cls : x # copy => c2[x] = cls[x])
        /\ SameStatus(c2[copy], c1[copy]) /\ c2[copy].count = cls[copy].count - 1
        /\ c2[copy].owner = (IF cls[copy].count = 1 THEN NULL ELSE cls[copy].owner)
    <2>1. c1[copy].count > 0 /\ copy \in DOMAIN c1
      BY <1>3, <1>6, <1>8 DEF SameMonitor
    <2>2. /\ Alters(c1, c2, copy) /\ SameStatus(c2[copy], c1[copy])
          /\ c2[copy].owner = (IF c1[copy].count = 1 THEN NULL ELSE c1[copy].owner) /\ c2[copy].count = c1[copy].count - 1
      BY <1>7, <1>8, <2>1, UnlockFacts
    <2>3. DOMAIN c2 = DOMAIN c1 /\ Map(c2) /\ \A x \in DOMAIN c1 : x # copy => c2[x] = c1[x]
      BY <2>2 DEF Alters
    <2>. QED BY <1>8, <2>2, <2>3 DEF SameMonitor
  <1>10. /\ DOMAIN cls' = DOMAIN cls /\ Map(cls') /\ (\A x \in DOMAIN cls : x # copy /\ x # k => cls'[x] = cls[x])
         /\ cls'[copy] = c2[copy] /\ SameStatus(cls'[k], cls[k]) /\ cls'[k].count = cls[k].count - 1
         /\ cls'[k].owner = (IF cls[k].count = 1 THEN NULL ELSE cls[k].owner)
    <2>1. cls' = Unlock(c2, k) /\ c2[k] = cls[k] /\ c2[k].count > 0 /\ k \in DOMAIN c2
      BY <1>2, <1>4, <1>6, <1>7, <1>9
    <2>2. PICK e : e = cls'
      OBVIOUS
    <2>3. /\ Alters(c2, e, k) /\ SameStatus(e[k], c2[k])
          /\ e[k].owner = (IF c2[k].count = 1 THEN NULL ELSE c2[k].owner) /\ e[k].count = c2[k].count - 1
      BY <1>9, <2>1, <2>2, UnlockFacts
    <2>4. DOMAIN e = DOMAIN c2 /\ Map(e) /\ \A x \in DOMAIN c2 : x # k => e[x] = c2[x]
      BY <2>3 DEF Alters
    <2>. QED BY <1>3, <1>4, <1>9, <2>1, <2>2, <2>3, <2>4
  <1>11. Turns(copy, "Resolved")
    BY <1>3, <1>8, <1>9, <1>10 DEF Turns, Kept, SameStatus
  <1>12. Return(t) /\ ret' = [ret EXCEPT ![t] = copy] /\ exc' = exc
    BY DEF ReturnClass
  <1>13. stack' \in [Threads -> Seq(FrameRec)]
    BY <1>1, <1>12, ReturnFr DEF IInv, Rewrites
  <1>14. Others(t) /\ ret'[t] = copy /\ ~ exc'[t]
    BY <1>2, <1>3, <1>10, <1>12, OthersFacts DEF IInv
  <1>15. Evolves(copy) /\ StatusOK(copy)'
    <2>1. copy.desc \notin Interfaces \cup Arrays
      BY <1>3, <1>4 DEF IsTemp
    <2>. QED BY <1>2, <1>3, <1>4, <1>11, <2>1 DEF Evolves, StatusOK, Turns, Status, Res, Was, Late
  <1>16. ASSUME NEW u \in Threads, NEW x, (u # t /\ InStack(u, x)) \/ (u = t /\ Lower(t, x)) PROVE Apart(x, {copy})
    <2>1. Apart(x, {f.k, Copy(f.k)}) /\ {copy} \subseteq {f.k, Copy(f.k)}
      BY <1>1, <1>16, DefTop
    <2>. QED BY <2>1, ApartLess
  <1>17. Ctx(t) /\ waiting'[t] = NULL /\ table' = table
    <2>1. /\ faults' \in Nat /\ faults' <= faults /\ "Resolved" # "Initialized" /\ "Resolved" # "Verifying"
          /\ table' = table /\ given' = given /\ ran' = ran /\ spurious' = spurious /\ aborted' = aborted /\ denied' = denied
      BY ConstantsAssumption DEF IInv, Types, history
    <2>. QED BY <1>2, <1>11, <1>13, <1>14, <1>15, <1>16, <2>1, TurnsCtx
  <1>18. Mon(t, Grip(f), {})
    BY <1>3, <1>9, <1>10 DEF Mon
  <1>19. NoneInitializes
    BY <1>11, TurnsIni
  <1>20. Good(copy)'
    BY <1>3, <1>4, <1>10, <1>11 DEF Good, Turns, Status, Res
  <1>. QED BY <1>1, <1>2, <1>4, <1>5, <1>12, <1>14, <1>17, <1>18, <1>19, <1>20, ClassReturn

LEMMA LinkClassStep ==
  ASSUME IInv, NEW t \in Threads, LinkClass(t)
  PROVE  IInv'
  <1>1. PICK f, k : f = Top(t) /\ k = f.k
    OBVIOUS
  <1>2. UNCHANGED <<spurious, aborted, history>>
    BY DEF LinkClass
  <1>3. CASE At(t, "link") /\ Fail /\ Reject(t, k) /\ UNCHANGED table
    <2>1. stack[t] # <<>> /\ f.at = "link" /\ f.n = 0
      BY <1>1, <1>3, AtTop
    <2>. QED BY <1>1, <1>2, <1>3, <2>1, RejectStep
  <1>4. CASE /\ At(t, "link") /\ ~ IsTemp(k) /\ cls' = Unlock(Linked(cls, k, SetupInterfaceLookupTable(k)), k)
             /\ NotifyAll(k) /\ ReturnClass(t, k) /\ UNCHANGED <<table, faults>>
    BY <1>1, <1>2, <1>4, LinkPlain
  <1>5. CASE /\ At(t, "link") /\ IsTemp(k)
             /\ cls' = Alloc(cls, Copy(k), Copied(cls[k], SetupInterfaceLookupTable(k), t))
             /\ table' = [table EXCEPT ![f.l][f.d] = Copy(k)]
             /\ Goto(t, "retire") /\ UNCHANGED <<ret, exc, waiting, faults>>
    BY <1>1, <1>2, <1>5, LinkTemp
  <1>6. CASE /\ At(t, "retire") /\ cls' = Set(cls, k, "Retired") /\ NotifyAll(k)
             /\ Goto(t, "publish") /\ UNCHANGED <<ret, exc, table, faults>>
    BY <1>1, <1>2, <1>6, LinkRetire
  <1>7. CASE /\ At(t, "publish") /\ cls' = Unlock(Unlock(Set(cls, Copy(k), "Resolved"), Copy(k)), k)
             /\ NotifyAll(Copy(k)) /\ ReturnClass(t, Copy(k)) /\ UNCHANGED <<table, faults>>
    BY <1>1, <1>2, <1>7, LinkPublish
  <1>. QED BY <1>1, <1>3, <1>4, <1>5, <1>6, <1>7, Zenon DEF LinkClass, Copy, Linked, Copied

=============================================================================
