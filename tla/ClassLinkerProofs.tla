-------------------------- MODULE ClassLinkerProofs --------------------------
(***************************************************************************)
(* Proofs about ClassLinker, continued: monitors and wait sets, the        *)
(* verification and the initialization of classes, and the theorems.       *)
(***************************************************************************)
EXTENDS ClassLinkerLoadingProofs

(* Monitors are entered and left *)

(* The step changes no table, and counts down faults at most. *)
Aside ==
  /\ table' = table /\ spurious' = spurious /\ aborted' = aborted /\ given' = given /\ ran' = ran
  /\ denied' = denied /\ faults' \in Nat /\ faults' <= faults

LEMMA AsideFacts ==
  ASSUME Types, UNCHANGED <<table, spurious, aborted, history>>, UNCHANGED faults \/ Fail
  PROVE  Aside /\ (Fail => faults' < MaxFaults)
  BY ConstantsAssumption DEF Types, Aside, Fail, history

LEMMA QuietAside ==
  ASSUME IInv, NEW t \in Threads, Aside, Others(t), stack' \in [Threads -> Seq(FrameRec)],
         waiting' \in [Threads -> DOMAIN cls \cup {NULL}], \A u \in Threads : u # t => waiting'[u] = waiting[u],
         NEW o, Alters(cls, cls', o), SameStatus(cls'[o], cls[o])
  PROVE  Types' /\ Quiet /\ Ctx(t) /\ NoneInitializes
  <1>1. DOMAIN cls' = DOMAIN cls /\ Map(cls') /\ \A x \in DOMAIN cls : x # o => cls'[x] = cls[x]
    BY DEF Alters
  <1>2. Quiet
    <2>1. \A x \in DOMAIN cls : Kept(x)
      BY <1>1 DEF Kept, SameStatus
    <2>2. spurious' <= spurious
      BY ConstantsAssumption DEF Aside, IInv, Types
    <2>. QED BY <1>1, <2>1, <2>2 DEF Quiet, Aside
  <1>3. Types'
    <2>1. /\ table' \in [Loaders -> [Descs -> DOMAIN cls' \cup {NULL}]]
          /\ waiting' \in [Threads -> DOMAIN cls' \cup {NULL}]
      BY <1>1 DEF IInv, Types, Aside
    <2>. QED BY <1>1, <2>1, TypesStep DEF IInv, Aside
  <1>4. \A u \in Threads : u # t => ret'[u] = ret[u] /\ exc'[u] = exc[u] /\ Wakes(u)
    BY DEF Others, Wakes
  <1>5. Ctx(t)
    BY <1>2, <1>3, <1>4, QuietCtx DEF Aside
  <1>6. NoneInitializes
    BY <1>2, QuietIni DEF NoneInitializes
  <1>. QED BY <1>2, <1>3, <1>5, <1>6

LEMMA LockStep ==
  ASSUME IInv, NEW t \in Threads, Aside, Others(t), stack' \in [Threads -> Seq(FrameRec)], waiting' = waiting,
         NEW o \in DOMAIN cls, CanLock(t, o), cls' = Lock(cls, t, o)
  PROVE  Types' /\ Quiet /\ Ctx(t) /\ NoneInitializes /\ Mon(t, {}, {o})
  <1>1. PICK e : e = cls'
    OBVIOUS
  <1>2. Alters(cls, e, o) /\ SameStatus(e[o], cls[o]) /\ e[o].owner = t /\ e[o].count = cls[o].count + 1
    BY <1>1, ClsMap, LockFacts DEF IInv
  <1>3. waiting' \in [Threads -> DOMAIN cls \cup {NULL}]
    BY DEF IInv, Types
  <1>4. Types' /\ Quiet /\ Ctx(t) /\ NoneInitializes
    BY <1>1, <1>2, <1>3, QuietAside
  <1>5. Mon(t, {}, {o})
    BY <1>1, <1>2 DEF Alters, Mon, CanLock
  <1>. QED BY <1>4, <1>5

LEMMA UnlockStep ==
  ASSUME IInv, NEW t \in Threads, Aside, Others(t), stack' \in [Threads -> Seq(FrameRec)], waiting' = waiting,
         NEW o \in DOMAIN cls, cls[o].count > 0, cls' = Unlock(cls, o)
  PROVE  Types' /\ Quiet /\ Ctx(t) /\ NoneInitializes /\ Mon(t, {o}, {})
  <1>1. PICK e : e = cls'
    OBVIOUS
  <1>2. /\ Alters(cls, e, o) /\ SameStatus(e[o], cls[o])
        /\ e[o].owner = (IF cls[o].count = 1 THEN NULL ELSE cls[o].owner) /\ e[o].count = cls[o].count - 1
    BY <1>1, ClsMap, UnlockFacts DEF IInv
  <1>3. waiting' \in [Threads -> DOMAIN cls \cup {NULL}]
    BY DEF IInv, Types
  <1>4. Types' /\ Quiet /\ Ctx(t) /\ NoneInitializes
    BY <1>1, <1>2, <1>3, QuietAside
  <1>5. Mon(t, {o}, {})
    BY <1>1, <1>2 DEF Alters, Mon
  <1>. QED BY <1>4, <1>5

LEMMA SetTurns ==
  ASSUME Types, NEW k \in DOMAIN cls, NEW s \in Statuses, cls' = Set(cls, k, s)
  PROVE  Turns(k, s) /\ cls'[k].tid = cls[k].tid /\ \A t, F : Mon(t, F, F)
  <1>1. PICK e : e = cls'
    OBVIOUS
  <1>2. /\ Alters(cls, e, k) /\ SameMonitor(e[k], cls[k]) /\ e[k].status = s /\ e[k].tid = cls[k].tid
        /\ e[k].up = cls[k].up /\ e[k].ift = cls[k].ift /\ e[k].done = cls[k].done
    BY <1>1, ClsMap, SetFacts
  <1>3. DOMAIN e = DOMAIN cls /\ Map(e) /\ \A x \in DOMAIN cls : x # k => e[x] = cls[x]
    BY <1>2 DEF Alters
  <1>4. Turns(k, s)
    BY <1>1, <1>2, <1>3 DEF Turns, Kept
  <1>5. \A t, F : Mon(t, F, F)
    BY <1>1, <1>2, <1>3 DEF Mon, SameMonitor
  <1>. QED BY <1>1, <1>2, <1>4, <1>5

LEMMA SetUnlockTurns ==
  ASSUME Types, NEW k \in DOMAIN cls, NEW s \in Statuses, cls[k].count > 0, NEW e, e = Unlock(Set(cls, k, s), k)
  PROVE  /\ Alters(cls, e, k) /\ e[k].status = s /\ e[k].tid = cls[k].tid
         /\ e[k].up = cls[k].up /\ e[k].ift = cls[k].ift /\ e[k].done = cls[k].done
         /\ e[k].owner = (IF cls[k].count = 1 THEN NULL ELSE cls[k].owner) /\ e[k].count = cls[k].count - 1
  <1>1. PICK c : c = Set(cls, k, s)
    OBVIOUS
  <1>2. /\ Alters(cls, c, k) /\ SameMonitor(c[k], cls[k]) /\ c[k].status = s /\ c[k].tid = cls[k].tid
        /\ c[k].up = cls[k].up /\ c[k].ift = cls[k].ift /\ c[k].done = cls[k].done
    BY <1>1, ClsMap, SetFacts
  <1>3. Map(c) /\ k \in DOMAIN c /\ DOMAIN c = DOMAIN cls /\ \A x \in DOMAIN cls : x # k => c[x] = cls[x]
    BY <1>2 DEF Alters
  <1>4. c[k].count > 0 /\ e = Unlock(c, k)
    BY <1>1, <1>2 DEF SameMonitor
  <1>5. /\ Alters(c, e, k) /\ SameStatus(e[k], c[k])
        /\ e[k].owner = (IF c[k].count = 1 THEN NULL ELSE c[k].owner) /\ e[k].count = c[k].count - 1
    BY <1>3, <1>4, UnlockFacts
  <1>6. DOMAIN e = DOMAIN c /\ Map(e) /\ k \in DOMAIN e /\ \A x \in DOMAIN c : x # k => e[x] = c[x]
    BY <1>5 DEF Alters
  <1>7. Alters(cls, e, k)
    BY <1>3, <1>6 DEF Alters
  <1>. QED BY <1>2, <1>5, <1>7 DEF SameStatus, SameMonitor

LEMMA UnlockTurns ==
  ASSUME Types, NEW k \in DOMAIN cls, NEW s \in Statuses, cls[k].count > 0, cls' = Unlock(Set(cls, k, s), k)
  PROVE  Turns(k, s) /\ cls'[k].tid = cls[k].tid /\ \A t : Mon(t, {k}, {})
  <1>1. PICK e : e = cls'
    OBVIOUS
  <1>2. /\ Alters(cls, e, k) /\ e[k].status = s /\ e[k].tid = cls[k].tid
        /\ e[k].up = cls[k].up /\ e[k].ift = cls[k].ift /\ e[k].done = cls[k].done
        /\ e[k].owner = (IF cls[k].count = 1 THEN NULL ELSE cls[k].owner) /\ e[k].count = cls[k].count - 1
    BY <1>1, SetUnlockTurns
  <1>3. DOMAIN e = DOMAIN cls /\ Map(e) /\ \A x \in DOMAIN cls : x # k => e[x] = cls[x]
    BY <1>2 DEF Alters
  <1>4. Turns(k, s)
    BY <1>1, <1>2, <1>3 DEF Turns, Kept
  <1>5. \A t : Mon(t, {k}, {})
    BY <1>1, <1>2, <1>3 DEF Mon
  <1>. QED BY <1>1, <1>2, <1>4, <1>5

(* Steps that keep what a thread has entered *)
LEMMA SameHeld ==
  ASSUME NEW t \in Threads, NEW D, Rewrites(t, D), Depth(t)' = D, Grip(Fr(t, D)') = Grip(Fr(t, D)), NEW o
  PROVE  Held(t, o)' = Held(t, o) /\ (o \in Grip(Fr(t, D)) => Held(t, o) # {})
  <1>1. Fresh(t, D)
    BY DEF Fresh, Rewrites
  <1>2. PICK H : H = Grip(Fr(t, D)')
    OBVIOUS
  <1>3. IF Depth(t)' >= D THEN H = Grip(Fr(t, D)') ELSE H = {}
    BY <1>2 DEF Rewrites
  <1>4. /\ o \in H => Held(t, o)' = Beneath(t, D, o) \cup {D}
        /\ o \notin H => Held(t, o)' = Beneath(t, D, o)
    BY <1>1, <1>3, HeldStep
  <1>5. /\ o \in Grip(Fr(t, D)) => Held(t, o) = Beneath(t, D, o) \cup {D}
        /\ o \notin Grip(Fr(t, D)) => Held(t, o) = Beneath(t, D, o)
    BY HeldSplit DEF Rewrites
  <1>. QED BY <1>2, <1>4, <1>5

(* Wait and Resume: the monitor of o changes hands, the frames keep it. *)
LEMMA Handover ==
  ASSUME IInv, NEW t \in Threads, stack[t] # <<>>, NEW f, f = Top(t), NEW g \in FrameRec, Become(t, g),
         Aside, UNCHANGED <<ret, exc>>, waiting' \in [Threads -> DOMAIN cls \cup {NULL}],
         \A u \in Threads : u # t => waiting'[u] = waiting[u],
         NEW o \in DOMAIN cls, Alters(cls, cls', o), SameStatus(cls'[o], cls[o]), f.k = o, g.k = o,
         Grip(f) = {o}, Grip(g) = {o}, cls[o].owner \in {NULL, t}, cls'[o].owner \in {NULL, t},
         cls'[o].count = 0 <=> cls'[o].owner = NULL,
         \/ f.n = 0 /\ g.n > 0 /\ g.n = cls[o].count /\ cls'[o].owner = NULL
         \/ f.n > 0 /\ g.n = 0 /\ f.n = cls'[o].count /\ cls'[o].owner = t,
         Kin(f, g), g.at \notin DefAts \cup Ver2 \cup Ini2, f.at \notin Ini2, FrameOK(t, g), TopOK(t, g)'
  PROVE  IInv'
  <1>1. PICK D \in Nat : Rewrites(t, D) /\ Depth(t)' = D /\ Fr(t, D)' = g
    BY BecomeFr DEF IInv
  <1>2. D > 0 /\ D = Depth(t) /\ f = Fr(t, D) /\ f \in FrameRec
    BY <1>1, TopFr DEF IInv, Rewrites
  <1>3. stack' \in [Threads -> Seq(FrameRec)] /\ \A u \in Threads : u # t => stack'[u] = stack[u]
    BY <1>1 DEF Rewrites
  <1>4. Others(t) /\ DOMAIN cls' = DOMAIN cls /\ \A x \in DOMAIN cls : x # o => cls'[x] = cls[x]
    BY UnchangedOthers DEF IInv, Alters
  <1>5. Types' /\ Quiet /\ Ctx(t) /\ NoneInitializes
    BY <1>3, <1>4, QuietAside
  <1>6. Alone(f, g)
    BY FreeAlone
  <1>7. StackOK(t)'
    <2>1. FrameOK(t, g)'
      BY <1>5, QuietFrame DEF Aside
    <2>. QED BY <1>1, <1>2, <1>5, <1>6, <2>1, BecomeStack DEF Ctx, IInv
  <1>8. ASSUME NEW x \in DOMAIN cls PROVE MonitorOK(t, x)'
    <2>1. Held(t, x)' = Held(t, x) /\ (x \in Grip(f) => Held(t, x) # {})
      BY <1>1, <1>2, SameHeld
    <2>2. MonitorOK(t, x)
      BY <1>8 DEF IInv, Monitors
    <2>3. (Waits(t, x) <=> f.n > 0 /\ x = o) /\ (Waits(t, x)' <=> g.n > 0 /\ x = o)
      BY <1>1, <1>2 DEF Waits
    <2>4. f.n \in Nat /\ g.n \in Nat
      BY <1>2 DEF FrameRec
    <2>5. t # NULL
      BY ConstantsAssumption
    <2>6. CASE x # o
      BY <1>4, <2>1, <2>2, <2>3, <2>6 DEF MonitorOK
    <2>7. CASE x = o /\ f.n = 0
      <3>1. Held(t, o) # {} /\ ~ Waits(t, o) /\ Waits(t, o)'
        BY <2>1, <2>3, <2>4, <2>7
      <3>2. cls[o].count = Cardinality(Held(t, o))
        BY <2>2, <2>7, <3>1 DEF MonitorOK
      <3>3. cls'[o].owner # t /\ g.n = Cardinality(Held(t, o))
        BY <2>5, <2>7, <3>2
      <3>. QED BY <1>1, <2>1, <2>7, <3>1, <3>3 DEF MonitorOK
    <2>8. CASE x = o /\ f.n > 0
      <3>1. Held(t, o)' # {} /\ Waits(t, o) /\ ~ Waits(t, o)'
        BY <2>1, <2>3, <2>4, <2>8
      <3>2. f.n = Cardinality(Held(t, o))
        BY <1>2, <2>2, <2>8, <3>1 DEF MonitorOK
      <3>3. cls'[o].owner = t /\ cls'[o].count = Cardinality(Held(t, o)')
        BY <2>1, <2>4, <2>8, <3>2
      <3>. QED BY <2>8, <3>1, <3>3 DEF MonitorOK
    <2>. QED BY <2>4, <2>6, <2>7, <2>8
  <1>9. Monitors'
    <2>1. \A x \in DOMAIN cls' : cls'[x].count = 0 <=> cls'[x].owner = NULL
      BY <1>4 DEF IInv, Monitors
    <2>2. ASSUME NEW u \in Threads, u # t, NEW x \in DOMAIN cls' PROVE MonitorOK(u, x)'
      <3>1. \/ x \in DOMAIN cls /\ cls'[x].owner = cls[x].owner /\ cls'[x].count = cls[x].count
            \/ (x \in DOMAIN cls => cls[x].owner \in {NULL, t}) /\ cls'[x].owner \in {NULL, t}
        BY <1>4, <2>2
      <3>. QED BY <1>3, <2>2, <3>1, MonitorOther DEF IInv
    <2>. QED BY <1>4, <1>8, <2>1, <2>2 DEF Monitors
  <1>10. Fresh(t, D)
    BY <1>1, <1>2 DEF Fresh
  <1>11. Verifiers'
    BY <1>1, <1>2, <1>6, <1>10, VerifierStep DEF IInv
  <1>12. Initializers'
    <2>1. Ini(t, D, f)
      BY <1>5 DEF Ini, NoneInitializes
    <2>. QED BY <1>1, <1>2, <2>1, InitializerStep DEF IInv
  <1>13. Orders'
    <2>1. Depth(t)' >= D /\ ~ (Depth(t)' < D)
      BY <1>1
    <2>. QED BY <1>1, <1>2, <1>4, <1>5, <1>6, <1>10, <2>1, OrderStep DEF IInv, Ctx, Others
  <1>. QED BY <1>3, <1>5, <1>7, <1>9, <1>11, <1>12, <1>13, Assemble

(* What Wait does to the monitor and to the frame *)
LEMMA WaitFacts ==
  ASSUME IInv, NEW t \in Threads, stack[t] # <<>>, NEW f, f = Top(t), NEW o \in DOMAIN cls, NEW at \in Ats, Wait(t, o, at)
  PROVE  /\ Alters(cls, cls', o) /\ SameStatus(cls'[o], cls[o]) /\ cls'[o].owner = NULL /\ cls'[o].count = 0
         /\ waiting' \in [Threads -> DOMAIN cls \cup {NULL}] /\ waiting'[t] = o
         /\ \A u \in Threads : u # t => waiting'[u] = waiting[u]
         /\ UNCHANGED <<ret, exc>>
         /\ \E g \in FrameRec : /\ Become(t, g) /\ g.at = at /\ g.d = f.d /\ g.l = f.l /\ g.k = f.k
                                /\ g.i = f.i /\ g.n = cls[o].count
  <1>1. cls[o] \in ClassRec /\ NULL \in Threads \cup {NULL} /\ 0 \in Nat /\ cls[o].count \in Nat /\ Map(cls) /\ f \in FrameRec
        /\ waiting \in [Threads -> DOMAIN cls \cup {NULL}]
    BY ClsMap, TopFr DEF IInv, Types, ClassRec
  <1>2. PICK r : r = [cls[o] EXCEPT !.owner = NULL, !.count = 0]
    OBVIOUS
  <1>3. r \in ClassRec /\ SameStatus(r, cls[o]) /\ r.owner = NULL /\ r.count = 0
    BY <1>1, <1>2, Zenon DEF ClassRec, SameStatus
  <1>4. cls' = [cls EXCEPT ![o] = r]
    BY <1>1, <1>2, Zenon DEF Wait, Map
  <1>5. PICK e : e = cls'
    OBVIOUS
  <1>6. Alters(cls, e, o) /\ e[o] = r
    BY <1>1, <1>3, <1>4, <1>5, AltersFacts
  <1>7. waiting' = [waiting EXCEPT ![t] = o] /\ UNCHANGED <<ret, exc>>
    BY DEF Wait
  <1>8. PICK m, g : m = cls[o].count /\ g = Paused(f, at, m) /\ Become(t, g)
    BY DEF Wait, Paused
  <1>9. g \in FrameRec /\ g.at = at /\ g.d = f.d /\ g.l = f.l /\ g.k = f.k /\ g.i = f.i /\ g.n = m
    <2>1. m \in Nat /\ f \in FrameRec
      BY <1>1, <1>8
    <2>. QED BY <1>8, <2>1, WaitFrame
  <1>. QED BY <1>1, <1>3, <1>5, <1>6, <1>7, <1>8, <1>9

(* A thread waits for the class of its innermost frame. *)
LEMMA WaitStep ==
  ASSUME IInv, NEW t \in Threads, stack[t] # <<>>, NEW f, f = Top(t), f.n = 0, ~ exc[t], Grip(f) = {f.k},
         NEW at \in {"temp", "woken", "initializing?"}, Wait(t, f.k, at), Aside, f.at \notin Ini2,
         \A g : g.at = at /\ g.d = f.d /\ g.l = f.l /\ g.k = f.k => Kin(f, g),
         \A g \in FrameRec : g.at = at /\ g.d = f.d /\ g.l = f.l /\ g.k = f.k /\ g.i = f.i => FrameOK(t, g)
  PROVE  IInv'
  <1>1. PICK o : o = f.k
    OBVIOUS
  <1>2. o \in DOMAIN cls /\ cls[o].owner = t /\ cls[o].count > 0 /\ cls[o].count \in Nat /\ o # NULL
    BY <1>1, TopHolds, ConstantsAssumption DEF IInv, Types
  <1>3. at \in Ats /\ at \notin DefAts \cup Ver2 \cup Ini2 \cup Handlers
    BY DEF Ats, FindAts, VerAts, IniAts, DefAts, Ver2, Ini2, Handlers
  <1>4. /\ Alters(cls, cls', o) /\ SameStatus(cls'[o], cls[o]) /\ cls'[o].owner = NULL /\ cls'[o].count = 0
        /\ waiting' \in [Threads -> DOMAIN cls \cup {NULL}] /\ waiting'[t] = o
        /\ (\A u \in Threads : u # t => waiting'[u] = waiting[u]) /\ UNCHANGED <<ret, exc>>
    BY <1>1, <1>2, <1>3, WaitFacts
  <1>5. PICK g \in FrameRec : /\ Become(t, g) /\ g.at = at /\ g.d = f.d /\ g.l = f.l /\ g.k = f.k /\ g.i = f.i
                              /\ g.n = cls[o].count
    BY <1>1, <1>2, <1>3, WaitFacts
  <1>6. Kin(f, g) /\ FrameOK(t, g)
    BY <1>5
  <1>7. Grip(g) = {o}
    BY <1>1, <1>5 DEF Grip
  <1>8. TopOK(t, g)'
    <2>1. ~ exc'[t] /\ g.n > 0 /\ waiting'[t] = g.k /\ waiting'[t] # NULL
      BY <1>1, <1>2, <1>4, <1>5
    <2>. QED BY <1>5, <2>1 DEF TopOK
  <1>. QED BY <1>1, <1>2, <1>3, <1>4, <1>5, <1>6, <1>7, <1>8, Handover

(* The monitor is free again. *)
LEMMA ResumeStep ==
  ASSUME IInv, NEW t \in Threads, Resume(t)
  PROVE  IInv'
  <1>1. PICK f, o : f = Top(t) /\ o = f.k
    OBVIOUS
  <1>2. stack[t] # <<>> /\ f.n > 0 /\ waiting[t] = NULL /\ cls[o].owner = NULL /\ UNCHANGED <<ret, exc, waiting>>
    BY <1>1 DEF Resume
  <1>3. FrameOK(t, f) /\ TopOK(t, f) /\ f \in FrameRec /\ f.n \in Nat /\ f.at \in Ats
    BY <1>1, <1>2, TopFacts
  <1>4. f.at \in {"temp", "woken", "initializing?"} /\ ~ exc[t]
    BY <1>2, <1>3 DEF TopOK, Handlers
  <1>5. f.at \in KAts /\ f.at \notin DefAts \cup Ver2 \cup Ini2 \cup {"caller"}
    BY <1>4 DEF KAts, OfAts, VerAts, IniAts, DefAts, Ver2, Ini2
  <1>6. o \in DOMAIN cls
    BY <1>1, <1>3, <1>5 DEF FrameOK
  <1>7. Grip(f) = {o}
    BY <1>1, <1>4 DEF Grip
  <1>8. Aside /\ Fail = Fail
    BY AsideFacts DEF Resume, IInv, bounds
  <1>9. /\ Alters(cls, cls', o) /\ SameStatus(cls'[o], cls[o]) /\ cls'[o].owner = t /\ cls'[o].count = f.n
    <2>1. cls[o] \in ClassRec /\ t \in Threads \cup {NULL} /\ Map(cls)
      BY <1>6, ClsMap DEF IInv, Types
    <2>2. PICK r : r = [cls[o] EXCEPT !.owner = t, !.count = f.n]
      OBVIOUS
    <2>3. r \in ClassRec /\ SameStatus(r, cls[o]) /\ r.owner = t /\ r.count = f.n
      BY <1>3, <2>1, <2>2, Zenon DEF ClassRec, SameStatus
    <2>4. cls' = [cls EXCEPT ![o] = r]
      BY <1>1, <2>1, <2>2, Zenon DEF Resume, Map
    <2>5. PICK e : e = cls'
      OBVIOUS
    <2>6. Alters(cls, e, o) /\ e[o] = r
      BY <1>6, <2>1, <2>3, <2>4, <2>5, AltersFacts
    <2>. QED BY <2>3, <2>5, <2>6
  <1>10. PICK g : g = [f EXCEPT !.n = 0] /\ Become(t, g)
    BY <1>1 DEF Resume
  <1>11. g \in FrameRec /\ g.at = f.at /\ g.d = f.d /\ g.l = f.l /\ g.k = f.k /\ g.i = f.i /\ g.n = 0
    BY <1>3, <1>10 DEF FrameRec
  <1>12. FrameOK(t, g)
    BY <1>3, <1>11 DEF FrameOK, FindFrame, DefFrame, VerFrame, IniFrame, IfaceFrame
  <1>13. Kin(f, g)
    BY <1>4, <1>11 DEF Kin, FindAts, VerAts, Ver2, IniAts, Ini2, IfaceAts, DefAts
  <1>14. Grip(g) = {o}
    BY <1>1, <1>4, <1>11 DEF Grip
  <1>15. TopOK(t, g)'
    <2>1. ~ exc'[t] /\ waiting'[t] = NULL /\ spurious' = spurious
      BY <1>2, <1>4, <1>8 DEF Aside
    <2>2. Status(g.k)' = Status(f.k)
      BY <1>1, <1>9, <1>11 DEF SameStatus, Status
    <2>3. g.at = "woken" /\ waiting'[t] = NULL /\ Status(g.k)' = "Verifying" => spurious' < MaxSpurious
      BY <1>2, <1>3, <1>11, <2>1, <2>2 DEF TopOK
    <2>. QED BY <1>4, <1>11, <2>1, <2>3 DEF TopOK
  <1>16. /\ cls'[o].count = 0 <=> cls'[o].owner = NULL
         /\ cls[o].owner \in {NULL, t} /\ cls'[o].owner \in {NULL, t} /\ g.k = o /\ f.k = o
         /\ waiting' \in [Threads -> DOMAIN cls \cup {NULL}]
    BY <1>1, <1>2, <1>3, <1>9, <1>11, ConstantsAssumption DEF IInv, Types
  <1>. QED BY <1>1, <1>2, <1>3, <1>5, <1>6, <1>7, <1>8, <1>9, <1>10, <1>11, <1>12, <1>13, <1>14, <1>15, <1>16, Handover

(* Neither a class nor a stack changes. *)
LEMMA SameMonitors ==
  ASSUME Monitors, Verifiers, Initializers, Orders, cls' = cls, stack' = stack, exc' = exc
  PROVE  Monitors' /\ Verifiers' /\ Initializers' /\ Orders'
  <1>1. \A u \in Threads : Depth(u)' = Depth(u) /\ \A b : Fr(u, b)' = Fr(u, b)
    BY DEF Depth, Fr
  <1>2. \A u \in Threads : \A o : Held(u, o)' = Held(u, o) /\ (Waits(u, o)' <=> Waits(u, o))
    BY DEF Held, Waits, Depth, Fr
  <1>3. ASSUME NEW u \in Threads, NEW o \in DOMAIN cls PROVE MonitorOK(u, o)'
    <2>1. MonitorOK(u, o)
      BY <1>3 DEF Monitors
    <2>. QED BY <1>1, <1>2, <1>3, <2>1 DEF MonitorOK
  <1>4. Monitors'
    BY <1>3 DEF Monitors
  <1>5. Verifiers'
    BY <1>1 DEF Verifiers
  <1>6. Initializers'
    BY DEF Initializers, Status, Depth, Fr
  <1>7. ASSUME NEW u \in Threads, NEW b \in 1 .. Depth(u) PROVE DoneWith(u, b, Fr(u, b))'
    <2>1. DoneWith(u, b, Fr(u, b))
      BY <1>7 DEF Orders
    <2>. QED BY <2>1 DEF DoneWith, Within, Ups, Status, Depth, Fr
  <1>8. Orders'
    BY <1>1, <1>7 DEF Orders
  <1>. QED BY <1>4, <1>5, <1>6, <1>8

(* A thread wakes up although nobody told it. *)
LEMMA SpuriousStep ==
  ASSUME IInv, NEW t \in Threads, Spurious(t)
  PROVE  IInv'
  <1>1. PICK f, D : f = Top(t) /\ D = Depth(t)
    OBVIOUS
  <1>2. /\ waiting[t] # NULL /\ spurious > 0 /\ spurious' = spurious - 1 /\ waiting' = [waiting EXCEPT ![t] = NULL]
        /\ cls' = cls /\ table' = table /\ stack' = stack /\ ret' = ret /\ exc' = exc /\ faults' = faults
        /\ aborted' = aborted /\ given' = given /\ ran' = ran /\ denied' = denied
    BY DEF Spurious, threads, history
  <1>3. Types'
    BY <1>2, ConstantsAssumption DEF IInv, Types
  <1>4. spurious' < MaxSpurious /\ spurious' <= spurious /\ faults' <= faults
    BY <1>2, ConstantsAssumption DEF IInv, Types
  <1>5. Quiet
    BY <1>2, <1>4 DEF Quiet, Kept
  <1>6. waiting'[t] = NULL /\ \A u \in Threads : u # t => waiting'[u] = waiting[u]
    BY <1>2 DEF IInv, Types
  <1>7. Ctx(t)
    <2>1. \A u \in Threads : u # t => ret'[u] = ret[u] /\ exc'[u] = exc[u] /\ Wakes(u)
      BY <1>2, <1>6 DEF Wakes
    <2>. QED BY <1>2, <1>3, <1>5, <2>1, QuietCtx
  <1>8. stack[t] # <<>>
    <2>1. stack[t] = <<>> => Depth(t) = 0
      BY DEF Depth
    <2>. QED BY <1>2, <2>1 DEF IInv, Stacks, StackOK
  <1>9. FrameOK(t, f) /\ TopOK(t, f) /\ f \in FrameRec /\ f.n \in Nat /\ D \in Nat /\ D > 0 /\ f = Fr(t, D)
    BY <1>1, <1>8, TopFacts
  <1>10. f.n > 0 /\ f.at \in {"temp", "woken", "initializing?"} /\ ~ exc[t]
    BY <1>2, <1>9 DEF TopOK, Handlers
  <1>11. Rewrites(t, D) /\ Depth(t)' = D /\ Fr(t, D)' = f /\ \A u \in Threads : stack'[u] = stack[u]
    BY <1>1, <1>2, <1>9 DEF Rewrites, Depth, Fr, IInv, Types
  <1>12. Kin(f, f) /\ Alone(f, f)
    BY <1>10 DEF Kin, Alone, FindAts, VerAts, Ver2, IniAts, Ini2, IfaceAts, DefAts
  <1>13. FrameOK(t, f)'
    BY <1>2, <1>3, <1>5, <1>9, QuietFrame
  <1>14. TopOK(t, f)'
    BY <1>2, <1>4, <1>6, <1>10 DEF TopOK
  <1>15. StackOK(t)'
    BY <1>7, <1>9, <1>11, <1>12, <1>13, <1>14, BecomeStack DEF Ctx, IInv
  <1>16. Monitors' /\ Verifiers' /\ Initializers' /\ Orders'
    BY <1>2, SameMonitors DEF IInv
  <1>. QED BY <1>7, <1>11, <1>15, <1>16, Assemble

-----------------------------------------------------------------------------
(* EnsureResolved *)

(* The entry of a temporary class is that class or its copy. *)
LEMMA TempEntry ==
  ASSUME IInv, NEW o \in DOMAIN cls, IsTemp(o), NEW x, x = table[o.loader][o.desc]
  PROVE  /\ x \in DOMAIN cls /\ x # NULL /\ x.desc = o.desc /\ (x = o \/ ~ IsTemp(x))
         /\ Status(o) = "Retired" => ~ IsTemp(x)
         /\ Status(o) = "ErrorUnresolved" => Dead(o.loader, o.desc)
  <1>1. o \in Classes /\ EntryOK(o) /\ StatusOK(o) /\ DOMAIN cls \subseteq Classes
    BY DEF IInv, Types, Objects, ObjectOK
  <1>2. x \in DOMAIN cls /\ x \in Classes /\ x.desc = o.desc /\ x.loader = o.loader /\ x.by = o.by
        /\ (Copy(o) \in DOMAIN cls => x.gen = "copy")
    BY <1>1 DEF EntryOK
  <1>3. x # NULL /\ o.gen = "first" /\ x.gen \in {"first", "copy"}
    BY <1>2, ConstantsAssumption DEF IsTemp, Classes
  <1>4. x = o \/ x.gen = "copy"
    BY <1>1, <1>2, <1>3, SameClass
  <1>5. x = o \/ ~ IsTemp(x)
    BY <1>4 DEF IsTemp
  <1>6. Status(o) = "Retired" => ~ IsTemp(x)
    BY <1>1, <1>2 DEF StatusOK, IsTemp
  <1>7. Status(o) = "ErrorUnresolved" => Dead(o.loader, o.desc)
    BY <1>3, <1>5 DEF Dead
  <1>. QED BY <1>2, <1>3, <1>5, <1>6, <1>7

(* A thread that finds itself defining the class rejects it. *)
LEMMA CircularStep ==
  ASSUME IInv, NEW t \in Threads, NEW f, f = Top(t), NEW o, o = f.k, At(t, "spin"),
         ~ IsResolved(o), Status(o) # "ErrorUnresolved", CanLock(t, o), cls[o].tid = t,
         cls' = Set(cls, o, "ErrorUnresolved"), NotifyAll(o), ReturnNull(t),
         UNCHANGED <<table, bounds, aborted, history>>
  PROVE  IInv'
  <1>1. stack[t] # <<>> /\ f.at = "spin" /\ f.n = 0 /\ f.at \in FindAts /\ f.at \in KAts /\ Grip(f) = {}
    BY AtTop DEF FindAts, KAts, Grip, DefAts
  <1>2. FrameOK(t, f) /\ f \in FrameRec /\ f.d \in Descs /\ f.l \in Loaders /\ waiting[t] = NULL
    BY <1>1, TopFacts
  <1>3. o \in DOMAIN cls /\ ~ IsTemp(o) /\ table[f.l][f.d] = o /\ o \in Classes /\ o # NULL
    BY <1>1, <1>2, ConstantsAssumption DEF FrameOK, FindFrame, IInv, Types
  <1>4. Status(o) \notin Res /\ "ErrorUnresolved" \in Statuses
    BY DEF IsResolved, Res, Statuses
  <1>5. Turns(o, "ErrorUnresolved") /\ cls'[o].tid = cls[o].tid /\ Mon(t, {}, {})
    BY <1>3, <1>4, SetTurns DEF IInv
  <1>6. Aside
    BY AsideFacts DEF IInv, bounds
  <1>7. Return(t) /\ ret' = [ret EXCEPT ![t] = NULL] /\ exc' = [exc EXCEPT ![t] = TRUE]
    BY DEF ReturnNull, Throw
  <1>8. stack' \in [Threads -> Seq(FrameRec)]
    BY <1>1, <1>7, ReturnFr DEF IInv, Rewrites
  <1>9. DOMAIN cls \subseteq DOMAIN cls' /\ NULL \in DOMAIN cls' \cup {NULL} /\ TRUE \in BOOLEAN
    BY <1>5 DEF Turns
  <1>10. Others(t) /\ ret'[t] = NULL /\ exc'[t]
    BY <1>7, <1>9, OthersFacts DEF IInv
  <1>11. Evolves(o) /\ StatusOK(o)'
    <2>1. StatusOK(o)
      BY <1>3 DEF IInv, Objects, ObjectOK
    <2>2. Status(o) # "Initialized" /\ Status(o) \notin Was /\ Status(o) \notin Late
      BY <1>4 DEF Res, Was, Late
    <2>3. Evolves(o)
      BY <1>3, <1>4, <1>5, <2>2 DEF Evolves, Turns, Status, Res
    <2>. QED BY <1>3, <1>5, <2>1, <2>2, <2>3 DEF StatusOK, Turns, Status
  <1>12. ASSUME NEW u \in Threads, NEW x, InStack(u, x), x.at \in Ver2 \cup Ini2 PROVE x.k # o
    <2>1. FrameOK(u, x) /\ (x.at \in VerAts \/ x.at \in IniAts)
      BY <1>12, InStackFacts DEF IInv, VerAts, IniAts
    <2>2. Good(x.k)
      BY <2>1 DEF FrameOK, VerFrame, IniFrame
    <2>. QED BY <1>4, <2>2 DEF Good
  <1>13. ASSUME NEW u \in Threads, u # t, NEW x, InStack(u, x) PROVE Apart(x, {o})
    <2>1. FrameOK(u, x) /\ x.at \in Ats /\ (x.at \in DefAts => DefFrame(u, x) /\ x.k \in DOMAIN cls)
      BY <1>13, InStackFacts DEF IInv, FrameOK, FrameRec, KAts, OfAts
    <2>2. CASE x.at \in {"load", "super", "resolved", "link"}
      <3>1. x.at \in DefAts
        BY <2>2 DEF DefAts
      <3>2. Copy(x.k) \notin DOMAIN cls /\ cls[x.k].tid = u
        BY <2>1, <2>2, <3>1 DEF DefFrame
      <3>. QED BY <1>3, <1>12, <1>13, <3>2 DEF Apart
    <2>3. CASE x.at \in {"retire", "publish"}
      <3>1. x.at \in DefAts /\ x.at \notin Handlers
        BY <2>3 DEF DefAts, Handlers
      <3>2. PICK D \in Nat : D = Depth(u)
        BY <1>13, InStackFacts DEF IInv
      <3>3. PICK b \in 1 .. D : x = Fr(u, b)
        BY <1>13, <3>2 DEF InStack
      <3>4. D > 0 /\ stack[u] # <<>>
        BY <3>2, <3>3 DEF Depth
      <3>5. \A c \in 1 .. D - 1 : Fr(u, c).at \in Handlers
        BY <3>2, <3>4, BelowTop DEF IInv
      <3>6. b = D
        BY <3>1, <3>2, <3>3, <3>5
      <3>7. x = Top(u) /\ TopOK(u, x) /\ x.n \in Nat
        BY <3>2, <3>3, <3>4, <3>6, TopFacts, TopFr DEF IInv
      <3>8. x.n = 0
        BY <2>3, <3>7 DEF TopOK
      <3>9. Copy(x.k) \in Grip(x)
        BY <2>3 DEF Grip
      <3>10. cls[Copy(x.k)].owner = u
        BY <3>4, <3>7, <3>8, <3>9, TopHolds
      <3>11. u # NULL /\ IsTemp(x.k)
        BY <2>1, <2>3, <3>1, ConstantsAssumption DEF DefFrame
      <3>12. Copy(x.k) # o /\ x.k # o
        BY <1>3, <1>13, <3>10, <3>11 DEF CanLock
      <3>. QED BY <1>12, <1>13, <3>12 DEF Apart
    <2>4. CASE x.at \notin DefAts
      BY <1>12, <1>13, <2>4 DEF Apart
    <2>. QED BY <2>2, <2>3, <2>4 DEF DefAts
  <1>14. ASSUME NEW x, Lower(t, x) PROVE Own(t, x) \/ Apart(x, {o})
    <2>1. InStack(t, x) /\ FrameOK(t, x)
      BY <1>14, LowerInStack, InStackFacts DEF IInv
    <2>2. x.at \in Handlers
      <3>1. PICK D \in Nat : D = Depth(t) /\ D > 0
        BY <1>1, TopFr DEF IInv
      <3>2. \A c \in 1 .. D - 1 : Fr(t, c).at \in Handlers
        BY <3>1, BelowTop DEF IInv
      <3>. QED BY <1>14, <3>1, <3>2 DEF Lower
    <2>3. CASE x.at \notin DefAts
      BY <1>12, <2>1, <2>3 DEF Apart
    <2>4. CASE x.at \in DefAts
      <3>1. x.at = "resolved"
        BY <2>2, <2>4 DEF DefAts, Handlers
      <3>2. DefFrame(t, x) /\ x.k \in DOMAIN cls /\ Copy(x.k) \notin DOMAIN cls
        BY <2>1, <2>4, <3>1 DEF FrameOK, DefFrame, KAts, OfAts
      <3>3. CASE x.k # o
        BY <1>3, <1>12, <2>1, <3>2, <3>3 DEF Apart
      <3>4. CASE x.k = o
        <4>1. DefFrame(t, x)' /\ cls'[x.k].up = cls[x.k].up
          BY <1>3, <1>5, <1>6, <3>1, <3>2, <3>4 DEF DefFrame, Turns, Status, Aside
        <4>. QED BY <3>1, <4>1 DEF Own, Ver2, Ini2
      <3>. QED BY <3>3, <3>4
    <2>. QED BY <2>3, <2>4
  <1>15. Ctx(t) /\ waiting'[t] = NULL
    <2>1. "ErrorUnresolved" # "Initialized" /\ "ErrorUnresolved" # "Verifying"
      OBVIOUS
    <2>. QED BY <1>2, <1>5, <1>6, <1>8, <1>10, <1>11, <1>13, <1>14, <2>1, TurnsCtx DEF Aside
  <1>16. NoneInitializes
    BY <1>5, TurnsIni
  <1>17. Dead(f.l, f.d)'
    BY <1>3, <1>6 DEF Dead, Aside
  <1>. QED BY <1>1, <1>5, <1>7, <1>10, <1>15, <1>16, <1>17, NullReturn

LEMMA EnsureResolvedStep ==
  ASSUME IInv, NEW t \in Threads, EnsureResolved(t)
  PROVE  IInv'
  <1>0. PICK f, o : f = Top(t) /\ o = f.k
    OBVIOUS
  <1>1. stack[t] # <<>> /\ f.at \in {"ensure", "lock", "temp", "spin"} /\ f.n = 0
    BY <1>0, AtTop DEF EnsureResolved
  <1>2. /\ f.at \in FindAts /\ f.at \in KAts /\ f.at \notin Handlers /\ f.at \notin {"array", "caller"} /\ f.at \notin Ini2
        /\ {"ensure", "lock", "temp", "spin"} \subseteq FindAts \cap Ats
        /\ f.at # "temp" => f.at \in PlainFind /\ Grip(f) = {}
        /\ f.at = "temp" => Grip(f) = {o}
    BY <1>0, <1>1 DEF FindAts, KAts, Ats, Handlers, PlainFind, Grip, DefAts, Ini2
  <1>3. FrameOK(t, f) /\ TopOK(t, f) /\ f \in FrameRec /\ f.d \in Descs /\ f.l \in Loaders /\ waiting[t] = NULL /\ ~ exc[t]
    BY <1>0, <1>1, <1>2, TopFacts
  <1>4. o \in DOMAIN cls /\ o.desc = f.d /\ o \in Classes
    BY <1>0, <1>1, <1>2, <1>3 DEF FrameOK, FindFrame, IInv, Types
  <1>5. /\ f.at \in {"ensure", "lock", "temp"} =>
             IF IsTemp(o) THEN o.loader = f.l ELSE f.at = "ensure" /\ table[f.l][f.d] = o
        /\ f.at = "spin" => ~ IsTemp(o) /\ table[f.l][f.d] = o
    BY <1>0, <1>3 DEF FrameOK, FindFrame
  <1>6. UNCHANGED <<table, bounds, aborted, history>>
    BY DEF EnsureResolved
  <1>7. Aside
    BY <1>6, AsideFacts DEF IInv, bounds
  <1>8. ASSUME cls' = cls, waiting' = waiting PROVE Still /\ DOMAIN cls \subseteq DOMAIN cls'
    BY <1>6, <1>8, StillFacts DEF IInv, bounds
  <1>9. ASSUME NEW g \in FrameRec, g.at \in {"lock", "temp"}, g.d = f.d, g.l = f.l, g.k = o, IsTemp(o), o.loader = f.l
        PROVE  FrameOK(t, g)
    BY <1>4, <1>9 DEF FrameOK, FindFrame, OfAts, DefAts, VerAts, Ver2, IniAts, Ini2, IfaceAts
  <1>10. ASSUME NEW x, x = table[f.l][f.d], x \in DOMAIN cls, x.desc = f.d, ~ IsTemp(x),
                NEW g \in FrameRec, g.at = "spin", g.d = f.d, g.l = f.l, g.k = x
         PROVE  FrameOK(t, g)
    BY <1>10 DEF FrameOK, FindFrame, OfAts, DefAts, VerAts, Ver2, IniAts, Ini2, IfaceAts
  <1>11. CASE At(t, "ensure") /\ IsTemp(o) /\ Status(o) = "ErrorUnresolved" /\ ReturnNull(t) /\ UNCHANGED <<cls, waiting>>
    <2>1. f.at = "ensure"
      BY <1>0, <1>11, AtTop
    <2>2. Dead(f.l, f.d)
      BY <1>4, <1>5, <1>11, <2>1, TempEntry
    <2>3. Dead(f.l, f.d)'
      BY <1>6, <1>11, <2>2 DEF Dead, Status, history
    <2>. QED BY <1>0, <1>1, <1>2, <1>8, <1>11, <2>1, <2>3, PureNull
  <1>12. CASE At(t, "ensure") /\ IsTemp(o) /\ Goto(t, "lock") /\ UNCHANGED <<cls, ret, exc, waiting>>
    <2>1. f.at = "ensure" /\ "lock" \in PlainFind /\ "lock" \in Ats
      BY <1>0, <1>2, <1>12, AtTop DEF PlainFind
    <2>2. PICK g \in FrameRec : /\ Become(t, g) /\ g.at = "lock" /\ g.d = f.d /\ g.l = f.l /\ g.k = f.k /\ g.n = 0
      BY <1>0, <1>1, <1>12, <2>1, GotoFacts
    <2>3. FrameOK(t, g)
      BY <1>0, <1>5, <1>9, <1>12, <2>1, <2>2
    <2>4. Others(t) /\ exc'[t] = exc[t]
      BY <1>8, <1>12, UnchangedOthers DEF IInv
    <2>5. TopOK(t, g)'
      BY <1>3, <1>12, <2>2, <2>4, PlainTop DEF Handlers
    <2>. QED BY <1>0, <1>1, <1>2, <1>8, <1>12, <2>1, <2>2, <2>3, <2>4, <2>5, PureFind
  <1>13. CASE At(t, "lock") /\ CanLock(t, o) /\ cls' = Lock(cls, t, o) /\ Goto(t, "temp") /\ UNCHANGED <<ret, exc, waiting>>
    <2>1. f.at = "lock"
      BY <1>0, <1>13, AtTop
    <2>2. PICK g \in FrameRec : /\ Become(t, g) /\ g.at = "temp" /\ g.d = f.d /\ g.l = f.l /\ g.k = f.k /\ g.n = 0
      BY <1>0, <1>1, <1>2, <1>13, GotoFacts
    <2>3. FrameOK(t, g)
      BY <1>0, <1>5, <1>9, <2>1, <2>2
    <2>4. stack' \in [Threads -> Seq(FrameRec)]
      BY <1>1, <2>2, BecomeFr DEF IInv, Rewrites
    <2>5. DOMAIN cls \subseteq DOMAIN cls'
      BY <1>13 DEF Lock
    <2>6. Others(t) /\ exc'[t] = exc[t]
      BY <1>13, <2>5, UnchangedOthers DEF IInv
    <2>7. Types' /\ Quiet /\ Ctx(t) /\ NoneInitializes /\ Mon(t, {}, {o})
      BY <1>4, <1>7, <1>13, <2>4, <2>6, LockStep
    <2>8. FrameOK(t, g)'
      BY <1>7, <2>3, <2>7, QuietFrame DEF Aside
    <2>9. TopOK(t, g)'
      BY <1>3, <1>13, <2>2, <2>6, PlainTop DEF Handlers
    <2>10. Kin(f, g) /\ Alone(f, g)
      <3>1. g.at \notin DefAts \cup Ver2 \cup Ini2 /\ g.at \in FindAts \ {"array"}
        BY <2>2 DEF DefAts, Ver2, Ini2, FindAts
      <3>. QED BY <1>2, <2>2, <3>1, FindKin, FreeAlone
    <2>11. Grip(f) = {} /\ Grip(g) = {o}
      BY <1>0, <1>2, <2>1, <2>2 DEF Grip
    <2>. QED BY <1>0, <1>1, <1>2, <2>2, <2>7, <2>8, <2>9, <2>10, <2>11, BecomeStep DEF NoneInitializes
  <1>14. CASE At(t, "ensure") /\ ~ IsTemp(o) /\ Goto(t, "spin") /\ UNCHANGED <<cls, ret, exc, waiting>>
    <2>1. f.at = "ensure" /\ "spin" \in PlainFind /\ "spin" \in Ats
      BY <1>0, <1>2, <1>14, AtTop DEF PlainFind
    <2>2. PICK g \in FrameRec : /\ Become(t, g) /\ g.at = "spin" /\ g.d = f.d /\ g.l = f.l /\ g.k = f.k /\ g.n = 0
      BY <1>0, <1>1, <1>14, <2>1, GotoFacts
    <2>3. FrameOK(t, g)
      BY <1>0, <1>4, <1>5, <1>10, <1>14, <2>1, <2>2
    <2>4. Others(t) /\ exc'[t] = exc[t]
      BY <1>8, <1>14, UnchangedOthers DEF IInv
    <2>5. TopOK(t, g)'
      BY <1>3, <1>14, <2>2, <2>4, PlainTop DEF Handlers
    <2>. QED BY <1>0, <1>1, <1>2, <1>8, <1>14, <2>1, <2>2, <2>3, <2>4, <2>5, PureFind
  <1>15. CASE At(t, "temp") /\ Wait(t, o, "temp")
    <2>1. f.at = "temp"
      BY <1>0, <1>15, AtTop
    <2>2. ASSUME NEW g, g.at = "temp", g.d = f.d, g.l = f.l, g.k = f.k PROVE Kin(f, g)
      BY <1>2, <2>1, <2>2, FindKin
    <2>3. ASSUME NEW g \in FrameRec, g.at = "temp", g.d = f.d, g.l = f.l, g.k = f.k PROVE FrameOK(t, g)
      BY <1>0, <1>5, <1>9, <2>1, <2>3
    <2>. QED BY <1>0, <1>1, <1>2, <1>3, <1>7, <1>15, <2>1, <2>2, <2>3, WaitStep
  <1>16. CASE At(t, "temp") /\ Status(o) = "ErrorUnresolved" /\ cls' = Unlock(cls, o) /\ ReturnNull(t) /\ UNCHANGED waiting
    <2>1. f.at = "temp" /\ Grip(f) = {o}
      BY <1>0, <1>2, <1>16, AtTop
    <2>2. Dead(f.l, f.d)
      BY <1>4, <1>5, <1>16, <2>1, TempEntry
    <2>3. cls[o].count > 0
      BY <1>0, <1>1, <2>1, TopHolds
    <2>4. Return(t) /\ ret' = [ret EXCEPT ![t] = NULL] /\ exc' = [exc EXCEPT ![t] = TRUE]
      BY <1>16 DEF ReturnNull, Throw
    <2>5. stack' \in [Threads -> Seq(FrameRec)]
      BY <1>1, <2>4, ReturnFr DEF IInv, Rewrites
    <2>6. DOMAIN cls \subseteq DOMAIN cls' /\ NULL \in DOMAIN cls' \cup {NULL} /\ TRUE \in BOOLEAN
      BY <1>16 DEF Unlock
    <2>7. Others(t) /\ ret'[t] = NULL /\ exc'[t]
      BY <2>4, <2>6, OthersFacts DEF IInv
    <2>8. Types' /\ Quiet /\ Ctx(t) /\ NoneInitializes /\ Mon(t, {o}, {})
      BY <1>4, <1>7, <1>16, <2>3, <2>5, <2>7, UnlockStep
    <2>9. Dead(f.l, f.d)'
      BY <1>3, <2>2, <2>8, DeadStable DEF Ctx, IInv
    <2>. QED BY <1>0, <1>1, <1>2, <1>3, <1>16, <2>1, <2>4, <2>7, <2>8, <2>9, NullReturn
  <1>17. CASE /\ At(t, "temp") /\ Status(o) = "Retired" /\ cls' = Unlock(cls, o)
              /\ Become(t, [Ensure(table[o.loader][o.desc], f) EXCEPT !.at = "spin"])
              /\ UNCHANGED <<ret, exc, waiting>>
    <2>1. f.at = "temp" /\ Grip(f) = {o} /\ IsTemp(o) /\ o.loader = f.l
      BY <1>0, <1>2, <1>5, <1>17, AtTop
    <2>2. PICK x : x = table[f.l][f.d]
      OBVIOUS
    <2>3. x \in DOMAIN cls /\ x.desc = f.d /\ ~ IsTemp(x) /\ x \in Classes
      BY <1>4, <1>17, <2>1, <2>2, TempEntry DEF IInv, Types
    <2>4. PICK e, g : e = Frame("ensure", f.d, f.l, x) /\ g = [e EXCEPT !.at = "spin"] /\ Become(t, g)
      BY <1>4, <1>17, <2>1, <2>2 DEF Ensure
    <2>5. e \in FrameRec /\ e.d = f.d /\ e.l = f.l /\ e.k = x /\ e.n = 0
      BY <1>2, <1>3, <2>3, <2>4, NewFrame
    <2>6. g \in FrameRec /\ g.at = "spin" /\ g.d = f.d /\ g.l = f.l /\ g.k = x /\ g.n = 0
      BY <1>2, <2>4, <2>5, GotoFrame
    <2>7. FrameOK(t, g)
      BY <1>10, <2>2, <2>3, <2>6
    <2>8. cls[o].count > 0
      BY <1>0, <1>1, <2>1, TopHolds
    <2>9. stack' \in [Threads -> Seq(FrameRec)]
      BY <1>1, <2>4, <2>6, BecomeFr DEF IInv, Rewrites
    <2>10. DOMAIN cls \subseteq DOMAIN cls'
      BY <1>17 DEF Unlock
    <2>11. Others(t) /\ exc'[t] = exc[t]
      BY <1>17, <2>10, UnchangedOthers DEF IInv
    <2>12. Types' /\ Quiet /\ Ctx(t) /\ NoneInitializes /\ Mon(t, {o}, {})
      BY <1>4, <1>7, <1>17, <2>8, <2>9, <2>11, UnlockStep
    <2>13. FrameOK(t, g)'
      BY <1>7, <2>7, <2>12, QuietFrame DEF Aside
    <2>14. TopOK(t, g)'
      BY <1>3, <1>17, <2>6, <2>11, PlainTop DEF Handlers
    <2>15. Kin(f, g) /\ Alone(f, g)
      <3>1. g.at \notin DefAts \cup Ver2 \cup Ini2 /\ g.at \in FindAts \ {"array"}
        BY <2>6 DEF DefAts, Ver2, Ini2, FindAts
      <3>. QED BY <1>2, <2>6, <3>1, FindKin, FreeAlone
    <2>16. Grip(g) = {}
      BY <2>6 DEF Grip, DefAts
    <2>. QED BY <1>0, <1>1, <1>2, <2>1, <2>4, <2>6, <2>12, <2>13, <2>14, <2>15, <2>16, BecomeStep DEF NoneInitializes
  <1>18. CASE At(t, "spin") /\ IsResolved(o) /\ ReturnClass(t, o) /\ UNCHANGED <<cls, waiting>>
    <2>1. f.at = "spin"
      BY <1>0, <1>18, AtTop
    <2>2. Good(o) /\ table[f.l][f.d] = o /\ o.desc = f.d
      BY <1>4, <1>5, <1>18, <2>1 DEF Good, IsResolved, Res
    <2>3. Return(t) /\ ret' = [ret EXCEPT ![t] = o] /\ exc' = exc
      BY <1>18 DEF ReturnClass
    <2>4. Others(t) /\ ret'[t] = o /\ ~ exc'[t]
      BY <1>3, <1>4, <1>18, <2>3, OthersFacts DEF IInv
    <2>. QED BY <1>0, <1>1, <1>2, <1>8, <1>18, <2>1, <2>2, <2>3, <2>4, PureClass
  <1>19. CASE At(t, "spin") /\ Status(o) = "ErrorUnresolved" /\ ReturnNull(t) /\ UNCHANGED <<cls, waiting>>
    <2>1. f.at = "spin"
      BY <1>0, <1>19, AtTop
    <2>2. o # NULL
      BY <1>4, ConstantsAssumption
    <2>3. Dead(f.l, f.d)'
      BY <1>5, <1>6, <2>1, <2>2 DEF Dead
    <2>. QED BY <1>0, <1>1, <1>2, <1>8, <1>19, <2>1, <2>3, PureNull
  <1>20. CASE /\ At(t, "spin") /\ ~ IsResolved(o) /\ Status(o) # "ErrorUnresolved"
              /\ CanLock(t, o) /\ cls[o].tid = t
              /\ cls' = Set(cls, o, "ErrorUnresolved") /\ NotifyAll(o) /\ ReturnNull(t)
    BY <1>0, <1>6, <1>20, CircularStep
  <1>. QED BY <1>0, <1>11, <1>12, <1>13, <1>14, <1>15, <1>16, <1>17, <1>18, <1>19, <1>20, Zenon DEF EnsureResolved

-----------------------------------------------------------------------------
(* VerifyClass *)

(* A CHECK fails. *)
LEMMA AbortStep ==
  ASSUME IInv, UNCHANGED <<cls, table, stack, ret, exc, waiting, faults, spurious, given, denied, ran>>, Aborts'
  PROVE  IInv'
  <1>1. Types'
    BY DEF IInv, Types
  <1>2. Grows /\ Touches({})
    <2>1. \A o \in DOMAIN cls : Evolves(o)
      BY DEF Evolves, Status
    <2>2. \A l \in Loaders, d \in Descs : EntryEvolves(l, d)
      BY DEF EntryEvolves
    <2>3. faults' <= faults /\ spurious' <= spurious
      BY ConstantsAssumption DEF IInv, Types
    <2>. QED BY <2>1, <2>2, <2>3 DEF Grows, Touches, Kept
  <1>3. ASSUME NEW o \in DOMAIN cls PROVE ObjectOK(o)'
    BY <1>1, <1>2, <1>3, ObjectStable DEF IInv, Kept
  <1>4. ASSUME NEW l \in Loaders, NEW d \in Descs PROVE TableOK(l, d)'
    BY <1>1, <1>2, <1>4, TableStable DEF IInv
  <1>5. ASSUME NEW u \in Threads PROVE StackOK(u)'
    <2>1. ASSUME NEW f, InStack(u, f) PROVE Own(u, f)
      <3>1. FrameOK(u, f)
        BY <2>1, InStackFacts DEF IInv
      <3>. QED BY <1>2, <3>1, OwnOther DEF IInv
    <2>2. Wakes(u)
      BY DEF Wakes
    <2>. QED BY <1>1, <1>2, <2>1, <2>2, StackStable DEF IInv
  <1>6. Monitors' /\ Verifiers' /\ Initializers' /\ Orders'
    BY SameMonitors DEF IInv
  <1>. QED BY <1>1, <1>3, <1>4, <1>5, <1>6 DEF IInv, Objects, Tables, Stacks

(* The innermost frame, when it is of VerifyClass *)
LEMMA VerTop ==
  ASSUME IInv, NEW t \in Threads, stack[t] # <<>>, NEW f, f = Top(t), f.n = 0, f.at \in VerAts, NEW k, k = f.k
  PROVE  /\ FrameOK(t, f) /\ TopOK(t, f) /\ f \in FrameRec /\ f.d \in Descs /\ f.l \in Loaders /\ waiting[t] = NULL
         /\ VerFrame(f) /\ Good(k) /\ k \in DOMAIN cls /\ k \in Classes /\ k # NULL /\ f.d = k.desc /\ f.l = k.loader
         /\ f.i \in Nat /\ (f.at # "attempted" => ~ exc[t]) /\ f.at \notin Ini2 /\ f.at # "caller"
  <1>1. /\ FrameOK(t, f) /\ TopOK(t, f) /\ f \in FrameRec /\ f.d \in Descs /\ f.l \in Loaders /\ waiting[t] = NULL
        /\ f.i \in Nat /\ (f.at \notin Handlers => ~ exc[t])
    BY TopFacts
  <1>2. f.at # "attempted" => f.at \notin Handlers
    BY DEF VerAts, Ver2, Handlers
  <1>3. f.at \in OfAts /\ f.at \notin Ini2 /\ f.at # "caller"
    BY DEF OfAts, VerAts, Ver2, Ini2
  <1>4. VerFrame(f) /\ f.d = k.desc /\ f.l = k.loader
    BY <1>1, <1>3 DEF FrameOK
  <1>5. Good(k) /\ k \in DOMAIN cls /\ k \in Classes /\ k # NULL
    BY <1>4, ConstantsAssumption DEF VerFrame, Good, IInv, Types
  <1>. QED BY <1>1, <1>2, <1>3, <1>4, <1>5

LEMMA VerKin ==
  ASSUME NEW f, NEW g, f.at \in VerAts, g.at \in VerAts, g.d = f.d, g.l = f.l, g.k = f.k
  PROVE  Kin(f, g)
  <1>1. VerAts \cap (FindAts \cup IniAts \cup IfaceAts \cup {"use", "caller"}) = {}
    BY DEF VerAts, Ver2, FindAts, DefAts, IniAts, Ini2, IfaceAts
  <1>. QED BY <1>1 DEF Kin

LEMMA VerOK ==
  ASSUME NEW t \in Threads, NEW g \in FrameRec, g.at \in VerAts, g.d = g.k.desc, g.l = g.k.loader, VerFrame(g)
  PROVE  FrameOK(t, g)
  <1>1. VerAts \cap (FindAts \cup IniAts \cup IfaceAts \cup {"use", "caller"}) = {} /\ DefAts \subseteq FindAts
    BY DEF VerAts, Ver2, FindAts, DefAts, IniAts, Ini2, IfaceAts
  <1>2. FindFrame(g)
    BY DEF FindFrame, VerAts, Ver2
  <1>. QED BY <1>1, <1>2 DEF FrameOK, VerFrame, Good

LEMMA VerOKPrime ==
  ASSUME NEW t \in Threads, NEW g \in FrameRec, g.at \in VerAts, g.d = g.k.desc, g.l = g.k.loader, VerFrame(g)'
  PROVE  FrameOK(t, g)'
  <1>1. VerAts \cap (FindAts \cup IniAts \cup IfaceAts \cup {"use", "caller"}) = {} /\ DefAts \subseteq FindAts
    BY DEF VerAts, Ver2, FindAts, DefAts, IniAts, Ini2, IfaceAts
  <1>2. FindFrame(g)'
    BY DEF FindFrame, VerAts, Ver2
  <1>. QED BY <1>1, <1>2 DEF FrameOK, VerFrame, Good

LEMMA VerifyClassStep ==
  ASSUME IInv, NEW t \in Threads, VerifyClass(t)
  PROVE  IInv'
  <1>0. PICK f, k : f = Top(t) /\ k = f.k
    OBVIOUS
  <1>1. stack[t] # <<>> /\ f.at \in {"verify", "verifying?", "woken"} /\ f.n = 0
    BY <1>0, AtTop DEF VerifyClass
  <1>2. /\ f.at \in VerAts /\ f.at \notin Ver2 /\ f.at # "attempted"
        /\ "verifying?" \in VerAts /\ "verifying?" \in Ats /\ "woken" \in VerAts /\ "supertypes" \in VerAts /\ "supertypes" \in Ats
        /\ f.at # "verify" => Grip(f) = {k}
        /\ f.at = "verify" => Grip(f) = {}
    BY <1>0, <1>1 DEF VerAts, Ver2, Ats, Grip, DefAts
  <1>3. /\ FrameOK(t, f) /\ TopOK(t, f) /\ f \in FrameRec /\ f.d \in Descs /\ f.l \in Loaders /\ waiting[t] = NULL
        /\ VerFrame(f) /\ Good(k) /\ k \in DOMAIN cls /\ k \in Classes /\ k # NULL /\ f.d = k.desc /\ f.l = k.loader
        /\ f.i \in Nat /\ ~ exc[t] /\ f.at \notin Ini2 /\ f.at # "caller"
    BY <1>0, <1>1, <1>2, VerTop
  <1>4. f.i = 0 /\ Status(k) \in Res
    BY <1>2, <1>3 DEF VerFrame, Good
  <1>5. UNCHANGED <<table, bounds, history>>
    BY DEF VerifyClass
  <1>6. ASSUME aborted' = aborted PROVE Aside
    BY <1>5, <1>6, AsideFacts DEF IInv, bounds
  <1>7. f.at # "verify" => cls[k].count > 0
    BY <1>0, <1>1, <1>2, TopHolds
  <1>8. ASSUME NEW g \in FrameRec, g.at = "verifying?" \/ (g.at = "woken" /\ Status(k) = "Verifying"),
               g.d = f.d, g.l = f.l, g.k = k, g.i = f.i
        PROVE  FrameOK(t, g)
    <2>1. VerFrame(g)
      BY <1>3, <1>4, <1>8 DEF VerFrame, Ver2
    <2>. QED BY <1>2, <1>3, <1>8, <2>1, VerOK
  <1>9. CASE /\ At(t, "verify") /\ CanLock(t, k) /\ cls' = Lock(cls, t, k)
             /\ Goto(t, "verifying?") /\ UNCHANGED <<ret, exc, waiting, aborted>>
    <2>1. f.at = "verify"
      BY <1>0, <1>9, AtTop
    <2>2. PICK g \in FrameRec : /\ Become(t, g) /\ g.at = "verifying?" /\ g.d = f.d /\ g.l = f.l /\ g.k = f.k /\ g.i = f.i /\ g.n = 0
      BY <1>0, <1>1, <1>2, <1>9, GotoFacts
    <2>3. FrameOK(t, g)
      BY <1>0, <1>8, <2>2
    <2>4. stack' \in [Threads -> Seq(FrameRec)]
      BY <1>1, <2>2, BecomeFr DEF IInv, Rewrites
    <2>5. DOMAIN cls \subseteq DOMAIN cls'
      BY <1>9 DEF Lock
    <2>6. Others(t) /\ exc'[t] = exc[t]
      BY <1>9, <2>5, UnchangedOthers DEF IInv
    <2>7. Types' /\ Quiet /\ Ctx(t) /\ NoneInitializes /\ Mon(t, {}, {k})
      BY <1>3, <1>6, <1>9, <2>4, <2>6, LockStep
    <2>8. FrameOK(t, g)'
      BY <1>6, <1>9, <2>3, <2>7, QuietFrame DEF Aside
    <2>9. TopOK(t, g)'
      BY <1>3, <1>9, <2>2, <2>6, PlainTop DEF Handlers
    <2>10. Kin(f, g) /\ Alone(f, g)
      <3>1. g.at \notin DefAts \cup Ver2 \cup Ini2
        BY <2>2 DEF DefAts, Ver2, Ini2
      <3>. QED BY <1>2, <2>2, <3>1, VerKin, FreeAlone
    <2>11. Grip(f) = {} /\ Grip(g) = {k}
      BY <1>0, <1>2, <2>1, <2>2 DEF Grip
    <2>. QED BY <1>0, <1>1, <1>3, <2>2, <2>7, <2>8, <2>9, <2>10, <2>11, BecomeStep DEF NoneInitializes
  <1>10. CASE At(t, "verifying?") /\ Status(k) = "Verifying" /\ Wait(t, k, "woken") /\ UNCHANGED aborted
    <2>1. f.at = "verifying?"
      BY <1>0, <1>10, AtTop
    <2>2. ASSUME NEW g, g.at = "woken", g.d = f.d, g.l = f.l, g.k = f.k PROVE Kin(f, g)
      BY <1>2, <2>2, VerKin
    <2>3. ASSUME NEW g \in FrameRec, g.at = "woken", g.d = f.d, g.l = f.l, g.k = f.k, g.i = f.i PROVE FrameOK(t, g)
      BY <1>0, <1>8, <1>10, <2>3
    <2>4. Grip(f) = {f.k}
      BY <1>0, <1>2, <2>1
    <2>. QED BY <1>0, <1>1, <1>3, <1>6, <1>10, <2>2, <2>3, <2>4, WaitStep
  <1>11. CASE /\ At(t, "woken") /\ Status(k) = "Verifying" /\ Abort("illegal verification state transition")
              /\ UNCHANGED <<cls, ret, exc, waiting, stack>>
    <2>1. f.at = "woken"
      BY <1>0, <1>11, AtTop
    <2>2. spurious < MaxSpurious
      BY <1>0, <1>3, <1>11, <2>1 DEF TopOK
    <2>3. Aborts'
      BY <1>5, <1>11, <2>2 DEF Aborts, Abort, bounds
    <2>. QED BY <1>5, <1>11, <2>3, AbortStep DEF bounds, history
  <1>12. CASE /\ At(t, "woken") /\ Goto(t, "verifying?") /\ UNCHANGED <<cls, ret, exc, waiting, aborted>>
    <2>1. f.at = "woken"
      BY <1>0, <1>12, AtTop
    <2>2. PICK g \in FrameRec : /\ Become(t, g) /\ g.at = "verifying?" /\ g.d = f.d /\ g.l = f.l /\ g.k = f.k /\ g.i = f.i /\ g.n = 0
      BY <1>0, <1>1, <1>2, <1>12, GotoFacts
    <2>3. FrameOK(t, g)
      BY <1>0, <1>8, <2>2
    <2>4. Still /\ DOMAIN cls \subseteq DOMAIN cls'
      BY <1>5, <1>12, StillFacts DEF IInv, bounds
    <2>5. Others(t) /\ exc'[t] = exc[t]
      BY <1>12, <2>4, UnchangedOthers DEF IInv
    <2>6. TopOK(t, g)'
      BY <1>3, <1>12, <2>2, <2>5, PlainTop DEF Handlers
    <2>7. Kin(f, g) /\ Alone(f, g)
      <3>1. g.at \notin DefAts \cup Ver2 \cup Ini2
        BY <2>2 DEF DefAts, Ver2, Ini2
      <3>. QED BY <1>2, <2>2, <3>1, VerKin, FreeAlone
    <2>8. Grip(g) = Grip(f)
      BY <2>1, <2>2 DEF Grip, DefAts
    <2>. QED BY <1>0, <1>1, <1>3, <2>2, <2>3, <2>4, <2>5, <2>6, <2>7, <2>8, PureBecome
  <1>13. ASSUME f.at = "verifying?", cls' = Unlock(cls, k), Return(t), UNCHANGED <<ret, waiting, aborted>>,
                exc' = exc \/ (Throw(t) /\ IsErroneous(k))
         PROVE  IInv'
    <2>1. stack' \in [Threads -> Seq(FrameRec)]
      BY <1>1, <1>13, ReturnFr DEF IInv, Rewrites
    <2>2. DOMAIN cls \subseteq DOMAIN cls' /\ NULL \in DOMAIN cls' \cup {NULL} /\ TRUE \in BOOLEAN
      BY <1>13 DEF Unlock
    <2>3. Others(t)
      BY <1>13, <2>2, OthersFacts DEF IInv, Throw
    <2>4. Types' /\ Quiet /\ Ctx(t) /\ NoneInitializes /\ Mon(t, {k}, {})
      BY <1>3, <1>6, <1>7, <1>13, <2>1, <2>3, UnlockStep
    <2>5. exc'[t] => Status(k)' = "ErrorResolved"
      <3>1. Status(k)' = Status(k)
        BY <1>3, <2>4 DEF Quiet, Kept, Status
      <3>2. IsErroneous(k) => Status(k) = "ErrorResolved"
        BY <1>4 DEF IsErroneous, Res
      <3>. QED BY <1>3, <1>13, <3>1, <3>2
    <2>6. Grip(f) = {k} /\ waiting'[t] = NULL
      BY <1>2, <1>3, <1>13
    <2>. QED BY <1>0, <1>1, <1>2, <1>13, <2>4, <2>5, <2>6, VerReturn
  <1>14. CASE /\ At(t, "verifying?") /\ IsErroneous(k) /\ cls' = Unlock(cls, k)
              /\ Throw(t) /\ Return(t) /\ UNCHANGED <<ret, waiting, aborted>>
    BY <1>0, <1>13, <1>14, AtTop
  <1>15. CASE /\ At(t, "verifying?") /\ IsVerified(k) /\ cls' = Unlock(cls, k)
              /\ Return(t) /\ UNCHANGED <<ret, exc, waiting, aborted>>
    BY <1>0, <1>13, <1>15, AtTop
  <1>16. CASE /\ At(t, "verifying?") /\ Status(k) = "Resolved"
              /\ cls' = Unlock(Set(cls, k, "Verifying"), k) /\ NotifyAll(k)
              /\ Goto(t, "supertypes") /\ UNCHANGED <<ret, exc, aborted>>
    <2>1. f.at = "verifying?" /\ Grip(f) = {k} /\ "Verifying" \in Statuses
      BY <1>0, <1>2, <1>16, AtTop DEF Statuses
    <2>2. PICK g \in FrameRec : /\ Become(t, g) /\ g.at = "supertypes" /\ g.d = f.d /\ g.l = f.l /\ g.k = f.k /\ g.i = f.i /\ g.n = 0
      BY <1>0, <1>1, <1>2, <1>16, GotoFacts
    <2>3. stack' \in [Threads -> Seq(FrameRec)]
      BY <1>1, <2>2, BecomeFr DEF IInv, Rewrites
    <2>4. Turns(k, "Verifying") /\ cls'[k].tid = cls[k].tid /\ Mon(t, {k}, {})
      BY <1>3, <1>7, <1>16, <2>1, UnlockTurns DEF IInv
    <2>5. Others(t) /\ exc'[t] = exc[t]
      BY <1>16, <2>4, UnchangedOthers DEF IInv, Turns
    <2>6. Evolves(k) /\ StatusOK(k)'
      <3>1. StatusOK(k) /\ ~ IsTemp(k)
        BY <1>3 DEF IInv, Objects, ObjectOK, Good
      <3>. QED BY <1>3, <1>16, <2>4, <3>1 DEF Evolves, StatusOK, Turns, Status, Res, Was, Late
    <2>7. ASSUME NEW u \in Threads, NEW x, InStack(u, x) PROVE Apart(x, {k})
      BY <1>3, <1>16, <2>7, ResApart
    <2>8. \A x : Lower(t, x) => Apart(x, {k})
      BY <2>7, LowerInStack DEF IInv
    <2>9. Types' /\ Grows /\ Ctx(t) /\ waiting'[t] = NULL
      <3>1. "Verifying" # "Initialized" /\ Aside
        BY <1>6, <1>16
      <3>. QED BY <1>3, <1>16, <2>3, <2>4, <2>5, <2>6, <2>7, <2>8, <3>1, TurnsCtx DEF Aside
    <2>10. FrameOK(t, g)'
      <3>1. Good(k)' /\ Status(k)' = "Verifying"
        BY <1>3, <2>4, <2>9, GoodStable DEF Turns, Status
      <3>2. 0 <= Len(Supertypes(k))'
        <4>1. UpOK(k)'
          BY <1>3, <2>9 DEF Ctx, Objects, ObjectOK, Grows
        <4>2. Len(Supertypes(k))' \in Nat
          BY <1>3, <2>9, <4>1, SupertypesFacts DEF Grows
        <4>. QED BY <4>2
      <3>3. VerFrame(g)'
        BY <1>0, <1>4, <2>2, <3>1, <3>2 DEF VerFrame, Ver2
      <3>. QED BY <1>0, <1>2, <1>3, <2>2, <3>3, VerOKPrime
    <2>11. TopOK(t, g)'
      BY <1>3, <2>2, <2>5, <2>9, PlainTop DEF Handlers
    <2>12. Kin(f, g) /\ Alone(f, g)
      <3>1. g.at \notin DefAts \cup Ini2 /\ Status(g.k) # "Verifying"
        BY <1>0, <1>16, <2>2 DEF DefAts, Ini2
      <3>. QED BY <1>2, <2>2, <3>1, VerKin DEF Alone
    <2>13. Grip(g) = {}
      BY <2>2 DEF Grip, DefAts
    <2>14. NoneInitializes
      BY <2>4, TurnsIni
    <2>. QED BY <1>0, <1>1, <1>3, <2>1, <2>2, <2>4, <2>9, <2>10, <2>11, <2>12, <2>13, <2>14, BecomeStep DEF NoneInitializes
  <1>. QED BY <1>0, <1>9, <1>10, <1>11, <1>12, <1>14, <1>15, <1>16, Zenon DEF VerifyClass

(* The supertypes that VerifyClass looks at *)
LEMMA SupertypeFacts ==
  ASSUME IInv, NEW k \in DOMAIN cls, k.desc \notin Arrays, NEW j \in 1 .. Len(Supertypes(k)), NEW p, p = Supertypes(k)[j]
  PROVE  /\ p \in DOMAIN cls /\ p \in Classes /\ Good(p) /\ p.desc \in Descs /\ p.loader \in Loaders
         /\ p.desc \in Behind[k.desc] /\ (p.desc \in Interfaces \/ p \in SuperClass(k))
  <1>1. UpOK(k) /\ k \in Classes
    BY DEF IInv, Types, Objects, ObjectOK
  <1>2. p \in SuperClass(k) \/ p \in cls[k].ift
    BY <1>1, SupertypesFacts DEF IInv
  <1>3. CASE p \in SuperClass(k)
    <2>1. PICK up : up = cls[k].up
      OBVIOUS
    <2>2. up \in Seq(Classes) /\ p \in ToSet(up)
      BY <1>3, <2>1 DEF SuperClass, IInv, Types, ClassRec
    <2>3. PICK i \in 1 .. Len(up) : p = up[i]
      BY <2>2 DEF ToSet
    <2>4. Good(p) /\ p.desc = Supers[k.desc][i] /\ p.desc # k.desc /\ Len(up) <= Len(Supers[k.desc])
      BY <1>1, <2>1, <2>3 DEF UpOK
    <2>5. k.desc \in Descs /\ Supers[k.desc] \in Seq(Descs)
      BY <1>1, HierarchyAssumption DEF Classes
    <2>6. Supers[k.desc][i] \in Needs(k.desc)
      BY <2>2, <2>3, <2>4, <2>5, NeedsFacts
    <2>7. p.desc \in Behind[k.desc]
      BY <2>4, <2>5, <2>6, BehindFacts
    <2>8. p \in DOMAIN cls /\ p \in Classes /\ p.desc \in Descs /\ p.loader \in Loaders
      BY <2>4 DEF Good, IInv, Types, Classes
    <2>. QED BY <1>3, <2>4, <2>7, <2>8
  <1>4. CASE p \in cls[k].ift
    <2>1. Good(p) /\ p.desc \in Interfaces /\ p.desc \in Behind[k.desc]
      BY <1>1, <1>4 DEF UpOK
    <2>2. p \in DOMAIN cls /\ p \in Classes /\ p.desc \in Descs /\ p.loader \in Loaders
      BY <2>1 DEF Good, IInv, Types, Classes
    <2>. QED BY <2>1, <2>2
  <1>. QED BY <1>2, <1>3, <1>4

(* VerifyClass has a result for its class. *)
LEMMA VerifyEnds ==
  ASSUME IInv, NEW t \in Threads, stack[t] # <<>>, NEW f, f = Top(t), f.n = 0, f.at \in Ver2, NEW k, k = f.k,
         NEW s \in {"Verified", "ErrorResolved"}, cls' = Set(cls, k, s), NotifyAll(k), Return(t), Aside, ret' = ret,
         IF s = "Verified" THEN exc' = exc /\ ~ exc[t] ELSE Throw(t)
  PROVE  IInv'
  <1>1. f.at \in VerAts /\ f.at \notin Ini2 /\ s \in Statuses
    BY DEF Ver2, VerAts, Ini2, Statuses
  <1>2. /\ VerFrame(f) /\ Good(k) /\ k \in DOMAIN cls /\ waiting[t] = NULL
    BY <1>1, VerTop
  <1>3. Status(k) = "Verifying" /\ ~ IsTemp(k)
    BY <1>2 DEF VerFrame, Good
  <1>4. Turns(k, s) /\ cls'[k].tid = cls[k].tid /\ Mon(t, {}, {})
    BY <1>1, <1>2, SetTurns DEF IInv
  <1>5. stack' \in [Threads -> Seq(FrameRec)]
    BY ReturnFr DEF IInv, Rewrites
  <1>6. DOMAIN cls \subseteq DOMAIN cls' /\ NULL \in DOMAIN cls' \cup {NULL} /\ TRUE \in BOOLEAN
    BY <1>4 DEF Turns
  <1>7. Others(t) /\ (s = "Verified" => ~ exc'[t])
    BY <1>6, OthersFacts DEF IInv, Throw
  <1>8. Evolves(k) /\ StatusOK(k)'
    <2>1. StatusOK(k)
      BY <1>2 DEF IInv, Objects, ObjectOK
    <2>. QED BY <1>2, <1>3, <1>4, <2>1 DEF Evolves, StatusOK, Turns, Status, Res, Was, Late
  <1>9. ASSUME NEW u \in Threads, NEW x, (u # t /\ InStack(u, x)) \/ (u = t /\ Lower(t, x)) PROVE Apart(x, {k})
    BY <1>9, TopApart
  <1>10. Ctx(t) /\ waiting'[t] = NULL
    <2>1. s # "Initialized" /\ s # "Verifying"
      OBVIOUS
    <2>. QED BY <1>2, <1>4, <1>5, <1>7, <1>8, <1>9, <2>1, TurnsCtx DEF Aside
  <1>11. NoneInitializes
    BY <1>4, TurnsIni
  <1>12. exc'[t] => Status(f.k)' = "ErrorResolved"
    BY <1>4, <1>7 DEF Turns, Status
  <1>13. Grip(f) = {}
    BY DEF Grip, Ver2, DefAts
  <1>. QED BY <1>1, <1>4, <1>10, <1>11, <1>12, <1>13, VerReturn

(* An interface extends interfaces only. *)
LEMMA SuperOf ==
  ASSUME IInv, NEW k \in DOMAIN cls, k.desc \notin Arrays, NEW p \in SuperClass(k)
  PROVE  /\ k.desc \notin Interfaces /\ p \in DOMAIN cls
         /\ \E j \in 1 .. Cardinality(SuperClass(k)) : j \in 1 .. Len(Supertypes(k)) /\ Supertypes(k)[j] = p
  <1>1. UpOK(k) /\ k.desc \in Descs
    BY DEF IInv, Types, Objects, ObjectOK, Classes
  <1>2. p.desc \notin Interfaces /\ p \in ToSet(cls[k].up)
    BY DEF SuperClass
  <1>3. k.desc \notin Interfaces
    <2>1. PICK up : up = cls[k].up
      OBVIOUS
    <2>2. up \in Seq(Classes) /\ p \in ToSet(up)
      BY <1>2, <2>1 DEF IInv, Types, ClassRec
    <2>3. PICK i \in 1 .. Len(up) : p = up[i]
      BY <2>2 DEF ToSet
    <2>4. p.desc = Supers[k.desc][i] /\ Len(up) <= Len(Supers[k.desc]) /\ Supers[k.desc] \in Seq(Descs)
      BY <1>1, <2>1, <2>3, HierarchyAssumption DEF UpOK
    <2>5. p.desc \in ToSet(Supers[k.desc])
      BY <2>2, <2>3, <2>4 DEF ToSet
    <2>. QED BY <1>1, <1>2, <2>5, HierarchyAssumption
  <1>4. p \in DOMAIN cls
    BY <1>1, <1>2 DEF UpOK
  <1>. QED BY <1>1, <1>3, <1>4, SupertypesFacts DEF IInv

LEMMA AttemptSupertypeVerificationStep ==
  ASSUME IInv, NEW t \in Threads, AttemptSupertypeVerification(t)
  PROVE  IInv'
  <1>0. PICK f, k : f = Top(t) /\ k = f.k
    OBVIOUS
  <1>1. stack[t] # <<>> /\ f.at \in {"supertypes", "attempted"} /\ f.n = 0
    BY <1>0, AtTop DEF AttemptSupertypeVerification
  <1>2. /\ f.at \in VerAts /\ f.at \in Ver2 /\ {"supertypes", "attempted", "verifier", "verify"} \subseteq VerAts \cap Ats
        /\ {"supertypes", "attempted", "verifier"} \subseteq Ver2
    BY <1>1 DEF VerAts, Ver2, Ats
  <1>3. /\ TopOK(t, f) /\ f \in FrameRec /\ f.d \in Descs /\ f.l \in Loaders /\ waiting[t] = NULL
        /\ VerFrame(f) /\ Good(k) /\ k \in DOMAIN cls /\ k \in Classes /\ k # NULL /\ f.d = k.desc /\ f.l = k.loader
        /\ f.i \in Nat /\ (f.at # "attempted" => ~ exc[t]) /\ f.at \notin Ini2 /\ f.at # "caller"
    BY <1>0, <1>1, <1>2, VerTop
  <1>4. PICK sup : sup = Supertypes(k)
    OBVIOUS
  <1>5. /\ Status(k) = "Verifying" /\ f.i <= Len(sup) /\ (f.at = "attempted" => f.i > 0)
        /\ \A j \in 1 .. f.i : j < f.i \/ f.at # "attempted" => Status(sup[j]) \in Was
    BY <1>0, <1>2, <1>3, <1>4 DEF VerFrame
  <1>6. Len(sup) \in Nat /\ k.desc \notin Arrays
    <2>1. UpOK(k) /\ StatusOK(k)
      BY <1>3 DEF IInv, Objects, ObjectOK
    <2>. QED BY <1>3, <1>4, <1>5, <2>1, SupertypesFacts DEF IInv, StatusOK
  <1>7. PICK last : last = (\/ f.i = Len(sup)
                            \/ f.i = Cardinality(SuperClass(k)) /\ \E s \in SuperClass(k) : ~ IsVerified(s))
    OBVIOUS
  <1>8. ~ last => f.i < Len(sup)
    BY <1>3, <1>5, <1>6, <1>7
  <1>9. last => f.i = Len(sup) \/ f.i = Cardinality(SuperClass(k))
    BY <1>7
  <1>10. UNCHANGED <<table, ret, bounds, aborted, history>>
    BY DEF AttemptSupertypeVerification
  <1>11. Aside
    BY <1>10, AsideFacts DEF IInv, bounds
  <1>12. Grip(f) = {}
    BY <1>1 DEF Grip, DefAts
  <1>13. ASSUME UNCHANGED <<cls, exc, waiting>> PROVE Still /\ Others(t) /\ exc'[t] = exc[t] /\ DOMAIN cls \subseteq DOMAIN cls'
    <2>1. Still /\ DOMAIN cls \subseteq DOMAIN cls'
      BY <1>10, <1>13, StillFacts DEF IInv, bounds
    <2>. QED BY <1>10, <1>13, <2>1, UnchangedOthers DEF IInv
  <1>14. ASSUME NEW g \in FrameRec, Become(t, g), g.at \in Ver2, g.d = f.d, g.l = f.l, g.k = k, g.n = 0,
                UNCHANGED <<cls, exc, waiting>>, ~ exc[t], VerFrame(g)
         PROVE  IInv'
    <2>1. g.at \in VerAts /\ Grip(g) = {} /\ g.at \notin DefAts \cup Ini2 /\ g.at # "woken"
      BY <1>14 DEF VerAts, Ver2, Grip, DefAts, Ini2
    <2>2. FrameOK(t, g)
      BY <1>3, <1>14, <2>1, VerOK
    <2>3. Kin(f, g) /\ Alone(f, g)
      BY <1>0, <1>2, <1>14, <2>1, VerKin DEF Alone
    <2>4. TopOK(t, g)'
      <3>1. ~ exc'[t] /\ waiting'[t] = NULL
        BY <1>3, <1>14
      <3>. QED BY <1>14, <3>1 DEF TopOK, Ver2
    <2>. QED BY <1>0, <1>1, <1>3, <1>12, <1>13, <1>14, <2>1, <2>2, <2>3, <2>4, PureBecome
  <1>15. CASE At(t, "supertypes") /\ ~ last /\ Call(t, <<>>, "attempted") /\ UNCHANGED <<cls, exc, waiting>>
    <2>1. f.at = "supertypes"
      BY <1>0, <1>15, AtTop
    <2>2. PICK g \in FrameRec : Become(t, g) /\ g = Onward(f, "attempted")
      BY <1>0, <1>1, <1>2, <1>15, CallNoneFr DEF IInv
    <2>3. g.at = "attempted" /\ g.d = f.d /\ g.l = f.l /\ g.k = k /\ g.i = f.i + 1 /\ g.n = 0
      <3>1. f \in FrameRec /\ f.n = 0 /\ "attempted" \in Ats
        BY <1>1, <1>2, <1>3
      <3>. QED BY <1>0, <2>2, <3>1, CallerFrame
    <2>4. VerFrame(g)
      <3>1. g.i <= Len(sup) /\ g.i > 0 /\ \A j \in 1 .. g.i : j < g.i => j \in 1 .. f.i
        BY <1>3, <1>6, <1>15, <1>8, <2>3
      <3>2. \A j \in 1 .. g.i : j < g.i => Status(sup[j]) \in Was
        BY <1>5, <2>1, <3>1
      <3>. QED BY <1>2, <1>3, <1>4, <1>5, <2>3, <3>1, <3>2 DEF VerFrame
    <2>. QED BY <1>2, <1>3, <1>14, <1>15, <2>1, <2>2, <2>3, <2>4
  <1>16. CASE At(t, "supertypes") /\ ~ last /\ Call(t, <<Of("verify", sup[f.i + 1])>>, "attempted") /\ UNCHANGED <<cls, exc, waiting>>
    <2>1. f.at = "supertypes"
      BY <1>0, <1>16, AtTop
    <2>2. PICK p : p = sup[f.i + 1]
      OBVIOUS
    <2>3. f.i + 1 \in 1 .. Len(sup)
      BY <1>3, <1>6, <1>16, <1>8
    <2>4. /\ p \in DOMAIN cls /\ p \in Classes /\ Good(p) /\ p.desc \in Descs /\ p.loader \in Loaders /\ p.desc \in Behind[k.desc]
      BY <1>3, <1>4, <1>6, <2>2, <2>3, SupertypeFacts
    <2>5. PICK u, g : u = Frame("verify", p.desc, p.loader, p) /\ g = Onward(f, "attempted") /\ Call(t, <<u>>, "attempted")
      BY <1>16, <2>2 DEF Of
    <2>6. u \in FrameRec /\ u.at = "verify" /\ u.d = p.desc /\ u.l = p.loader /\ u.k = p /\ u.i = 0 /\ u.n = 0
      BY <1>2, <2>4, <2>5, NewFrame
    <2>7. g \in FrameRec /\ g.at = "attempted" /\ g.d = f.d /\ g.l = f.l /\ g.k = k /\ g.i = f.i + 1 /\ g.n = 0
      <3>1. f \in FrameRec /\ f.n = 0 /\ "attempted" \in Ats
        BY <1>1, <1>2, <1>3
      <3>. QED BY <1>0, <2>5, <3>1, CallerFrame
    <2>8. FrameOK(t, g)
      <3>1. g.i <= Len(sup) /\ g.i > 0 /\ \A j \in 1 .. g.i : j < g.i => j \in 1 .. f.i
        BY <1>3, <1>6, <1>16, <1>8, <2>7
      <3>2. \A j \in 1 .. g.i : j < g.i => Status(sup[j]) \in Was
        BY <1>5, <2>1, <3>1
      <3>3. VerFrame(g)
        BY <1>2, <1>3, <1>4, <1>5, <2>7, <3>1, <3>2 DEF VerFrame
      <3>. QED BY <1>2, <1>3, <2>7, <3>3, VerOK
    <2>9. FrameOK(t, u)
      <3>1. VerFrame(u)
        BY <2>4, <2>6 DEF VerFrame, Ver2
      <3>. QED BY <1>2, <2>6, <3>1, VerOK
    <2>10. Kin(f, g) /\ Alone(f, g)
      <3>1. g.at \notin DefAts \cup Ini2
        BY <2>7 DEF DefAts, Ini2
      <3>. QED BY <1>0, <1>2, <2>7, <3>1, VerKin DEF Alone
    <2>11. Push(f, u) /\ Calls(f, g, u)
      BY <1>2, <1>3, <2>1, <2>4, <2>6, <2>7 DEF Push, Calls, Grip, DefAts, Ver2, Ini2, IfaceAts
    <2>12. LinkOK(g, u)'
      <3>1. Supertypes(g.k)' = Supertypes(g.k)
        BY <1>16 DEF Supertypes, SuperClass
      <3>. QED BY <1>2, <1>4, <2>2, <2>6, <2>7, <3>1 DEF LinkOK, Handlers
    <2>13. TopOK(t, u)'
      BY <1>3, <1>13, <1>16, <2>1, <2>6, PlainTop DEF Handlers
    <2>14. Grip(g) = Grip(f)
      BY <1>12, <2>7 DEF Grip, DefAts
    <2>. QED BY <1>0, <1>1, <1>2, <1>3, <1>13, <1>16, <2>5, <2>6, <2>8, <2>9, <2>10, <2>11, <2>12, <2>13, <2>14, PureCall
  <1>17. CASE At(t, "attempted") /\ IsVerified(sup[f.i]) /\ Goto(t, "supertypes") /\ UNCHANGED <<cls, exc, waiting>>
    <2>1. f.at = "attempted"
      BY <1>0, <1>17, AtTop
    <2>2. PICK g \in FrameRec : /\ Become(t, g) /\ g.at = "supertypes" /\ g.d = f.d /\ g.l = f.l /\ g.k = f.k /\ g.i = f.i /\ g.n = 0
      BY <1>0, <1>1, <1>2, <1>17, GotoFacts
    <2>3. ~ exc[t]
      BY <1>0, <1>3, <1>4, <1>17, <2>1 DEF TopOK, IsVerified
    <2>4. \A j \in 1 .. f.i : Status(sup[j]) \in Was
      <3>1. Status(sup[f.i]) \in Was
        BY <1>17 DEF IsVerified, Was
      <3>2. \A j \in 1 .. f.i : j < f.i \/ j = f.i
        BY <1>3
      <3>. QED BY <1>5, <3>1, <3>2
    <2>5. VerFrame(g)
      BY <1>0, <1>2, <1>3, <1>4, <1>5, <2>2, <2>4 DEF VerFrame
    <2>. QED BY <1>0, <1>2, <1>14, <1>17, <2>2, <2>3, <2>5
  <1>18. CASE /\ At(t, "attempted") /\ cls' = Set(cls, k, "ErrorResolved") /\ NotifyAll(k)
              /\ Throw(t) /\ Return(t)
    BY <1>0, <1>1, <1>2, <1>10, <1>11, <1>18, VerifyEnds
  <1>19. CASE At(t, "supertypes") /\ last /\ Goto(t, "verifier") /\ UNCHANGED <<cls, exc, waiting>>
    <2>1. f.at = "supertypes"
      BY <1>0, <1>19, AtTop
    <2>2. PICK g \in FrameRec : /\ Become(t, g) /\ g.at = "verifier" /\ g.d = f.d /\ g.l = f.l /\ g.k = f.k /\ g.i = f.i /\ g.n = 0
      BY <1>0, <1>1, <1>2, <1>19, GotoFacts
    <2>3. ASSUME NEW p \in SuperClass(k) PROVE Status(p) \in Was
      <3>1. PICK j \in 1 .. Cardinality(SuperClass(k)) : j \in 1 .. Len(sup) /\ sup[j] = p
        BY <1>3, <1>4, <1>6, SuperOf
      <3>2. j \in 1 .. f.i
        BY <1>19, <1>9, <3>1
      <3>. QED BY <1>5, <2>1, <3>1, <3>2
    <2>4. VerFrame(g)
      BY <1>0, <1>2, <1>3, <1>4, <1>5, <2>1, <2>2, <2>3 DEF VerFrame
    <2>. QED BY <1>0, <1>2, <1>3, <1>14, <1>19, <2>1, <2>2, <2>4
  <1>. QED BY <1>0, <1>4, <1>7, <1>15, <1>16, <1>17, <1>18, <1>19, Zenon DEF AttemptSupertypeVerification

LEMMA VerifiedStep ==
  ASSUME IInv, NEW t \in Threads, Verified(t)
  PROVE  IInv'
  <1>0. PICK f, k : f = Top(t) /\ k = f.k
    OBVIOUS
  <1>1. stack[t] # <<>> /\ f.at = "verifier" /\ f.n = 0
    BY <1>0, AtTop DEF Verified
  <1>2. f.at \in VerAts /\ f.at \in Ver2
    BY <1>1 DEF VerAts, Ver2
  <1>3. /\ VerFrame(f) /\ Good(k) /\ k \in DOMAIN cls /\ k \in Classes /\ f.d = k.desc /\ f.l = k.loader /\ ~ exc[t]
    BY <1>0, <1>1, <1>2, VerTop
  <1>4. PICK ok : ok = (k.desc \in Soft \/ \A p \in SuperClass(k) : IsVerified(p))
    OBVIOUS
  <1>5. UNCHANGED <<table, ret, spurious, history>>
    BY DEF Verified
  <1>6. ASSUME aborted' = aborted, UNCHANGED faults \/ Fail PROVE Aside
    BY <1>5, <1>6, AsideFacts DEF IInv
  <1>7. CASE Fail /\ cls' = Set(cls, k, "ErrorResolved") /\ NotifyAll(k) /\ Throw(t) /\ Return(t) /\ UNCHANGED aborted
    BY <1>0, <1>1, <1>2, <1>5, <1>6, <1>7, VerifyEnds
  <1>8. CASE cls' = Set(cls, k, "Verified") /\ NotifyAll(k) /\ Return(t) /\ UNCHANGED <<exc, faults, aborted>>
    BY <1>0, <1>1, <1>2, <1>3, <1>5, <1>6, <1>8, VerifyEnds
  <1>9. CASE /\ ~ ok /\ Abort("superclass to be verified at runtime") /\ UNCHANGED <<cls, stack, exc, waiting, faults>>
    <2>1. Aborts'
      BY <1>9, Zenon DEF Aborts, Abort
    <2>. QED BY <1>5, <1>9, <2>1, AbortStep DEF history
  <1>. QED BY <1>0, <1>4, <1>7, <1>8, <1>9, Zenon DEF Verified

-----------------------------------------------------------------------------
(* The actions of InitializeClass *)

(* The innermost frame, when it is of InitializeClass *)
LEMMA IniTop ==
  ASSUME IInv, NEW t \in Threads, stack[t] # <<>>, NEW f, f = Top(t), f.n = 0, f.at \in IniAts, NEW k, k = f.k
  PROVE  /\ FrameOK(t, f) /\ TopOK(t, f) /\ f \in FrameRec /\ f.d \in Descs /\ f.l \in Loaders /\ waiting[t] = NULL
         /\ IniFrame(t, f) /\ Good(k) /\ k \in DOMAIN cls /\ k \in Classes /\ k # NULL /\ f.d = k.desc /\ f.l = k.loader
         /\ f.i \in Nat /\ (f.at \notin Handlers => ~ exc[t]) /\ f.at # "caller" /\ exc[t] \in BOOLEAN
         /\ Status(k) # "Initialized" => k.desc \notin Arrays
  <1>1. /\ FrameOK(t, f) /\ TopOK(t, f) /\ f \in FrameRec /\ f.d \in Descs /\ f.l \in Loaders /\ waiting[t] = NULL
        /\ f.i \in Nat /\ (f.at \notin Handlers => ~ exc[t])
    BY TopFacts
  <1>2. f.at \in OfAts /\ f.at # "caller"
    BY DEF OfAts, IniAts, Ini2
  <1>3. IniFrame(t, f) /\ f.d = k.desc /\ f.l = k.loader
    BY <1>1, <1>2 DEF FrameOK
  <1>4. Good(k) /\ k \in DOMAIN cls /\ k \in Classes /\ k # NULL /\ exc[t] \in BOOLEAN
    BY <1>3, ConstantsAssumption DEF IniFrame, Good, IInv, Types
  <1>5. StatusOK(k)
    BY <1>4 DEF IInv, Objects, ObjectOK
  <1>. QED BY <1>1, <1>2, <1>3, <1>4, <1>5 DEF StatusOK

LEMMA IniKin ==
  ASSUME NEW f, NEW g, f.at \in IniAts, g.at \in IniAts, g.d = f.d, g.l = f.l, g.k = f.k
  PROVE  Kin(f, g)
  <1>1. IniAts \cap (FindAts \cup VerAts \cup IfaceAts \cup {"use", "caller"}) = {}
    BY DEF VerAts, Ver2, FindAts, DefAts, IniAts, Ini2, IfaceAts
  <1>. QED BY <1>1 DEF Kin

LEMMA IniOK ==
  ASSUME NEW t \in Threads, NEW g \in FrameRec, g.at \in IniAts, g.d = g.k.desc, g.l = g.k.loader, IniFrame(t, g)
  PROVE  FrameOK(t, g)
  <1>1. IniAts \cap (FindAts \cup VerAts \cup IfaceAts \cup {"use", "caller"}) = {} /\ DefAts \subseteq FindAts
    BY DEF VerAts, Ver2, FindAts, DefAts, IniAts, Ini2, IfaceAts
  <1>2. FindFrame(g)
    BY DEF FindFrame, IniAts, Ini2
  <1>. QED BY <1>1, <1>2 DEF FrameOK, IniFrame, Good

LEMMA IniOKPrime ==
  ASSUME NEW t \in Threads, NEW g \in FrameRec, g.at \in IniAts, g.d = g.k.desc, g.l = g.k.loader, IniFrame(t, g)'
  PROVE  FrameOK(t, g)'
  <1>1. IniAts \cap (FindAts \cup VerAts \cup IfaceAts \cup {"use", "caller"}) = {} /\ DefAts \subseteq FindAts
    BY DEF VerAts, Ver2, FindAts, DefAts, IniAts, Ini2, IfaceAts
  <1>2. FindFrame(g)'
    BY DEF FindFrame, IniAts, Ini2
  <1>. QED BY <1>1, <1>2 DEF FrameOK, IniFrame, Good

LEMMA LeaveFacts ==
  ASSUME Types, NEW t \in Threads, stack[t] # <<>>, NEW c, NEW failed \in BOOLEAN, Leave(t, c, failed), ret' = ret,
         DOMAIN cls \subseteq DOMAIN c
  PROVE  /\ Return(t) /\ cls' = c /\ stack' \in [Threads -> Seq(FrameRec)] /\ Others(t)
         /\ exc'[t] = (exc[t] \/ failed)
  <1>1. Return(t) /\ cls' = c /\ exc' = [exc EXCEPT ![t] = (exc[t] \/ failed)]
    BY DEF Leave
  <1>2. stack' \in [Threads -> Seq(FrameRec)]
    BY <1>1, ReturnFr DEF Rewrites
  <1>3. PICK b \in BOOLEAN : b = (exc[t] \/ failed)
    BY DEF Types
  <1>4. exc' = [exc EXCEPT ![t] = b] /\ DOMAIN cls \subseteq DOMAIN cls' /\ NULL \in DOMAIN cls' \cup {NULL}
    BY <1>1, <1>3
  <1>5. Others(t) /\ exc'[t] = b
    BY <1>4, OthersFacts
  <1>. QED BY <1>1, <1>2, <1>3, <1>5

(* A class object that is not temporary is the only one of its name. *)
LEMMA UniqueGood ==
  ASSUME IInv, NEW x \in DOMAIN cls, NEW y \in DOMAIN cls, ~ IsTemp(x), ~ IsTemp(y), x.desc = y.desc, x.loader = y.loader
  PROVE  x = y
  <1>1. EntryOK(x) /\ EntryOK(y) /\ StatusOK(x) /\ StatusOK(y) /\ x \in Classes /\ y \in Classes
    BY DEF IInv, Types, Objects, ObjectOK
  <1>2. x.by = y.by
    BY <1>1 DEF EntryOK
  <1>3. x.gen \in {"first", "copy"} /\ y.gen \in {"first", "copy"}
    BY <1>1 DEF Classes
  <1>4. x.gen = y.gen
    BY <1>1, <1>3 DEF StatusOK, IsTemp
  <1>. QED BY <1>1, <1>2, <1>4, SameClass

(* The monitor is left, and the class is as it was. *)
LEMMA IniUnlock ==
  ASSUME IInv, NEW t \in Threads, stack[t] # <<>>, NEW f, f = Top(t), f.n = 0, f.at \in {"verified", "initializing?"},
         NEW k, k = f.k, NEW failed \in BOOLEAN, Leave(t, Unlock(cls, k), failed), UNCHANGED <<ret, waiting>>, Aside,
         exc[t] \/ failed \/ Status(k) = "Initialized" \/ (Status(k) = "Initializing" /\ cls[k].tid = t)
  PROVE  IInv'
  <1>1. f.at \in IniAts /\ f.at \notin Ini2 /\ Grip(f) = {k}
    BY DEF IniAts, Ini2, Grip, DefAts
  <1>2. k \in DOMAIN cls /\ waiting[t] = NULL
    BY <1>1, IniTop
  <1>3. cls[k].count > 0
    BY <1>1, TopHolds
  <1>4. DOMAIN cls \subseteq DOMAIN Unlock(cls, k)
    BY DEF Unlock
  <1>5. /\ Return(t) /\ cls' = Unlock(cls, k) /\ stack' \in [Threads -> Seq(FrameRec)] /\ Others(t)
        /\ exc'[t] = (exc[t] \/ failed)
    BY <1>4, LeaveFacts DEF IInv
  <1>6. Quiet /\ Ctx(t) /\ NoneInitializes /\ Mon(t, {k}, {})
    BY <1>2, <1>3, <1>5, UnlockStep
  <1>7. Status(k)' = Status(k)
    BY <1>2, <1>6 DEF Quiet, Kept, Status
  <1>8. exc'[t] \/ Status(f.k)' = "Initialized" \/ (Status(f.k) = "Initializing" /\ cls[f.k].tid = t)
    BY <1>5, <1>7
  <1>. QED BY <1>1, <1>2, <1>5, <1>6, <1>8, IniReturn

LEMMA WaitForInitializeClassStep ==
  ASSUME IInv, NEW t \in Threads, WaitForInitializeClass(t)
  PROVE  IInv'
  <1>0. PICK f, k : f = Top(t) /\ k = f.k
    OBVIOUS
  <1>1. stack[t] # <<>> /\ f.at = "initializing?" /\ f.n = 0
    BY <1>0, AtTop DEF WaitForInitializeClass
  <1>2. f.at \in IniAts /\ f.at \notin Ini2 /\ Grip(f) = {k} /\ f.at \notin Handlers
    BY <1>0, <1>1 DEF IniAts, Ini2, Grip, DefAts, Handlers
  <1>3. /\ IniFrame(t, f) /\ Good(k) /\ f.d = k.desc /\ f.l = k.loader /\ ~ exc[t]
    BY <1>0, <1>1, <1>2, IniTop
  <1>4. Aside
    BY AsideFacts DEF IInv, bounds, WaitForInitializeClass
  <1>5. Status(k) \in Late
    BY <1>0, <1>1, <1>3 DEF IniFrame
  <1>6. CASE Status(k) = "Initializing" /\ Wait(t, k, "initializing?")
    <2>1. ASSUME NEW g, g.at = "initializing?", g.d = f.d, g.l = f.l, g.k = f.k PROVE Kin(f, g)
      BY <1>1, <1>2, <2>1, IniKin
    <2>2. ASSUME NEW g \in FrameRec, g.at = "initializing?", g.d = f.d, g.l = f.l, g.k = f.k, g.i = f.i PROVE FrameOK(t, g)
      <3>1. IniFrame(t, g)
        BY <1>0, <1>3, <1>5, <2>2 DEF IniFrame, Ini2
      <3>. QED BY <1>0, <1>1, <1>2, <1>3, <2>2, <3>1, IniOK
    <2>. QED BY <1>0, <1>1, <1>2, <1>3, <1>4, <1>6, <2>1, <2>2, WaitStep
  <1>7. CASE Status(k) # "Initializing" /\ Leave(t, Unlock(cls, k), IsErroneous(k)) /\ UNCHANGED <<ret, waiting>>
    <2>1. IsErroneous(k) \in BOOLEAN /\ (IsErroneous(k) \/ Status(k) = "Initialized")
      BY <1>5, <1>7 DEF IsErroneous, Late
    <2>. QED BY <1>0, <1>1, <1>4, <1>7, <2>1, IniUnlock
  <1>. QED BY <1>0, <1>6, <1>7, Zenon DEF WaitForInitializeClass

LEMMA EnsureInitializedStep ==
  ASSUME IInv, NEW t \in Threads, EnsureInitialized(t)
  PROVE  IInv'
  <1>0. PICK f, k : f = Top(t) /\ k = f.k
    OBVIOUS
  <1>1. stack[t] # <<>> /\ f.at = "init" /\ f.n = 0
    BY <1>0, AtTop DEF EnsureInitialized
  <1>2. f.at \in IniAts /\ f.at \notin Ini2 \cup VerAts /\ Grip(f) = {} /\ f.at \notin Handlers /\ "verified" \in IniAts
        /\ "verified" \in Ats /\ "verify" \in VerAts /\ "verify" \in Ats
    BY <1>0, <1>1 DEF IniAts, Ini2, Grip, DefAts, Handlers, Ats, VerAts, Ver2
  <1>3. /\ IniFrame(t, f) /\ Good(k) /\ f.d = k.desc /\ f.l = k.loader /\ ~ exc[t] /\ k \in DOMAIN cls /\ k \in Classes
        /\ f \in FrameRec /\ waiting[t] = NULL /\ f.d \in Descs /\ f.l \in Loaders
    BY <1>0, <1>1, <1>2, IniTop
  <1>4. UNCHANGED <<table, ret, waiting, bounds, aborted, history>>
    BY DEF EnsureInitialized
  <1>5. Aside
    BY <1>4, AsideFacts DEF IInv, bounds
  <1>6. ASSUME NEW failed \in BOOLEAN, Leave(t, cls, failed), failed \/ Status(k) = "Initialized" PROVE IInv'
    <2>1. /\ Return(t) /\ cls' = cls /\ stack' \in [Threads -> Seq(FrameRec)] /\ Others(t)
          /\ exc'[t] = (exc[t] \/ failed)
      BY <1>1, <1>4, <1>6, LeaveFacts DEF IInv
    <2>2. Still
      BY <1>4, <2>1, StillFacts DEF IInv, bounds
    <2>3. Types' /\ Quiet /\ Ctx(t)
      BY <2>1, <2>2, StillCtx
    <2>4. NoneInitializes /\ Mon(t, {}, {}) /\ Status(k)' = Status(k)
      BY <2>1 DEF NoneInitializes, Mon, Status
    <2>. QED BY <1>0, <1>1, <1>2, <1>3, <1>4, <1>6, <2>1, <2>3, <2>4, IniReturn
  <1>7. CASE Status(k) = "Initialized" /\ Leave(t, cls, FALSE)
    BY <1>6, <1>7
  <1>8. CASE IsErroneous(k) /\ Leave(t, cls, TRUE)
    BY <1>6, <1>8
  <1>9. ASSUME CanLock(t, k), cls' = Lock(cls, t, k), UNCHANGED exc, stack' \in [Threads -> Seq(FrameRec)]
        PROVE  Types' /\ Quiet /\ Ctx(t) /\ NoneInitializes /\ Mon(t, {}, {k}) /\ ~ exc'[t] /\ waiting'[t] = NULL
    <2>1. DOMAIN cls \subseteq DOMAIN cls'
      BY <1>9 DEF Lock
    <2>2. Others(t) /\ exc'[t] = exc[t]
      BY <1>4, <1>9, <2>1, UnchangedOthers DEF IInv
    <2>. QED BY <1>3, <1>4, <1>5, <1>9, <2>2, LockStep
  <1>10. ASSUME NEW g \in FrameRec, g.at = "verified", g.d = f.d, g.l = f.l, g.k = k, g.n = 0
         PROVE  Kin(f, g) /\ Alone(f, g) /\ FrameOK(t, g) /\ Grip(g) = {k}
    <2>1. IniFrame(t, g)
      BY <1>3, <1>10 DEF IniFrame, Ini2
    <2>2. g.at \notin DefAts \cup Ver2 \cup Ini2 /\ Grip(g) = {k}
      BY <1>10 DEF DefAts, Ver2, Ini2, Grip
    <2>. QED BY <1>0, <1>2, <1>3, <1>10, <2>1, <2>2, IniKin, IniOK, FreeAlone
  <1>11. CASE CanLock(t, k) /\ cls' = Lock(cls, t, k) /\ Goto(t, "verified") /\ UNCHANGED exc
    <2>1. PICK g \in FrameRec : /\ Become(t, g) /\ g.at = "verified" /\ g.d = f.d /\ g.l = f.l /\ g.k = k /\ g.i = f.i /\ g.n = 0
      BY <1>0, <1>1, <1>2, <1>11, GotoFacts
    <2>2. stack' \in [Threads -> Seq(FrameRec)]
      BY <1>1, <2>1, BecomeFr DEF IInv, Rewrites
    <2>3. Types' /\ Quiet /\ Ctx(t) /\ NoneInitializes /\ Mon(t, {}, {k}) /\ ~ exc'[t] /\ waiting'[t] = NULL
      BY <1>9, <1>11, <2>2
    <2>4. Kin(f, g) /\ Alone(f, g) /\ FrameOK(t, g) /\ Grip(g) = {k}
      BY <1>10, <2>1
    <2>5. FrameOK(t, g)'
      BY <1>5, <2>3, <2>4, QuietFrame DEF Aside
    <2>6. TopOK(t, g)'
      BY <2>1, <2>3 DEF TopOK
    <2>. QED BY <1>0, <1>1, <1>2, <2>1, <2>3, <2>4, <2>5, <2>6, BecomeStep DEF NoneInitializes
  <1>12. CASE CanLock(t, k) /\ cls' = Lock(cls, t, k) /\ Call(t, <<Of("verify", k)>>, "verified") /\ UNCHANGED exc
    <2>1. PICK u, g : u = Frame("verify", k.desc, k.loader, k) /\ g = Onward(f, "verified") /\ Call(t, <<u>>, "verified")
      BY <1>12 DEF Of
    <2>2. u \in FrameRec /\ u.at = "verify" /\ u.d = f.d /\ u.l = f.l /\ u.k = k /\ u.i = 0 /\ u.n = 0
      BY <1>2, <1>3, <2>1, NewFrame
    <2>3. g \in FrameRec /\ g.at = "verified" /\ g.d = f.d /\ g.l = f.l /\ g.k = k /\ g.n = 0
      <3>1. f \in FrameRec /\ f.n = 0 /\ "verified" \in Ats
        BY <1>1, <1>2, <1>3
      <3>. QED BY <1>0, <2>1, <3>1, CallerFrame
    <2>4. stack' \in [Threads -> Seq(FrameRec)]
      BY <1>1, <1>2, <2>1, <2>2, CallFr DEF IInv, Rewrites
    <2>5. Types' /\ Quiet /\ Ctx(t) /\ NoneInitializes /\ Mon(t, {}, {k}) /\ ~ exc'[t] /\ waiting'[t] = NULL
      BY <1>9, <1>12, <2>4
    <2>6. Kin(f, g) /\ Alone(f, g) /\ FrameOK(t, g) /\ Grip(g) = {k}
      BY <1>10, <2>3
    <2>7. FrameOK(t, u)
      <3>1. VerFrame(u)
        BY <1>3, <2>2 DEF VerFrame, Ver2
      <3>. QED BY <1>2, <1>3, <2>2, <3>1, VerOK
    <2>8. FrameOK(t, g)' /\ FrameOK(t, u)'
      BY <1>5, <2>5, <2>6, <2>7, QuietFrame DEF Aside
    <2>9. TopOK(t, u)'
      BY <2>2, <2>5, PlainTop DEF Handlers
    <2>10. Push(f, u) /\ Calls(f, g, u)
      <3>1. u.d \in Behind[f.d]
        BY <1>3, <2>2, BehindFacts
      <3>. QED BY <1>1, <1>2, <2>2, <2>3, <3>1 DEF Push, Calls, Grip, DefAts, Ver2, Ini2, IfaceAts
    <2>11. LinkOK(g, u)'
      BY <1>2, <2>2, <2>3 DEF LinkOK, Handlers
    <2>12. Mon(t, Grip(f), Grip(g))
      BY <1>2, <2>5, <2>6
    <2>. QED BY <1>0, <1>1, <1>2, <2>1, <2>2, <2>5, <2>6, <2>8, <2>9, <2>10, <2>11, <2>12, CallStep DEF NoneInitializes
  <1>. QED BY <1>0, <1>7, <1>8, <1>11, <1>12, Zenon DEF EnsureInitialized

(* The supertypes of a class are what it needs. *)
LEMMA UpFacts ==
  ASSUME IInv, NEW k \in DOMAIN cls, k.desc \notin Arrays, NEW j \in 1 .. Len(cls[k].up), NEW p, p = cls[k].up[j]
  PROVE  /\ p \in DOMAIN cls /\ p \in Classes /\ Good(p) /\ p.desc \in Descs /\ p.loader \in Loaders
         /\ p.desc \in Behind[k.desc] /\ (k.desc \in Interfaces => p.desc \in Interfaces)
  <1>1. UpOK(k) /\ k \in Classes /\ cls[k].up \in Seq(Classes)
    BY DEF IInv, Types, Objects, ObjectOK, ClassRec
  <1>2. Good(p) /\ p.desc = Supers[k.desc][j] /\ p.desc # k.desc /\ Len(cls[k].up) <= Len(Supers[k.desc])
    BY <1>1 DEF UpOK
  <1>3. p \in DOMAIN cls /\ p \in Classes /\ p.desc \in Descs /\ p.loader \in Loaders
    BY <1>2 DEF Good, IInv, Types, Classes
  <1>4. k.desc \in Descs /\ Supers[k.desc] \in Seq(Descs)
    BY <1>1, HierarchyAssumption DEF Classes
  <1>5. j \in 1 .. Len(Supers[k.desc])
    <2>1. Len(cls[k].up) \in Nat /\ Len(Supers[k.desc]) \in Nat
      BY <1>1, <1>4
    <2>. QED BY <1>2, <2>1
  <1>6. p.desc \in ToSet(Supers[k.desc])
    BY <1>2, <1>4, <1>5 DEF ToSet
  <1>7. p.desc \in Behind[k.desc]
    BY <1>2, <1>4, <1>5, NeedsFacts, BehindFacts
  <1>8. k.desc \in Interfaces => p.desc \in Interfaces
    BY <1>4, <1>6, HierarchyAssumption
  <1>. QED BY <1>2, <1>3, <1>7, <1>8

(* An interface that is marked is not gone into. *)
LEMMA SkipPassed ==
  ASSUME IInv, NEW p \in DOMAIN cls, Skip(p)
  PROVE  Passed(p) /\ (p.desc \notin Interfaces => Status(p) = "Initialized")
  BY DEF IInv, Objects, ObjectOK, InitOK, Skip, Passed

LEMMA IfaceOK ==
  ASSUME NEW t \in Threads, NEW g \in FrameRec, g.at \in IfaceAts, g.d = g.k.desc, g.l = g.k.loader, IfaceFrame(g)
  PROVE  FrameOK(t, g)
  <1>1. IfaceAts \cap (FindAts \cup VerAts \cup IniAts \cup {"use", "caller"}) = {} /\ DefAts \subseteq FindAts
    BY DEF VerAts, Ver2, FindAts, DefAts, IniAts, Ini2, IfaceAts
  <1>2. FindFrame(g)
    BY DEF FindFrame, IfaceAts
  <1>. QED BY <1>1, <1>2 DEF FrameOK, IfaceFrame, Good

(* The frame of a call that is about to begin *)
LEMMA SubFrame ==
  ASSUME IInv, NEW t \in Threads, NEW p, Good(p), NEW at \in {"init", "iface"}, at = "iface" => p.desc \in Interfaces,
         NEW u, u = Of(at, p)
  PROVE  /\ u \in FrameRec /\ u.at = at /\ u.d = p.desc /\ u.l = p.loader /\ u.k = p /\ u.i = 0 /\ u.n = 0
         /\ FrameOK(t, u) /\ Grip(u) = {} /\ u.at \notin DefAts \cup VerAts \cup Ver2 \cup Ini2 \cup {"caller"}
         /\ (at = "init" => u.at \notin Handlers \cup IfaceAts)
  <1>1. p \in DOMAIN cls /\ p \in Classes /\ p.desc \in Descs /\ p.loader \in Loaders /\ cls[p].up \in Seq(Classes)
    BY DEF Good, IInv, Types, Classes, ClassRec
  <1>2. at \in Ats /\ ("init" \in IniAts) /\ ("iface" \in IfaceAts)
    BY DEF Ats, IniAts, IfaceAts
  <1>3. u \in FrameRec /\ u.at = at /\ u.d = p.desc /\ u.l = p.loader /\ u.k = p /\ u.i = 0 /\ u.n = 0
    BY <1>1, <1>2, NewFrame DEF Of
  <1>4. at = "init" => FrameOK(t, u)
    <2>1. at = "init" => IniFrame(t, u)
      BY <1>3 DEF IniFrame, Ini2
    <2>. QED BY <1>2, <1>3, <2>1, IniOK
  <1>5. at = "iface" => FrameOK(t, u)
    <2>1. at = "iface" => IfaceFrame(u)
      <3>1. Len(cls[p].up) \in Nat
        BY <1>1
      <3>. QED BY <1>3, <3>1 DEF IfaceFrame
    <2>. QED BY <1>2, <1>3, <2>1, IfaceOK
  <1>6. Grip(u) = {}
    BY <1>3 DEF Grip, DefAts
  <1>. QED BY <1>3, <1>4, <1>5, <1>6 DEF DefAts, VerAts, Ver2, Ini2, Handlers, IfaceAts

(* InitializeClass has a result for its class. *)
LEMMA IniEnds ==
  ASSUME IInv, NEW t \in Threads, stack[t] # <<>>, NEW f, f = Top(t), f.n = 0, f.at \in Ini2, NEW k, k = f.k,
         NEW s \in {"Initialized", "ErrorResolved"}, NEW failed \in BOOLEAN, Leave(t, Set(cls, k, s), failed),
         NotifyAll(k), Aside, ret' = ret, s = "Initialized" \/ exc[t] \/ failed
  PROVE  IInv'
  <1>1. f.at \in IniAts /\ s \in Statuses /\ s # "Initializing" /\ s # "Verifying"
    BY DEF IniAts, Ini2, Statuses
  <1>2. IniFrame(t, f) /\ Good(k) /\ k \in DOMAIN cls /\ waiting[t] = NULL
    BY <1>1, IniTop
  <1>3. Status(k) = "Initializing" /\ ~ IsTemp(k)
    BY <1>2 DEF IniFrame, Good
  <1>4. DOMAIN cls \subseteq DOMAIN Set(cls, k, s)
    BY DEF Set
  <1>5. /\ Return(t) /\ cls' = Set(cls, k, s) /\ stack' \in [Threads -> Seq(FrameRec)] /\ Others(t)
        /\ exc'[t] = (exc[t] \/ failed)
    BY <1>4, LeaveFacts DEF IInv
  <1>6. Turns(k, s) /\ Mon(t, {}, {})
    BY <1>1, <1>2, <1>5, SetTurns DEF IInv
  <1>7. Status(k)' = s
    BY <1>6 DEF Turns, Status
  <1>8. StatusOK(k)
    BY <1>2 DEF IInv, Objects, ObjectOK
  <1>9. Evolves(k) /\ StatusOK(k)'
    BY <1>2, <1>3, <1>6, <1>7, <1>8 DEF Evolves, StatusOK, Turns, Status, Res, Was, Late
  <1>10. ASSUME NEW u \in Threads, NEW x, (u # t /\ InStack(u, x)) \/ (u = t /\ Lower(t, x)) PROVE Apart(x, {k})
    BY <1>10, TopApart
  <1>11. Ctx(t) /\ waiting'[t] = NULL
    BY <1>1, <1>2, <1>5, <1>6, <1>9, <1>10, TurnsCtx DEF Aside
  <1>12. NoneInitializes
    BY <1>1, <1>6, TurnsIni
  <1>13. Grip(f) = {}
    BY DEF Grip, Ini2, DefAts
  <1>. QED BY <1>1, <1>5, <1>6, <1>7, <1>11, <1>12, <1>13, IniReturn

LEMMA FinishInitializeStep ==
  ASSUME IInv, NEW t \in Threads, FinishInitialize(t)
  PROVE  IInv'
  <1>0. PICK f, k : f = Top(t) /\ k = f.k
    OBVIOUS
  <1>1. stack[t] # <<>> /\ f.at = "ran" /\ f.n = 0
    BY <1>0, AtTop DEF FinishInitialize
  <1>2. PICK s : s = Outcome(t)
    OBVIOUS
  <1>3. s \in {"Initialized", "ErrorResolved"} /\ (s = "Initialized" \/ exc[t]) /\ f.at \in Ini2 /\ FALSE \in BOOLEAN
    BY <1>1, <1>2 DEF Outcome, Ini2
  <1>4. Leave(t, Set(cls, k, s), FALSE) /\ NotifyAll(k) /\ UNCHANGED <<table, ret, bounds, aborted, history>>
    BY <1>0, <1>2 DEF FinishInitialize
  <1>5. Aside
    BY <1>4, AsideFacts DEF IInv, bounds
  <1>. QED BY <1>0, <1>1, <1>3, <1>4, <1>5, IniEnds

(* The class is this thread's to initialize. *)
LEMMA MineTurns ==
  ASSUME Types, NEW t \in Threads, NEW k \in DOMAIN cls, cls[k].count > 0,
         cls' = [Unlock(Set(cls, k, "Initializing"), k) EXCEPT ![k].tid = t]
  PROVE  Turns(k, "Initializing") /\ cls'[k].tid = t /\ Mon(t, {k}, {})
  <1>1. PICK c : c = Unlock(Set(cls, k, "Initializing"), k)
    OBVIOUS
  <1>2. "Initializing" \in Statuses
    BY DEF Statuses
  <1>3. /\ Alters(cls, c, k) /\ c[k].status = "Initializing"
        /\ c[k].up = cls[k].up /\ c[k].ift = cls[k].ift /\ c[k].done = cls[k].done
        /\ c[k].owner = (IF cls[k].count = 1 THEN NULL ELSE cls[k].owner) /\ c[k].count = cls[k].count - 1
    BY <1>1, <1>2, SetUnlockTurns
  <1>4. Map(c) /\ k \in DOMAIN c /\ DOMAIN c = DOMAIN cls /\ \A x \in DOMAIN cls : x # k => c[x] = cls[x]
    BY <1>3 DEF Alters
  <1>5. PICK r : r = [c[k] EXCEPT !.tid = t]
    OBVIOUS
  <1>6. c[k] \in ClassRec
    BY <1>4 DEF Map
  <1>7. /\ r \in ClassRec /\ r.status = c[k].status /\ r.tid = t /\ r.up = c[k].up /\ r.ift = c[k].ift
        /\ r.done = c[k].done /\ r.owner = c[k].owner /\ r.count = c[k].count
    BY <1>5, <1>6 DEF ClassRec
  <1>8. PICK e : e = cls'
    OBVIOUS
  <1>9. e = [c EXCEPT ![k] = r]
    BY <1>1, <1>4, <1>5, <1>8, Zenon
  <1>10. Alters(c, e, k) /\ e[k] = r
    BY <1>4, <1>7, <1>9, AltersFacts
  <1>11. DOMAIN e = DOMAIN cls /\ Map(e) /\ \A x \in DOMAIN cls : x # k => e[x] = cls[x]
    BY <1>4, <1>10 DEF Alters
  <1>12. Turns(k, "Initializing")
    BY <1>3, <1>7, <1>8, <1>10, <1>11 DEF Turns, Kept
  <1>13. Mon(t, {k}, {})
    BY <1>3, <1>7, <1>8, <1>10, <1>11 DEF Mon
  <1>. QED BY <1>7, <1>8, <1>10, <1>12, <1>13

(* <clinit> of a class that has come no further than verification has not  *)
(* run.                                                                    *)
LEMMA NotRan ==
  ASSUME IInv, NEW k, Good(k), Status(k) \notin Late
  PROVE  ran[k.loader][k.desc] = 0
  <1>1. k \in DOMAIN cls /\ k.loader \in Loaders /\ k.desc \in Descs /\ ~ IsTemp(k)
    BY DEF Good, IInv, Types, Classes
  <1>2. TableOK(k.loader, k.desc)
    BY <1>1 DEF IInv, Tables
  <1>3. ASSUME ran[k.loader][k.desc] # 0 PROVE FALSE
    <2>1. PICK o \in DOMAIN cls : o.loader = k.loader /\ o.desc = k.desc /\ ~ IsTemp(o) /\ Status(o) \in Late
      BY <1>2, <1>3 DEF TableOK
    <2>2. o = k
      BY <1>1, <2>1, UniqueGood
    <2>. QED BY <2>1, <2>2
  <1>. QED BY <1>3

LEMMA InitializeClassStep ==
  ASSUME IInv, NEW t \in Threads, InitializeClass(t)
  PROVE  IInv'
  <1>0. PICK f, k : f = Top(t) /\ k = f.k
    OBVIOUS
  <1>1. stack[t] # <<>> /\ f.at = "verified" /\ f.n = 0
    BY <1>0, AtTop DEF InitializeClass
  <1>2. f.at \in IniAts /\ f.at \notin Ini2 /\ Grip(f) = {k} /\ "initializing?" \in IniAts /\ "supers" \in IniAts
        /\ "supers" \in Ini2 /\ "supers" \in Ats
    BY <1>0, <1>1 DEF IniAts, Ini2, Grip, DefAts, Ats
  <1>3. /\ IniFrame(t, f) /\ Good(k) /\ f.d = k.desc /\ f.l = k.loader /\ k \in DOMAIN cls /\ k \in Classes
        /\ f \in FrameRec /\ waiting[t] = NULL /\ f.d \in Descs /\ f.l \in Loaders /\ TopOK(t, f)
    BY <1>0, <1>1, <1>2, IniTop
  <1>4. exc[t] => Status(k) = "ErrorResolved"
    BY <1>0, <1>1, <1>3 DEF TopOK
  <1>5. UNCHANGED <<table, spurious, aborted, history>>
    BY DEF InitializeClass
  <1>6. ASSUME UNCHANGED faults \/ Fail PROVE Aside
    BY <1>5, <1>6, AsideFacts DEF IInv
  <1>7. cls[k].count > 0
    BY <1>0, <1>1, <1>2, TopHolds
  <1>8. CASE ~ IsVerified(k) /\ Leave(t, Unlock(cls, k), TRUE) /\ UNCHANGED <<ret, waiting, faults>>
    <2>1. TRUE \in BOOLEAN /\ Aside
      BY <1>6, <1>8
    <2>. QED BY <1>0, <1>1, <1>8, <2>1, IniUnlock
  <1>9. CASE OtherInitializes(t, k) /\ Wait(t, k, "initializing?") /\ UNCHANGED faults
    <2>0. Status(k) = "Initializing" /\ ~ exc[t]
      BY <1>4, <1>9 DEF OtherInitializes
    <2>1. ASSUME NEW g, g.at = "initializing?", g.d = f.d, g.l = f.l, g.k = f.k PROVE Kin(f, g)
      BY <1>2, <2>1, IniKin
    <2>2. ASSUME NEW g \in FrameRec, g.at = "initializing?", g.d = f.d, g.l = f.l, g.k = f.k, g.i = f.i PROVE FrameOK(t, g)
      <3>1. IniFrame(t, g)
        BY <1>0, <1>3, <2>0, <2>2 DEF IniFrame, Ini2, Late
      <3>. QED BY <1>0, <1>2, <1>3, <2>2, <3>1, IniOK
    <2>. QED BY <1>0, <1>1, <1>2, <1>6, <1>9, <2>0, <2>1, <2>2, WaitStep
  <1>10. CASE /\ Status(k) \in {"Initializing", "Initialized"} /\ ~ OtherInitializes(t, k)
              /\ Leave(t, Unlock(cls, k), FALSE) /\ UNCHANGED <<ret, waiting, faults>>
    <2>1. FALSE \in BOOLEAN /\ Aside
      BY <1>6, <1>10
    <2>2. Status(k) = "Initialized" \/ (Status(k) = "Initializing" /\ cls[k].tid = t)
      BY <1>10 DEF OtherInitializes
    <2>. QED BY <1>0, <1>1, <1>10, <2>1, <2>2, IniUnlock
  <1>11. ASSUME Status(k) = "Verified", NEW s \in {"ErrorResolved", "Initializing"}, Turns(k, s), NotifyAll(k), Others(t),
                stack' \in [Threads -> Seq(FrameRec)], Aside
         PROVE  Grows /\ Ctx(t) /\ waiting'[t] = NULL
    <2>1. Evolves(k) /\ StatusOK(k)'
      <3>1. StatusOK(k) /\ ~ IsTemp(k)
        BY <1>3 DEF IInv, Objects, ObjectOK, Good
      <3>. QED BY <1>3, <1>11, <3>1 DEF Evolves, StatusOK, Turns, Status, Res, Was, Late
    <2>2. ASSUME NEW u \in Threads, NEW x, InStack(u, x) PROVE Apart(x, {k})
      BY <1>3, <1>11, <2>2, ResApart
    <2>3. \A x : Lower(t, x) => Apart(x, {k})
      BY <2>2, LowerInStack DEF IInv
    <2>4. s # "Initialized" /\ s # "Verifying"
      BY <1>11
    <2>. QED BY <1>3, <1>11, <2>1, <2>2, <2>3, <2>4, TurnsCtx DEF Aside
  <1>12. CASE /\ Status(k) = "Verified" /\ Fail /\ Leave(t, Unlock(Set(cls, k, "ErrorResolved"), k), TRUE)
              /\ NotifyAll(k) /\ UNCHANGED ret
    <2>1. TRUE \in BOOLEAN /\ Aside /\ "ErrorResolved" \in Statuses
      BY <1>6, <1>12 DEF Statuses
    <2>2. DOMAIN cls \subseteq DOMAIN Unlock(Set(cls, k, "ErrorResolved"), k)
      BY DEF Unlock, Set
    <2>3. /\ Return(t) /\ cls' = Unlock(Set(cls, k, "ErrorResolved"), k) /\ stack' \in [Threads -> Seq(FrameRec)]
          /\ Others(t) /\ exc'[t] = (exc[t] \/ TRUE)
      BY <1>1, <1>12, <2>1, <2>2, LeaveFacts DEF IInv
    <2>4. Turns(k, "ErrorResolved") /\ Mon(t, {k}, {})
      BY <1>3, <1>7, <2>1, <2>3, UnlockTurns DEF IInv
    <2>5. Ctx(t) /\ waiting'[t] = NULL
      BY <1>11, <1>12, <2>1, <2>3, <2>4
    <2>6. NoneInitializes
      <3>1. "ErrorResolved" # "Initializing"
        OBVIOUS
      <3>. QED BY <2>4, <3>1, TurnsIni
    <2>. QED BY <1>0, <1>1, <1>2, <2>3, <2>4, <2>5, <2>6, IniReturn
  <1>13. CASE /\ Status(k) = "Verified" /\ cls' = [Unlock(Set(cls, k, "Initializing"), k) EXCEPT ![k].tid = t]
              /\ NotifyAll(k) /\ Become(t, Of("supers", k)) /\ UNCHANGED <<ret, exc, faults>>
    <2>1. Turns(k, "Initializing") /\ cls'[k].tid = t /\ Mon(t, {k}, {})
      BY <1>3, <1>7, <1>13, MineTurns DEF IInv
    <2>2. PICK g : g = Frame("supers", k.desc, k.loader, k) /\ Become(t, g)
      BY <1>13 DEF Of
    <2>3. g \in FrameRec /\ g.at = "supers" /\ g.d = f.d /\ g.l = f.l /\ g.k = k /\ g.i = 0 /\ g.n = 0
      BY <1>2, <1>3, <2>2, NewFrame
    <2>4. stack' \in [Threads -> Seq(FrameRec)]
      BY <1>1, <2>2, <2>3, BecomeFr DEF IInv, Rewrites
    <2>5. Others(t) /\ exc'[t] = exc[t]
      BY <1>13, <2>1, UnchangedOthers DEF IInv, Turns
    <2>6. Grows /\ Ctx(t) /\ waiting'[t] = NULL /\ ran' = ran
      BY <1>6, <1>11, <1>13, <2>1, <2>4, <2>5 DEF Aside
    <2>7. ~ exc'[t] /\ ran[f.l][f.d] = 0
      <3>1. Status(k) \notin Late
        BY <1>13 DEF Late
      <3>. QED BY <1>3, <1>4, <1>13, <2>5, <3>1, NotRan
    <2>8. Good(k)' /\ Status(k)' = "Initializing"
      BY <1>3, <2>1, <2>6, GoodStable DEF Turns, Status
    <2>9. 0 <= Len(Ups(k))' /\ Len(Ups(k))' \in Nat
      <3>1. cls'[k].up \in Seq(Classes) /\ <<>> \in Seq(Classes)
        BY <1>3, <2>6 DEF Ctx, Types, ClassRec, Grows
      <3>2. Ups(k)' \in Seq(Classes)
        BY <3>1 DEF Ups
      <3>. QED BY <3>2
    <2>10. IniFrame(t, g)'
      <3>1. \A j \in 1 .. Len(Ups(k))' : ~ (j < 0)
        BY <2>9
      <3>. QED BY <1>2, <2>1, <2>3, <2>6, <2>7, <2>8, <2>9, <3>1 DEF IniFrame
    <2>11. FrameOK(t, g)'
      BY <1>2, <1>3, <2>3, <2>10, IniOKPrime
    <2>12. TopOK(t, g)'
      BY <2>3, <2>6, <2>7 DEF TopOK
    <2>13. Kin(f, g) /\ Alone(f, g)
      <3>1. g.at \notin DefAts \cup Ver2 /\ Status(g.k) # "Initializing"
        BY <1>13, <2>3 DEF DefAts, Ver2
      <3>. QED BY <1>0, <1>2, <2>3, <3>1, IniKin DEF Alone
    <2>14. Grip(g) = {}
      BY <2>3 DEF Grip, DefAts
    <2>15. ASSUME NEW o \in DOMAIN cls', Status(o)' = "Initializing"
           PROVE  \/ /\ o \in DOMAIN cls /\ Status(o) = "Initializing" /\ cls'[o].tid = cls[o].tid
                     /\ f.at \in Ini2 /\ f.k = o => g.at \in Ini2 /\ g.k = o
                  \/ cls'[o].tid = t /\ g.at \in Ini2 /\ g.k = o
      BY <1>2, <2>1, <2>3, <2>15 DEF Turns, Kept, Status
    <2>16. Mon(t, Grip(f), Grip(g))
      BY <1>2, <2>1, <2>14
    <2>17. f.at \notin Ini2
      BY <1>1 DEF Ini2
    <2>. QED BY <1>0, <1>1, <2>2, <2>3, <2>6, <2>11, <2>12, <2>13, <2>15, <2>16, <2>17, BecomeStep
  <1>. QED BY <1>0, <1>8, <1>9, <1>10, <1>12, <1>13, Zenon DEF InitializeClass

LEMMA InitializeSupersStep ==
  ASSUME IInv, NEW t \in Threads, InitializeSupers(t)
  PROVE  IInv'
  <1>0. PICK f, k : f = Top(t) /\ k = f.k
    OBVIOUS
  <1>1. stack[t] # <<>> /\ f.at = "supers" /\ f.n = 0
    BY <1>0, AtTop DEF InitializeSupers
  <1>2. /\ f.at \in IniAts /\ f.at \in Ini2 /\ f.at \notin VerAts /\ Grip(f) = {} /\ "clinit" \in IniAts /\ "clinit" \in Ini2
        /\ "clinit" \in Ats /\ "supers" \in Ats /\ "supers" \in Ini2 /\ "supers" \in IniAts
    BY <1>0, <1>1 DEF IniAts, Ini2, Grip, DefAts, Ats, VerAts, Ver2
  <1>3. /\ IniFrame(t, f) /\ Good(k) /\ f.d = k.desc /\ f.l = k.loader /\ k \in DOMAIN cls /\ k \in Classes
        /\ f \in FrameRec /\ waiting[t] = NULL /\ f.d \in Descs /\ f.l \in Loaders /\ TopOK(t, f) /\ f.i \in Nat
        /\ Status(k) # "Initialized" => k.desc \notin Arrays
    BY <1>0, <1>1, <1>2, IniTop
  <1>4. PICK up : up = Ups(k)
    OBVIOUS
  <1>5. /\ Status(k) = "Initializing" /\ cls[k].tid = t /\ f.i <= Len(up) /\ ran[f.l][f.d] = 0
        /\ \A j \in 1 .. Len(up) : j < f.i => Passed(up[j])
        /\ k.desc \notin Arrays
    BY <1>0, <1>1, <1>2, <1>3, <1>4 DEF IniFrame
  <1>6. Len(up) \in Nat
    <2>1. cls[k].up \in Seq(Classes) /\ <<>> \in Seq(Classes)
      BY <1>3 DEF IInv, Types, ClassRec
    <2>. QED BY <1>4, <2>1 DEF Ups
  <1>7. ~ exc[t] => \A j \in 1 .. Len(up) : j <= f.i => Passed(up[j])
    <2>1. ~ exc[t] /\ f.i > 0 => Passed(up[f.i])
      BY <1>0, <1>1, <1>3, <1>4 DEF TopOK
    <2>2. \A j \in 1 .. Len(up) : j <= f.i => j < f.i \/ (j = f.i /\ f.i > 0)
      BY <1>3, <1>6
    <2>. QED BY <1>5, <2>1, <2>2
  <1>8. UNCHANGED <<table, ret, bounds, aborted, history>>
    BY DEF InitializeSupers
  <1>9. Aside
    BY <1>8, AsideFacts DEF IInv, bounds
  <1>10. ASSUME UNCHANGED <<cls, exc, waiting>>
         PROVE  Still /\ Others(t) /\ exc'[t] = exc[t] /\ waiting'[t] = NULL /\ Ups(k)' = up /\ \A p : Passed(p)' <=> Passed(p)
    <2>1. Still /\ DOMAIN cls \subseteq DOMAIN cls'
      BY <1>8, <1>10, StillFacts DEF IInv, bounds
    <2>2. Others(t) /\ exc'[t] = exc[t]
      BY <1>8, <1>10, <2>1, UnchangedOthers DEF IInv
    <2>3. Ups(k)' = up
      BY <1>4, <1>10 DEF Ups
    <2>4. \A p : Passed(p)' <=> Passed(p)
      BY <1>10 DEF Passed, Ready, Begun, Status
    <2>. QED BY <1>3, <1>10, <2>1, <2>2, <2>3, <2>4
  <1>11. ASSUME NEW g \in FrameRec, g.at \in {"supers", "clinit"}, g.d = f.d, g.l = f.l, g.k = k, g.n = 0, ~ exc[t],
                IF g.at = "supers" THEN g.i = f.i + 1 /\ f.i < Len(up) ELSE f.i = Len(up)
         PROVE  FrameOK(t, g) /\ Kin(f, g) /\ Alone(f, g) /\ Grip(g) = {} /\ g.at \in Ini2 /\ Advance(t, f, g)
    <2>1. g.at \in IniAts /\ g.at \in Ini2 /\ g.at \notin DefAts \cup Ver2 /\ Grip(g) = {}
      BY <1>11 DEF IniAts, Ini2, DefAts, Ver2, Grip
    <2>2. IniFrame(t, g)
      <3>1. g.at = "supers" => g.i <= Len(up) /\ \A j \in 1 .. Len(up) : j < g.i => j <= f.i
        BY <1>3, <1>6, <1>11
      <3>2. g.at = "clinit" => \A j \in 1 .. Len(up) : j <= f.i
        BY <1>3, <1>6, <1>11
      <3>3. g.at # "initializing?" /\ g.at # "ran"
        BY <1>11
      <3>. QED BY <1>3, <1>4, <1>5, <1>7, <1>11, <3>1, <3>2, <3>3 DEF IniFrame
    <2>3. FrameOK(t, g)
      BY <1>3, <1>11, <2>1, <2>2, IniOK
    <2>4. Advance(t, f, g)
      <3>1. f.i = Len(up) => f.i >= Len(Ups(f.k))
        BY <1>0, <1>3, <1>4, <1>6
      <3>. QED BY <1>1, <1>11, <3>1 DEF Advance
    <2>. QED BY <1>0, <1>2, <1>11, <2>1, <2>3, <2>4, IniKin DEF Alone
  <1>12. CASE exc[t] /\ Leave(t, Set(cls, k, "ErrorResolved"), TRUE) /\ NotifyAll(k)
    <2>1. TRUE \in BOOLEAN /\ "ErrorResolved" \in {"Initialized", "ErrorResolved"} /\ "ErrorResolved" # "Initialized"
      OBVIOUS
    <2>. QED BY <1>0, <1>1, <1>2, <1>8, <1>9, <1>12, <2>1, IniEnds
  <1>13. CASE ~ exc[t] /\ f.i = Len(up) /\ Goto(t, "clinit") /\ UNCHANGED <<cls, exc, waiting>>
    <2>1. PICK g \in FrameRec : /\ Become(t, g) /\ g.at = "clinit" /\ g.d = f.d /\ g.l = f.l /\ g.k = k /\ g.i = f.i /\ g.n = 0
      BY <1>0, <1>1, <1>2, <1>13, GotoFacts
    <2>2. FrameOK(t, g) /\ Kin(f, g) /\ Alone(f, g) /\ Grip(g) = {} /\ g.at \in Ini2 /\ Advance(t, f, g)
      BY <1>11, <1>13, <2>1
    <2>3. TopOK(t, g)'
      BY <1>10, <1>13, <2>1, PlainTop DEF Handlers
    <2>4. Called(t, Depth(t), g)
      BY <2>1 DEF Called
    <2>. QED BY <1>0, <1>1, <1>2, <1>10, <1>13, <2>1, <2>2, <2>3, <2>4, PureBecome
  <1>14. ASSUME ~ exc[t], f.i < Len(up)
         PROVE  \E p : p = up[f.i + 1] /\ p \in DOMAIN cls /\ Good(p) /\ p.desc \in Descs /\ p.desc \in Behind[f.d]
    <2>1. f.i + 1 \in 1 .. Len(up)
      BY <1>3, <1>6, <1>14
    <2>2. k.desc \notin Interfaces /\ up = cls[k].up
      BY <1>4, <1>3, <1>14 DEF Ups
    <2>3. PICK p : p = up[f.i + 1]
      OBVIOUS
    <2>4. p \in DOMAIN cls /\ Good(p) /\ p.desc \in Descs /\ p.desc \in Behind[f.d]
      BY <1>3, <1>5, <2>1, <2>2, <2>3, UpFacts
    <2>. QED BY <2>3, <2>4
  <1>15. CASE ~ exc[t] /\ f.i < Len(up) /\ Skip(up[f.i + 1]) /\ Call(t, <<>>, "supers") /\ UNCHANGED <<cls, exc, waiting>>
    <2>1. PICK g \in FrameRec : Become(t, g) /\ g = Onward(f, "supers")
      BY <1>0, <1>1, <1>2, <1>15, CallNoneFr DEF IInv
    <2>2. g.at = "supers" /\ g.d = f.d /\ g.l = f.l /\ g.k = k /\ g.i = f.i + 1 /\ g.n = 0
      <3>1. f \in FrameRec /\ f.n = 0 /\ "supers" \in Ats
        BY <1>1, <1>2, <1>3
      <3>. QED BY <1>0, <2>1, <3>1, CallerFrame
    <2>3. FrameOK(t, g) /\ Kin(f, g) /\ Alone(f, g) /\ Grip(g) = {} /\ g.at \in Ini2 /\ Advance(t, f, g)
      BY <1>11, <1>15, <2>1, <2>2
    <2>4. PICK p \in DOMAIN cls : p = up[g.i] /\ Passed(p) /\ (p.desc \notin Interfaces => Status(p) = "Initialized")
      BY <1>14, <1>15, <2>2, SkipPassed
    <2>5. Passed(Ups(k)[g.i])'
      BY <1>10, <1>15, <2>4
    <2>6. Called(t, Depth(t), g)
      <3>1. Ups(g.k)[g.i] = p /\ Ups(g.k)' = up
        BY <1>4, <1>10, <1>15, <2>2, <2>4
      <3>2. Status(Ups(g.k)[g.i])' = Status(p)
        BY <1>15, <2>4, <3>1 DEF Status
      <3>. QED BY <2>4, <3>1, <3>2 DEF Called
    <2>7. TopOK(t, g)'
      <3>1. ~ exc'[t] /\ waiting'[t] = NULL
        BY <1>10, <1>15
      <3>. QED BY <2>2, <2>5, <3>1 DEF TopOK
    <2>. QED BY <1>0, <1>1, <1>2, <1>10, <1>15, <2>1, <2>2, <2>3, <2>6, <2>7, PureBecome
  <1>16. ASSUME NEW at \in {"init", "iface"}, at = IF up[f.i + 1].desc \in Interfaces THEN "iface" ELSE "init",
                ~ exc[t], f.i < Len(up), Call(t, <<Of(at, up[f.i + 1])>>, "supers"), UNCHANGED <<cls, exc, waiting>>
         PROVE  IInv'
    <2>1. PICK p : p = up[f.i + 1] /\ p \in DOMAIN cls /\ Good(p) /\ p.desc \in Descs /\ p.desc \in Behind[f.d]
      BY <1>14, <1>16
    <2>2. PICK u, g : u = Of(at, p) /\ g = Onward(f, "supers") /\ Call(t, <<u>>, "supers")
      BY <1>16, <2>1
    <2>3. g \in FrameRec /\ g.at = "supers" /\ g.d = f.d /\ g.l = f.l /\ g.k = k /\ g.i = f.i + 1 /\ g.n = 0
      <3>1. f \in FrameRec /\ f.n = 0 /\ "supers" \in Ats
        BY <1>1, <1>2, <1>3
      <3>. QED BY <1>0, <2>2, <3>1, CallerFrame
    <2>4. FrameOK(t, g) /\ Kin(f, g) /\ Alone(f, g) /\ Grip(g) = {} /\ g.at \in Ini2 /\ Advance(t, f, g)
      BY <1>11, <1>16, <2>3
    <2>5. /\ u \in FrameRec /\ u.at = at /\ u.d = p.desc /\ u.l = p.loader /\ u.k = p /\ u.i = 0 /\ u.n = 0
          /\ FrameOK(t, u) /\ Grip(u) = {} /\ u.at \notin DefAts \cup VerAts \cup Ver2 \cup Ini2 \cup {"caller"}
          /\ (at = "init" => u.at \notin Handlers \cup IfaceAts)
      BY <1>16, <2>1, <2>2, SubFrame
    <2>6. Push(f, u) /\ Calls(f, g, u)
      BY <1>1, <1>2, <2>1, <2>3, <2>5 DEF Push, Calls
    <2>7. LinkOK(g, u)'
      <3>1. g.i > 0 /\ u.k = Ups(g.k)'[g.i]
        BY <1>3, <1>10, <1>16, <2>1, <2>3, <2>5
      <3>2. u.at \in IF u.k.desc \in Interfaces THEN IfaceAts ELSE IniAts
        BY <1>16, <2>1, <2>5 DEF IfaceAts, IniAts
      <3>. QED BY <1>16, <2>3, <2>5, <3>1, <3>2 DEF LinkOK, Handlers
    <2>8. TopOK(t, u)'
      <3>1. ~ exc'[t] /\ waiting'[t] = NULL
        BY <1>10, <1>16
      <3>. QED BY <1>16, <2>5, <3>1 DEF TopOK
    <2>9. Still /\ Others(t)
      BY <1>10, <1>16
    <2>. QED BY <1>0, <1>1, <1>2, <2>2, <2>4, <2>5, <2>6, <2>7, <2>8, <2>9, PureCall
  <1>17. CASE /\ ~ exc[t] /\ f.i < Len(up) /\ UNCHANGED <<cls, exc, waiting>>
              /\ Call(t, <<Of(IF up[f.i + 1].desc \in Interfaces THEN "iface" ELSE "init", up[f.i + 1])>>, "supers")
    BY <1>16, <1>17
  <1>. QED BY <1>0, <1>4, <1>12, <1>13, <1>15, <1>17, Zenon DEF InitializeSupers, Ups

(* Nothing changes that a frame goes by. *)
Frozen ==
  /\ DOMAIN cls' = DOMAIN cls /\ table' = table /\ waiting' = waiting /\ aborted' = aborted
  /\ \A o \in DOMAIN cls : /\ cls'[o].status = cls[o].status /\ cls'[o].tid = cls[o].tid
                           /\ cls'[o].up = cls[o].up /\ cls'[o].ift = cls[o].ift
  /\ faults' <= faults /\ spurious' <= spurious /\ denied \subseteq denied'

LEMMA FrozenGrows ==
  ASSUME Types, Types', Frozen
  PROVE  Grows
  <1>1. \A o \in DOMAIN cls : Evolves(o)
    BY DEF Frozen, Evolves, Status, Was, Late
  <1>2. \A l \in Loaders, d \in Descs : EntryEvolves(l, d)
    BY DEF Frozen, EntryEvolves
  <1>. QED BY <1>1, <1>2 DEF Frozen, Grows

LEMMA FrozenOwn ==
  ASSUME Types, Frozen, NEW u \in Threads, NEW f, FrameOK(u, f),
         f.at \in {"supers", "clinit"} => ran'[f.l][f.d] = ran[f.l][f.d]
  PROVE  Own(u, f)
  <1>1. f.at \in KAts => f.k \in DOMAIN cls
    BY DEF FrameOK
  <1>2. DefAts \cup Ver2 \cup Ini2 \subseteq KAts
    BY DEF KAts, OfAts, VerAts, IniAts
  <1>3. f.at \in Ver2 \cup Ini2 => Status(f.k)' = Status(f.k) /\ cls'[f.k].tid = cls[f.k].tid
    BY <1>1, <1>2 DEF Frozen, Status
  <1>4. f.at \in DefAts => DefFrame(u, f)' /\ cls'[f.k].up = cls[f.k].up
    <2>1. SUFFICES ASSUME f.at \in DefAts PROVE DefFrame(u, f)' /\ cls'[f.k].up = cls[f.k].up
      OBVIOUS
    <2>2. DefFrame(u, f) /\ f.k \in DOMAIN cls
      BY <1>1, <1>2, <2>1 DEF FrameOK
    <2>3. /\ Status(f.k)' = Status(f.k) /\ cls'[f.k].tid = cls[f.k].tid /\ cls'[f.k].up = cls[f.k].up
          /\ DOMAIN cls' = DOMAIN cls /\ table' = table
          /\ Copy(f.k) \in DOMAIN cls => Status(Copy(f.k))' = Status(Copy(f.k))
      BY <2>2 DEF Frozen, Status
    <2>. QED BY <2>2, <2>3 DEF DefFrame
  <1>. QED BY <1>3, <1>4 DEF Own

LEMMA FrozenCtx ==
  ASSUME IInv, Types', Objects', Tables', Frozen, NEW t \in Threads,
         \A u \in Threads : u # t => ret'[u] = ret[u] /\ exc'[u] = exc[u],
         \A u \in Threads : \A f :
           ((u # t /\ InStack(u, f)) \/ (u = t /\ Lower(t, f))) /\ f.at \in {"supers", "clinit"} =>
             ran'[f.l][f.d] = ran[f.l][f.d]
  PROVE  Grows /\ Ctx(t) /\ NoneInitializes
  <1>1. Grows /\ Aborts'
    BY FrozenGrows, AbortsStable DEF IInv, Frozen
  <1>2. ASSUME NEW u \in Threads, u # t
        PROVE  ret'[u] = ret[u] /\ exc'[u] = exc[u] /\ Wakes(u) /\ \A f : InStack(u, f) => Own(u, f)
    <2>1. Wakes(u)
      BY DEF Frozen, Wakes
    <2>2. ASSUME NEW f, InStack(u, f) PROVE Own(u, f)
      <3>1. FrameOK(u, f)
        BY <2>2, InStackFacts DEF IInv
      <3>2. f.at \in {"supers", "clinit"} => ran'[f.l][f.d] = ran[f.l][f.d]
        BY <1>2, <2>2
      <3>. QED BY <3>1, <3>2, FrozenOwn DEF IInv
    <2>. QED BY <1>2, <2>1, <2>2
  <1>3. ASSUME NEW f, Lower(t, f) PROVE Own(t, f)
    <2>1. FrameOK(t, f)
      BY <1>3, LowerInStack, InStackFacts DEF IInv
    <2>2. f.at \in {"supers", "clinit"} => ran'[f.l][f.d] = ran[f.l][f.d]
      BY <1>3
    <2>. QED BY <2>1, <2>2, FrozenOwn DEF IInv
  <1>4. NoneInitializes
    BY DEF NoneInitializes, Frozen, Status
  <1>. QED BY <1>1, <1>2, <1>3, <1>4 DEF Ctx

LEMMA IfaceKin ==
  ASSUME NEW f, NEW g, f.at \in IfaceAts, g.at \in IfaceAts, g.d = f.d, g.l = f.l, g.k = f.k
  PROVE  Kin(f, g) /\ Alone(f, g)
  <1>1. IfaceAts \cap (FindAts \cup VerAts \cup IniAts \cup {"use", "caller"} \cup DefAts \cup Ver2 \cup Ini2) = {}
    BY DEF VerAts, Ver2, FindAts, DefAts, IniAts, Ini2, IfaceAts
  <1>. QED BY <1>1 DEF Kin, Alone

(* The interface is marked: nothing is left to initialize on its account.  *)
LEMMA MarkStep ==
  ASSUME IInv, NEW t \in Threads, NEW f, f = Top(t), NEW k, k = f.k, At(t, "mark"), ~ exc[t],
         cls' = [cls EXCEPT ![k].done = TRUE], Return(t),
         UNCHANGED <<table, ret, exc, waiting, bounds, aborted, history>>
  PROVE  IInv'
  <1>1. stack[t] # <<>> /\ f.at = "mark" /\ f.n = 0
    BY AtTop
  <1>2. f.at \in IfaceAts /\ f.at \in OfAts /\ Grip(f) = {}
    BY <1>1 DEF IfaceAts, OfAts, Grip, DefAts
  <1>3. FrameOK(t, f) /\ TopOK(t, f) /\ waiting[t] = NULL
    BY <1>1, TopFacts
  <1>4. IfaceFrame(f) /\ f.d = k.desc
    BY <1>2, <1>3 DEF FrameOK
  <1>5. Good(k) /\ k \in DOMAIN cls /\ k.desc \in Interfaces /\ (\A j \in 1 .. Len(cls[k].up) : Ready(cls[k].up[j]))
    BY <1>1, <1>4 DEF IfaceFrame, Good
  <1>6. ObjectOK(k) /\ StatusOK(k) /\ UpOK(k) /\ Status(k) \in Res
    BY <1>5 DEF IInv, Objects, ObjectOK, Good
  <1>7. Ready(k)
    <2>1. k.desc \in HasDefault => Begun(k)
      BY <1>1, <1>3, <1>4 DEF TopOK
    <2>2. ASSUME NEW q \in cls[k].ift, q.desc \in HasDefault PROVE Begun(q)
      <3>1. PICK j \in 1 .. Len(cls[k].up) : q = cls[k].up[j] \/ q \in cls[cls[k].up[j]].ift
        BY <1>6, <2>2 DEF UpOK
      <3>. QED BY <1>5, <2>2, <3>1 DEF Ready
    <2>. QED BY <1>5, <2>1, <2>2 DEF Ready
  <1>8. PICK e : e = cls'
    OBVIOUS
  <1>9. PICK r : r = [cls[k] EXCEPT !.done = TRUE]
    OBVIOUS
  <1>10. cls[k] \in ClassRec /\ Map(cls)
    BY <1>5, ClsMap DEF IInv, Types
  <1>11. /\ r \in ClassRec /\ r.status = cls[k].status /\ r.tid = cls[k].tid /\ r.up = cls[k].up /\ r.ift = cls[k].ift
         /\ r.owner = cls[k].owner /\ r.count = cls[k].count
    BY <1>9, <1>10 DEF ClassRec
  <1>12. e = [cls EXCEPT ![k] = r]
    BY <1>8, <1>9, <1>10, Zenon
  <1>13. Alters(cls, e, k) /\ e[k] = r
    BY <1>5, <1>10, <1>11, <1>12, AltersFacts
  <1>14. DOMAIN cls' = DOMAIN cls /\ Map(cls') /\ (\A x \in DOMAIN cls : x # k => cls'[x] = cls[x]) /\ cls'[k] = r
    BY <1>8, <1>13 DEF Alters
  <1>15. stack' \in [Threads -> Seq(FrameRec)]
    BY <1>1, ReturnFr DEF IInv, Rewrites
  <1>16. Others(t) /\ exc'[t] = exc[t]
    BY <1>14, UnchangedOthers DEF IInv
  <1>17. Types'
    <2>1. faults' \in Nat /\ faults' <= faults
      BY ConstantsAssumption DEF IInv, Types, bounds
    <2>2. waiting' \in [Threads -> DOMAIN cls' \cup {NULL}] /\ table' \in [Loaders -> [Descs -> DOMAIN cls' \cup {NULL}]]
      BY <1>14 DEF IInv, Types
    <2>. QED BY <1>14, <1>15, <1>16, <2>1, <2>2, TypesStep DEF IInv, bounds, history
  <1>18. Frozen
    <2>1. \A o \in DOMAIN cls : /\ cls'[o].status = cls[o].status /\ cls'[o].tid = cls[o].tid
                                /\ cls'[o].up = cls[o].up /\ cls'[o].ift = cls[o].ift
      BY <1>11, <1>14
    <2>2. faults' <= faults /\ spurious' <= spurious /\ denied' = denied
      BY ConstantsAssumption DEF IInv, Types, bounds, history
    <2>. QED BY <1>14, <2>1, <2>2 DEF Frozen
  <1>19. Grows /\ Ready(k)'
    BY <1>5, <1>6, <1>7, <1>17, <1>18, FrozenGrows, ReadyStable DEF IInv
  <1>20. Objects'
    <2>1. ASSUME NEW o \in DOMAIN cls, o # k PROVE ObjectOK(o)'
      <3>1. Kept(o)
        BY <1>14, <2>1 DEF Kept
      <3>. QED BY <1>14, <1>17, <1>19, <3>1, ObjectStable DEF IInv
    <2>2. ObjectOK(k)'
      <3>1. UpOK(k)' /\ EntryOK(k)'
        BY <1>5, <1>14, <1>17, <1>18, <1>19, UpStable, EntryStable DEF IInv, Frozen
      <3>2. Status(k)' = Status(k) /\ cls'[k].ift = cls[k].ift
        BY <1>5, <1>18 DEF Frozen, Status
      <3>3. StatusOK(k)'
        BY <1>6, <1>14, <3>2 DEF StatusOK
      <3>4. k.desc \notin Arrays
        BY <1>5, HierarchyAssumption
      <3>5. InitOK(k)'
        BY <1>5, <1>6, <1>19, <3>2, <3>4 DEF InitOK
      <3>. QED BY <3>1, <3>3, <3>5 DEF ObjectOK
    <2>. QED BY <1>14, <2>1, <2>2 DEF Objects
  <1>21. Tables'
    <2>1. ASSUME NEW l \in Loaders, NEW d \in Descs PROVE TableOK(l, d)'
      BY <1>17, <1>19, <2>1, TableStable DEF IInv, history
    <2>. QED BY <2>1 DEF Tables
  <1>22. Ctx(t) /\ NoneInitializes
    BY <1>16, <1>17, <1>18, <1>20, <1>21, FrozenCtx DEF Others, history
  <1>23. Mon(t, {}, {})
    BY <1>11, <1>14 DEF Mon
  <1>. QED BY <1>1, <1>2, <1>3, <1>19, <1>22, <1>23, IfaceReturn

LEMMA InitializeDefaultInterfaceRecursiveStep ==
  ASSUME IInv, NEW t \in Threads, InitializeDefaultInterfaceRecursive(t)
  PROVE  IInv'
  <1>0. PICK f, k : f = Top(t) /\ k = f.k
    OBVIOUS
  <1>1. stack[t] # <<>> /\ f.at \in {"iface", "mark"} /\ f.n = 0
    BY <1>0, AtTop DEF InitializeDefaultInterfaceRecursive
  <1>2. /\ f.at \in IfaceAts /\ f.at \in OfAts /\ Grip(f) = {} /\ f.at \notin Ini2 \cup VerAts \cup {"caller", "supers"}
        /\ {"iface", "mark"} \subseteq Ats /\ {"iface", "mark"} \subseteq IfaceAts
    BY <1>1 DEF IfaceAts, OfAts, Grip, DefAts, Ini2, VerAts, Ver2, Ats
  <1>3. /\ FrameOK(t, f) /\ TopOK(t, f) /\ waiting[t] = NULL /\ f \in FrameRec /\ f.i \in Nat /\ f.d \in Descs /\ f.l \in Loaders
    BY <1>0, <1>1, TopFacts
  <1>4. IfaceFrame(f) /\ f.d = k.desc /\ f.l = k.loader
    BY <1>0, <1>2, <1>3 DEF FrameOK
  <1>5. PICK up : up = cls[k].up
    OBVIOUS
  <1>6. Good(k) /\ k \in DOMAIN cls /\ k.desc \in Interfaces /\ k.desc \notin Arrays /\ Len(up) \in Nat
        /\ (f.at = "iface" => f.i <= Len(up) /\ \A j \in 1 .. Len(up) : j < f.i => Ready(up[j]))
    <2>1. Good(k) /\ k \in DOMAIN cls /\ k.desc \in Interfaces /\ k.desc \notin Arrays
      BY <1>0, <1>4, HierarchyAssumption DEF IfaceFrame, Good
    <2>2. up \in Seq(Classes)
      BY <1>5, <2>1 DEF IInv, Types, ClassRec
    <2>. QED BY <1>0, <1>4, <1>5, <2>1, <2>2 DEF IfaceFrame
  <1>7. ~ exc[t] /\ f.at = "iface" => \A j \in 1 .. Len(up) : j <= f.i => Ready(up[j])
    <2>1. f.at = "iface" /\ ~ exc[t] /\ f.i > 0 => Ready(up[f.i])
      BY <1>0, <1>3, <1>5 DEF TopOK
    <2>2. \A j \in 1 .. Len(up) : j <= f.i => j < f.i \/ (j = f.i /\ f.i > 0)
      BY <1>3, <1>6
    <2>. QED BY <1>6, <2>1, <2>2
  <1>8. UNCHANGED <<table, ret, exc, waiting, bounds, aborted, history>>
    BY DEF InitializeDefaultInterfaceRecursive
  <1>9. ASSUME cls' = cls
        PROVE  Still /\ Others(t) /\ exc'[t] = exc[t] /\ waiting'[t] = NULL /\ \A p : Ready(p)' <=> Ready(p)
    <2>1. Still /\ DOMAIN cls \subseteq DOMAIN cls'
      BY <1>8, <1>9, StillFacts DEF IInv, bounds
    <2>2. Others(t) /\ exc'[t] = exc[t]
      BY <1>8, <2>1, UnchangedOthers DEF IInv
    <2>3. \A p : Ready(p)' <=> Ready(p)
      BY <1>9 DEF Ready, Begun, Status
    <2>. QED BY <1>3, <1>8, <2>1, <2>2, <2>3
  <1>10. CASE exc[t] /\ Return(t) /\ UNCHANGED cls
    <2>1. Still /\ Others(t) /\ exc'[t] /\ waiting'[t] = NULL
      BY <1>9, <1>10
    <2>2. stack' \in [Threads -> Seq(FrameRec)]
      BY <1>1, <1>10, ReturnFr DEF IInv, Rewrites
    <2>3. Types' /\ Quiet /\ Ctx(t)
      BY <2>1, <2>2, StillCtx
    <2>4. NoneInitializes /\ Mon(t, {}, {})
      BY <1>10 DEF NoneInitializes, Mon, Status
    <2>. QED BY <1>0, <1>1, <1>2, <1>10, <2>1, <2>3, <2>4, IfaceReturn
  <1>11. ASSUME NEW g \in FrameRec, g.at \in {"iface", "mark"}, g.d = f.d, g.l = f.l, g.k = k, g.n = 0, ~ exc[t], f.at = "iface",
                IF g.at = "iface" THEN g.i = f.i + 1 /\ f.i < Len(up) ELSE f.i = Len(up)
         PROVE  FrameOK(t, g) /\ Kin(f, g) /\ Alone(f, g) /\ Grip(g) = {}
    <2>1. g.at \in IfaceAts /\ Grip(g) = {}
      BY <1>11 DEF IfaceAts, Grip, DefAts
    <2>2. IfaceFrame(g)
      <3>1. g.at = "iface" => g.i <= Len(up) /\ \A j \in 1 .. Len(up) : j < g.i => j <= f.i
        BY <1>3, <1>6, <1>11
      <3>2. g.at = "mark" => \A j \in 1 .. Len(up) : j <= f.i
        BY <1>3, <1>6, <1>11
      <3>. QED BY <1>5, <1>6, <1>7, <1>11, <3>1, <3>2 DEF IfaceFrame
    <2>. QED BY <1>0, <1>2, <1>4, <1>11, <2>1, <2>2, IfaceOK, IfaceKin
  <1>12. ASSUME NEW at \in {"iface", "mark"}, NEW g, g = Onward(f, at)
         PROVE  g \in FrameRec /\ g.at = at /\ g.d = f.d /\ g.l = f.l /\ g.k = k /\ g.i = f.i + 1 /\ g.n = 0
    <2>1. f \in FrameRec /\ f.n = 0 /\ at \in Ats
      BY <1>1, <1>2, <1>3
    <2>. QED BY <1>0, <1>12, <2>1, CallerFrame
  <1>13. ASSUME NEW at \in {"iface", "mark"}, f.at = "iface", ~ exc[t], cls' = cls, Call(t, <<>>, at),
                IF at = "iface" THEN f.i < Len(up) /\ Ready(up[f.i + 1]) ELSE f.i = Len(up) /\ k.desc \notin HasDefault
         PROVE  IInv'
    <2>1. PICK g \in FrameRec : Become(t, g) /\ g = Onward(f, at)
      BY <1>0, <1>1, <1>2, <1>13, CallNoneFr DEF IInv
    <2>2. g.at = at /\ g.d = f.d /\ g.l = f.l /\ g.k = k /\ g.i = f.i + 1 /\ g.n = 0
      BY <1>12, <2>1
    <2>3. FrameOK(t, g) /\ Kin(f, g) /\ Alone(f, g) /\ Grip(g) = {}
      BY <1>11, <1>13, <2>1, <2>2
    <2>4. TopOK(t, g)'
      <3>1. ~ exc'[t] /\ waiting'[t] = NULL
        BY <1>9, <1>13
      <3>2. at = "iface" => Ready(cls[k].up[g.i])'
        BY <1>5, <1>9, <1>13, <2>2
      <3>. QED BY <1>4, <1>13, <2>2, <3>1, <3>2 DEF TopOK
    <2>. QED BY <1>0, <1>1, <1>2, <1>9, <1>13, <2>1, <2>2, <2>3, <2>4, PureBecome
  <1>14. ASSUME NEW at \in {"iface", "mark"}, f.at = "iface", ~ exc[t], cls' = cls, NEW p, NEW sub,
                Call(t, <<Of(sub, p)>>, at),
                IF at = "iface" THEN f.i < Len(up) /\ p = up[f.i + 1] /\ sub = "iface"
                ELSE f.i = Len(up) /\ p = k /\ sub = "init"
         PROVE  IInv'
    <2>1. at = "iface" => f.i + 1 \in 1 .. Len(up)
      BY <1>3, <1>6, <1>14
    <2>2. /\ Good(p) /\ p.desc \in Descs /\ (sub = "iface" => p.desc \in Interfaces)
          /\ p.desc \in Behind[f.d]
      BY <1>3, <1>4, <1>5, <1>6, <1>14, <2>1, UpFacts, BehindFacts
    <2>3. PICK u, g : u = Of(sub, p) /\ g = Onward(f, at) /\ Call(t, <<u>>, at)
      BY <1>14
    <2>4. g \in FrameRec /\ g.at = at /\ g.d = f.d /\ g.l = f.l /\ g.k = k /\ g.i = f.i + 1 /\ g.n = 0
      BY <1>12, <2>3
    <2>5. FrameOK(t, g) /\ Kin(f, g) /\ Alone(f, g) /\ Grip(g) = {}
      BY <1>11, <1>14, <2>4
    <2>6. /\ u \in FrameRec /\ u.at = sub /\ u.d = p.desc /\ u.l = p.loader /\ u.k = p /\ u.i = 0 /\ u.n = 0
          /\ FrameOK(t, u) /\ Grip(u) = {} /\ u.at \notin DefAts \cup VerAts \cup Ver2 \cup Ini2 \cup {"caller"}
          /\ (sub = "init" => u.at \notin Handlers \cup IfaceAts)
      <3>1. sub \in {"init", "iface"}
        BY <1>14
      <3>. QED BY <2>2, <2>3, <3>1, SubFrame
    <2>7. Push(f, u) /\ Calls(f, g, u)
      <3>1. g.at \notin {"supers", "verified", "attempted"}
        BY <1>14, <2>4
      <3>. QED BY <1>2, <2>2, <2>4, <2>6, <3>1 DEF Push, Calls
    <2>8. LinkOK(g, u)'
      <3>1. g.at = "iface" => g.i > 0 /\ u.k = cls'[g.k].up[g.i] /\ u.at \in IfaceAts
        BY <1>3, <1>5, <1>14, <2>4, <2>6 DEF IfaceAts
      <3>2. g.at = "mark" => u.k = g.k /\ u.at \in IniAts
        BY <1>14, <2>4, <2>6 DEF IniAts
      <3>. QED BY <1>14, <2>4, <2>6, <3>1, <3>2 DEF LinkOK, Handlers
    <2>9. TopOK(t, u)'
      <3>1. ~ exc'[t] /\ waiting'[t] = NULL
        BY <1>9, <1>14
      <3>. QED BY <1>14, <2>6, <3>1 DEF TopOK
    <2>10. Still /\ Others(t) /\ at \in Ats
      BY <1>2, <1>9, <1>14
    <2>. QED BY <1>0, <1>1, <1>2, <2>3, <2>5, <2>6, <2>7, <2>8, <2>9, <2>10, PureCall
  <1>15. CASE At(t, "iface") /\ ~ exc[t] /\ f.i < Len(up) /\ Call(t, <<>>, "iface") /\ Skip(up[f.i + 1]) /\ UNCHANGED cls
    <2>1. f.i + 1 \in 1 .. Len(up)
      BY <1>3, <1>6, <1>15
    <2>2. Ready(up[f.i + 1])
      BY <1>5, <1>6, <1>15, <2>1, UpFacts, SkipPassed DEF Passed
    <2>. QED BY <1>0, <1>13, <1>15, <2>2, AtTop
  <1>16. CASE At(t, "iface") /\ ~ exc[t] /\ f.i < Len(up) /\ Call(t, <<Of("iface", up[f.i + 1])>>, "iface") /\ UNCHANGED cls
    BY <1>0, <1>14, <1>16, AtTop
  <1>17. CASE At(t, "iface") /\ ~ exc[t] /\ f.i = Len(up) /\ k.desc \notin HasDefault /\ Call(t, <<>>, "mark") /\ UNCHANGED cls
    BY <1>0, <1>13, <1>17, AtTop
  <1>18. CASE At(t, "iface") /\ ~ exc[t] /\ f.i = Len(up) /\ Call(t, <<Of("init", k)>>, "mark") /\ UNCHANGED cls
    BY <1>0, <1>14, <1>18, AtTop
  <1>19. CASE At(t, "mark") /\ ~ exc[t] /\ cls' = [cls EXCEPT ![k].done = TRUE] /\ Return(t)
    BY <1>0, <1>8, <1>19, MarkStep
  <1>. QED BY <1>0, <1>5, <1>10, <1>15, <1>16, <1>17, <1>18, <1>19, Zenon DEF InitializeDefaultInterfaceRecursive

-----------------------------------------------------------------------------
(* <clinit>, and the callers *)

(* A frame that nothing is known of but its call *)
LEMMA BareFrame ==
  ASSUME IInv, Grows, NEW t \in Threads, NEW g \in FrameRec, g.at \in {"find", "use", "caller"}
  PROVE  FrameOK(t, g)' /\ Grip(g) = {} /\ g.at \notin DefAts \cup VerAts \cup Ver2 \cup Ini2 \cup IfaceAts
  <1>1. g.at \notin DefAts \cup VerAts \cup Ver2 \cup Ini2 \cup IfaceAts \cup {"supers", "clinit"} /\ Grip(g) = {}
    BY DEF DefAts, VerAts, Ver2, Ini2, IfaceAts, Grip
  <1>2. FrameOK(t, g)
    <2>1. g.at = "find" => FindFrame(g)
      BY DEF FindFrame
    <2>. QED BY <2>1, PlainFrame, UseFrame
  <1>3. Own(t, g)
    BY <1>1 DEF Own
  <1>. QED BY <1>1, <1>2, <1>3, FrameStable DEF IInv

(* <clinit> of the class begins. *)
LEMMA ClinitCtx ==
  ASSUME IInv, NEW t \in Threads, NEW f, f = Top(t), At(t, "clinit"), NEW k, k = f.k,
         ran' = [ran EXCEPT ![f.l][f.d] = @ + 1], UNCHANGED <<cls, table, ret, waiting, spurious, aborted, given, denied>>,
         faults' \in Nat, faults' <= faults, Others(t), stack' \in [Threads -> Seq(FrameRec)]
  PROVE  Types' /\ Grows /\ Ctx(t) /\ NoneInitializes /\ Mon(t, {}, {})
  <1>1. stack[t] # <<>> /\ f.at = "clinit" /\ f.n = 0
    BY AtTop
  <1>2. f.at \in IniAts /\ f.at \in Ini2
    BY <1>1 DEF IniAts, Ini2
  <1>3. /\ IniFrame(t, f) /\ Good(k) /\ f.d = k.desc /\ f.l = k.loader /\ k \in DOMAIN cls
        /\ f.d \in Descs /\ f.l \in Loaders
    BY <1>1, <1>2, IniTop
  <1>4. Status(k) = "Initializing" /\ ran[f.l][f.d] = 0 /\ ~ IsTemp(k)
    BY <1>1, <1>2, <1>3 DEF IniFrame, Good
  <1>5. /\ ran' \in [Loaders -> [Descs -> Nat]] /\ ran'[f.l][f.d] = 1
        /\ \A l \in Loaders, d \in Descs : l # f.l \/ d # f.d => ran'[l][d] = ran[l][d]
    BY <1>3, <1>4 DEF IInv, Types
  <1>6. Types'
    <2>1. faults' \in 0 .. MaxFaults
      BY ConstantsAssumption DEF IInv, Types
    <2>. QED BY <1>5, <2>1 DEF IInv, Types, Others
  <1>7. Frozen
    <2>1. spurious' <= spurious
      BY ConstantsAssumption DEF IInv, Types
    <2>. QED BY <2>1 DEF Frozen
  <1>8. Grows
    BY <1>6, <1>7, FrozenGrows DEF IInv
  <1>9. Objects'
    <2>1. ASSUME NEW o \in DOMAIN cls PROVE ObjectOK(o)'
      BY <1>6, <1>8, <2>1, ObjectStable DEF IInv, Kept
    <2>. QED BY <2>1 DEF Objects
  <1>10. ASSUME NEW l \in Loaders, NEW d \in Descs PROVE TableOK(l, d)'
    <2>1. CASE l # f.l \/ d # f.d
      BY <1>5, <1>6, <1>8, <2>1, TableStable DEF IInv
    <2>2. CASE l = f.l /\ d = f.d
      <3>1. TableOK(l, d)
        BY DEF IInv, Tables
      <3>2. \E o \in DOMAIN cls' : o.loader = l /\ o.desc = d /\ ~ IsTemp(o) /\ Status(o)' \in Late
        BY <1>3, <1>4, <2>2 DEF Late, Status
      <3>. QED BY <1>5, <2>2, <3>1, <3>2 DEF TableOK, Status, Good
    <2>. QED BY <2>1, <2>2
  <1>11. ASSUME NEW u \in Threads, NEW x, (u # t /\ InStack(u, x)) \/ (u = t /\ Lower(t, x)), x.at \in {"supers", "clinit"}
         PROVE  ran'[x.l][x.d] = ran[x.l][x.d]
    <2>1. Apart(x, {k}) /\ FrameOK(u, x)
      BY <1>1, <1>2, <1>11, TopApart, LowerInStack, InStackFacts DEF IInv
    <2>2. x.at \in Ini2 /\ x.at \in IniAts /\ x.at \in OfAts
      BY <1>11 DEF Ini2, IniAts, OfAts
    <2>3. x.k # k /\ IniFrame(u, x) /\ x.d = x.k.desc /\ x.l = x.k.loader /\ x \in FrameRec
      BY <2>1, <2>2 DEF Apart, FrameOK
    <2>4. Good(x.k) /\ x.l \in Loaders /\ x.d \in Descs
      BY <2>3 DEF IniFrame, FrameRec
    <2>5. x.l # f.l \/ x.d # f.d
      BY <1>3, <1>4, <2>3, <2>4, UniqueGood DEF Good
    <2>. QED BY <1>5, <2>4, <2>5
  <1>12. Ctx(t) /\ NoneInitializes
    BY <1>6, <1>7, <1>9, <1>10, <1>11, FrozenCtx DEF Tables, Others
  <1>13. Mon(t, {}, {})
    BY DEF Mon
  <1>. QED BY <1>6, <1>8, <1>12, <1>13

LEMMA RunClinitStep ==
  ASSUME IInv, NEW t \in Threads, RunClinit(t)
  PROVE  IInv'
  <1>0. PICK f, k : f = Top(t) /\ k = f.k
    OBVIOUS
  <1>1. stack[t] # <<>> /\ f.at = "clinit" /\ f.n = 0 /\ At(t, "clinit")
    BY <1>0, AtTop DEF RunClinit
  <1>2. /\ f.at \in IniAts /\ f.at \in Ini2 /\ f.at \notin Handlers \cup VerAts /\ Grip(f) = {} /\ "ran" \in IniAts /\ "ran" \in Ini2
        /\ {"ran", "find", "use"} \subseteq Ats
    BY <1>1 DEF IniAts, Ini2, Handlers, Grip, DefAts, Ats, FindAts, VerAts, Ver2
  <1>3. /\ IniFrame(t, f) /\ Good(k) /\ f.d = k.desc /\ f.l = k.loader /\ k \in DOMAIN cls /\ ~ exc[t]
        /\ f.d \in Descs /\ f.l \in Loaders /\ f \in FrameRec /\ waiting[t] = NULL
    BY <1>0, <1>1, <1>2, IniTop
  <1>4. ran' = [ran EXCEPT ![f.l][f.d] = @ + 1] /\ UNCHANGED <<cls, table, ret, waiting, spurious, aborted, given, denied>>
    BY <1>0 DEF RunClinit
  <1>5. ASSUME NEW g \in FrameRec, g.at = "ran", g.d = f.d, g.l = f.l, g.k = k, g.n = 0
        PROVE  /\ FrameOK(t, g)' /\ Kin(f, g) /\ Alone(f, g) /\ Grip(g) = {} /\ g.at \in Ini2
               /\ Advance(t, f, g) /\ Called(t, Depth(t), g)
    <2>1. g.at \notin DefAts \cup Ver2 /\ Grip(g) = {}
      BY <1>5 DEF DefAts, Ver2, Grip
    <2>2. IniFrame(t, g)
      BY <1>0, <1>1, <1>2, <1>3, <1>5 DEF IniFrame
    <2>3. IniFrame(t, g)'
      BY <1>4, <1>5, <2>2 DEF IniFrame, Good, Status, Passed, Ready, Begun, Ups
    <2>4. Advance(t, f, g) /\ Called(t, Depth(t), g)
      BY <1>1, <1>5 DEF Advance, Called
    <2>. QED BY <1>0, <1>2, <1>3, <1>5, <2>1, <2>3, <2>4, IniKin, IniOKPrime DEF Alone
  <1>6. ASSUME Goto(t, "ran"), UNCHANGED <<exc, faults>> \/ (Fail /\ Throw(t)) PROVE IInv'
    <2>1. PICK g \in FrameRec : /\ Become(t, g) /\ g.at = "ran" /\ g.d = f.d /\ g.l = f.l /\ g.k = k /\ g.i = f.i /\ g.n = 0
      BY <1>0, <1>1, <1>2, <1>6, GotoFacts
    <2>2. stack' \in [Threads -> Seq(FrameRec)]
      BY <1>1, <2>1, BecomeFr DEF IInv, Rewrites
    <2>3. faults' \in Nat /\ faults' <= faults
      BY <1>6, ConstantsAssumption DEF Fail, IInv, Types
    <2>4. DOMAIN cls \subseteq DOMAIN cls' /\ NULL \in DOMAIN cls' \cup {NULL} /\ TRUE \in BOOLEAN
      BY <1>4
    <2>5. Others(t)
      BY <1>4, <1>6, <2>4, OthersFacts DEF IInv, Throw
    <2>6. Types' /\ Grows /\ Ctx(t) /\ NoneInitializes /\ Mon(t, {}, {})
      BY <1>0, <1>1, <1>4, <2>2, <2>3, <2>5, ClinitCtx
    <2>7. /\ FrameOK(t, g)' /\ Kin(f, g) /\ Alone(f, g) /\ Grip(g) = {} /\ g.at \in Ini2
          /\ Advance(t, f, g) /\ Called(t, Depth(t), g)
      BY <1>5, <2>1
    <2>8. TopOK(t, g)'
      BY <1>3, <1>4, <2>1 DEF TopOK, Handlers
    <2>. QED BY <1>0, <1>1, <1>2, <2>1, <2>6, <2>7, <2>8, BecomeStep DEF NoneInitializes
  <1>7. ASSUME Uses[f.d] # NULL, UNCHANGED <<exc, faults>>,
               Call(t, <<FindOf(Uses[f.d], f.l), Frame("use", Uses[f.d], f.l, NULL)>>, "ran")
        PROVE  IInv'
    <2>1. PICK d : d = Uses[f.d]
      OBVIOUS
    <2>2. d \in Descs /\ d \in Behind[f.d] /\ d \in Behind[d]
      <3>1. d \in Descs /\ (d = f.d \/ d \in Needs(f.d))
        BY <1>3, <1>7, <2>1, NeedsFacts
      <3>. QED BY <1>3, <3>1, BehindFacts
    <2>3. PICK u, v, g : u = Frame("find", d, f.l, NULL) /\ v = Frame("use", d, f.l, NULL) /\ g = Onward(f, "ran")
                         /\ Call(t, <<u, v>>, "ran")
      BY <1>7, <2>1 DEF FindOf
    <2>4. u \in FrameRec /\ u.at = "find" /\ u.d = d /\ u.l = f.l /\ u.n = 0
      BY <1>2, <1>3, <2>2, <2>3, NewFrame
    <2>5. v \in FrameRec /\ v.at = "use" /\ v.d = d /\ v.l = f.l /\ v.n = 0
      BY <1>2, <1>3, <2>2, <2>3, NewFrame
    <2>6. g \in FrameRec /\ g.at = "ran" /\ g.d = f.d /\ g.l = f.l /\ g.k = k /\ g.n = 0
      <3>1. f \in FrameRec /\ f.n = 0 /\ "ran" \in Ats
        BY <1>1, <1>2, <1>3
      <3>. QED BY <1>0, <2>3, <3>1, CallerFrame
    <2>7. stack' \in [Threads -> Seq(FrameRec)]
      BY <1>1, <1>2, <2>3, <2>4, <2>5, CallTwoFr DEF IInv, Rewrites
    <2>8. faults' \in Nat /\ faults' <= faults
      BY <1>7, ConstantsAssumption DEF IInv, Types
    <2>9. Others(t) /\ exc'[t] = exc[t]
      BY <1>4, <1>7, UnchangedOthers DEF IInv
    <2>10. Types' /\ Grows /\ Ctx(t) /\ NoneInitializes /\ Mon(t, {}, {})
      BY <1>0, <1>1, <1>4, <2>7, <2>8, <2>9, ClinitCtx
    <2>11. FrameOK(t, g)' /\ Kin(f, g) /\ Alone(f, g) /\ Grip(g) = {} /\ g.at \in Ini2 /\ Advance(t, f, g)
      BY <1>5, <2>6
    <2>12. /\ FrameOK(t, u)' /\ Grip(u) = {} /\ u.at \notin DefAts \cup VerAts \cup Ver2 \cup Ini2 \cup IfaceAts
           /\ FrameOK(t, v)' /\ Grip(v) = {} /\ v.at \notin DefAts \cup VerAts \cup Ver2 \cup Ini2 \cup IfaceAts
      BY <2>4, <2>5, <2>10, BareFrame
    <2>13. Push(f, u) /\ Calls(f, g, u) /\ Push(f, v) /\ Calls(f, g, v)
      BY <1>1, <1>2, <2>2, <2>4, <2>5, <2>6, <2>12 DEF Push, Calls
    <2>14. BelowOK(v, u)'
      BY <2>2, <2>4, <2>5, <2>12 DEF BelowOK
    <2>15. LinkOK(g, v)' /\ LinkOK(v, u)'
      BY <2>4, <2>5, <2>6 DEF LinkOK, Handlers, FindAts
    <2>16. TopOK(t, u)'
      BY <1>3, <1>4, <2>4, <2>9, PlainTop DEF Handlers
    <2>17. "ran" \in Ats /\ Mon(t, Grip(f), Grip(g))
      BY <1>2, <2>10, <2>11
    <2>18. \A o \in DOMAIN cls' : Status(o)' = "Initializing" =>
             /\ o \in DOMAIN cls /\ Status(o) = "Initializing" /\ cls'[o].tid = cls[o].tid
             /\ f.at \in Ini2 /\ f.k = o => g.at \in Ini2 /\ g.k = o
      BY <1>0, <2>6, <2>10, <2>11 DEF NoneInitializes
    <2>19. stack[t] # <<>> /\ f = Top(t) /\ f.n = 0 /\ u \in FrameRec /\ v \in FrameRec /\ Ctx(t)
      BY <1>0, <1>1, <2>4, <2>5, <2>10
    <2>20. FrameOK(t, g)' /\ FrameOK(t, u)' /\ FrameOK(t, v)' /\ Kin(f, g) /\ Alone(f, g)
      BY <2>11, <2>12
    <2>. QED BY <2>3, <2>11, <2>13, <2>14, <2>15, <2>16, <2>17, <2>18, <2>19, <2>20, CallTwoStep
  <1>8. \/ Fail /\ Throw(t) /\ Goto(t, "ran")
        \/ /\ IF Uses[f.d] = NULL THEN Goto(t, "ran")
              ELSE Call(t, <<FindOf(Uses[f.d], f.l), Frame("use", Uses[f.d], f.l, NULL)>>, "ran")
           /\ UNCHANGED <<exc, faults>>
    BY <1>0, Zenon DEF RunClinit
  <1>. QED BY <1>6, <1>7, <1>8, Zenon

LEMMA UseStep ==
  ASSUME IInv, NEW t \in Threads, Use(t)
  PROVE  IInv'
  <1>0. PICK f, o : f = Top(t) /\ o = ret[t]
    OBVIOUS
  <1>1. stack[t] # <<>> /\ f.at = "use" /\ f.n = 0
    BY <1>0, AtTop DEF Use
  <1>2. f.at \notin DefAts \cup VerAts \cup Ver2 \cup IniAts \cup Ini2 \cup IfaceAts \cup FindAts \cup {"caller"} /\ Grip(f) = {}
    BY <1>1 DEF DefAts, VerAts, Ver2, IniAts, Ini2, IfaceAts, FindAts, Grip
  <1>3. TopOK(t, f) /\ f \in FrameRec /\ waiting[t] = NULL /\ f.d \in Descs /\ f.l \in Loaders /\ FrameOK(t, f)
    BY <1>0, <1>1, TopFacts
  <1>4. UNCHANGED <<cls, table, ret, exc, waiting, bounds, aborted, denied, ran>>
    BY DEF Use
  <1>5. Others(t) /\ exc'[t] = exc[t] /\ waiting'[t] = NULL
    BY <1>3, <1>4, UnchangedOthers DEF IInv
  <1>6. CASE o = NULL /\ Return(t) /\ UNCHANGED given
    <2>1. exc[t]
      BY <1>0, <1>1, <1>3, <1>6 DEF TopOK
    <2>2. Still
      BY <1>4, <1>6, StillFacts DEF IInv, bounds, history
    <2>3. PICK h : h = Fr(t, Depth(t) - 1)
      OBVIOUS
    <2>4. LinkOK(h, f) /\ h.n = 0 /\ h.at \in Handlers
      BY <1>0, <1>1, <1>2, <2>3, CallerFacts
    <2>5. h.at \in {"ran", "caller"}
      BY <1>1, <1>2, <2>4 DEF LinkOK, Handlers
    <2>6. TopOK(t, h)'
      BY <1>5, <2>1, <2>4, <2>5 DEF TopOK
    <2>. QED BY <1>0, <1>1, <1>2, <1>5, <1>6, <2>2, <2>3, <2>6, PureReturn
  <1>7. CASE o # NULL /\ Become(t, Of("init", o)) /\ given' = [given EXCEPT ![f.l][f.d] = @ \cup {o}]
    <2>1. Good(o) /\ o.desc = f.d /\ ~ exc[t] /\ o = table[f.l][f.d]
      BY <1>0, <1>1, <1>3, <1>7 DEF TopOK
    <2>2. PICK g : g = Of("init", o) /\ Become(t, g)
      BY <1>7
    <2>3. /\ g \in FrameRec /\ g.at = "init" /\ g.d = f.d /\ g.k = o /\ g.n = 0 /\ FrameOK(t, g) /\ Grip(g) = {}
          /\ g.at \notin DefAts \cup VerAts \cup Ver2 \cup Ini2 \cup {"caller"} /\ g.at \notin Handlers \cup IfaceAts
      <3>1. "init" \in {"init", "iface"} /\ "init" # "iface"
        OBVIOUS
      <3>. QED BY <2>1, <2>2, <3>1, SubFrame
    <2>4. stack' \in [Threads -> Seq(FrameRec)]
      BY <1>1, <2>2, <2>3, BecomeFr DEF IInv, Rewrites
    <2>5. /\ given' \in [Loaders -> [Descs -> SUBSET DOMAIN cls]] /\ given'[f.l][f.d] = given[f.l][f.d] \cup {o}
          /\ \A l \in Loaders, d \in Descs : l # f.l \/ d # f.d => given'[l][d] = given[l][d]
      BY <1>3, <1>7, <2>1 DEF IInv, Types, Good
    <2>6. Types'
      BY <1>4, <1>5, <2>4, <2>5 DEF IInv, Types, Others, bounds
    <2>7. Frozen
      <3>1. faults' <= faults /\ spurious' <= spurious
        BY <1>4, ConstantsAssumption DEF IInv, Types, bounds
      <3>. QED BY <1>4, <3>1 DEF Frozen
    <2>8. Grows
      BY <2>6, <2>7, FrozenGrows DEF IInv
    <2>9. Objects'
      <3>1. ASSUME NEW x \in DOMAIN cls PROVE ObjectOK(x)'
        BY <1>4, <2>6, <2>8, <3>1, ObjectStable DEF IInv, Kept
      <3>. QED BY <1>4, <3>1 DEF Objects
    <2>10. ASSUME NEW l \in Loaders, NEW d \in Descs PROVE TableOK(l, d)'
      <3>1. CASE l # f.l \/ d # f.d
        BY <1>4, <2>5, <2>6, <2>8, <3>1, TableStable DEF IInv
      <3>2. CASE l = f.l /\ d = f.d
        <4>1. TableOK(l, d)
          BY DEF IInv, Tables
        <4>. QED BY <1>4, <2>1, <2>5, <3>2, <4>1 DEF TableOK, Status, Good
      <3>. QED BY <3>1, <3>2
    <2>11. Ctx(t) /\ NoneInitializes
      BY <1>4, <1>5, <2>6, <2>7, <2>9, <2>10, FrozenCtx DEF Tables, Others
    <2>12. FrameOK(t, g)'
      <3>1. g.at \notin {"supers", "clinit"}
        BY <2>3
      <3>2. Own(t, g)
        BY <2>3, <3>1 DEF Own
      <3>. QED BY <2>3, <2>8, <3>2, FrameStable DEF IInv
    <2>13. TopOK(t, g)'
      <3>1. g.at # "woken"
        BY <2>3
      <3>. QED BY <1>5, <2>1, <2>3, <3>1, PlainTop
    <2>14. Kin(f, g) /\ Alone(f, g)
      <3>1. g.at \in IniAts
        BY <2>3 DEF IniAts
      <3>. QED BY <1>1, <1>2, <1>4, <2>1, <2>3, <3>1, FreeAlone DEF Kin
    <2>15. Mon(t, Grip(f), Grip(g))
      BY <1>2, <1>4, <2>3 DEF Mon
    <2>. QED BY <1>0, <1>1, <1>2, <2>2, <2>3, <2>11, <2>12, <2>13, <2>14, <2>15, BecomeStep DEF NoneInitializes
  <1>. QED BY <1>0, <1>6, <1>7, Zenon DEF Use

LEMMA FinishStep ==
  ASSUME IInv, NEW t \in Threads, Finish(t)
  PROVE  IInv'
  <1>0. PICK f : f = Top(t)
    OBVIOUS
  <1>1. stack[t] # <<>> /\ f.at = "caller" /\ f.n = 0
    BY <1>0, AtTop DEF Finish
  <1>2. Depth(t) \in Nat /\ Depth(t) > 0 /\ f = Fr(t, Depth(t)) /\ waiting[t] = NULL
    BY <1>0, <1>1, TopFacts
  <1>3. Depth(t) = 1
    <2>1. ASSUME Depth(t) > 1 PROVE FALSE
      <3>1. 1 \in 1 .. Depth(t) - 1
        BY <1>2, <2>1
      <3>2. BelowOK(Fr(t, 1), Fr(t, Depth(t)))
        BY <1>2, <3>1, BelowTop DEF IInv
      <3>. QED BY <1>1, <1>2, <3>2 DEF BelowOK
    <2>. QED BY <1>2, <2>1
  <1>4. Return(t) /\ exc' = [exc EXCEPT ![t] = FALSE] /\ UNCHANGED <<cls, table, ret, waiting, bounds, aborted, history>>
    BY DEF Finish
  <1>5. PICK D \in Nat : Rewrites(t, D) /\ Depth(t)' = D - 1
    BY <1>1, <1>4, ReturnFr DEF IInv
  <1>6. D = 1 /\ Depth(t)' = 0 /\ stack' \in [Threads -> Seq(FrameRec)] /\ \A u \in Threads : u # t => stack'[u] = stack[u]
    BY <1>3, <1>5 DEF Rewrites
  <1>7. Still /\ DOMAIN cls \subseteq DOMAIN cls'
    BY <1>4, StillFacts DEF IInv, bounds
  <1>8. Others(t) /\ ~ exc'[t]
    <2>1. NULL \in DOMAIN cls' \cup {NULL} /\ FALSE \in BOOLEAN
      OBVIOUS
    <2>. QED BY <1>4, <1>7, <2>1, OthersFacts DEF IInv
  <1>9. Types' /\ Quiet /\ Ctx(t)
    BY <1>6, <1>7, <1>8, StillCtx
  <1>10. StackOK(t)'
    <2>1. /\ \A b \in D .. Depth(t)' : FrameOK(t, Fr(t, b))' /\ (b > 1 => LinkOK(Fr(t, b - 1), Fr(t, b))')
          /\ \A b, c \in 1 .. Depth(t)' : c >= D /\ b < c => BelowOK(Fr(t, b), Fr(t, c))'
      BY <1>6
    <2>2. Grows /\ (\A x : Lower(t, x) => Own(t, x)) /\ ~ (Depth(t)' > 0) /\ waiting'[t] = NULL
      BY <1>2, <1>4, <1>6, <1>9 DEF Ctx
    <2>. QED BY <1>5, <1>6, <1>8, <2>1, <2>2, OwnStack DEF IInv
  <1>11. Fresh(t, D)
    BY <1>6 DEF Fresh
  <1>12. Monitors'
    <2>1. Grip(f) = {} /\ Mon(t, {}, {})
      BY <1>1, <1>4 DEF Grip, DefAts, Mon
    <2>2. ~ (Depth(t)' >= D) /\ f = Fr(t, D)
      BY <1>2, <1>3, <1>6
    <2>. QED BY <1>1, <1>5, <1>7, <1>9, <1>11, <2>1, <2>2, MonitorStep DEF IInv
  <1>13. Verifiers'
    <2>1. ~ (Depth(t)' >= D)
      BY <1>6
    <2>. QED BY <1>5, <1>11, <2>1, VerifierStep DEF IInv
  <1>14. Initializers'
    <2>1. f.at \notin Ini2 /\ f = Fr(t, D)
      BY <1>1, <1>2, <1>3, <1>6 DEF Ini2
    <2>2. Ini(t, D, f)
      BY <1>4, <2>1 DEF Ini, Status
    <2>. QED BY <1>5, <2>1, <2>2, InitializerStep DEF IInv
  <1>15. Orders'
    <2>1. f = Fr(t, D) /\ f.at \notin Ini2 /\ ~ (Depth(t)' >= D) /\ ~ (D > 1)
      BY <1>1, <1>2, <1>3, <1>6 DEF Ini2
    <2>2. \A u \in Threads : u # t => exc'[u] = exc[u]
      BY <1>8 DEF Others
    <2>3. Grows
      BY <1>9 DEF Ctx
    <2>. QED BY <1>5, <1>9, <1>11, <2>1, <2>2, <2>3, OrderStep DEF IInv
  <1>. QED BY <1>6, <1>9, <1>10, <1>12, <1>13, <1>14, <1>15, Assemble

LEMMA BeginStep ==
  ASSUME IInv, NEW t \in Threads, NEW d \in Descs, NEW l \in Loaders, Begin(t, d, l)
  PROVE  IInv'
  <1>1. PICK u, v, w : u = Frame("find", d, l, NULL) /\ v = Frame("use", d, l, NULL) /\ w = Frame("caller", d, l, NULL)
    OBVIOUS
  <1>2. /\ stack[t] = <<>> /\ stack' = [stack EXCEPT ![t] = <<u, v, w>>]
        /\ UNCHANGED <<cls, table, ret, exc, waiting, bounds, aborted, history>>
    BY <1>1 DEF Begin, FindOf
  <1>3. {"find", "use", "caller"} \subseteq Ats
    BY DEF Ats, FindAts
  <1>4. /\ u \in FrameRec /\ u.at = "find" /\ u.d = d /\ u.l = l /\ u.n = 0
        /\ v \in FrameRec /\ v.at = "use" /\ v.d = d /\ v.l = l /\ v.n = 0
        /\ w \in FrameRec /\ w.at = "caller" /\ w.d = d /\ w.l = l /\ w.n = 0
    BY <1>1, <1>3, NewFrame
  <1>5. /\ <<u, v, w>> \in Seq(FrameRec) /\ Len(<<u, v, w>>) = 3
        /\ <<u, v, w>>[1] = u /\ <<u, v, w>>[2] = v /\ <<u, v, w>>[3] = w
    BY <1>4
  <1>6. stack' \in [Threads -> Seq(FrameRec)] /\ stack'[t] = <<u, v, w>> /\ \A x \in Threads : x # t => stack'[x] = stack[x]
    BY <1>2, <1>5 DEF IInv, Types
  <1>7. Depth(t) = 0 /\ Depth(t)' = 3 /\ Fr(t, 1)' = w /\ Fr(t, 2)' = v /\ Fr(t, 3)' = u
    BY <1>2, <1>5, <1>6 DEF Depth, Fr
  <1>8. Still /\ DOMAIN cls \subseteq DOMAIN cls'
    BY <1>2, StillFacts DEF IInv, bounds
  <1>9. Others(t) /\ exc'[t] = exc[t] /\ waiting'[t] = waiting[t]
    BY <1>2, <1>8, UnchangedOthers DEF IInv
  <1>10. Types' /\ Quiet /\ Ctx(t) /\ Grows
    BY <1>6, <1>8, <1>9, StillCtx DEF Ctx
  <1>11. ~ exc[t] /\ waiting[t] = NULL
    BY <1>7 DEF IInv, Stacks, StackOK
  <1>12. /\ FrameOK(t, u)' /\ Grip(u) = {} /\ u.at \notin DefAts \cup VerAts \cup Ver2 \cup Ini2 \cup IfaceAts
         /\ FrameOK(t, v)' /\ Grip(v) = {} /\ v.at \notin DefAts \cup VerAts \cup Ver2 \cup Ini2 \cup IfaceAts
         /\ FrameOK(t, w)' /\ Grip(w) = {} /\ w.at \notin DefAts \cup VerAts \cup Ver2 \cup Ini2 \cup IfaceAts
    BY <1>4, <1>10, BareFrame
  <1>13. LinkOK(w, v)' /\ LinkOK(v, u)'
    BY <1>4 DEF LinkOK, Handlers, FindAts
  <1>14. BelowOK(w, v)' /\ BelowOK(w, u)' /\ BelowOK(v, u)'
    <2>1. d \in Behind[d]
      BY BehindFacts
    <2>. QED BY <1>4, <1>12, <2>1 DEF BelowOK
  <1>15. TopOK(t, u)'
    BY <1>4, <1>9, <1>11, PlainTop DEF Handlers
  <1>16. StackOK(t)'
    <2>1. \A b \in 1 .. 3 : b = 1 \/ b = 2 \/ b = 3
      OBVIOUS
    <2>2. ASSUME NEW b \in 1 .. 3 PROVE FrameOK(t, Fr(t, b))'
      BY <1>7, <1>12, <2>1, <2>2
    <2>3. ASSUME NEW b \in 1 .. 3, b > 1 PROVE LinkOK(Fr(t, b - 1), Fr(t, b))'
      <3>1. CASE b = 2
        BY <1>7, <1>13, <3>1
      <3>2. CASE b = 3
        BY <1>7, <1>13, <3>2
      <3>. QED BY <2>1, <2>3, <3>1, <3>2
    <2>4. ASSUME NEW b \in 1 .. 3, NEW c \in 1 .. 3, b < c PROVE BelowOK(Fr(t, b), Fr(t, c))'
      <3>1. (b = 1 /\ c = 2) \/ (b = 1 /\ c = 3) \/ (b = 2 /\ c = 3)
        BY <2>4
      <3>. QED BY <1>7, <1>14, <3>1
    <2>. QED BY <1>4, <1>7, <1>15, <2>2, <2>3, <2>4 DEF StackOK
  <1>17. \A b \in 1 .. 3 : Grip(Fr(t, b)') = {} /\ Fr(t, b)'.n = 0 /\ Fr(t, b)'.at \notin Ver2 \cup Ini2
    <2>1. \A b \in 1 .. 3 : b = 1 \/ b = 2 \/ b = 3
      OBVIOUS
    <2>. QED BY <1>4, <1>7, <1>12, <2>1
  <1>18. Monitors'
    <2>1. ASSUME NEW x \in Threads, NEW o \in DOMAIN cls' PROVE MonitorOK(x, o)'
      <3>1. CASE x # t
        BY <1>2, <1>6, <2>1, <3>1, MonitorOther DEF IInv
      <3>2. CASE x = t
        <4>1. cls[o].owner # t
          <5>1. MonitorOK(t, o)
            BY <1>2, <2>1 DEF IInv, Monitors
          <5>2. Held(t, o) = {} /\ ~ Waits(t, o)
            BY <1>7 DEF Held, Waits
          <5>. QED BY <5>1, <5>2 DEF MonitorOK
        <4>2. Held(t, o)' = {}
          BY <1>7, <1>17 DEF Held
        <4>3. ~ Waits(t, o)'
          BY <1>4, <1>7 DEF Waits
        <4>. QED BY <1>2, <3>2, <4>1, <4>2, <4>3 DEF MonitorOK
      <3>. QED BY <3>1, <3>2
    <2>2. \A o \in DOMAIN cls' : cls'[o].count = 0 <=> cls'[o].owner = NULL
      BY <1>2 DEF IInv, Monitors
    <2>. QED BY <2>1, <2>2 DEF Monitors
  <1>19. \A x \in Threads : x # t => Depth(x)' = Depth(x) /\ \A b : Fr(x, b)' = Fr(x, b)
    BY <1>6 DEF Depth, Fr
  <1>20. Verifiers'
    <2>1. ASSUME NEW x \in Threads, NEW y \in Threads, x # y, NEW b \in 1 .. Depth(x)', NEW c \in 1 .. Depth(y)',
                 Fr(x, b)'.at \in Ver2, Fr(y, c)'.at \in Ver2
          PROVE  Fr(x, b)'.k # Fr(y, c)'.k
      <3>1. x # t /\ y # t
        BY <1>7, <1>17, <2>1
      <3>. QED BY <1>19, <2>1, <3>1 DEF IInv, Verifiers
    <2>. QED BY <2>1 DEF Verifiers
  <1>21. Initializers'
    <2>1. ASSUME NEW o \in DOMAIN cls', Status(o)' = "Initializing"
          PROVE  /\ cls'[o].tid \in Threads
                 /\ \E b \in 1 .. Depth(cls[o].tid)' : Fr(cls[o].tid, b)'.at \in Ini2 /\ Fr(cls[o].tid, b)'.k = o
      <3>1. PICK x : x = cls[o].tid /\ x = cls'[o].tid
        BY <1>2
      <3>2. x \in Threads /\ \E b \in 1 .. Depth(x) : Fr(x, b).at \in Ini2 /\ Fr(x, b).k = o
        BY <1>2, <2>1, <3>1 DEF IInv, Initializers, Status
      <3>3. x # t
        BY <1>7, <3>2
      <3>4. Depth(cls[o].tid)' = Depth(x)' /\ \A b : Fr(cls[o].tid, b)' = Fr(x, b)'
        BY <3>1 DEF Depth, Fr
      <3>. QED BY <1>19, <3>1, <3>2, <3>3, <3>4
    <2>. QED BY <2>1 DEF Initializers
  <1>22. Orders'
    <2>1. ASSUME NEW x \in Threads, NEW b \in 1 .. Depth(x)' PROVE DoneWith(x, b, Fr(x, b))'
      <3>1. CASE x = t
        <4>1. Fr(t, b)'.at \notin Ini2
          BY <1>7, <1>17, <2>1, <3>1
        <4>. QED BY <3>1, <4>1 DEF DoneWith, Ini2
      <3>2. CASE x # t
        <4>1. Depth(x)' = Depth(x) /\ \A c : Fr(x, c)' = Fr(x, c)
          BY <1>19, <3>2
        <4>2. DoneWith(x, b, Fr(x, b))
          BY <2>1, <4>1 DEF IInv, Orders
        <4>. QED BY <1>2, <4>1, <4>2 DEF DoneWith, Within, Ups, Status
      <3>. QED BY <3>1, <3>2
    <2>. QED BY <2>1 DEF Orders
  <1>. QED BY <1>6, <1>10, <1>16, <1>18, <1>20, <1>21, <1>22, Assemble

-----------------------------------------------------------------------------
(* THE INVARIANT *)

LEMMA Initial == Init => IInv
  <1>. SUFFICES ASSUME Init PROVE IInv
    OBVIOUS
  <1>1. DOMAIN cls = {} /\ cls \in [DOMAIN cls -> ClassRec]
    <2>1. <<>> \in Seq(ClassRec) /\ Len(<<>>) = 0
      OBVIOUS
    <2>2. <<>> \in [1 .. 0 -> ClassRec] /\ DOMAIN <<>> = 1 .. 0
      BY <2>1, LenProperties
    <2>3. 1 .. 0 = {}
      OBVIOUS
    <2>. QED BY <2>2, <2>3 DEF Init
  <1>2. Types
    <2>1. stack \in [Threads -> Seq(FrameRec)]
      <3>1. <<>> \in Seq(FrameRec)
        OBVIOUS
      <3>. QED BY <3>1 DEF Init
    <2>2. IsFiniteSet(DOMAIN cls)
      BY <1>1, FS_EmptySet
    <2>3. faults \in 0 .. MaxFaults /\ spurious \in 0 .. MaxSpurious
      BY ConstantsAssumption DEF Init
    <2>4. /\ ret \in [Threads -> DOMAIN cls \cup {NULL}] /\ exc \in [Threads -> BOOLEAN]
          /\ waiting \in [Threads -> DOMAIN cls \cup {NULL}]
      BY DEF Init
    <2>5. /\ table \in [Loaders -> [Descs -> DOMAIN cls \cup {NULL}]]
          /\ given \in [Loaders -> [Descs -> SUBSET DOMAIN cls]] /\ ran \in [Loaders -> [Descs -> Nat]]
      BY DEF Init
    <2>. QED BY <1>1, <2>1, <2>2, <2>3, <2>4, <2>5 DEF Types
  <1>3. Tables
    BY DEF Init, Tables, TableOK
  <1>4. \A t \in Threads : Depth(t) = 0 /\ ~ exc[t] /\ waiting[t] = NULL
    BY DEF Init, Depth
  <1>5. Stacks
    BY <1>4 DEF Stacks, StackOK
  <1>6. Objects /\ Monitors /\ Verifiers /\ Initializers /\ Orders
    BY <1>1, <1>4 DEF Objects, Monitors, Verifiers, Initializers, Orders
  <1>7. Aborts
    <2>1. aborted = NULL /\ faults = MaxFaults
      BY DEF Init
    <2>. QED BY <2>1, NullAssumption DEF Aborts
  <1>. QED BY <1>2, <1>3, <1>5, <1>6, <1>7 DEF IInv

LEMMA ThreadStep ==
  ASSUME IInv, NEW t \in Threads, Step(t)
  PROVE  IInv'
  <1>1. CASE FindClass(t) \/ FindClassInBaseDexClassLoader(t) \/ LoadClassInJava(t) \/ Found(t) \/ CreateArrayClass(t)
    BY <1>1, FindClassStep, FindClassInBaseDexClassLoaderStep, LoadClassInJavaStep, FoundStep, CreateArrayClassStep, Zenon
  <1>2. CASE DefineClass(t) \/ LoadClass(t) \/ LoadSuperAndInterfaces(t) \/ LinkClass(t) \/ EnsureResolved(t)
    BY <1>2, DefineClassStep, LoadClassStep, LoadSuperAndInterfacesStep, LinkClassStep, EnsureResolvedStep, Zenon
  <1>3. CASE VerifyClass(t) \/ AttemptSupertypeVerification(t) \/ Verified(t)
    BY <1>3, VerifyClassStep, AttemptSupertypeVerificationStep, VerifiedStep, Zenon
  <1>4. CASE EnsureInitialized(t) \/ InitializeClass(t) \/ WaitForInitializeClass(t)
    BY <1>4, EnsureInitializedStep, InitializeClassStep, WaitForInitializeClassStep, Zenon
  <1>5. CASE InitializeSupers(t) \/ InitializeDefaultInterfaceRecursive(t) \/ RunClinit(t) \/ FinishInitialize(t)
    BY <1>5, InitializeSupersStep, InitializeDefaultInterfaceRecursiveStep, RunClinitStep, FinishInitializeStep, Zenon
  <1>6. CASE Use(t) \/ Finish(t) \/ Resume(t)
    BY <1>6, UseStep, FinishStep, ResumeStep, Zenon
  <1>. QED BY <1>1, <1>2, <1>3, <1>4, <1>5, <1>6, Zenon DEF Step

LEMMA Inductive == Spec => []IInv
  <1>1. ASSUME IInv, [Next]_vars PROVE IInv'
    <2>1. CASE UNCHANGED vars
      <3>1. UNCHANGED <<cls, table, stack, ret, exc, waiting, faults, spurious, aborted, given, denied, ran>>
        BY <2>1 DEF vars, threads, bounds, history
      <3>2. Aborts'
        BY <1>1, <3>1 DEF IInv, Aborts, Status
      <3>. QED BY <1>1, <3>1, <3>2, AbortStep
    <2>2. ASSUME NEW t \in Threads, Step(t) PROVE IInv'
      BY <1>1, <2>2, ThreadStep
    <2>3. ASSUME NEW t \in Threads, Spurious(t) PROVE IInv'
      BY <1>1, <2>3, SpuriousStep
    <2>4. ASSUME NEW t \in Threads, NEW d \in Descs, NEW l \in Loaders, Begin(t, d, l) PROVE IInv'
      BY <1>1, <2>4, BeginStep
    <2>. QED BY <1>1, <2>1, <2>2, <2>3, <2>4, Zenon DEF Next
  <1>. QED BY <1>1, Initial, PTL DEF Spec

-----------------------------------------------------------------------------
(* The theorems *)

(* A thread enters the monitor of a class at most three times: where it    *)
(* defines the class, where it is about to initialize it, and in the       *)
(* innermost frame.                                                        *)
LEMMA ThriceHeld ==
  ASSUME IInv, NEW t \in Threads, NEW o
  PROVE  Cardinality(Held(t, o)) \in 0 .. 3
  <1>1. PICK D : D = Depth(t)
    OBVIOUS
  <1>2. D \in Nat /\ Held(t, o) \subseteq 1 .. D
    BY <1>1, InStackFacts DEF IInv, Held
  <1>3. CASE Held(t, o) = {}
    BY <1>3, FS_EmptySet
  <1>4. CASE Held(t, o) # {}
    <2>1. D > 0
      BY <1>2, <1>4
    <2>2. ASSUME NEW b \in Held(t, o)
          PROVE  b \in 1 .. D /\ FrameOK(t, Fr(t, b)) /\ (b # D => Fr(t, b).at \in {"resolved", "verified"})
      <3>1. b \in 1 .. D /\ o \in Grip(Fr(t, b)) /\ (b # D => b \in 1 .. D - 1)
        BY <1>1, <1>2, <2>2 DEF Held
      <3>2. FrameOK(t, Fr(t, b)) /\ (b # D => Fr(t, b).at \in Handlers)
        BY <1>1, <1>2, <2>1, <3>1, BelowTop DEF IInv
      <3>3. Fr(t, b).at \in DefAts \cup {"temp", "verifying?", "woken", "verified", "initializing?"}
        BY <3>1 DEF Grip, DefAts
      <3>. QED BY <3>1, <3>2, <3>3 DEF DefAts, Handlers
    <2>3. ASSUME NEW b \in Held(t, o), NEW c \in Held(t, o), b # D, c # D, Fr(t, b).at = Fr(t, c).at, b < c PROVE FALSE
      <3>1. /\ BelowOK(Fr(t, b), Fr(t, c)) /\ Fr(t, b).at \in {"resolved", "verified"}
            /\ FrameOK(t, Fr(t, b)) /\ FrameOK(t, Fr(t, c)) /\ o \in Grip(Fr(t, b)) /\ o \in Grip(Fr(t, c))
        BY <1>1, <2>2, <2>3 DEF IInv, Stacks, StackOK, Held
      <3>2. CASE Fr(t, b).at = "verified"
        BY <2>3, <3>1, <3>2 DEF BelowOK, VerAts, Ver2
      <3>3. CASE Fr(t, b).at = "resolved"
        <4>1. Fr(t, b).k # Fr(t, c).k
          BY <2>3, <3>1, <3>3 DEF BelowOK, DefAts
        <4>2. Grip(Fr(t, b)) = {Fr(t, b).k} /\ Grip(Fr(t, c)) = {Fr(t, c).k}
          BY <2>3, <3>3 DEF Grip, DefAts
        <4>. QED BY <3>1, <4>1, <4>2
      <3>. QED BY <3>1, <3>2, <3>3
    <2>4. ASSUME NEW at PROVE \E x : \A b \in Held(t, o) : b # D /\ Fr(t, b).at = at => b = x
      <3>1. \A b, c \in Held(t, o) : b # D /\ c # D /\ Fr(t, b).at = at /\ Fr(t, c).at = at => b = c
        <4>1. \A b, c \in Held(t, o) : b = c \/ b < c \/ c < b
          BY <1>2
        <4>. QED BY <2>3, <4>1
      <3>. QED BY <3>1
    <2>5. PICK x : \A b \in Held(t, o) : b # D /\ Fr(t, b).at = "resolved" => b = x
      BY <2>4
    <2>6. PICK y : \A b \in Held(t, o) : b # D /\ Fr(t, b).at = "verified" => b = y
      BY <2>4
    <2>7. Held(t, o) \subseteq ({D} \cup {x}) \cup {y}
      BY <2>2, <2>5, <2>6
    <2>8. IsFiniteSet({D}) /\ Cardinality({D}) = 1
      BY FS_Singleton
    <2>9. IsFiniteSet({D} \cup {x}) /\ Cardinality({D} \cup {x}) \in 1 .. 2
      BY <2>8, FS_AddElement
    <2>10. IsFiniteSet(({D} \cup {x}) \cup {y}) /\ Cardinality(({D} \cup {x}) \cup {y}) \in 1 .. 3
      BY <2>9, FS_AddElement
    <2>11. Cardinality(Held(t, o)) <= Cardinality(({D} \cup {x}) \cup {y})
      BY <2>7, <2>10, FS_Subset
    <2>12. Cardinality(Held(t, o)) \in Nat
      BY <1>2, HeldFinite
    <2>. QED BY <2>10, <2>11, <2>12
  <1>. QED BY <1>3, <1>4

(* A monitor has an owner exactly while it is entered, never more than     *)
(* three times; a thread that has left the class linker holds none and     *)
(* leaves no exception pending.                                            *)
THEOREM TypeCorrect == Spec => []TypeOK
  <1>1. ASSUME IInv PROVE TypeOK
    <2>1. ASSUME NEW o \in DOMAIN cls
          PROVE  /\ cls[o].status \in Statuses /\ cls[o].tid \in Threads \cup {NULL}
                 /\ ToSet(cls[o].up) \cup cls[o].ift \subseteq DOMAIN cls
                 /\ cls[o].owner \in Threads \cup {NULL} /\ cls[o].count \in 0 .. 3
                 /\ cls[o].count = 0 <=> cls[o].owner = NULL
                 /\ cls[o].done \in BOOLEAN
      <3>1. cls[o] \in ClassRec
        BY <1>1 DEF IInv, Types
      <3>2. /\ cls[o].status \in Statuses /\ cls[o].tid \in Threads \cup {NULL}
            /\ cls[o].owner \in Threads \cup {NULL} /\ cls[o].done \in BOOLEAN
        BY <3>1 DEF ClassRec
      <3>3. ToSet(cls[o].up) \cup cls[o].ift \subseteq DOMAIN cls
        BY <1>1 DEF IInv, Objects, ObjectOK, UpOK
      <3>4. cls[o].count = 0 <=> cls[o].owner = NULL
        BY <1>1 DEF IInv, Monitors
      <3>5. ASSUME NEW t \in Threads, cls[o].owner = t PROVE cls[o].count \in 0 .. 3
        <4>1. MonitorOK(t, o)
          BY <1>1, <3>5 DEF IInv, Monitors
        <4>2. cls[o].count = Cardinality(Held(t, o))
          BY <3>5, <4>1 DEF MonitorOK
        <4>. QED BY <1>1, <4>2, ThriceHeld
      <3>6. cls[o].count \in 0 .. 3
        BY <3>2, <3>4, <3>5
      <3>. QED BY <3>2, <3>3, <3>4, <3>6
    <2>2. \A l \in Loaders, d \in Descs : table[l][d] \in DOMAIN cls \cup {NULL}
      BY <1>1 DEF IInv, Types
    <2>3. ASSUME NEW t \in Threads
          PROVE  /\ ret[t] \in DOMAIN cls \cup {NULL} /\ exc[t] \in BOOLEAN
                 /\ waiting[t] \in DOMAIN cls \cup {NULL}
                 /\ stack[t] = <<>> => ~ exc[t] /\ \A o \in DOMAIN cls : cls[o].owner # t
      <3>1. ret[t] \in DOMAIN cls \cup {NULL} /\ exc[t] \in BOOLEAN /\ waiting[t] \in DOMAIN cls \cup {NULL}
        BY <1>1 DEF IInv, Types
      <3>2. ASSUME stack[t] = <<>> PROVE ~ exc[t] /\ \A o \in DOMAIN cls : cls[o].owner # t
        <4>1. Depth(t) = 0
          BY <3>2 DEF Depth
        <4>2. ~ exc[t]
          BY <1>1, <4>1 DEF IInv, Stacks, StackOK
        <4>3. ASSUME NEW o \in DOMAIN cls PROVE cls[o].owner # t
          <5>1. MonitorOK(t, o)
            BY <1>1 DEF IInv, Monitors
          <5>2. Held(t, o) = {} /\ ~ Waits(t, o)
            BY <4>1 DEF Held, Waits
          <5>. QED BY <5>1, <5>2 DEF MonitorOK
        <4>. QED BY <4>2, <4>3
      <3>. QED BY <3>1, <3>2
    <2>4. DOMAIN cls \subseteq Classes /\ faults \in 0 .. MaxFaults /\ spurious \in 0 .. MaxSpurious
      BY <1>1 DEF IInv, Types
    <2>. QED BY <2>1, <2>2, <2>3, <2>4 DEF TypeOK
  <1>. QED BY <1>1, Inductive, PTL

(* FindClass of a descriptor with a loader returns one class, whoever      *)
(* defined it, and never one that LinkClass is about to replace.           *)
THEOREM FindsOneClass == Spec => []OneClass
  <1>1. ASSUME IInv PROVE OneClass
    <2>1. ASSUME NEW l \in Loaders, NEW d \in Descs, NEW o \in given[l][d]
          PROVE  o = table[l][d] /\ IsResolved(o) /\ ~ IsTemp(o)
      <3>1. TableOK(l, d)
        BY <1>1 DEF IInv, Tables
      <3>2. o = table[l][d] /\ Good(o)
        BY <2>1, <3>1 DEF TableOK
      <3>. QED BY <3>2 DEF Good, Res, IsResolved
    <2>. QED BY <2>1 DEF OneClass
  <1>. QED BY <1>1, Inductive, PTL

(* InitializeClass runs <clinit> of a class at most once. *)
THEOREM ClinitRunsOnce == Spec => []ClinitOnce
  <1>1. IInv => ClinitOnce
    BY DEF IInv, Tables, TableOK, ClinitOnce
  <1>. QED BY <1>1, Inductive, PTL

(* While <clinit> of a class runs, its superclass is initialized, or this   *)
(* runs in the <clinit> of the superclass; its interfaces with default     *)
(* methods have been initialized, or need themselves and have begun.       *)
(* EnsureInitialized returns without an exception only for a class that    *)
(* may be used.                                                            *)
THEOREM SupertypesFirst == Spec => []InitSeen
  <1>1. ASSUME IInv PROVE InitSeen
    <2>1. ASSUME NEW t \in Threads, NEW j \in DOMAIN stack[t], NEW f, f = stack[t][j]
          PROVE  /\ f.at = "ran" /\ f.d \notin Interfaces =>
                      \A p \in ToSet(cls[f.k].up) :
                        IF p.desc \in Interfaces THEN \A q \in cls[p].ift \cup {p} : q.desc \in HasDefault => Begun(q)
                        ELSE Initialized(t, p)
                 /\ f.at = "caller" /\ j = 1 /\ ~ exc[t] => Initialized(t, table[f.l][f.d])
      <3>1. stack[t] \in Seq(FrameRec)
        BY <1>1 DEF IInv, Types
      <3>2. PICK b \in 1 .. Depth(t) : f = Fr(t, b) /\ (j = 1 => b = Depth(t)) /\ Depth(t) \in Nat /\ Depth(t) > 0
        <4>1. Len(stack[t]) \in Nat /\ j \in 1 .. Len(stack[t])
          BY <2>1, <3>1
        <4>2. Len(stack[t]) + 1 - j \in 1 .. Len(stack[t]) /\ Len(stack[t]) + 1 - (Len(stack[t]) + 1 - j) = j
          BY <4>1
        <4>3. PICK b : b = Len(stack[t]) + 1 - j
          OBVIOUS
        <4>4. Depth(t) = Len(stack[t])
          BY DEF Depth
        <4>5. f = Fr(t, b)
          BY <2>1, <4>2, <4>3 DEF Fr
        <4>6. b \in 1 .. Depth(t) /\ (j = 1 => b = Depth(t)) /\ Depth(t) \in Nat /\ Depth(t) > 0
          BY <4>1, <4>2, <4>3, <4>4
        <4>. QED BY <4>5, <4>6
      <3>3. FrameOK(t, f) /\ (j = 1 => TopOK(t, f))
        BY <1>1, <3>2, InStackFacts DEF IInv
      <3>4. ASSUME f.at = "ran", f.d \notin Interfaces, NEW p \in ToSet(cls[f.k].up)
            PROVE  IF p.desc \in Interfaces THEN \A q \in cls[p].ift \cup {p} : q.desc \in HasDefault => Begun(q)
                   ELSE Initialized(t, p)
        <4>1. f.at \in IniAts /\ f.at \in Ini2 /\ f.at \in OfAts
          BY <3>4 DEF IniAts, Ini2, OfAts
        <4>2. IniFrame(t, f) /\ f.d = f.k.desc
          BY <3>3, <4>1 DEF FrameOK
        <4>3. f.k \in DOMAIN cls /\ Ups(f.k) = cls[f.k].up /\ cls[f.k].up \in Seq(Classes)
          BY <1>1, <3>4, <4>2 DEF IniFrame, Good, Ups, IInv, Types, ClassRec
        <4>4. PICK m \in 1 .. Len(Ups(f.k)) : p = Ups(f.k)[m]
          BY <3>4, <4>3 DEF ToSet
        <4>5. Passed(p)
          BY <3>4, <4>2, <4>4 DEF IniFrame
        <4>6. ASSUME p.desc \notin Interfaces PROVE Initialized(t, p)
          <5>1. Status(p) = "Initialized" \/ Within(t, b, p)
            BY <1>1, <3>2, <3>4, <4>1, <4>4, <4>6 DEF IInv, Orders, DoneWith
          <5>2. ASSUME Within(t, b, p) PROVE Status(p) = "Initializing" /\ cls[p].tid = t
            <6>1. PICK c \in 1 .. b - 1 : Fr(t, c).at \in Ini2 /\ Fr(t, c).k = p
              BY <5>2 DEF Within
            <6>2. c \in 1 .. Depth(t)
              BY <3>2, <6>1
            <6>3. FrameOK(t, Fr(t, c)) /\ Fr(t, c).at \in IniAts
              BY <1>1, <6>1, <6>2, InStackFacts DEF IInv, IniAts
            <6>. QED BY <6>1, <6>3 DEF FrameOK, IniFrame
          <5>. QED BY <5>1, <5>2 DEF Initialized
        <4>. QED BY <4>5, <4>6 DEF Passed, Ready
      <3>5. f.at = "caller" /\ j = 1 /\ ~ exc[t] => Status(table[f.l][f.d]) = "Initialized"
        BY <3>3 DEF TopOK
      <3>. QED BY <3>4, <3>5 DEF Initialized
    <2>. QED BY <2>1 DEF InitSeen
  <1>. QED BY <1>1, Inductive, PTL

(* The second CHECK of VerifyClass: the process ends in the state in which *)
(* it found the superclass erroneous.                                      *)
SuperFailed ==
  aborted = "superclass to be verified at runtime" =>
    \E t \in Threads : At(t, "verifier") /\ \E p \in SuperClass(Top(t).k) : Status(p) = "ErrorResolved"

(* Only VerifyClass has CHECKs that can fail. *)
LEMMA AbortedBy ==
  ASSUME NEW t \in Threads, Step(t), ~ VerifyClass(t), ~ Verified(t)
  PROVE  aborted' = aborted
  <1>1. FindClass(t) \/ FindClassInBaseDexClassLoader(t) \/ LoadClassInJava(t) \/ Found(t) => aborted' = aborted
    BY DEF FindClass, FindClassInBaseDexClassLoader, LoadClassInJava, Found
  <1>2. CreateArrayClass(t) \/ DefineClass(t) \/ LoadClass(t) \/ LoadSuperAndInterfaces(t) => aborted' = aborted
    BY DEF CreateArrayClass, DefineClass, LoadClass, LoadSuperAndInterfaces
  <1>3. LinkClass(t) \/ EnsureResolved(t) \/ AttemptSupertypeVerification(t) \/ EnsureInitialized(t) => aborted' = aborted
    BY DEF LinkClass, EnsureResolved, AttemptSupertypeVerification, EnsureInitialized
  <1>4. InitializeClass(t) \/ WaitForInitializeClass(t) \/ InitializeSupers(t) => aborted' = aborted
    BY DEF InitializeClass, WaitForInitializeClass, InitializeSupers
  <1>5. InitializeDefaultInterfaceRecursive(t) \/ RunClinit(t) \/ FinishInitialize(t) => aborted' = aborted
    BY DEF InitializeDefaultInterfaceRecursive, RunClinit, FinishInitialize
  <1>6. Use(t) \/ Finish(t) \/ Resume(t) => aborted' = aborted
    BY DEF Use, Finish, Resume
  <1>. QED BY <1>1, <1>2, <1>3, <1>4, <1>5, <1>6, Zenon DEF Step

LEMMA SuperFailedHolds == Spec => []SuperFailed
  <1>1. Init => SuperFailed
    <2>1. ASSUME Init PROVE aborted # "superclass to be verified at runtime"
      BY <2>1, NullAssumption, Zenon DEF Init
    <2>. QED BY <2>1, Zenon DEF SuperFailed
  <1>2. ASSUME IInv, SuperFailed, [Next]_vars PROVE SuperFailed'
    <2>1. ASSUME UNCHANGED <<cls, stack, aborted>> PROVE SuperFailed'
      <3>1. \A t : At(t, "verifier")' <=> At(t, "verifier")
        BY <2>1 DEF At, Top
      <3>2. \A t : SuperClass(Top(t).k)' = SuperClass(Top(t).k)
        BY <2>1 DEF SuperClass, Top
      <3>3. \A p : Status(p)' = Status(p)
        BY <2>1 DEF Status
      <3>. QED BY <1>2, <2>1, <3>1, <3>2, <3>3, Zenon DEF SuperFailed
    <2>2. ASSUME aborted = NULL, aborted' = aborted PROVE SuperFailed'
      <3>1. aborted' # "superclass to be verified at runtime"
        BY <2>2, NullAssumption, Zenon
      <3>. QED BY <3>1, Zenon DEF SuperFailed
    <2>3. ASSUME NEW t \in Threads, aborted = NULL, VerifyClass(t) PROVE SuperFailed'
      <3>1. aborted' = aborted \/ aborted' = "illegal verification state transition"
        BY <2>3, Zenon DEF VerifyClass, Abort
      <3>2. "illegal verification state transition" # "superclass to be verified at runtime"
        BY Zenon
      <3>3. CASE aborted' = "illegal verification state transition"
        BY <3>2, <3>3, Zenon DEF SuperFailed
      <3>. QED BY <2>2, <2>3, <3>1, <3>3, Zenon
    <2>4. ASSUME NEW t \in Threads, aborted = NULL, Verified(t) PROVE SuperFailed'
      <3>1. PICK f, k : f = Top(t) /\ k = f.k
        OBVIOUS
      <3>2. At(t, "verifier") /\ stack[t] # <<>> /\ f.at = "verifier" /\ f.n = 0
        BY <2>4, <3>1, AtTop DEF Verified
      <3>3. \/ aborted' = aborted
            \/ UNCHANGED <<cls, stack>> /\ \E p \in SuperClass(k) : ~ IsVerified(p)
        BY <2>4, <3>1, Zenon DEF Verified
      <3>4. CASE UNCHANGED <<cls, stack>> /\ \E p \in SuperClass(k) : ~ IsVerified(p)
        <4>1. PICK p \in SuperClass(k) : ~ IsVerified(p)
          BY <3>4
        <4>2. f.at \in VerAts /\ f.at \in Ver2
          BY <3>2 DEF VerAts, Ver2
        <4>3. VerFrame(f)
          BY <1>2, <3>1, <3>2, <4>2, VerTop DEF FrameOK
        <4>4. Status(p) \in Was
          BY <3>1, <3>2, <4>1, <4>2, <4>3 DEF VerFrame
        <4>5. Status(p) = "ErrorResolved"
          BY <4>1, <4>4 DEF Was, IsVerified
        <4>6. At(t, "verifier")' /\ SuperClass(Top(t).k)' = SuperClass(k) /\ Status(p)' = Status(p)
          BY <3>1, <3>2, <3>4 DEF At, Top, SuperClass, Status
        <4>. QED BY <4>1, <4>5, <4>6, Zenon DEF SuperFailed
      <3>. QED BY <2>2, <2>4, <3>3, <3>4, Zenon
    <2>5. CASE UNCHANGED vars
      BY <2>1, <2>5 DEF vars, threads
    <2>6. ASSUME NEW t \in Threads, Step(t) PROVE SuperFailed'
      <3>1. aborted = NULL
        BY <2>6, Zenon DEF Step
      <3>. QED BY <2>2, <2>3, <2>4, <2>6, <3>1, AbortedBy, Zenon
    <2>7. ASSUME NEW t \in Threads, aborted = NULL, Spurious(t) PROVE SuperFailed'
      BY <2>2, <2>7 DEF Spurious
    <2>8. ASSUME NEW t \in Threads, NEW d \in Descs, NEW l \in Loaders, aborted = NULL, Begin(t, d, l) PROVE SuperFailed'
      BY <2>2, <2>8 DEF Begin
    <2>. QED BY <1>2, <2>5, <2>6, <2>7, <2>8, Zenon DEF Next
  <1>. QED BY <1>1, <1>2, Inductive, PTL DEF Spec

(* A CHECK of VerifyClass fails only after a wake-up that nobody notified, *)
(* or when the superclass of the class in the verifier has failed; a class *)
(* that LinkClass retires becomes the component of an array only after     *)
(* DefineClass failed to allocate a class for its loader and descriptor.   *)
THEOREM ChecksFailAfterFaults == Spec => []FaultsOnly
  <1>1. ASSUME IInv, SuperFailed PROVE FaultsOnly
    <2>1. ASSUME NEW o \in DOMAIN cls, o.desc \in Arrays, NEW c \in ToSet(cls[o].up), Status(c) = "Retired"
          PROVE  <<c.loader, c.desc>> \in denied
      <3>1. ObjectOK(o)
        BY <1>1 DEF IInv, Objects
      <3>2. c \in DOMAIN cls
        BY <2>1, <3>1 DEF ObjectOK, UpOK
      <3>3. StatusOK(c) /\ c.gen \in {"first", "copy"}
        BY <1>1, <3>2 DEF IInv, Objects, ObjectOK, Types, Classes
      <3>4. IsTemp(c)
        BY <2>1, <3>3 DEF StatusOK, Res
      <3>. QED BY <2>1, <3>1, <3>4 DEF ObjectOK, InitOK
    <2>. QED BY <1>1, <2>1, Zenon DEF FaultsOnly, IInv, Aborts, SuperFailed
  <1>. QED BY <1>1, Inductive, SuperFailedHolds, PTL

(* Frame b of thread t is in InitializeClass for class o, past the store   *)
(* of status Initializing.                                                 *)
Initializes(t, b, o) == b \in 1 .. Depth(t) /\ Fr(t, b).at \in Ini2 /\ Fr(t, b).k = o

(* A class that other threads find being initialized has exactly one       *)
(* thread in InitializeClass for it, in one frame.                         *)
OneInitializer ==
  \A o \in DOMAIN cls : Status(o) = "Initializing" =>
    \E t \in Threads : \E b \in 1 .. Depth(t) :
      /\ Initializes(t, b, o)
      /\ \A u \in Threads : \A c \in 1 .. Depth(u) : Initializes(u, c, o) => u = t /\ c = b

(* Nobody waits in WaitForInitializeClass for a class that nobody          *)
(* initializes, and no two frames race to store its final status.          *)
THEOREM HasOneInitializer == Spec => []OneInitializer
  <1>1. ASSUME IInv PROVE OneInitializer
    <2>1. ASSUME NEW o \in DOMAIN cls, Status(o) = "Initializing"
          PROVE  \E t \in Threads : \E b \in 1 .. Depth(t) :
                   /\ Initializes(t, b, o)
                   /\ \A u \in Threads : \A c \in 1 .. Depth(u) : Initializes(u, c, o) => u = t /\ c = b
      <3>1. PICK t \in Threads : t = cls[o].tid
        BY <1>1, <2>1 DEF IInv, Initializers
      <3>2. PICK b \in 1 .. Depth(t) : Fr(t, b).at \in Ini2 /\ Fr(t, b).k = o
        BY <1>1, <2>1, <3>1 DEF IInv, Initializers
      <3>3. ASSUME NEW u \in Threads, NEW c \in 1 .. Depth(u), Initializes(u, c, o) PROVE u = t /\ c = b
        <4>1. PICK f : f = Fr(u, c) /\ f.at \in Ini2 /\ f.k = o
          BY <3>3 DEF Initializes
        <4>2. FrameOK(u, f) /\ f.at \in IniAts
          BY <1>1, <4>1, InStackFacts DEF IInv, IniAts
        <4>3. u = t
          BY <3>1, <4>1, <4>2 DEF FrameOK, IniFrame
        <4>4. ASSUME c < b PROVE FALSE
          <5>1. BelowOK(Fr(t, c), Fr(t, b))
            BY <1>1, <3>2, <4>3, <4>4 DEF IInv, Stacks, StackOK
          <5>. QED BY <3>2, <4>1, <4>3, <5>1 DEF BelowOK
        <4>5. ASSUME b < c PROVE FALSE
          <5>1. BelowOK(Fr(t, b), Fr(t, c))
            BY <1>1, <3>2, <4>3, <4>5 DEF IInv, Stacks, StackOK
          <5>. QED BY <3>2, <4>1, <4>3, <5>1 DEF BelowOK
        <4>6. c < b \/ b < c \/ c = b
          BY <1>1, <3>2, <3>3, InStackFacts DEF IInv
        <4>. QED BY <4>3, <4>4, <4>5, <4>6
      <3>4. Initializes(t, b, o)
        BY <3>2 DEF Initializes
      <3>. QED BY <3>3, <3>4
    <2>. QED BY <2>1 DEF OneInitializer
  <1>. QED BY <1>1, Inductive, PTL

=============================================================================
