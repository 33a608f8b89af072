---------------------------- MODULE ActionsProofs ----------------------------
(***************************************************************************)
(* Proofs about init's action queue and main loop, for every set of rc     *)
(* files, properties and services: the types, that init never sleeps on    *)
(* work or waits for a value that is there, and that no change of a        *)
(* property is missed.                                                     *)
(***************************************************************************)
EXTENDS Actions, TLAPS, SequenceTheorems, FiniteSetTheorems

Elems(s) == {s[i] : i \in 1 .. Len(s)}
AllCmds == Cmds \cup [op : Builtins]
Imports == RcActs \cup {""}

(* The commands of an action are those of rc files, and at least one; the  *)
(* builtin actions keep the one command they were made with.               *)
CmdInv ==
  /\ commands \in [Acts -> Seq(AllCmds)]
  /\ \A a \in Acts : Len(commands[a]) > 0
  /\ \A a \in RcActs : commands[a] \in Seq(Cmds)
  /\ \A b \in Builtins : commands[b] = <<[op |-> b]>>

(* What runs: the actions in run, from command c of the first. *)
RunInv(run, c) ==
  /\ run \in Seq(Acts) /\ c \in Nat
  /\ run = <<>> => c = 0
  /\ run # <<>> => c < Len(commands[run[1]])

(* At most one value is waited for, and the property does not have it. *)
WaitInv ==
  \/ waitprop = {}
  \/ \E n \in Names, v \in Values : waitprop = {<<n, v>>} /\ props[n] # v

(* Trigger t will start the action a if a's conditions still hold then. *)
WillStart(t, a) ==
  /\ t.kind = "property"
  /\ \/ t.name = ""
     \/ t.name \in DOMAIN Conds[a] /\ t.value = props[t.name]

(* An action that is owed a run gets one: from a trigger in the queue q,   *)
(* or because it is in run and has not been started.                       *)
Pending(a, run, c, q) ==
  \/ \E i \in 1 .. Len(q) : WillStart(q[i], a)
  \/ \E i \in 1 .. Len(run) : run[i] = a /\ (i = 1 => c = 0)
OwedInv(run, c, q) ==
  \A a \in owed : /\ a \in Elems(actions) /\ Holds(a, props)
                  /\ enabled => Pending(a, run, c, q)

(* On the way to enabled property triggers: the builtin action that queues *)
(* the enabling one is to come, or runs, and the enabling one does not     *)
(* exist yet; or the enabling one is to come, or runs, and the evaluation  *)
(* of all properties comes after it.                                       *)
EvaluateAll == PropertyTrigger("", "")
EnableInv(run, q) ==
  \/ enabled
  \/ /\ Enabler \notin Elems(actions) /\ Enabler \notin Elems(run)
     /\ \/ Queuer \in Elems(run)
        \/ Queuer \in Elems(actions) /\ BuiltinTrigger(Queuer) \in Elems(q)
  \/ Enabler \in Elems(run) /\ EvaluateAll \in Elems(q)
  \/ /\ Enabler \in Elems(actions)
     /\ \E i, j \in 1 .. Len(q) :
          i < j /\ q[i] = BuiltinTrigger(Enabler) /\ q[j] = EvaluateAll

StateType ==
  /\ actions \in Seq(Acts)
  /\ props \in [Names -> Values]
  /\ enabled \in BOOLEAN
  /\ owed \in SUBSET PropActs
LoopType ==
  /\ execwait \in BOOLEAN
  /\ pc \in {"command", "restart", "epoll"}
  /\ timeout \in {"none", "until", "forever"}

(* The invariant with run, c and q for what runs and what is queued: a     *)
(* command is run with these no longer, or not yet, in the variables.      *)
QueueInv(run, c, q) ==
  /\ StateType /\ CmdInv /\ WaitInv
  /\ RunInv(run, c) /\ q \in Seq(Trigger)
  /\ OwedInv(run, c, q) /\ EnableInv(run, q)
IInv == QueueInv(executing, current, queue) /\ LoopType /\ NoSleepWithWork

-----------------------------------------------------------------------------
(* Select gives the elements of s that are in S, and no others.  The rank  *)
(* of an index among the selected ones is one to one, hence onto.          *)
LEMMA SelectFacts ==
  ASSUME NEW A, NEW s \in Seq(A), NEW S
  PROVE  /\ Select(s, S) \in Seq(A)
         /\ \A x : x \in Elems(Select(s, S)) <=> x \in Elems(s) /\ x \in S
  <1>. DEFINE at == {i \in 1 .. Len(s) : s[i] \in S}
              low(i) == {j \in at : j <= i}
              rank == [i \in at |-> Cardinality(low(i))]
              n == Cardinality(at)
              pick(k) == CHOOSE i \in at : Cardinality(low(i)) = k
  <1>1. Len(s) \in Nat /\ \A i \in 1 .. Len(s) : s[i] \in A
    BY LenProperties, ElementOfSeq
  <1>2. IsFiniteSet(at) /\ n \in Nat
    <2>1. IsFiniteSet(1 .. Len(s)) /\ at \in SUBSET (1 .. Len(s))
      BY <1>1, FS_Interval
    <2>. HIDE DEF at
    <2>. QED BY <2>1, FS_Subset, FS_CardinalityType
  <1>3. ASSUME NEW i \in at
        PROVE  /\ IsFiniteSet(low(i)) /\ Cardinality(low(i)) \in Nat
               /\ Cardinality(low(i)) <= n /\ Cardinality(low(i)) # 0
    <2>1. low(i) \subseteq at /\ i \in low(i)
      BY <1>1
    <2>. QED BY <1>2, <2>1, FS_Subset, FS_CardinalityType, FS_EmptySet
  <1>4. ASSUME NEW i \in at, NEW j \in at, i < j
        PROVE  Cardinality(low(i)) # Cardinality(low(j))
    <2>1. i \in Nat /\ j \in Nat
      BY <1>1
    <2>2. low(i) \subseteq low(j) /\ j \in low(j) /\ j \notin low(i)
      BY <1>4, <2>1
    <2>. HIDE DEF at, low
    <2>. QED BY <1>3, <2>2, FS_Subset
  <1>5. rank \in [at -> 1 .. n]
    <2>. HIDE DEF at, low, n
    <2>. QED BY <1>2, <1>3
  <1>6. ASSUME NEW k \in 1 .. n
        PROVE  \E i \in at : Cardinality(low(i)) = k
    <2>. SUFFICES ASSUME \A i \in at : Cardinality(low(i)) # k PROVE FALSE
      OBVIOUS
    <2>. DEFINE T == (1 .. n) \ {k}
    <2>1. IsFiniteSet(1 .. n) /\ Cardinality(1 .. n) = n
      BY <1>2, FS_Interval
    <2>2. IsFiniteSet(T) /\ Cardinality(T) = n - 1
      BY <2>1, FS_RemoveElement
    <2>3. rank \in [at -> T]
      <3>. HIDE DEF at, low, n
      <3>. QED BY <1>5
    <2>4. n - 1 < n
      BY <1>2
    <2>5. PICK x, y \in at : x # y /\ rank[x] = rank[y]
      <3>. HIDE DEF at, low, n, T, rank
      <3>. QED BY <1>2, <2>2, <2>3, <2>4, FS_PigeonHole DEF n
    <2>6. x \in Nat /\ y \in Nat /\ rank[x] = Cardinality(low(x)) /\ rank[y] = Cardinality(low(y))
      BY <1>1
    <2>7. x < y \/ y < x
      BY <2>5, <2>6
    <2>. HIDE DEF at, low, rank
    <2>. QED BY <1>4, <2>5, <2>6, <2>7
  <1>7. Select(s, S) = [k \in 1 .. n |-> s[pick(k)]]
    BY DEF Select
  <1>8. \A k \in 1 .. n : pick(k) \in at /\ Cardinality(low(pick(k))) = k
    <2>. HIDE DEF at, low, n
    <2>. QED BY <1>6
  <1>9. \A i \in at : Cardinality(low(i)) \in 1 .. n /\ pick(Cardinality(low(i))) = i
    <2>. SUFFICES ASSUME NEW i \in at
                  PROVE  Cardinality(low(i)) \in 1 .. n /\ pick(Cardinality(low(i))) = i
      OBVIOUS
    <2>1. Cardinality(low(i)) \in 1 .. n
      <3>. HIDE DEF at, low, n
      <3>. QED BY <1>2, <1>3
    <2>2. PICK j \in at : j = pick(Cardinality(low(i))) /\ Cardinality(low(j)) = Cardinality(low(i))
      BY <1>8, <2>1
    <2>3. i \in Nat /\ j \in Nat
      BY <1>1
    <2>4. ~ (i < j) /\ ~ (j < i)
      BY <1>4, <2>2
    <2>5. i = j
      BY <2>3, <2>4
    <2>. QED BY <2>1, <2>2, <2>5
  <1>10. Select(s, S) \in Seq(A) /\ Len(Select(s, S)) = n
    <2>1. \A k \in 1 .. n : s[pick(k)] \in A
      BY <1>1, <1>8
    <2>. HIDE DEF at, n, pick
    <2>2. Select(s, S) \in Seq(A) /\ DOMAIN Select(s, S) = 1 .. n
      BY <1>2, <1>7, <2>1, IsASeq
    <2>3. Len(Select(s, S)) \in Nat /\ 1 .. Len(Select(s, S)) = 1 .. n
      BY <2>2, LenProperties
    <2>. QED BY <1>2, <2>2, <2>3
  <1>11. ASSUME NEW x \in Elems(Select(s, S)) PROVE x \in Elems(s) /\ x \in S
    <2>1. PICK k \in 1 .. n : x = s[pick(k)]
      <3>. HIDE DEF at, n, pick
      <3>. QED BY <1>7, <1>10, <1>11 DEF Elems
    <2>. QED BY <1>8, <2>1 DEF Elems
  <1>12. ASSUME NEW x \in Elems(s), x \in S PROVE x \in Elems(Select(s, S))
    <2>1. PICK i \in at : x = s[i]
      BY <1>12 DEF Elems
    <2>2. PICK k \in 1 .. n : pick(k) = i
      BY <1>9, <2>1
    <2>. HIDE DEF at, n, pick
    <2>. QED BY <1>7, <1>10, <2>1, <2>2 DEF Elems
  <1>. QED BY <1>10, <1>11, <1>12

(* What is known of the actions of rc files, and of those on properties *)
LEMMA ActFacts ==
  /\ Acts = RcActs \cup Builtins /\ Queuer \in Builtins /\ Enabler \in Builtins /\ Queuer # Enabler
  /\ \A a \in RcActs : /\ a \notin Builtins /\ a \in Acts /\ EventOf(a) = Event[a]
                       /\ Event[a] \notin Builtins /\ CondsOf(a) = Conds[a]
                       /\ DOMAIN Conds[a] \subseteq Names
  /\ \A b \in Builtins : b \in Acts /\ EventOf(b) = b
  /\ \A a \in PropActs : /\ a \in RcActs /\ EventOf(a) = "" /\ DOMAIN Conds[a] # {}
  /\ "" \notin Names
  <1>1. /\ Acts = RcActs \cup Builtins /\ Builtins = {Queuer, Enabler} /\ Queuer # Enabler
    BY DEF Acts, Builtins, Queuer, Enabler
  <1>2. \A a \in RcActs : a \notin Builtins
    BY ActsAssumption
  <1>3. \A a \in RcActs : EventOf(a) = Event[a] /\ CondsOf(a) = Conds[a]
    BY <1>2 DEF EventOf, CondsOf
  <1>4. \A b \in Builtins : EventOf(b) = b
    BY DEF EventOf
  <1>5. \A a \in RcActs : DOMAIN Conds[a] \subseteq Names /\ Event[a] \notin Builtins
    BY TriggerAssumption
  <1>6. \A a \in PropActs : a \in RcActs /\ Event[a] = "" /\ DOMAIN Conds[a] # {}
    BY TriggerAssumption DEF PropActs
  <1>7. "" \notin Names
    BY NamesAssumption
  <1>. QED BY <1>1, <1>2, <1>3, <1>4, <1>5, <1>6, <1>7

(* A trigger that is to start an owed action does match it. *)
LEMMA WillStartMatches ==
  ASSUME NEW a \in PropActs, Holds(a, props), NEW t, WillStart(t, a)
  PROVE  CheckTriggers(t, a)
  <1>1. /\ EventOf(a) = "" /\ CondsOf(a) = Conds[a] /\ DOMAIN Conds[a] # {}
        /\ "" \notin DOMAIN Conds[a]
    BY ActFacts
  <1>2. CheckPropertyTriggers(a, t.name, t.value)
    BY <1>1 DEF CheckPropertyTriggers, Holds, WillStart
  <1>. QED BY <1>1, <1>2 DEF CheckTriggers, WillStart

(* The triggers that init makes *)
LEMMA TriggerFacts ==
  /\ \A n \in Names, v \in Values : PropertyTrigger(n, v) \in Trigger
  /\ \A e \in Events : EventTrigger(e) \in Trigger
  /\ \A b \in Builtins : BuiltinTrigger(b) \in Trigger
  /\ EvaluateAll \in Trigger
  /\ \A n, v : /\ PropertyTrigger(n, v).kind = "property" /\ PropertyTrigger(n, v).name = n
              /\ PropertyTrigger(n, v).value = v
  /\ \A b : BuiltinTrigger(b).kind = "builtin" /\ BuiltinTrigger(b).name = b
  <1>1. "" \in Values
    BY NamesAssumption
  <1>2. \A n \in Names \cup {""}, v \in Values : PropertyTrigger(n, v) \in Trigger
    BY DEF PropertyTrigger, Trigger
  <1>3. /\ \A e \in Events : EventTrigger(e) \in Trigger
        /\ \A b \in Builtins : BuiltinTrigger(b) \in Trigger
    BY <1>1 DEF EventTrigger, BuiltinTrigger, Trigger
  <1>4. EvaluateAll \in Trigger
    BY <1>1, <1>2 DEF EvaluateAll
  <1>5. /\ \A n, v : /\ PropertyTrigger(n, v).kind = "property" /\ PropertyTrigger(n, v).name = n
                    /\ PropertyTrigger(n, v).value = v
        /\ \A b : BuiltinTrigger(b).kind = "builtin" /\ BuiltinTrigger(b).name = b
    BY DEF PropertyTrigger, BuiltinTrigger
  <1>. QED BY <1>1, <1>2, <1>3, <1>4, <1>5

(* A builtin trigger matches its action. *)
LEMMA BuiltinMatches ==
  ASSUME NEW b
  PROVE  CheckTriggers(BuiltinTrigger(b), b)
  <1>1. PICK t : t = BuiltinTrigger(b)
    OBVIOUS
  <1>2. t.kind = "builtin" /\ t.name = b
    BY <1>1, TriggerFacts
  <1>3. CheckTriggers(t, b)
    BY <1>2, Zenon DEF CheckTriggers
  <1>. QED BY <1>1, <1>3

(* The trigger that evaluates all properties *)
LEMMA EvaluateAllFacts == EvaluateAll.kind = "property" /\ EvaluateAll.name = ""
  BY DEF EvaluateAll, PropertyTrigger

(* Elements of longer sequences *)
LEMMA ElemsFacts ==
  ASSUME NEW A, NEW s \in Seq(A)
  PROVE  /\ Len(s) \in Nat /\ \A x \in Elems(s) : x \in A
         /\ \A x \in A : /\ Append(s, x) \in Seq(A) /\ Len(Append(s, x)) = Len(s) + 1
                         /\ \A i \in 1 .. Len(s) : Append(s, x)[i] = s[i]
                         /\ Append(s, x)[Len(s) + 1] = x
                         /\ Elems(s) \subseteq Elems(Append(s, x)) /\ x \in Elems(Append(s, x))
                         /\ \A y \in Elems(Append(s, x)) : y \in Elems(s) \/ y = x
         /\ \A t \in Seq(A) : /\ s \o t \in Seq(A) /\ Len(s \o t) = Len(s) + Len(t)
                              /\ \A i \in 1 .. Len(s) : (s \o t)[i] = s[i]
                              /\ \A i \in 1 .. Len(t) : (s \o t)[Len(s) + i] = t[i]
  <1>1. Len(s) \in Nat /\ \A x \in Elems(s) : x \in A
    BY LenProperties, ElementOfSeq DEF Elems
  <1>2. ASSUME NEW x \in A
        PROVE  /\ Append(s, x) \in Seq(A) /\ Len(Append(s, x)) = Len(s) + 1
               /\ \A i \in 1 .. Len(s) : Append(s, x)[i] = s[i]
               /\ Append(s, x)[Len(s) + 1] = x
    BY AppendProperties
  <1>3. ASSUME NEW x \in A
        PROVE  /\ Elems(s) \subseteq Elems(Append(s, x)) /\ x \in Elems(Append(s, x))
               /\ \A y \in Elems(Append(s, x)) : y \in Elems(s) \/ y = x
    <2>1. /\ Len(s) + 1 \in 1 .. Len(Append(s, x)) /\ \A i \in 1 .. Len(s) : i \in 1 .. Len(Append(s, x))
          /\ \A i \in 1 .. Len(Append(s, x)) : i \in 1 .. Len(s) \/ i = Len(s) + 1
      BY <1>1, <1>2
    <2>. QED BY <1>2, <2>1 DEF Elems
  <1>4. ASSUME NEW t \in Seq(A)
        PROVE  /\ s \o t \in Seq(A) /\ Len(s \o t) = Len(s) + Len(t)
               /\ \A i \in 1 .. Len(s) : (s \o t)[i] = s[i]
               /\ \A i \in 1 .. Len(t) : (s \o t)[Len(s) + i] = t[i]
    <2>1. Len(t) \in Nat
      BY LenProperties
    <2>2. /\ s \o t \in Seq(A) /\ Len(s \o t) = Len(s) + Len(t)
          /\ \A i \in 1 .. Len(s) + Len(t) : (s \o t)[i] = IF i <= Len(s) THEN s[i] ELSE t[i - Len(s)]
      BY ConcatProperties
    <2>. QED BY <1>1, <2>1, <2>2
  <1>. QED BY <1>1, <1>2, <1>3, <1>4

-----------------------------------------------------------------------------
(* What the invariant needs of a command, or an event, that runs with the  *)
(* queue as it stands at q and starts the actions in started: the queue    *)
(* only grows, no rc action is lost, and an action that is owed a run has  *)
(* its conditions true and either a new trigger to start it or, still, the *)
(* old ones.                                                               *)
Effect(q, started) ==
  /\ StateType' /\ CmdInv' /\ WaitInv'
  /\ \A a \in Acts : Len(commands[a]) <= Len(commands'[a])
  /\ \A a \in RcActs : a \in Elems(actions) => a \in Elems(actions')
  /\ queue' \in Seq(Trigger) /\ Len(q) <= Len(queue')
  /\ \A i \in 1 .. Len(q) : queue'[i] = q[i]
  /\ \A a \in owed' :
       /\ a \in Elems(actions) /\ Holds(a, props)'
       /\ enabled => \/ \E i \in 1 .. Len(queue') : WillStart(queue[i], a)'
                     \/ /\ a \in owed /\ a \notin started
                        /\ \A t \in Trigger : WillStart(t, a) => WillStart(t, a)'

(* A property is set, by a command or an event. *)
LEMMA SetEffect ==
  ASSUME StateType, CmdInv, WaitInv, NEW q \in Seq(Trigger), NEW started,
         NEW n \in Names, NEW v \in Values, SetProperty(n, v, q),
         owed' = Owed({n}, started), UNCHANGED <<actions, commands, enabled>>
  PROVE  Effect(q, started)
  <1>1. /\ props' = [props EXCEPT ![n] = v] /\ waitprop' = waitprop \ {<<n, v>>}
        /\ queue' = IF enabled THEN Append(q, PropertyTrigger(n, v)) ELSE q
    BY DEF SetProperty
  <1>2. props \in [Names -> Values] /\ actions \in Seq(Acts)
    BY DEF StateType
  <1>3. props' \in [Names -> Values] /\ props'[n] = v /\ \A m \in Names \ {n} : props'[m] = props[m]
    BY <1>1, <1>2
  <1>4. StateType'
    BY <1>3 DEF StateType, Owed
  <1>5. CmdInv' /\ \A a \in Acts : Len(commands[a]) <= Len(commands'[a])
    BY ElemsFacts DEF CmdInv
  <1>6. WaitInv'
    <2>1. CASE waitprop = {}
      BY <1>1, <2>1 DEF WaitInv
    <2>2. ASSUME NEW m \in Names, NEW w \in Values, waitprop = {<<m, w>>}, props[m] # w
          PROVE  WaitInv'
      <3>1. CASE m = n /\ w = v
        <4>1. waitprop' = {}
          BY <1>1, <2>2, <3>1
        <4>. QED BY <4>1 DEF WaitInv
      <3>2. CASE m = n /\ w # v
        <4>1. waitprop' = {<<m, w>>} /\ props'[m] # w
          BY <1>1, <1>3, <2>2, <3>2
        <4>. QED BY <4>1 DEF WaitInv
      <3>3. CASE m # n
        <4>1. waitprop' = {<<m, w>>} /\ props'[m] # w
          BY <1>1, <1>3, <2>2, <3>3
        <4>. QED BY <4>1 DEF WaitInv
      <3>. QED BY <3>1, <3>2, <3>3
    <2>. QED BY <2>1, <2>2 DEF WaitInv
  <1>7. PropertyTrigger(n, v) \in Trigger /\ Len(q) \in Nat
    BY TriggerFacts, ElemsFacts
  <1>8. /\ queue' \in Seq(Trigger) /\ Len(q) <= Len(queue')
        /\ \A i \in 1 .. Len(q) : queue'[i] = q[i]
        /\ enabled => Len(q) + 1 \in 1 .. Len(queue') /\ queue'[Len(q) + 1] = PropertyTrigger(n, v)
    <2>1. CASE enabled
      BY <1>1, <1>7, <2>1, ElemsFacts
    <2>2. CASE ~ enabled
      BY <1>1, <1>7, <2>2
    <2>. QED BY <2>1, <2>2
  <1>9. ASSUME NEW a \in owed'
        PROVE  /\ a \in Elems(actions) /\ Holds(a, props)'
               /\ enabled => \/ \E i \in 1 .. Len(queue') : WillStart(queue[i], a)'
                             \/ /\ a \in owed /\ a \notin started
                                /\ \A t \in Trigger : WillStart(t, a) => WillStart(t, a)'
    <2>1. /\ a \in PropActs /\ a \in Elems(actions) /\ Holds(a, props')
          /\ a \in owed \ started \/ n \in DOMAIN Conds[a]
      BY <1>9 DEF Owed, Elems
    <2>2. Holds(a, props)'
      BY <2>1 DEF Holds
    <2>3. ASSUME enabled, n \in DOMAIN Conds[a]
          PROVE  \E i \in 1 .. Len(queue') : WillStart(queue[i], a)'
      <3>1. PICK i \in 1 .. Len(queue') : queue'[i] = PropertyTrigger(n, v)
        BY <1>8, <2>3
      <3>2. /\ queue'[i].kind = "property" /\ queue'[i].name = n
            /\ queue'[i].value = props'[n]
        BY <1>3, <3>1, TriggerFacts
      <3>3. WillStart(queue[i], a)'
        BY <2>3, <3>2 DEF WillStart
      <3>. QED BY <3>3
    <2>4. ASSUME n \notin DOMAIN Conds[a], NEW t \in Trigger, WillStart(t, a)
          PROVE  WillStart(t, a)'
      <3>1. DOMAIN Conds[a] \subseteq Names
        BY <2>1, ActFacts
      <3>. QED BY <1>3, <2>4, <3>1 DEF WillStart
    <2>. QED BY <2>1, <2>2, <2>3, <2>4
  <1>. QED BY <1>4, <1>5, <1>6, <1>8, <1>9 DEF Effect

(* Nothing is set, and at most one trigger is queued. *)
LEMMA QuietEffect ==
  ASSUME StateType, CmdInv, NEW q \in Seq(Trigger), NEW started,
         \A a \in owed : a \in Elems(actions) /\ Holds(a, props),
         UNCHANGED <<actions, commands, props, enabled>>, WaitInv',
         owed' = owed \ started,
         queue' = q \/ \E t \in Trigger : queue' = Append(q, t)
  PROVE  Effect(q, started)
  <1>1. StateType' /\ CmdInv' /\ \A a \in Acts : Len(commands[a]) <= Len(commands'[a])
    BY ElemsFacts DEF StateType, CmdInv
  <1>2. /\ queue' \in Seq(Trigger) /\ Len(q) <= Len(queue')
        /\ \A i \in 1 .. Len(q) : queue'[i] = q[i]
    <2>1. Len(q) \in Nat
      BY ElemsFacts
    <2>2. CASE queue' = q
      BY <2>1, <2>2
    <2>3. ASSUME NEW t \in Trigger, queue' = Append(q, t)
          PROVE  /\ queue' \in Seq(Trigger) /\ Len(q) <= Len(queue')
                 /\ \A i \in 1 .. Len(q) : queue'[i] = q[i]
      BY <2>1, <2>3, ElemsFacts
    <2>. QED BY <2>2, <2>3
  <1>3. \A a \in owed' : Holds(a, props)' /\ \A t \in Trigger : WillStart(t, a) => WillStart(t, a)'
    BY DEF Holds, WillStart
  <1>. QED BY <1>1, <1>2, <1>3 DEF Effect

(* Sequences of at most two elements *)
LEMMA ShortSeqs ==
  ASSUME NEW A
  PROVE  /\ <<>> \in Seq(A)
         /\ \A x \in A : <<x>> \in Seq(A)
         /\ \A x, y \in A : <<x, y>> \in Seq(A)
  OBVIOUS

(* Places in two and in three sequences put together *)
LEMMA Places ==
  ASSUME NEW x \in Nat, NEW y \in Nat, NEW z \in Nat, NEW m, m = x + y, NEW n, n = m + z
  PROVE  /\ x <= n /\ \A i \in 1 .. x : i \in 1 .. m
         /\ \A i \in 1 .. y : x + i \in 1 .. m /\ x + i \in 1 .. n
  OBVIOUS

(* Commands that stay as they are *)
LEMMA SameCommands ==
  ASSUME CmdInv, UNCHANGED commands
  PROVE  CmdInv' /\ \A a \in Acts : Len(commands[a]) <= Len(commands'[a])
  <1>1. CmdInv'
    BY DEF CmdInv
  <1>2. \A a \in Acts : Len(commands[a]) \in Nat
    BY LenProperties DEF CmdInv
  <1>. QED BY <1>1, <1>2

(* An import adds an action, or commands to one that is there; it never    *)
(* touches a builtin action, as no rc action has the trigger of one.       *)
LEMMA ImportKeeps ==
  ASSUME actions \in Seq(Acts), CmdInv, NEW new \in Imports, Import(new)
  PROVE  /\ actions' \in Seq(Acts) /\ CmdInv'
         /\ \A a \in Acts : Len(commands[a]) <= Len(commands'[a])
         /\ Elems(actions) \subseteq Elems(actions')
         /\ \A b \in Builtins : b \in Elems(actions') => b \in Elems(actions)
  <1>0. /\ commands \in [Acts -> Seq(AllCmds)] /\ \A a \in Acts : Len(commands[a]) \in Nat
    BY LenProperties DEF CmdInv
  <1>1. CASE UNCHANGED <<actions, commands>>
    BY <1>1, SameCommands
  <1>2. CASE new \in RcActs /\ actions' = Append(actions, new) /\ UNCHANGED commands
    <2>1. new \in Acts /\ UNCHANGED commands
      BY <1>2, ActFacts
    <2>2. /\ actions' \in Seq(Acts) /\ Elems(actions) \subseteq Elems(actions')
          /\ \A x \in Elems(actions') : x \in Elems(actions) \/ x = new
      BY <1>2, <2>1, ElemsFacts
    <2>3. new \notin Builtins
      BY <1>2, ActFacts
    <2>. QED BY <2>1, <2>2, <2>3, SameCommands
  <1>3. ASSUME new \in RcActs, NEW i \in 1 .. Len(actions), EventOf(actions[i]) = EventOf(new),
               commands' = [commands EXCEPT ![actions[i]] = @ \o commands[new]],
               UNCHANGED actions
        PROVE  /\ actions' \in Seq(Acts) /\ CmdInv'
               /\ \A a \in Acts : Len(commands[a]) <= Len(commands'[a])
               /\ Elems(actions) = Elems(actions')
    <2>1. PICK b \in RcActs : b = actions[i]
      <3>1. actions[i] \in Acts
        BY ElementOfSeq
      <3>2. actions[i] \notin Builtins
        BY <1>3, ActFacts
      <3>. QED BY <3>1, <3>2, ActFacts
    <2>. DEFINE cs == commands[b] \o commands[new]
    <2>2. cs \in Seq(Cmds) /\ Len(cs) >= Len(commands[b]) /\ Len(cs) > 0
      <3>1. PICK u, w \in Seq(Cmds) : u = commands[b] /\ w = commands[new] /\ Len(u) > 0
        BY <1>3, <2>1, ActFacts DEF CmdInv
      <3>2. PICK z \in Seq(Cmds) : z = u \o w
        BY ElemsFacts
      <3>3. Len(z) = Len(u) + Len(w)
        BY <3>2, ElemsFacts
      <3>4. Len(u) \in Nat /\ Len(w) \in Nat /\ Len(u) > 0
        BY <3>1, LenProperties
      <3>5. Len(z) >= Len(u) /\ Len(z) > 0
        BY <3>3, <3>4
      <3>. QED BY <3>1, <3>2, <3>5
    <2>3. cs \in Seq(AllCmds)
      BY <2>2, SeqMonotonic DEF AllCmds
    <2>4. b \in Acts /\ new \in Acts /\ b \notin Builtins
      BY <1>3, <2>1, ActFacts
    <2>5. commands' = [commands EXCEPT ![b] = cs]
      BY <1>3, <2>1
    <2>. HIDE DEF cs
    <2>6. /\ commands' \in [Acts -> Seq(AllCmds)] /\ commands'[b] = cs
          /\ \A a \in Acts \ {b} : commands'[a] = commands[a]
      BY <1>0, <2>3, <2>4, <2>5
    <2>7. CmdInv'
      BY <2>2, <2>4, <2>6, ActFacts DEF CmdInv
    <2>8. \A a \in Acts : Len(commands[a]) <= Len(commands'[a])
      <3>. SUFFICES ASSUME NEW a \in Acts PROVE Len(commands[a]) <= Len(commands'[a])
        OBVIOUS
      <3>1. CASE a = b
        <4>1. commands'[a] = cs /\ commands[a] = commands[b]
          BY <2>6, <3>1
        <4>2. Len(cs) \in Nat /\ Len(commands[b]) \in Nat
          BY <1>0, <2>2, <2>4, LenProperties
        <4>. QED BY <2>2, <4>1, <4>2
      <3>2. CASE a # b
        <4>1. commands'[a] = commands[a] /\ Len(commands[a]) \in Nat
          BY <1>0, <2>6, <3>2
        <4>. QED BY <4>1
      <3>. QED BY <3>1, <3>2
    <2>. QED BY <1>3, <2>7, <2>8
  <1>4. CASE new # "" /\ AddAction(actions, new)
    <2>1. new \in RcActs
      BY <1>4 DEF Imports
    <2>. QED BY <1>2, <1>3, <1>4, <2>1 DEF AddAction
  <1>. QED BY <1>1, <1>4 DEF Import

(* mount_all sets some of its properties, none of which was set before. *)
LEMMA MountEffect ==
  ASSUME StateType, CmdInv, ~ Waiting, NEW q \in Seq(Trigger), NEW started, NEW cmd,
         cmd.import \in Imports, do_mount_all(cmd, q, started)
  PROVE  /\ Effect(q, started) /\ enabled' = enabled /\ Elems(actions) \subseteq Elems(actions')
         /\ Enabler \notin Elems(actions) => Enabler \notin Elems(actions')
  <1>0. /\ props \in [Names -> Values] /\ actions \in Seq(Acts) /\ Len(q) \in Nat
        /\ waitprop = {}
    BY ElemsFacts DEF StateType, Waiting
  <1>1. /\ actions' \in Seq(Acts) /\ CmdInv'
        /\ \A a \in Acts : Len(commands[a]) <= Len(commands'[a])
        /\ Elems(actions) \subseteq Elems(actions')
        /\ Enabler \notin Elems(actions) => Enabler \notin Elems(actions')
    <2>1. Import(cmd.import) /\ Enabler \in Builtins
      BY ActFacts DEF do_mount_all
    <2>. QED BY <1>0, <2>1, ImportKeeps
  <1>2. PICK fs \in FsEvents :
          SetProperties(<<PropertyTrigger(MountTime, "0")>> \o fs.sets, q, fs.triggers)
    BY DEF do_mount_all, FsEvents
  <1>3. owed' = Owed({n \in Names : props'[n] # props[n]}, started) /\ enabled' = enabled
    BY DEF do_mount_all
  <1>. DEFINE Sets == {x \in Trigger : x.kind = "property" /\ x.name \in Names}
              sets == <<PropertyTrigger(MountTime, "0")>> \o fs.sets
  <1>4. sets \in Seq(Sets) /\ fs.triggers \in Seq(Trigger)
    <2>1. \A n \in {MountTime, CryptoState, CryptoType} :
            \A v \in {"0", "encrypted", "unencrypted", "unsupported", "block", "file"} :
              PropertyTrigger(n, v) \in Sets
      <3>. SUFFICES ASSUME NEW n \in {MountTime, CryptoState, CryptoType},
                           NEW v \in {"0", "encrypted", "unencrypted", "unsupported", "block", "file"}
                    PROVE  PropertyTrigger(n, v) \in Sets
        OBVIOUS
      <3>1. n \in Names /\ v \in Values
        BY NamesAssumption
      <3>2. /\ PropertyTrigger(n, v) \in Trigger /\ PropertyTrigger(n, v).kind = "property"
            /\ PropertyTrigger(n, v).name = n
        BY <3>1, TriggerFacts
      <3>. QED BY <3>1, <3>2
    <2>2. \A e \in {"encrypt", "defaultcrypto", "nonencrypted"} : EventTrigger(e) \in Trigger
      BY TriggerFacts, TriggerAssumption
    <2>. HIDE DEF Sets
    <2>3. <<PropertyTrigger(MountTime, "0")>> \in Seq(Sets)
      BY <2>1, ShortSeqs
    <2>4. fs.sets \in Seq(Sets) /\ fs.triggers \in Seq(Trigger)
      <3>1. CASE fs = NoFsEvent
        BY <3>1, ShortSeqs DEF NoFsEvent
      <3>2. ASSUME NEW x, NEW e \in {"encrypt", "defaultcrypto", "nonencrypted"}, x \in Seq(Sets),
                   fs = FsEvent(x, e)
            PROVE  fs.sets \in Seq(Sets) /\ fs.triggers \in Seq(Trigger)
        <4>1. fs.sets = x /\ fs.triggers = <<EventTrigger(e)>>
          BY <3>2 DEF FsEvent
        <4>. QED BY <2>2, <3>2, <4>1, ShortSeqs
      <3>3. <<>> \in Seq(Sets)
        BY ShortSeqs
      <3>4. /\ <<Crypto("encrypted"), PropertyTrigger(CryptoType, "block")>> \in Seq(Sets)
            /\ <<Crypto("encrypted"), PropertyTrigger(CryptoType, "file")>> \in Seq(Sets)
            /\ <<Crypto("unencrypted")>> \in Seq(Sets) /\ <<Crypto("unsupported")>> \in Seq(Sets)
        BY <2>1, ShortSeqs DEF Crypto
      <3>. QED BY <3>1, <3>2, <3>3, <3>4 DEF FsEvents
    <2>. QED BY <2>3, <2>4, ConcatProperties
  <1>5. PICK done : /\ done = Select(sets, {x \in Trigger : props[x.name] = ""})
                    /\ props' = [n \in Names |->
                         IF \E x \in Elems(done) : x.name = n
                         THEN (CHOOSE x \in Elems(done) : x.name = n).value ELSE props[n]]
                    /\ queue' = (IF enabled THEN q \o done ELSE q) \o fs.triggers
                    /\ waitprop' = {w \in waitprop : \A x \in Elems(done) : w # <<x.name, x.value>>}
    <2>1. PICK done \in {Select(sets, {x \in Trigger : props[x.name] = ""})} :
            /\ props' = [n \in Names |->
                 IF \E x \in Elems(done) : x.name = n
                 THEN (CHOOSE x \in Elems(done) : x.name = n).value ELSE props[n]]
            /\ queue' = (IF enabled THEN q \o done ELSE q) \o fs.triggers
            /\ waitprop' = {w \in waitprop : \A x \in Elems(done) : w # <<x.name, x.value>>}
      <3>1. SetProperties(sets, q, fs.triggers)
        BY <1>2
      <3>. HIDE DEF sets
      <3>. QED BY <3>1, Zenon DEF SetProperties, Elems
    <2>. QED BY <2>1
  <1>. HIDE DEF sets
  <1>6. done \in Seq(Sets) /\ Len(done) \in Nat
    <2>1. done \in Seq(Sets)
      BY <1>4, <1>5, SelectFacts
    <2>. QED BY <2>1, LenProperties
  <1>7. \A x \in Elems(done) : x \in Sets
    BY <1>6, ElemsFacts
  <1>8. done \in Seq(Trigger)
    BY <1>6, SeqMonotonic
  <1>9. \A n \in Names : props'[n] # props[n] =>
          \E i \in 1 .. Len(done) : done[i].kind = "property" /\ done[i].name = n
                                   /\ done[i].value = props'[n]
    <2>. SUFFICES ASSUME NEW n \in Names, props'[n] # props[n]
                  PROVE  \E i \in 1 .. Len(done) : done[i].kind = "property" /\ done[i].name = n
                                                   /\ done[i].value = props'[n]
      OBVIOUS
    <2>1. PICK x \in Elems(done) : x.name = n /\ props'[n] = x.value
      BY <1>5
    <2>2. PICK i \in 1 .. Len(done) : x = done[i]
      BY DEF Elems
    <2>. QED BY <1>7, <2>1, <2>2
  <1>10. props' \in [Names -> Values]
    <2>1. \A n \in Names : props'[n] \in Values
      <3>. SUFFICES ASSUME NEW n \in Names, props'[n] # props[n] PROVE props'[n] \in Values
        BY <1>0
      <3>1. PICK i \in 1 .. Len(done) : done[i].value = props'[n]
        BY <1>9
      <3>2. done[i] \in Trigger
        BY <1>7 DEF Elems
      <3>. QED BY <3>1, <3>2 DEF Trigger
    <2>. QED BY <1>5, <2>1
  <1>11. StateType'
    BY <1>0, <1>1, <1>3, <1>10 DEF StateType, Owed
  <1>12. WaitInv'
    BY <1>0, <1>5 DEF WaitInv
  <1>13. /\ queue' \in Seq(Trigger) /\ Len(q) <= Len(queue')
         /\ \A i \in 1 .. Len(q) : queue'[i] = q[i]
         /\ enabled => \A i \in 1 .. Len(done) :
                          Len(q) + i \in 1 .. Len(queue') /\ queue'[Len(q) + i] = done[i]
    <2>1. Len(fs.triggers) \in Nat
      BY <1>4, LenProperties
    <2>2. CASE enabled
      <3>1. PICK s \in Seq(Trigger) : s = q \o done
        BY <1>8, ElemsFacts
      <3>2. /\ Len(s) = Len(q) + Len(done) /\ Len(s) \in Nat
            /\ \A i \in 1 .. Len(q) : s[i] = q[i]
            /\ \A i \in 1 .. Len(done) : s[Len(q) + i] = done[i]
        BY <1>0, <1>6, <1>8, <3>1, ElemsFacts
      <3>3. queue' = s \o fs.triggers
        BY <1>5, <2>2, <3>1
      <3>4. /\ queue' \in Seq(Trigger) /\ Len(queue') = Len(s) + Len(fs.triggers)
            /\ \A i \in 1 .. Len(s) : queue'[i] = s[i]
        BY <1>4, <3>3, ElemsFacts
      <3>5. /\ Len(s) = Len(q) + Len(done) /\ Len(queue') = Len(s) + Len(fs.triggers)
            /\ Len(q) \in Nat /\ Len(done) \in Nat
        BY <1>0, <1>6, <3>2, <3>4
      <3>6. /\ \A i \in 1 .. Len(q) : i \in 1 .. Len(s)
            /\ \A i \in 1 .. Len(done) : Len(q) + i \in 1 .. Len(s) /\ Len(q) + i \in 1 .. Len(queue')
            /\ Len(q) <= Len(queue')
        BY <2>1, <3>5, Places
      <3>. QED BY <3>2, <3>4, <3>6
    <2>3. CASE ~ enabled
      <3>1. queue' = q \o fs.triggers
        BY <1>5, <2>3
      <3>. QED BY <1>0, <1>4, <2>1, <2>3, <3>1, ElemsFacts
    <2>. QED BY <2>2, <2>3
  <1>14. ASSUME NEW a \in owed'
         PROVE  /\ a \in Elems(actions) /\ Holds(a, props)'
                /\ enabled => \/ \E i \in 1 .. Len(queue') : WillStart(queue[i], a)'
                              \/ /\ a \in owed /\ a \notin started
                                 /\ \A t \in Trigger : WillStart(t, a) => WillStart(t, a)'
    <2>1. /\ a \in PropActs /\ a \in Elems(actions) /\ Holds(a, props')
          /\ a \in owed \ started \/ \E n \in DOMAIN Conds[a] : props'[n] # props[n]
          /\ DOMAIN Conds[a] \subseteq Names
      <3>1. /\ a \in PropActs /\ a \in Elems(actions) /\ Holds(a, props')
            /\ a \in owed \ started \/ {n \in Names : props'[n] # props[n]} \cap DOMAIN Conds[a] # {}
        BY <1>3, <1>14 DEF Owed, Elems
      <3>2. DOMAIN Conds[a] \subseteq Names
        BY <3>1, ActFacts
      <3>. QED BY <3>1, <3>2
    <2>2. Holds(a, props)'
      BY <2>1 DEF Holds
    <2>3. ASSUME enabled, NEW n \in DOMAIN Conds[a], props'[n] # props[n]
          PROVE  \E i \in 1 .. Len(queue') : WillStart(queue[i], a)'
      <3>1. PICK i \in 1 .. Len(done) : done[i].kind = "property" /\ done[i].name = n
                                        /\ done[i].value = props'[n]
        BY <1>9, <2>1, <2>3
      <3>2. PICK j \in 1 .. Len(queue') : queue'[j] = done[i]
        BY <1>13, <2>3
      <3>3. WillStart(queue[j], a)'
        BY <2>3, <3>1, <3>2 DEF WillStart
      <3>. QED BY <3>3
    <2>4. ASSUME \A n \in DOMAIN Conds[a] : props'[n] = props[n], NEW t \in Trigger, WillStart(t, a)
          PROVE  WillStart(t, a)'
      BY <2>4 DEF WillStart
    <2>. QED BY <2>1, <2>2, <2>3, <2>4
  <1>. QED BY <1>1, <1>3, <1>11, <1>12, <1>13, <1>14 DEF Effect

(* queue_property_triggers_action *)
LEMMA QueuerEffect ==
  ASSUME StateType, CmdInv, WaitInv, NEW q \in Seq(Trigger), NEW started \in SUBSET Builtins,
         \A a \in owed : a \in Elems(actions) /\ Holds(a, props),
         queue_property_triggers_action(q)
  PROVE  /\ Effect(q, started) /\ enabled' = enabled /\ Enabler \in Elems(actions')
         /\ \E i, j \in 1 .. Len(queue') :
              i < j /\ queue'[i] = BuiltinTrigger(Enabler) /\ queue'[j] = EvaluateAll
  <1>. DEFINE more == <<BuiltinTrigger(Enabler), EvaluateAll>>
              rest == Select(actions, Acts \ {Queuer})
  <1>1. /\ actions' = Append(rest, Enabler) /\ queue' = q \o more
        /\ UNCHANGED <<commands, props, enabled, waitprop, owed>>
    BY DEF queue_property_triggers_action, QueueTriggers, EvaluateAll
  <1>2. rest \in Seq(Acts) /\ \A x : x \in Elems(rest) <=> x \in Elems(actions) /\ x \in Acts \ {Queuer}
    BY SelectFacts DEF StateType
  <1>3. more \in Seq(Trigger) /\ Len(more) = 2 /\ Len(q) \in Nat
        /\ more[1] = BuiltinTrigger(Enabler) /\ more[2] = EvaluateAll
    BY TriggerFacts, ActFacts, ShortSeqs, LenProperties
  <1>. HIDE DEF more, rest
  <1>4. actions' \in Seq(Acts) /\ Elems(rest) \subseteq Elems(actions') /\ Enabler \in Elems(actions')
    <2>1. Enabler \in Acts
      BY ActFacts
    <2>. QED BY <1>1, <1>2, <2>1, ElemsFacts
  <1>5. /\ queue' \in Seq(Trigger) /\ Len(queue') = Len(q) + 2
        /\ \A i \in 1 .. Len(q) : queue'[i] = q[i]
        /\ \A i \in 1 .. 2 : queue'[Len(q) + i] = more[i]
    <2>1. /\ q \o more \in Seq(Trigger) /\ Len(q \o more) = Len(q) + Len(more)
          /\ \A i \in 1 .. Len(q) : (q \o more)[i] = q[i]
          /\ \A i \in 1 .. Len(more) : (q \o more)[Len(q) + i] = more[i]
      <3>1. PICK m \in Seq(Trigger) : m = more
        BY <1>3
      <3>2. /\ q \o m \in Seq(Trigger) /\ Len(q \o m) = Len(q) + Len(m)
            /\ \A i \in 1 .. Len(q) : (q \o m)[i] = q[i]
            /\ \A i \in 1 .. Len(m) : (q \o m)[Len(q) + i] = m[i]
        BY ElemsFacts
      <3>. QED BY <3>1, <3>2
    <2>. QED BY <1>1, <1>3, <2>1
  <1>6. StateType' /\ CmdInv' /\ WaitInv' /\ \A a \in Acts : Len(commands[a]) <= Len(commands'[a])
    <2>1. StateType' /\ WaitInv'
      BY <1>1, <1>4 DEF StateType, WaitInv
    <2>. QED BY <1>1, <2>1, SameCommands
  <1>7. \A a \in RcActs : a \in Elems(actions) => a \in Elems(actions')
    <2>1. \A a \in RcActs : a \in Acts /\ a # Queuer
      BY ActFacts
    <2>. QED BY <1>2, <1>4, <2>1
  <1>8. \A a \in owed' : /\ Holds(a, props)' /\ a \in owed /\ a \notin started
                         /\ \A t \in Trigger : WillStart(t, a) => WillStart(t, a)'
    <2>1. \A a \in owed : a \notin started
      BY ActFacts DEF StateType
    <2>. QED BY <1>1, <2>1 DEF Holds, WillStart
  <1>9. Len(q) <= Len(queue')
    <2>1. Len(queue') = Len(q) + 2
      BY <1>5
    <2>. QED BY <1>3, <2>1
  <1>10. \E i, j \in 1 .. Len(queue') :
           i < j /\ queue'[i] = BuiltinTrigger(Enabler) /\ queue'[j] = EvaluateAll
    <2>1. Len(queue') = Len(q) + 2
      BY <1>5
    <2>2. Len(q) + 1 \in 1 .. Len(queue') /\ Len(q) + 2 \in 1 .. Len(queue') /\ Len(q) + 1 < Len(q) + 2
      BY <1>3, <2>1
    <2>3. queue'[Len(q) + 1] = BuiltinTrigger(Enabler) /\ queue'[Len(q) + 2] = EvaluateAll
      BY <1>3, <1>5
    <2>. QED BY <2>2, <2>3
  <1>11. Effect(q, started)
    BY <1>1, <1>5, <1>6, <1>7, <1>8, <1>9 DEF Effect
  <1>. QED BY <1>1, <1>4, <1>10, <1>11

(* property_enable_triggers_action *)
LEMMA EnablerEffect ==
  ASSUME StateType, CmdInv, WaitInv, NEW q \in Seq(Trigger), NEW started \in SUBSET Builtins,
         \A a \in owed : a \in Elems(actions) /\ Holds(a, props),
         property_enable_triggers_action(q)
  PROVE  Effect(q, started) /\ enabled'
  <1>1. /\ actions' = Select(actions, Acts \ {Enabler}) /\ queue' = q /\ enabled' = TRUE
        /\ UNCHANGED <<commands, props, waitprop, owed>>
    BY DEF property_enable_triggers_action
  <1>2. /\ actions' \in Seq(Acts)
        /\ \A x : x \in Elems(actions') <=> x \in Elems(actions) /\ x \in Acts \ {Enabler}
    BY <1>1, SelectFacts DEF StateType
  <1>3. StateType' /\ CmdInv' /\ WaitInv' /\ \A a \in Acts : Len(commands[a]) <= Len(commands'[a])
    <2>1. StateType' /\ WaitInv'
      BY <1>1, <1>2 DEF StateType, WaitInv
    <2>. QED BY <1>1, <2>1, SameCommands
  <1>4. \A a \in RcActs : a \in Elems(actions) => a \in Elems(actions')
    <2>1. \A a \in RcActs : a \in Acts /\ a # Enabler
      BY ActFacts
    <2>. QED BY <1>2, <2>1
  <1>5. \A a \in owed' : /\ Holds(a, props)' /\ a \in owed /\ a \notin started
                         /\ \A t \in Trigger : WillStart(t, a) => WillStart(t, a)'
    <2>1. \A a \in owed : a \notin started
      BY ActFacts DEF StateType
    <2>. QED BY <1>1, <2>1 DEF Holds, WillStart
  <1>6. Len(q) \in Nat
    BY LenProperties
  <1>7. Len(q) <= Len(queue') /\ queue' = q
    BY <1>1, <1>6
  <1>. QED BY <1>1, <1>3, <1>4, <1>5, <1>7 DEF Effect

(* The fields of the commands of rc files *)
LEMMA CmdFacts ==
  ASSUME NEW cmd \in Cmds
  PROVE  /\ cmd.op \notin Builtins
         /\ cmd.op \in {"setprop", "wait_for_prop"} => cmd.name \in Names /\ cmd.value \in Values
         /\ cmd.op = "trigger" => cmd.name \in Events
         /\ cmd.op = "mount_all" => cmd.import \in Imports
  <1>1. CASE cmd \in [op : {"setprop", "wait_for_prop"}, name : Names, value : Values]
    BY <1>1 DEF Builtins, Queuer, Enabler
  <1>2. CASE cmd \in [op : {"trigger"}, name : Events]
    BY <1>2 DEF Builtins, Queuer, Enabler
  <1>3. CASE cmd \in [op : {"exec", "other"}]
    BY <1>3 DEF Builtins, Queuer, Enabler
  <1>4. CASE cmd \in [op : {"mount_all"}, import : Imports, early : BOOLEAN]
    BY <1>4 DEF Builtins, Queuer, Enabler
  <1>. QED BY <1>1, <1>2, <1>3, <1>4 DEF Cmds, Imports

(* What the next command of action a does *)
LEMMA CommandEffect ==
  ASSUME StateType, CmdInv, WaitInv, ~ Waiting, current \in Nat,
         \A a \in owed : a \in Elems(actions) /\ Holds(a, props),
         NEW q \in Seq(Trigger), NEW a \in Acts, current < Len(commands[a]),
         NEW started \in SUBSET {a}, Command(commands[a][current + 1], q, started)
  PROVE  /\ Effect(q, started)
         /\ a \in RcActs => /\ enabled' = enabled /\ Elems(actions) \subseteq Elems(actions')
                            /\ Enabler \notin Elems(actions) => Enabler \notin Elems(actions')
         /\ a = Queuer =>
              /\ enabled' = enabled /\ Enabler \in Elems(actions')
              /\ \E i, j \in 1 .. Len(queue') :
                   i < j /\ queue'[i] = BuiltinTrigger(Enabler) /\ queue'[j] = EvaluateAll
         /\ a = Enabler => enabled'
  <1>1. CASE a \in RcActs
    <2>1. PICK cmd \in Cmds : cmd = commands[a][current + 1]
      <3>1. commands[a] \in Seq(Cmds) /\ Len(commands[a]) \in Nat
        BY <1>1, LenProperties DEF CmdInv
      <3>2. current + 1 \in 1 .. Len(commands[a])
        BY <3>1
      <3>. QED BY <3>1, <3>2, ElementOfSeq
    <2>2. Command(cmd, q, started) /\ cmd.op \notin {Queuer, Enabler}
      BY <2>1, CmdFacts DEF Builtins
    <2>3. waitprop = {} /\ a \notin Builtins
      BY <1>1, ActFacts DEF Waiting
    <2>. SUFFICES /\ Effect(q, started) /\ enabled' = enabled
                  /\ Elems(actions) \subseteq Elems(actions')
                  /\ Enabler \notin Elems(actions) => Enabler \notin Elems(actions')
      BY <1>1, <2>3, ActFacts
    <2>4. CASE cmd.op = "setprop" /\ do_setprop(cmd, q, started)
      <3>1. cmd.name \in Names /\ cmd.value \in Values
        BY <2>4, CmdFacts
      <3>2. /\ SetProperty(cmd.name, cmd.value, q) /\ owed' = Owed({cmd.name}, started)
            /\ UNCHANGED <<actions, commands, enabled>>
        BY <2>4 DEF do_setprop
      <3>. QED BY <3>1, <3>2, SetEffect
    <2>5. CASE cmd.op = "trigger" /\ do_trigger(cmd, q, started)
      <3>1. EventTrigger(cmd.name) \in Trigger
        BY <2>5, CmdFacts, TriggerFacts
      <3>2. /\ queue' = Append(q, EventTrigger(cmd.name)) /\ owed' = owed \ started
            /\ UNCHANGED <<actions, commands, props, enabled, waitprop>>
        BY <2>5 DEF do_trigger
      <3>3. WaitInv'
        BY <2>3, <3>2 DEF WaitInv
      <3>. QED BY <3>1, <3>2, <3>3, QuietEffect
    <2>6. CASE cmd.op = "wait_for_prop" /\ do_wait_for_prop(cmd, q, started)
      <3>1. cmd.name \in Names /\ cmd.value \in Values
        BY <2>6, CmdFacts
      <3>2. /\ queue' = q /\ owed' = owed \ started
            /\ waitprop' = IF props[cmd.name] # cmd.value THEN {<<cmd.name, cmd.value>>} ELSE waitprop
            /\ UNCHANGED <<actions, commands, props, enabled>>
        BY <2>6 DEF do_wait_for_prop
      <3>3. WaitInv'
        BY <2>3, <3>1, <3>2 DEF WaitInv
      <3>. QED BY <3>2, <3>3, QuietEffect
    <2>7. CASE cmd.op = "exec" /\ do_exec(q, started)
      <3>1. /\ queue' = q /\ owed' = owed \ started
            /\ UNCHANGED <<actions, commands, props, enabled, waitprop>>
        BY <2>7 DEF do_exec
      <3>2. WaitInv'
        BY <2>3, <3>1 DEF WaitInv
      <3>. QED BY <3>1, <3>2, QuietEffect
    <2>8. CASE cmd.op = "mount_all" /\ do_mount_all(cmd, q, started)
      <3>1. cmd.import \in Imports
        BY <2>8, CmdFacts
      <3>. QED BY <2>8, <3>1, MountEffect
    <2>9. CASE cmd.op = "other" /\ queue' = q /\ owed' = owed \ started
               /\ UNCHANGED <<actions, commands, props, enabled, waitprop, execwait>>
      <3>1. WaitInv'
        BY <2>3, <2>9 DEF WaitInv
      <3>. QED BY <2>9, <3>1, QuietEffect
    <2>. QED BY <2>2, <2>4, <2>5, <2>6, <2>7, <2>8, <2>9 DEF Command
  <1>2. ASSUME a \in Builtins
        PROVE  commands[a][current + 1] = [op |-> a] /\ started \in SUBSET Builtins
    <2>1. commands[a] = <<[op |-> a]>>
      BY <1>2 DEF CmdInv
    <2>2. Len(commands[a]) = 1 /\ commands[a][1] = [op |-> a]
      BY <2>1
    <2>3. current = 0
      BY <2>2
    <2>. QED BY <1>2, <2>2, <2>3
  <1>3. CASE a = Queuer
    <2>1. a \in Builtins /\ a \notin RcActs /\ a # Enabler
      BY <1>3, ActFacts
    <2>2. queue_property_triggers_action(q) /\ started \in SUBSET Builtins
      BY <1>2, <1>3, <2>1 DEF Command, Queuer, Enabler
    <2>. QED BY <2>1, <2>2, QueuerEffect
  <1>4. CASE a = Enabler
    <2>1. a \in Builtins /\ a \notin RcActs /\ a # Queuer
      BY <1>4, ActFacts
    <2>2. property_enable_triggers_action(q) /\ started \in SUBSET Builtins
      BY <1>2, <1>4, <2>1 DEF Command, Queuer, Enabler
    <2>. QED BY <1>4, <2>1, <2>2, EnablerEffect
  <1>. QED BY <1>1, <1>3, <1>4 DEF Acts, Builtins

-----------------------------------------------------------------------------
(* A command is run, of the first action in run. *)
LEMMA StepKeeps ==
  ASSUME NEW run \in Seq(Acts), NEW q \in Seq(Trigger), run # <<>>,
         QueueInv(run, current, q), ~ Waiting, Step(run, q)
  PROVE  QueueInv(executing, current, queue)'
  <1>. DEFINE a == run[1]
              started == IF current = 0 THEN {a} ELSE {}
  <1>0. /\ StateType /\ CmdInv /\ WaitInv /\ RunInv(run, current) /\ OwedInv(run, current, q)
        /\ EnableInv(run, q)
    BY DEF QueueInv
  <1>1. Len(run) \in Nat /\ Len(run) # 0 /\ a \in Acts /\ current \in Nat /\ current < Len(commands[a])
    <2>1. Len(run) \in Nat /\ Len(run) # 0
      BY LenProperties, EmptySeq
    <2>2. 1 \in 1 .. Len(run)
      BY <2>1
    <2>. QED BY <1>0, <2>1, <2>2, ElementOfSeq DEF RunInv
  <1>2. Tail(run) \in Seq(Acts) /\ Len(Tail(run)) = Len(run) - 1
        /\ \A i \in 1 .. Len(Tail(run)) : Tail(run)[i] = run[i + 1]
    BY HeadTailProperties
  <1>3. /\ Command(commands[a][current + 1], q, started)
        /\ \/ current + 1 = Len(commands'[a]) /\ executing' = Tail(run) /\ current' = 0
           \/ current + 1 # Len(commands'[a]) /\ executing' = run /\ current' = current + 1
    BY DEF Step
  <1>4. started \in SUBSET {a} /\ (current = 0 => started = {a})
    OBVIOUS
  <1>. HIDE DEF started
  <1>5. \A b \in owed : b \in Elems(actions) /\ Holds(b, props)
    BY <1>0 DEF OwedInv
  <1>6. PICK b \in Acts : b = a
    BY <1>1
  <1>7. /\ Effect(q, started)
        /\ b \in RcActs => /\ enabled' = enabled /\ Elems(actions) \subseteq Elems(actions')
                           /\ Enabler \notin Elems(actions) => Enabler \notin Elems(actions')
        /\ b = Queuer =>
             /\ enabled' = enabled /\ Enabler \in Elems(actions')
             /\ \E i, j \in 1 .. Len(queue') :
                  i < j /\ queue'[i] = BuiltinTrigger(Enabler) /\ queue'[j] = EvaluateAll
        /\ b = Enabler => enabled'
    BY <1>0, <1>1, <1>3, <1>4, <1>5, <1>6, CommandEffect
  <1>8. /\ StateType' /\ CmdInv' /\ WaitInv' /\ Len(commands[b]) <= Len(commands'[b])
        /\ queue' \in Seq(Trigger) /\ Len(q) <= Len(queue') /\ \A i \in 1 .. Len(q) : queue'[i] = q[i]
        /\ \A c \in Acts : Len(commands'[c]) > 0
    BY <1>7 DEF Effect, CmdInv
  <1>9. Len(q) \in Nat /\ Len(queue') \in Nat /\ \A i \in 1 .. Len(q) : i \in 1 .. Len(queue') /\ q[i] \in Trigger
    <2>1. Len(q) \in Nat /\ Len(queue') \in Nat /\ \A i \in 1 .. Len(q) : q[i] \in Trigger
      BY <1>8, LenProperties, ElementOfSeq
    <2>2. Len(q) <= Len(queue')
      BY <1>8
    <2>. QED BY <2>1, <2>2
  <1>10. RunInv(executing, current)'
    <2>1. Len(commands[b]) \in Nat /\ Len(commands'[b]) \in Nat
      BY <1>0, <1>8, LenProperties DEF CmdInv
    <2>2. CASE current + 1 = Len(commands'[b]) /\ executing' = Tail(run) /\ current' = 0
      <3>1. executing' # <<>> => executing'[1] \in Acts
        <4>1. Len(Tail(run)) \in Nat /\ (Tail(run) # <<>> => Len(Tail(run)) # 0)
          BY <1>2, LenProperties, EmptySeq
        <4>2. Tail(run) # <<>> => 1 \in 1 .. Len(Tail(run))
          BY <4>1
        <4>. QED BY <1>2, <2>2, <4>2, ElementOfSeq
      <3>. QED BY <1>2, <1>8, <2>2, <3>1 DEF RunInv
    <2>3. CASE current + 1 # Len(commands'[b]) /\ executing' = run /\ current' = current + 1
      <3>1. current + 1 \in Nat /\ current + 1 < Len(commands'[b])
        BY <1>1, <1>6, <1>8, <2>1, <2>3
      <3>. QED BY <1>6, <2>3, <3>1 DEF RunInv
    <2>. QED BY <1>3, <1>6, <2>2, <2>3
  <1>11. \A i \in 1 .. Len(run) : i # 1 =>
           \E j \in 1 .. Len(executing') : executing'[j] = run[i] /\ (j = 1 => current' = 0)
    <2>. SUFFICES ASSUME NEW i \in 1 .. Len(run), i # 1
                  PROVE  \E j \in 1 .. Len(executing') : executing'[j] = run[i] /\ (j = 1 => current' = 0)
      OBVIOUS
    <2>1. CASE executing' = Tail(run) /\ current' = 0
      <3>1. Len(executing') = Len(run) - 1
        BY <1>2, <2>1
      <3>2. i - 1 \in 1 .. Len(executing') /\ (i - 1) + 1 = i
        BY <1>1, <3>1
      <3>3. executing'[i - 1] = run[i]
        BY <1>2, <2>1, <3>2
      <3>. QED BY <2>1, <3>2, <3>3
    <2>2. CASE executing' = run
      BY <2>2
    <2>. QED BY <1>3, <2>1, <2>2
  <1>12. \A x \in Elems(executing') : x \in Elems(run)
    <2>1. CASE executing' = run
      BY <2>1
    <2>2. CASE executing' = Tail(run)
      <3>1. Len(executing') = Len(run) - 1
        BY <1>2, <2>2
      <3>2. \A i \in 1 .. Len(executing') : i + 1 \in 1 .. Len(run)
        BY <1>1, <3>1
      <3>. QED BY <1>2, <2>2, <3>2 DEF Elems
    <2>. QED BY <1>3, <2>1, <2>2
  <1>13. \A x \in Elems(run) : x = b \/ x \in Elems(executing')
    BY <1>6, <1>11 DEF Elems
  <1>14. ~ enabled /\ b = Enabler => EvaluateAll \in Elems(q)
    <2>. SUFFICES ASSUME ~ enabled, b = Enabler PROVE EvaluateAll \in Elems(q)
      OBVIOUS
    <2>1. 1 \in 1 .. Len(run)
      BY <1>1
    <2>2. Enabler \in Elems(run)
      BY <1>6, <2>1 DEF Elems
    <2>. QED BY <1>0, <2>2 DEF EnableInv, Elems
  <1>15. OwedInv(executing, current, queue)'
    <2>. SUFFICES ASSUME NEW c \in owed'
                  PROVE  /\ c \in Elems(actions') /\ Holds(c, props)'
                         /\ enabled' => Pending(c, executing, current, queue)'
      BY DEF OwedInv
    <2>1. /\ c \in Elems(actions) /\ Holds(c, props)'
          /\ enabled => \/ \E i \in 1 .. Len(queue') : WillStart(queue[i], c)'
                        \/ /\ c \in owed /\ c \notin started
                           /\ \A t \in Trigger : WillStart(t, c) => WillStart(t, c)'
      BY <1>7 DEF Effect
    <2>2. c \in Elems(actions')
      <3>1. c \in RcActs
        BY <1>8, ActFacts DEF StateType
      <3>. QED BY <1>7, <2>1, <3>1 DEF Effect
    <2>3. ASSUME NEW i \in 1 .. Len(q), NEW t, t = q[i], WillStart(t, c)'
          PROVE  Pending(c, executing, current, queue)'
      <3>1. i \in 1 .. Len(queue') /\ queue'[i] = t
        BY <1>8, <1>9, <2>3
      <3>. QED BY <2>3, <3>1 DEF Pending, WillStart
    <2>4. CASE enabled
      <3>1. CASE \E i \in 1 .. Len(queue') : WillStart(queue[i], c)'
        BY <2>1, <2>2, <3>1 DEF Pending
      <3>2. CASE /\ c \in owed /\ c \notin started
                 /\ \A t \in Trigger : WillStart(t, c) => WillStart(t, c)'
        <4>1. Pending(c, run, current, q)
          BY <1>0, <2>4, <3>2 DEF OwedInv
        <4>2. ASSUME NEW i \in 1 .. Len(q), WillStart(q[i], c)
              PROVE  Pending(c, executing, current, queue)'
          <5>1. PICK t \in Trigger : t = q[i]
            BY <1>9
          <5>2. WillStart(t, c)'
            BY <3>2, <4>2, <5>1
          <5>. QED BY <2>3, <5>1, <5>2
        <4>3. ASSUME NEW i \in 1 .. Len(run), run[i] = c, i = 1 => current = 0
              PROVE  Pending(c, executing, current, queue)'
          <5>1. i # 1
            BY <1>4, <3>2, <4>3
          <5>. QED BY <1>11, <4>3, <5>1 DEF Pending
        <4>. QED BY <2>1, <2>2, <4>1, <4>2, <4>3 DEF Pending
      <3>. QED BY <2>1, <2>4, <3>1, <3>2
    <2>5. CASE ~ enabled
      <3>. SUFFICES ASSUME enabled' PROVE Pending(c, executing, current, queue)'
        BY <2>1, <2>2
      <3>1. b = Enabler
        BY <1>7, <2>5 DEF Acts, Builtins
      <3>2. PICK i \in 1 .. Len(q) : q[i] = EvaluateAll
        BY <1>14, <2>5, <3>1 DEF Elems
      <3>3. q[i].kind = "property" /\ q[i].name = ""
        BY <3>2, EvaluateAllFacts
      <3>. QED BY <1>8, <1>9, <3>3 DEF Pending, WillStart
    <2>. QED BY <2>4, <2>5
  <1>16. EnableInv(executing, queue)'
    <2>. SUFFICES ASSUME ~ enabled' PROVE EnableInv(executing, queue)'
      BY DEF EnableInv
    <2>1. CASE b = Queuer
      BY <1>7, <2>1 DEF EnableInv, BuiltinTrigger, EvaluateAll, PropertyTrigger
    <2>2. CASE b \in RcActs
      <3>0. ~ enabled /\ b # Queuer /\ b # Enabler
        <4>1. b # Queuer /\ b # Enabler
          BY <2>2, ActsAssumption DEF Builtins
        <4>. QED BY <1>7, <2>2, <4>1
      <3>1. \A x \in Elems(q) : x \in Elems(queue')
        BY <1>8, <1>9 DEF Elems
      <3>2. CASE /\ Enabler \notin Elems(actions) /\ Enabler \notin Elems(run)
                 /\ \/ Queuer \in Elems(run)
                    \/ Queuer \in Elems(actions) /\ BuiltinTrigger(Queuer) \in Elems(q)
        <4>1. Enabler \notin Elems(actions') /\ Enabler \notin Elems(executing')
          BY <1>7, <1>12, <2>2, <3>2
        <4>2. \/ Queuer \in Elems(executing')
              \/ Queuer \in Elems(actions') /\ BuiltinTrigger(Queuer) \in Elems(queue')
          BY <1>7, <1>13, <2>2, <3>0, <3>1, <3>2
        <4>. QED BY <4>1, <4>2 DEF EnableInv
      <3>3. CASE Enabler \in Elems(run) /\ EvaluateAll \in Elems(q)
        <4>1. Enabler \in Elems(executing') /\ EvaluateAll \in Elems(queue')
          BY <1>13, <3>0, <3>1, <3>3
        <4>. QED BY <4>1 DEF EnableInv
      <3>4. CASE /\ Enabler \in Elems(actions)
                 /\ \E i, j \in 1 .. Len(q) :
                      i < j /\ q[i] = BuiltinTrigger(Enabler) /\ q[j] = EvaluateAll
        <4>1. PICK i, j \in 1 .. Len(q) :
                i < j /\ q[i] = BuiltinTrigger(Enabler) /\ q[j] = EvaluateAll
          BY <3>4
        <4>2. /\ i \in 1 .. Len(queue') /\ j \in 1 .. Len(queue')
              /\ queue'[i] = BuiltinTrigger(Enabler) /\ queue'[j] = EvaluateAll
          BY <1>8, <1>9, <4>1
        <4>3. Enabler \in Elems(actions')
          BY <1>7, <2>2, <3>4
        <4>. QED BY <4>1, <4>2, <4>3 DEF EnableInv
      <3>. QED BY <1>0, <3>0, <3>2, <3>3, <3>4 DEF EnableInv
    <2>. QED BY <1>7, <2>1, <2>2 DEF Acts, Builtins
  <1>. QED BY <1>8, <1>10, <1>15, <1>16 DEF QueueInv

(* The first trigger that matches an action is taken from the queue, and   *)
(* those before it are dropped.                                            *)
LEMMA TakeKeeps ==
  ASSUME QueueInv(executing, current, queue), executing = <<>>,
         NEW k \in 1 .. Len(queue),
         \E x \in 1 .. Len(actions) : CheckTriggers(queue[k], actions[x]),
         \A i \in 1 .. Len(queue) :
           (\E x \in 1 .. Len(actions) : CheckTriggers(queue[i], actions[x])) => k <= i,
         NEW run, run = Matching(queue[k]), NEW q, q = SubSeq(queue, k + 1, Len(queue))
  PROVE  run \in Seq(Acts) /\ q \in Seq(Trigger) /\ run # <<>> /\ QueueInv(run, current, q)
  <1>0. /\ StateType /\ CmdInv /\ WaitInv /\ RunInv(executing, current)
        /\ OwedInv(executing, current, queue) /\ EnableInv(executing, queue)
        /\ queue \in Seq(Trigger) /\ actions \in Seq(Acts) /\ current = 0
    BY DEF QueueInv, StateType, RunInv
  <1>1. Len(queue) \in Nat /\ k \in Nat
    BY <1>0, LenProperties
  <1>2. /\ q \in Seq(Trigger) /\ Len(q) = Len(queue) - k
        /\ \A i \in 1 .. Len(q) : q[i] = queue[k + i]
    <2>1. /\ q \in Seq(Trigger)
          /\ Len(q) = IF k + 1 <= Len(queue) THEN Len(queue) - (k + 1) + 1 ELSE 0
          /\ \A i \in 1 .. Len(queue) - (k + 1) + 1 : q[i] = queue[(k + 1) + i - 1]
      <3>1. k + 1 \in 1 .. Len(queue) + 1 /\ Len(queue) \in (k + 1) - 1 .. Len(queue)
        BY <1>1
      <3>. QED BY <1>0, <3>1, SubSeqProperties
    <2>2. Len(q) = Len(queue) - k
      BY <1>1, <2>1
    <2>3. ASSUME NEW i \in 1 .. Len(q) PROVE q[i] = queue[k + i]
      <3>1. i \in 1 .. Len(queue) - (k + 1) + 1 /\ (k + 1) + i - 1 = k + i
        BY <1>1, <2>2
      <3>. QED BY <2>1, <3>1
    <2>. QED BY <2>1, <2>2, <2>3
  <1>3. /\ run \in Seq(Acts)
        /\ \A x : x \in Elems(run) <=> x \in Elems(actions) /\ CheckTriggers(queue[k], x)
    <2>. DEFINE S == {a \in Acts : CheckTriggers(queue[k], a)}
    <2>1. run = Select(actions, S)
      BY DEF Matching
    <2>2. run \in Seq(Acts) /\ \A x : x \in Elems(run) <=> x \in Elems(actions) /\ x \in S
      <3>. HIDE DEF S
      <3>. QED BY <1>0, <2>1, SelectFacts
    <2>3. \A x \in Elems(actions) : x \in Acts
      BY <1>0, ElemsFacts
    <2>. QED BY <2>2, <2>3
  <1>4. run # <<>> /\ Len(run) \in Nat /\ run[1] \in Acts
    <2>1. \E x : x \in Elems(run)
      BY <1>3 DEF Elems
    <2>2. PICK i \in 1 .. Len(run) : TRUE
      BY <2>1 DEF Elems
    <2>3. Len(run) \in Nat
      BY <1>3, LenProperties
    <2>4. 1 \in 1 .. Len(run) /\ Len(run) # 0
      BY <2>2, <2>3
    <2>. QED BY <1>3, <2>3, <2>4, ElementOfSeq, EmptySeq
  <1>5. RunInv(run, current)
    <2>1. 0 < Len(commands[run[1]])
      <3>1. Len(commands[run[1]]) > 0 /\ Len(commands[run[1]]) \in Nat
        BY <1>0, <1>4, LenProperties DEF CmdInv
      <3>. QED BY <3>1
    <2>. QED BY <1>0, <1>3, <1>4, <2>1 DEF RunInv
  <1>6. \A i \in 1 .. Len(queue) : k < i => i - k \in 1 .. Len(q) /\ q[i - k] = queue[i]
    <2>. SUFFICES ASSUME NEW i \in 1 .. Len(queue), k < i
                  PROVE  i - k \in 1 .. Len(q) /\ q[i - k] = queue[i]
      OBVIOUS
    <2>1. Len(q) = Len(queue) - k
      BY <1>2
    <2>2. i - k \in 1 .. Len(q) /\ k + (i - k) = i
      BY <1>1, <2>1
    <2>. QED BY <1>2, <2>2
  <1>7. ASSUME NEW i \in 1 .. Len(queue), NEW x \in Elems(actions), CheckTriggers(queue[i], x)
        PROVE  i = k \/ k < i
    <2>1. k <= i
      BY <1>7 DEF Elems
    <2>. QED BY <1>1, <2>1
  <1>8. ASSUME NEW x PROVE x \notin Elems(executing)
    <2>1. Len(executing) = 0
      BY EmptySeq
    <2>2. 1 .. Len(executing) = {}
      BY <2>1
    <2>. QED BY <2>2 DEF Elems
  <1>9. OwedInv(run, current, q)
    <2>. SUFFICES ASSUME NEW a \in owed, enabled PROVE Pending(a, run, current, q)
      BY <1>0 DEF OwedInv
    <2>1. a \in Elems(actions) /\ Holds(a, props) /\ Pending(a, executing, current, queue)
          /\ a \in PropActs
      BY <1>0 DEF OwedInv, StateType
    <2>2. PICK i \in 1 .. Len(queue) : WillStart(queue[i], a)
      BY <1>8, <2>1 DEF Pending, Elems
    <2>3. CheckTriggers(queue[i], a)
      BY <2>1, <2>2, WillStartMatches
    <2>4. CASE i = k
      BY <1>0, <1>3, <2>1, <2>3, <2>4 DEF Pending, Elems
    <2>5. CASE k < i
      BY <1>6, <2>2, <2>5 DEF Pending
    <2>. QED BY <1>7, <2>1, <2>3, <2>4, <2>5
  <1>10. ASSUME NEW b, b \in Elems(actions), NEW i \in 1 .. Len(queue), queue[i] = BuiltinTrigger(b)
         PROVE  CheckTriggers(queue[i], b)
    BY <1>10, BuiltinMatches
  <1>11. EnableInv(run, q)
    <2>. SUFFICES ASSUME ~ enabled PROVE EnableInv(run, q)
      BY DEF EnableInv
    <2>1. CASE /\ Enabler \notin Elems(actions) /\ Queuer \in Elems(actions)
               /\ BuiltinTrigger(Queuer) \in Elems(queue)
      <3>1. PICK i \in 1 .. Len(queue) : queue[i] = BuiltinTrigger(Queuer)
        BY <2>1 DEF Elems
      <3>2. CheckTriggers(queue[i], Queuer) /\ (i = k \/ k < i)
        BY <1>7, <1>10, <2>1, <3>1
      <3>3. Enabler \notin Elems(run)
        BY <1>3, <2>1
      <3>4. CASE i = k
        BY <1>3, <2>1, <3>2, <3>3, <3>4 DEF EnableInv
      <3>5. CASE k < i
        <4>1. BuiltinTrigger(Queuer) \in Elems(q)
          BY <1>6, <3>1, <3>5 DEF Elems
        <4>. QED BY <2>1, <3>3, <4>1 DEF EnableInv
      <3>. QED BY <3>2, <3>4, <3>5
    <2>2. CASE /\ Enabler \in Elems(actions)
               /\ \E i, j \in 1 .. Len(queue) :
                    i < j /\ queue[i] = BuiltinTrigger(Enabler) /\ queue[j] = EvaluateAll
      <3>1. PICK i, j \in 1 .. Len(queue) :
              i < j /\ queue[i] = BuiltinTrigger(Enabler) /\ queue[j] = EvaluateAll
        BY <2>2
      <3>2. CheckTriggers(queue[i], Enabler) /\ (i = k \/ k < i)
        BY <1>7, <1>10, <2>2, <3>1
      <3>3. k < j /\ j - k \in 1 .. Len(q) /\ q[j - k] = EvaluateAll
        <4>1. k < j
          BY <1>1, <3>1, <3>2
        <4>. QED BY <1>6, <3>1, <4>1
      <3>4. CASE i = k
        <4>1. Enabler \in Elems(run) /\ EvaluateAll \in Elems(q)
          BY <1>3, <2>2, <3>2, <3>3, <3>4 DEF Elems
        <4>. QED BY <4>1 DEF EnableInv
      <3>5. CASE k < i
        <4>1. i - k \in 1 .. Len(q) /\ q[i - k] = BuiltinTrigger(Enabler)
          BY <1>6, <3>1, <3>5
        <4>2. i - k < j - k
          BY <1>1, <3>1
        <4>. QED BY <2>2, <3>3, <4>1, <4>2 DEF EnableInv
      <3>. QED BY <3>2, <3>4, <3>5
    <2>. QED BY <1>0, <1>8, <2>1, <2>2 DEF EnableInv
  <1>. QED BY <1>0, <1>2, <1>3, <1>4, <1>5, <1>9, <1>11 DEF QueueInv

(* No trigger matches any action: nothing is owed, and the triggers have   *)
(* been enabled, for their two builtin triggers would have matched.        *)
LEMMA DropKeeps ==
  ASSUME QueueInv(executing, current, queue), executing = <<>>,
         ~ \E k \in 1 .. Len(queue), x \in 1 .. Len(actions) : CheckTriggers(queue[k], actions[x])
  PROVE  enabled /\ owed = {}
  <1>0. /\ StateType /\ OwedInv(executing, current, queue) /\ EnableInv(executing, queue)
    BY DEF QueueInv
  <1>1. \A k \in 1 .. Len(queue) : \A x \in Elems(actions) : ~ CheckTriggers(queue[k], x)
    BY DEF Elems
  <1>2. ASSUME NEW b, b \in Elems(actions), NEW i \in 1 .. Len(queue), queue[i] = BuiltinTrigger(b)
        PROVE  CheckTriggers(queue[i], b)
    BY <1>2, BuiltinMatches
  <1>3. ASSUME NEW x PROVE x \notin Elems(executing)
    <2>1. Len(executing) = 0
      BY EmptySeq
    <2>2. 1 .. Len(executing) = {}
      BY <2>1
    <2>. QED BY <2>2 DEF Elems
  <1>4. enabled
    <2>1. ~ (Queuer \in Elems(actions) /\ BuiltinTrigger(Queuer) \in Elems(queue))
      BY <1>1, <1>2 DEF Elems
    <2>2. ~ /\ Enabler \in Elems(actions)
            /\ \E i, j \in 1 .. Len(queue) :
                 i < j /\ queue[i] = BuiltinTrigger(Enabler) /\ queue[j] = EvaluateAll
      BY <1>1, <1>2
    <2>. QED BY <1>0, <1>3, <2>1, <2>2 DEF EnableInv
  <1>5. ASSUME NEW a \in owed PROVE FALSE
    <2>1. a \in Elems(actions) /\ Holds(a, props) /\ Pending(a, executing, current, queue)
          /\ a \in PropActs
      BY <1>0, <1>4 DEF OwedInv, StateType
    <2>2. PICK i \in 1 .. Len(queue) : WillStart(queue[i], a)
      BY <1>3, <2>1 DEF Pending, Elems
    <2>3. CheckTriggers(queue[i], a)
      BY <2>1, <2>2, WillStartMatches
    <2>. QED BY <1>1, <2>1, <2>3
  <1>. QED BY <1>4, <1>5

-----------------------------------------------------------------------------
(* Before the loop *)
LEMMA InitIInv == Init => IInv
  <1>. SUFFICES ASSUME Init PROVE IInv
    OBVIOUS
  <1>1. /\ actions = Append(Loaded, Queuer) /\ executing = <<>> /\ current = 0
        /\ commands = [a \in Acts |-> IF a \in Builtins THEN <<[op |-> a]>> ELSE Script[a]]
        /\ queue = Append([i \in 1 .. Len(Boot) |-> EventTrigger(Boot[i])], BuiltinTrigger(Queuer))
        /\ props = [n \in Names |-> ""] /\ enabled = FALSE /\ waitprop = {} /\ execwait = FALSE
        /\ pc = "command" /\ timeout = "none" /\ owed = {}
    BY DEF Init
  <1>2. /\ Queuer \in Acts /\ Queuer \in Builtins /\ Loaded \in Seq(RcActs) /\ RcActs \subseteq Acts
        /\ Enabler \in Builtins /\ Enabler # Queuer /\ \A a \in RcActs : a \notin Builtins
    BY ActFacts, ActsAssumption
  <1>3. Loaded \in Seq(Acts)
    BY <1>2, SeqMonotonic
  <1>4. /\ actions \in Seq(Acts) /\ Queuer \in Elems(actions)
        /\ \A x \in Elems(actions) : x \in Elems(Loaded) \/ x = Queuer
    BY <1>1, <1>2, <1>3, ElemsFacts, ZenonT(40)
  <1>5. Enabler \notin Elems(actions)
    <2>1. \A x \in Elems(Loaded) : x \in RcActs
      BY <1>2, ElemsFacts
    <2>. QED BY <1>2, <1>4, <2>1
  <1>6. queue \in Seq(Trigger) /\ BuiltinTrigger(Queuer) \in Elems(queue)
    <2>. DEFINE s == [i \in 1 .. Len(Boot) |-> EventTrigger(Boot[i])]
    <2>1. Boot \in Seq(Events) /\ Len(Boot) \in Nat
      BY TriggerAssumption, LenProperties
    <2>2. \A i \in 1 .. Len(Boot) : EventTrigger(Boot[i]) \in Trigger
      BY <2>1, ElementOfSeq, TriggerFacts
    <2>3. s \in Seq(Trigger)
      BY <2>1, <2>2, IsASeq
    <2>4. BuiltinTrigger(Queuer) \in Trigger
      BY <1>2, TriggerFacts
    <2>5. queue = Append(s, BuiltinTrigger(Queuer))
      BY DEF Init
    <2>. HIDE DEF s
    <2>. QED BY <2>3, <2>4, <2>5, ElemsFacts
  <1>7. CmdInv
    <2>1. \A a \in RcActs : commands[a] = Script[a] /\ Script[a] \in Seq(Cmds) /\ Len(Script[a]) \in Nat
                            /\ Len(Script[a]) # 0
      <3>1. \A a \in RcActs : Script[a] \in Seq(Cmds) /\ Script[a] # <<>>
        BY ScriptAssumption
      <3>2. \A a \in RcActs : Len(Script[a]) \in Nat /\ Len(Script[a]) # 0
        BY <3>1, LenProperties, EmptySeq
      <3>3. \A a \in RcActs : commands[a] = Script[a]
        BY <1>1, <1>2
      <3>. QED BY <3>1, <3>2, <3>3
    <2>2. \A b \in Builtins : commands[b] = <<[op |-> b]>>
      BY <1>1 DEF Acts
    <2>3. \A b \in Builtins : commands[b] \in Seq(AllCmds) /\ Len(commands[b]) > 0
      <3>. SUFFICES ASSUME NEW b \in Builtins
                    PROVE  commands[b] \in Seq(AllCmds) /\ Len(commands[b]) > 0
        OBVIOUS
      <3>1. PICK c \in AllCmds : c = [op |-> b]
        BY DEF AllCmds
      <3>2. <<c>> \in Seq(AllCmds) /\ Len(<<c>>) = 1
        BY ShortSeqs
      <3>3. commands[b] = <<c>>
        BY <2>2, <3>1
      <3>4. Len(commands[b]) = 1
        BY <3>2, <3>3
      <3>. QED BY <3>2, <3>3, <3>4
    <2>4. \A a \in RcActs : commands[a] \in Seq(AllCmds) /\ Len(commands[a]) > 0
      BY <2>1, SeqMonotonic DEF AllCmds
    <2>5. \A a \in Acts : commands[a] \in Seq(AllCmds) /\ Len(commands[a]) > 0
      <3>. SUFFICES ASSUME NEW a \in Acts PROVE commands[a] \in Seq(AllCmds) /\ Len(commands[a]) > 0
        OBVIOUS
      <3>1. CASE a \in RcActs
        BY <2>4, <3>1
      <3>2. CASE a \in Builtins
        BY <2>3, <3>2
      <3>. QED BY <3>1, <3>2 DEF Acts
    <2>6. commands \in [Acts -> Seq(AllCmds)]
      BY <1>1, <2>5
    <2>. QED BY <2>1, <2>2, <2>5, <2>6 DEF CmdInv
  <1>8. StateType /\ WaitInv /\ LoopType
    <2>1. "" \in Values
      BY NamesAssumption
    <2>. QED BY <1>1, <1>4, <2>1 DEF StateType, WaitInv, LoopType
  <1>9. RunInv(executing, current)
    BY <1>1, EmptySeq DEF RunInv
  <1>10. OwedInv(executing, current, queue) /\ NoSleepWithWork
    BY <1>1 DEF OwedInv, NoSleepWithWork
  <1>11. Enabler \notin Elems(executing)
    <2>1. executing = <<>>
      BY <1>1
    <2>2. Len(executing) = 0
      BY <2>1, EmptySeq
    <2>3. 1 .. Len(executing) = {}
      BY <2>2
    <2>. QED BY <2>3 DEF Elems
  <1>12. EnableInv(executing, queue)
    BY <1>4, <1>5, <1>6, <1>11 DEF EnableInv
  <1>. QED BY <1>6, <1>7, <1>8, <1>9, <1>10, <1>12 DEF IInv, QueueInv

(* An event that sets a property, or a restart that does *)
LEMMA EventKeeps ==
  ASSUME QueueInv(executing, current, queue), Effect(queue, {}),
         UNCHANGED <<actions, enabled, executing, current, commands>>
  PROVE  QueueInv(executing, current, queue)'
  <1>0. /\ RunInv(executing, current) /\ OwedInv(executing, current, queue)
        /\ EnableInv(executing, queue) /\ queue \in Seq(Trigger)
    BY DEF QueueInv
  <1>1. /\ StateType' /\ CmdInv' /\ WaitInv' /\ queue' \in Seq(Trigger) /\ Len(queue) <= Len(queue')
        /\ \A i \in 1 .. Len(queue) : queue'[i] = queue[i]
    BY DEF Effect
  <1>2. \A i \in 1 .. Len(queue) : i \in 1 .. Len(queue') /\ queue[i] \in Trigger
    <2>1. Len(queue) \in Nat /\ Len(queue') \in Nat /\ \A i \in 1 .. Len(queue) : queue[i] \in Trigger
      BY <1>0, <1>1, LenProperties, ElementOfSeq
    <2>2. Len(queue) <= Len(queue')
      BY <1>1
    <2>. QED BY <2>1, <2>2
  <1>3. RunInv(executing, current)'
    BY <1>0 DEF RunInv
  <1>4. OwedInv(executing, current, queue)'
    <2>. SUFFICES ASSUME NEW c \in owed'
                  PROVE  /\ c \in Elems(actions') /\ Holds(c, props)'
                         /\ enabled' => Pending(c, executing, current, queue)'
      BY DEF OwedInv
    <2>1. /\ c \in Elems(actions) /\ Holds(c, props)'
          /\ enabled => \/ \E i \in 1 .. Len(queue') : WillStart(queue[i], c)'
                        \/ c \in owed /\ \A t \in Trigger : WillStart(t, c) => WillStart(t, c)'
      BY DEF Effect
    <2>2. CASE ~ enabled
      BY <2>1, <2>2
    <2>3. CASE \E i \in 1 .. Len(queue') : WillStart(queue[i], c)'
      BY <2>1, <2>3 DEF Pending
    <2>4. CASE enabled /\ c \in owed /\ \A t \in Trigger : WillStart(t, c) => WillStart(t, c)'
      <3>1. Pending(c, executing, current, queue)
        BY <1>0, <2>4 DEF OwedInv
      <3>2. ASSUME NEW i \in 1 .. Len(queue), WillStart(queue[i], c)
            PROVE  Pending(c, executing, current, queue)'
        <4>1. PICK t \in Trigger : t = queue[i]
          BY <1>2
        <4>2. WillStart(t, c)'
          BY <2>4, <3>2, <4>1
        <4>3. i \in 1 .. Len(queue') /\ queue'[i] = t
          BY <1>1, <1>2, <4>1
        <4>. QED BY <4>2, <4>3 DEF Pending, WillStart
      <3>3. ASSUME NEW i \in 1 .. Len(executing), executing[i] = c, i = 1 => current = 0
            PROVE  Pending(c, executing, current, queue)'
        BY <3>3 DEF Pending
      <3>4. Pending(c, executing, current, queue)'
        BY <3>1, <3>2, <3>3 DEF Pending
      <3>. QED BY <2>1, <3>4
    <2>. QED BY <2>1, <2>2, <2>3, <2>4
  <1>5. EnableInv(executing, queue)'
    <2>1. \A x \in Elems(queue) : x \in Elems(queue')
      BY <1>1, <1>2 DEF Elems
    <2>2. ASSUME NEW i \in 1 .. Len(queue), NEW j \in 1 .. Len(queue), i < j,
                 queue[i] = BuiltinTrigger(Enabler), queue[j] = EvaluateAll
          PROVE  \E x, y \in 1 .. Len(queue') :
                   x < y /\ queue'[x] = BuiltinTrigger(Enabler) /\ queue'[y] = EvaluateAll
      BY <1>1, <1>2, <2>2
    <2>. QED BY <1>0, <2>1, <2>2 DEF EnableInv
  <1>. QED BY <1>1, <1>3, <1>4, <1>5 DEF QueueInv

(* Nothing in the queue, the actions or the properties changes. *)
LEMMA SameKeeps ==
  ASSUME QueueInv(executing, current, queue), UNCHANGED <<am, props, enabled, waitprop, owed>>
  PROVE  QueueInv(executing, current, queue)'
  BY DEF QueueInv, StateType, CmdInv, WaitInv, RunInv, OwedInv, Pending, WillStart, Holds, EnableInv, am

(* A property is set outside of a command. *)
LEMMA SetKeeps ==
  ASSUME QueueInv(executing, current, queue), NEW n \in Names, NEW v \in Values,
         SetProperty(n, v, queue), owed' = Owed({n}, {}),
         UNCHANGED <<actions, commands, executing, current, enabled>>
  PROVE  QueueInv(executing, current, queue)'
  <1>1. StateType /\ CmdInv /\ WaitInv /\ queue \in Seq(Trigger)
    BY DEF QueueInv
  <1>2. Effect(queue, {})
    BY <1>1, SetEffect
  <1>. QED BY <1>2, EventKeeps

(* ActionManager::ExecuteOneCommand *)
LEMMA ExecuteKeeps ==
  ASSUME QueueInv(executing, current, queue), ~ Waiting, ExecuteOneCommand
  PROVE  QueueInv(executing, current, queue)'
  <1>0. /\ executing \in Seq(Acts) /\ queue \in Seq(Trigger)
    BY DEF QueueInv, RunInv
  <1>1. CASE executing # <<>> /\ Step(executing, queue)
    BY <1>0, <1>1, StepKeeps
  <1>. DEFINE hits == {k \in 1 .. Len(queue) :
                        \E i \in 1 .. Len(actions) : CheckTriggers(queue[k], actions[i])}
  <1>2. CASE /\ executing = <<>> /\ hits = {} /\ queue' = <<>>
             /\ UNCHANGED <<actions, commands, executing, current, props, enabled, waitprop, owed>>
    <2>1. enabled /\ owed = {}
      BY <1>2, DropKeeps
    <2>2. StateType' /\ CmdInv' /\ WaitInv' /\ RunInv(executing, current)' /\ queue' \in Seq(Trigger)
      BY <1>2, EmptySeq DEF QueueInv, StateType, CmdInv, WaitInv, RunInv
    <2>3. OwedInv(executing, current, queue)' /\ EnableInv(executing, queue)'
      BY <1>2, <2>1 DEF OwedInv, EnableInv
    <2>. QED BY <2>2, <2>3 DEF QueueInv
  <1>3. ASSUME executing = <<>>, NEW k \in hits, \A j \in hits : k <= j,
               NEW run, run = Matching(queue[k]), NEW q, q = SubSeq(queue, k + 1, Len(queue)),
               Step(run, q)
        PROVE  QueueInv(executing, current, queue)'
    <2>1. /\ run \in Seq(Acts) /\ q \in Seq(Trigger) /\ run # <<>> /\ QueueInv(run, current, q)
      BY <1>3, TakeKeeps
    <2>. QED BY <1>3, <2>1, StepKeeps
  <1>. QED BY <1>1, <1>2, <1>3 DEF ExecuteOneCommand

(* Only do_exec makes init wait for an exec. *)
LEMMA CommandExec ==
  ASSUME execwait \in BOOLEAN, NEW cmd, NEW q, NEW started, Command(cmd, q, started)
  PROVE  execwait' \in BOOLEAN
  <1>1. CASE do_setprop(cmd, q, started)
    BY <1>1 DEF do_setprop
  <1>2. CASE do_trigger(cmd, q, started)
    BY <1>2 DEF do_trigger
  <1>3. CASE do_wait_for_prop(cmd, q, started)
    BY <1>3 DEF do_wait_for_prop
  <1>4. CASE do_exec(q, started)
    BY <1>4 DEF do_exec
  <1>5. CASE do_mount_all(cmd, q, started)
    BY <1>5 DEF do_mount_all
  <1>6. CASE queue_property_triggers_action(q)
    BY <1>6 DEF queue_property_triggers_action
  <1>7. CASE property_enable_triggers_action(q)
    BY <1>7 DEF property_enable_triggers_action
  <1>8. CASE UNCHANGED execwait
    BY <1>8
  <1>. QED BY <1>1, <1>2, <1>3, <1>4, <1>5, <1>6, <1>7, <1>8 DEF Command

(* Every step of the loop, and every event, keeps the invariant. *)
LEMMA NextIInv ==
  ASSUME IInv, [Next]_vars
  PROVE  IInv'
  <1>0. QueueInv(executing, current, queue) /\ LoopType /\ NoSleepWithWork
    BY DEF IInv
  <1>1. CASE UNCHANGED vars
    <2>1. QueueInv(executing, current, queue)'
      BY <1>0, <1>1, SameKeeps DEF vars
    <2>. QED BY <1>0, <1>1, <2>1 DEF IInv, vars, am, LoopType, NoSleepWithWork, Waiting, HasMoreCommands
  <1>2. CASE CommandStep
    <2>1. QueueInv(executing, current, queue)'
      <3>1. CASE UNCHANGED <<am, props, enabled, waitprop, execwait, owed>>
        BY <1>0, <3>1, SameKeeps
      <3>2. CASE ~ Waiting /\ ExecuteOneCommand
        BY <1>0, <3>2, ExecuteKeeps
      <3>. QED BY <1>2, <3>1, <3>2 DEF CommandStep
    <2>2. execwait' \in BOOLEAN
      <3>1. execwait \in BOOLEAN
        BY <1>0 DEF LoopType
      <3>2. \A cmd, q, started : Command(cmd, q, started) => execwait' \in BOOLEAN
        BY <3>1, CommandExec
      <3>3. \A run, q : Step(run, q) => execwait' \in BOOLEAN
        BY <3>2 DEF Step
      <3>4. ExecuteOneCommand => execwait' \in BOOLEAN
        BY <3>1, <3>3 DEF ExecuteOneCommand
      <3>. QED BY <1>2, <3>1, <3>4 DEF CommandStep
    <2>3. LoopType' /\ NoSleepWithWork'
      BY <1>0, <1>2, <2>2 DEF CommandStep, LoopType, NoSleepWithWork
    <2>. QED BY <2>1, <2>3 DEF IInv
  <1>3. CASE RestartStep
    <2>1. CASE Waiting /\ timeout' = "forever" /\ UNCHANGED <<am, props, waitprop, owed>>
      <3>1. UNCHANGED <<enabled, execwait>> /\ pc' = "epoll"
        BY <1>3 DEF RestartStep
      <3>2. QueueInv(executing, current, queue)'
        BY <1>0, <2>1, <3>1, SameKeeps
      <3>3. LoopType' /\ NoSleepWithWork'
        BY <1>0, <2>1, <3>1 DEF LoopType, NoSleepWithWork, Waiting
      <3>. QED BY <3>2, <3>3 DEF IInv
    <2>2. CASE /\ ~ Waiting
               /\ \/ \E n \in SvcProps : /\ props[n] # "running"
                                         /\ SetProperty(n, "running", queue)
                                         /\ owed' = Owed({n}, {})
                  \/ UNCHANGED <<props, queue, waitprop, owed>>
               /\ UNCHANGED <<actions, commands, executing, current>>
               /\ timeout' \in IF HasMoreCommands' THEN {"none"} ELSE {"until", "forever"}
      <3>1. UNCHANGED <<enabled, execwait>> /\ pc' = "epoll"
        BY <1>3 DEF RestartStep
      <3>2. QueueInv(executing, current, queue)'
        <4>1. CASE UNCHANGED <<props, queue, waitprop, owed>>
          BY <1>0, <2>2, <3>1, <4>1, SameKeeps DEF am
        <4>2. ASSUME NEW n \in SvcProps, SetProperty(n, "running", queue), owed' = Owed({n}, {})
              PROVE  QueueInv(executing, current, queue)'
          <5>1. n \in Names /\ "running" \in Values
            BY NamesAssumption
          <5>. QED BY <1>0, <2>2, <3>1, <4>2, <5>1, SetKeeps
        <4>. QED BY <2>2, <4>1, <4>2
      <3>3. LoopType' /\ NoSleepWithWork'
        <4>1. timeout' \in {"none", "until", "forever"} /\ (timeout' = "forever" => ~ HasMoreCommands')
          BY <2>2
        <4>. QED BY <1>0, <3>1, <4>1 DEF LoopType, NoSleepWithWork
      <3>. QED BY <3>2, <3>3 DEF IInv
    <2>. QED BY <1>3, <2>1, <2>2 DEF RestartStep
  <1>4. CASE Timeout
    <2>1. QueueInv(executing, current, queue)'
      BY <1>0, <1>4, SameKeeps DEF Timeout
    <2>. QED BY <1>0, <1>4, <2>1 DEF Timeout, IInv, LoopType, NoSleepWithWork
  <1>5. CASE ExecEnds
    <2>1. QueueInv(executing, current, queue)'
      BY <1>0, <1>5, SameKeeps DEF ExecEnds
    <2>. QED BY <1>0, <1>5, <2>1 DEF ExecEnds, IInv, LoopType, NoSleepWithWork
  <1>6. ASSUME NEW n \in SvcProps, ServiceExits(n) PROVE IInv'
    <2>1. n \in Names /\ "stopped" \in Values
      BY NamesAssumption
    <2>2. QueueInv(executing, current, queue)'
      BY <1>0, <1>6, <2>1, SetKeeps DEF ServiceExits
    <2>. QED BY <1>0, <1>6, <2>2 DEF ServiceExits, IInv, LoopType, NoSleepWithWork
  <1>7. ASSUME NEW n \in Names, NEW v \in Values, PropertyEvent(n, v) PROVE IInv'
    <2>1. QueueInv(executing, current, queue)'
      BY <1>0, <1>7, SetKeeps DEF PropertyEvent
    <2>. QED BY <1>0, <1>7, <2>1 DEF PropertyEvent, IInv, LoopType, NoSleepWithWork
  <1>. QED BY <1>1, <1>2, <1>3, <1>4, <1>5, <1>6, <1>7 DEF Next, Loop

-----------------------------------------------------------------------------
(* Every behaviour keeps the inductive invariant. *)
THEOREM Inductive == Spec => []IInv
  BY InitIInv, NextIInv, PTL DEF Spec

(* Every variable of ActionManager and of the loop keeps its type; at most *)
(* one value is waited for, and the command that is next exists.           *)
THEOREM TypeCorrect == Spec => []TypeOK
  <1>1. IInv => TypeOK
    <2>. SUFFICES ASSUME IInv PROVE TypeOK
      OBVIOUS
    <2>1. waitprop \in SUBSET (Names \X Values) /\ Cardinality(waitprop) <= 1
      <3>1. CASE waitprop = {}
        BY <3>1, FS_EmptySet
      <3>2. ASSUME NEW n \in Names, NEW v \in Values, waitprop = {<<n, v>>}
            PROVE  waitprop \in SUBSET (Names \X Values) /\ Cardinality(waitprop) <= 1
        <4>1. Cardinality(waitprop) = 1
          BY <3>2, FS_Singleton
        <4>. QED BY <3>2, <4>1
      <3>. QED BY <3>1, <3>2 DEF IInv, QueueInv, WaitInv
    <2>2. DOMAIN commands = Acts
      BY DEF IInv, QueueInv, CmdInv
    <2>. QED BY <2>1, <2>2 DEF IInv, QueueInv, StateType, RunInv, LoopType, TypeOK
  <1>. QED BY <1>1, Inductive, PTL

(* init never goes to sleep with work to do. *)
THEOREM NeverSleepsWithWork == Spec => []NoSleepWithWork
  BY Inductive, PTL DEF IInv

(* init never waits for a value that the property has. *)
THEOREM WaitsAreNeeded == Spec => []WaitIsNeeded
  <1>1. IInv => WaitIsNeeded
    BY DEF IInv, QueueInv, WaitInv, WaitIsNeeded
  <1>. QED BY <1>1, Inductive, PTL

(* No change of a property is missed, around the moment triggers are       *)
(* enabled or later.                                                       *)
THEOREM PropertiesAreNotMissed == Spec => []NoMissedProperty
  <1>1. IInv => NoMissedProperty
    <2>. SUFFICES ASSUME IInv, enabled, executing = <<>>, queue = <<>>, NEW a \in owed PROVE FALSE
      BY DEF NoMissedProperty, HasMoreCommands
    <2>1. Pending(a, executing, current, queue)
      BY DEF IInv, QueueInv, OwedInv
    <2>2. 1 .. Len(executing) = {} /\ 1 .. Len(queue) = {}
      BY EmptySeq
    <2>. QED BY <2>1, <2>2 DEF Pending
  <1>. QED BY <1>1, Inductive, PTL

=============================================================================
