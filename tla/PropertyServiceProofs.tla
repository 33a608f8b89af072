----------------------- MODULE PropertyServiceProofs -----------------------
(***************************************************************************)
(* Proofs about PropertyService for every set of clients, calls, names and *)
(* values, every policy and every content of the boot files, and for any   *)
(* number of crashes.                                                      *)
(***************************************************************************)
EXTENDS PropertyService, SequenceTheorems, FiniteSetTheorems, TLAPS

(* What property_set may be called with *)
Items == [name : AllNames, value : Values \cup {Truncated}]
           \cup {[name |-> Version, value |-> "2"], [name |-> Ready, value |-> "true"]}

Writing == pc \in {"write", "fsync", "rename"}

(* What the file of n may hold *)
Genuine(n, v) ==
  \/ v = Factory[n]
  \/ \E r \in Asked : v = r.value /\ n \in {r.name, r.value} /\ <<r.by, n>> \in Allowed
  \/ again /\ \E i \in DOMAIN Overrides : Overrides[i] = [name |-> n, value |-> v]
  \/ v = Truncated /\ n \in torn

(* todo is a list of calls, empty exactly between two handlers, and the    *)
(* loading of the files is its last but one if it is there.                *)
TodoInv ==
  /\ todo \in Seq(Items \cup {LoadFiles})
  /\ \A i \in 1 .. Len(todo) : todo[i] = LoadFiles => i = Len(todo) - 1
  /\ pc \in {"idle", "recv"} <=> todo = <<>>

(* The files are still to be loaded after the i-th call. *)
Pending(i) == \E j \in 1 .. Len(todo) : i < j /\ todo[j] = LoadFiles

(* Before there is a socket init runs the boot files, and has no file to   *)
(* write; after that, whatever it sets may also be in a file, unless it    *)
(* sets it on the way to the first loading.                                *)
BootInv ==
  /\ ~ listening => /\ ~ loaded /\ serving = NoCall /\ pc = "run"
                    /\ \A i \in 1 .. Len(todo) : todo[i] # LoadFiles
  /\ listening => \A i \in 1 .. Len(todo) :
       todo[i] # LoadFiles /\ todo[i].name \in Persist =>
         Genuine(todo[i].name, todo[i].value) \/ (~ loaded /\ Pending(i))

(* While a file is written, its property has the value already, and the    *)
(* temporary file has it too unless the write failed.  A file whose        *)
(* content is not on the disk is one whose fsync failed.                   *)
WriteInv ==
  /\ Writing => /\ loaded /\ Head(todo) # LoadFiles
                /\ Head(todo).name \in Persist /\ Head(todo).value \notin Long
                /\ mem[Head(todo).name] = Head(todo).value
  /\ pc \in {"fsync", "rename"} =>
       \/ temp = Head(todo).value
       \/ temp = Truncated /\ Head(todo).name \in torn \cap spoilt
  /\ pc = "rename" => synced \/ Head(todo).name \in torn
  /\ unsafe \subseteq torn

(* The files, now and after a crash *)
FileInv ==
  \A n \in Persist : /\ Genuine(n, file[n]) /\ file[n] \notin Long
                     /\ Genuine(n, disk[n]) /\ disk[n] \notin Long

(* Memory and the file of n agree, or init is about to set the one from    *)
(* the other, or to write it.                                              *)
Match(n) ==
  file[n] # NoValue /\ mem[n] # NoValue =>
    \/ mem[n] = file[n]
    \/ \E i \in 1 .. Len(todo) : todo[i] = [name |-> n, value |-> file[n]]
    \/ Writing /\ n = Head(todo).name
MatchInv ==
  /\ \A n \in AllNames \cap Illegal : mem[n] = NoValue
  /\ loaded => \A n \in Persist \ spoilt : Match(n)

(* The calls in the queue and the one being served are different ones,     *)
(* unanswered, and have had no effect, until property_set is called.       *)
CallInv ==
  /\ pc = "idle" => serving = NoCall
  /\ pc = "recv" => serving # NoCall
  /\ serving # NoCall =>
       /\ call[serving] # NewCall /\ reply[serving] = "none"
       /\ pc \in {"recv", "run"} => serving \notin applied
       /\ pc # "recv" => todo = <<[name |-> NameOf(call[serving]), value |-> call[serving].value]>>
       /\ Writing /\ call[serving].proto = 2 => serving \in applied
  /\ \A i \in 1 .. Len(queue) :
       /\ queue[i] # serving /\ call[queue[i]] # NewCall
       /\ reply[queue[i]] = "none" /\ queue[i] \notin applied
       /\ \A j \in 1 .. Len(queue) : queue[i] = queue[j] => i = j

(* What init answers, and what a client makes of it *)
AnswerInv ==
  \A k \in Calls :
    /\ call[k] = NewCall => reply[k] = "none" /\ k \notin applied
    /\ reply[k] \in Results \ {"SUCCESS"} => k \notin applied
    /\ call[k] # NewCall =>
         /\ [by |-> call[k].by, name |-> call[k].name, value |-> call[k].value] \in Asked
         /\ call[k].proto = 2 /\ call[k].name \notin Ctl =>
              /\ reply[k] = "SUCCESS" => k \in applied
              /\ call[k].at = "ok" => reply[k] = "SUCCESS"

IInv == /\ TypeOK /\ TodoInv /\ BootInv /\ WriteInv /\ FileInv /\ MatchInv
        /\ CallInv /\ AnswerInv

(* TypeOK in three parts *)
ServerType ==
  /\ mem \in [AllNames -> Values \cup {"2", "true", NoValue, Truncated}]
  /\ listening \in BOOLEAN /\ loaded \in BOOLEAN
  /\ pc \in {"run", "write", "fsync", "rename", "recv", "idle"}
  /\ serving \in Calls \cup {NoCall}
  /\ pc \in {"run", "write", "fsync", "rename"} => todo # <<>>
StoreType ==
  /\ temp \in Values \cup {NoValue, Truncated}
  /\ file \in [Persist -> Values \cup {NoValue, Truncated}]
  /\ disk \in [Persist -> Values \cup {NoValue, Truncated}]
  /\ synced \in BOOLEAN /\ again \in BOOLEAN
  /\ unsafe \in SUBSET Persist /\ torn \in SUBSET Persist /\ spoilt \in SUBSET Persist
ClientType ==
  /\ queue \in Seq(Calls) /\ Len(queue) <= Backlog
  /\ proto \in [Clients -> {0, 1, 2}]
  /\ call \in [Calls -> {NewCall} \cup Requests]
  /\ reply \in [Calls -> {"none", "closed", "cut"} \cup Results]
  /\ applied \in SUBSET Calls

-----------------------------------------------------------------------------
(* The type invariant in three parts: init's handler, the properties and files, the clients. *)
LEMMA TypeParts == TypeOK <=> ServerType /\ StoreType /\ ClientType
  BY DEF TypeOK, ServerType, StoreType, ClientType

(* The kinds of names and values that the proofs tell apart. *)
LEMMA KindFacts ==
  /\ Persist \subseteq AllNames /\ Version \in AllNames /\ Ready \in AllNames
  /\ Version \notin Persist /\ Ready \notin Persist
  /\ Persist \cap ReadOnly = {}
  /\ NoValue \notin Values /\ Truncated \notin Values /\ NoValue # Truncated
  /\ Long \subseteq Values
  BY NamesAssumption, KindsAssumption DEF AllNames, ReadOnly, NoValue, Truncated

(* An element of a handler's list that is not the order to load the files is a call of property_set. *)
LEMMA ItemFacts ==
  ASSUME NEW x \in Items
  PROVE  /\ x.name \in AllNames /\ x.value \in Values \cup {"2", "true", Truncated}
         /\ x = [name |-> x.name, value |-> x.value]
         /\ x # LoadFiles
         /\ x.name \in Persist => x.value \in Values \cup {Truncated}
  <1>1. CASE x \in [name : AllNames, value : Values \cup {Truncated}]
    <2>1. "value" \in DOMAIN x /\ "value" \notin DOMAIN LoadFiles
      BY <1>1 DEF LoadFiles
    <2>. QED BY <1>1, <2>1
  <1>2. CASE x = [name |-> Version, value |-> "2"]
    <2>1. "value" \in DOMAIN x /\ "value" \notin DOMAIN LoadFiles
      BY <1>2 DEF LoadFiles
    <2>. QED BY <1>2, <2>1, KindFacts
  <1>3. CASE x = [name |-> Ready, value |-> "true"]
    <2>1. "value" \in DOMAIN x /\ "value" \notin DOMAIN LoadFiles
      BY <1>3 DEF LoadFiles
    <2>. QED BY <1>3, <2>1, KindFacts
  <1>. QED BY <1>1, <1>2, <1>3 DEF Items

(* The answers of property_set_impl to a refused call, and the reasons there are. *)
LEMMA RefusedFacts ==
  ASSUME NEW n, NEW v
  PROVE  /\ Refused(n, v) \subseteq Results \ {"SUCCESS"}
         /\ Refused(n, v) # {} => \/ n \in Illegal \/ v \in Long
                                  \/ mem[n] = NoValue \/ n \in ReadOnly
         /\ Refused(n, v) \subseteq {"SET_FAILED"} =>
              n \notin Illegal /\ v \notin Long /\ (mem[n] = NoValue \/ n \notin ReadOnly)
  <1>1. CASE n \in Illegal
    BY <1>1 DEF Refused, Results
  <1>2. CASE n \notin Illegal /\ v \in Long
    BY <1>2 DEF Refused, Results
  <1>3. CASE n \notin Illegal /\ v \notin Long
    BY <1>3 DEF Refused, Results
  <1>. QED BY <1>1, <1>2, <1>3

(* More operations may fail; what a file may hold only grows. *)
LEMMA GenuineGrows ==
  ASSUME NEW n, NEW v, Genuine(n, v), torn \subseteq torn', again => again'
  PROVE  Genuine(n, v)'
  BY DEF Genuine

(* The head of todo *)
LEMMA HeadFacts ==
  ASSUME TodoInv, todo # <<>>
  PROVE  /\ Head(todo) \in Items \cup {LoadFiles} /\ Head(todo) = todo[1]
         /\ Len(todo) \in Nat \ {0} /\ 1 \in 1 .. Len(todo)
         /\ Tail(todo) \in Seq(Items \cup {LoadFiles})
         /\ Len(Tail(todo)) = Len(todo) - 1
         /\ \A i \in 1 .. Len(Tail(todo)) :
              Tail(todo)[i] = todo[i + 1] /\ i + 1 \in 1 .. Len(todo)
         /\ \A i \in 1 .. Len(todo) : i # 1 =>
              i - 1 \in 1 .. Len(Tail(todo)) /\ Tail(todo)[i - 1] = todo[i]
  <1>1. todo \in Seq(Items \cup {LoadFiles})
    BY DEF TodoInv
  <1>2. /\ Len(todo) \in Nat \ {0} /\ Tail(todo) \in Seq(Items \cup {LoadFiles})
        /\ Len(Tail(todo)) = Len(todo) - 1
        /\ Head(todo) \in Items \cup {LoadFiles}
        /\ \A i \in 1 .. Len(Tail(todo)) : Tail(todo)[i] = todo[i + 1]
    BY <1>1, EmptySeq, HeadTailProperties
  <1>3. Head(todo) = todo[1]
    BY <1>1
  <1>4. ASSUME NEW i \in 1 .. Len(todo), i # 1
        PROVE  i - 1 \in 1 .. Len(Tail(todo)) /\ Tail(todo)[i - 1] = todo[i]
    <2>1. i - 1 \in 1 .. Len(Tail(todo)) /\ (i - 1) + 1 = i
      BY <1>2, <1>4
    <2>. QED BY <1>2, <2>1
  <1>. QED BY <1>2, <1>3, <1>4

-----------------------------------------------------------------------------
(* A handler's call returns: where init is, and the rest of the list. *)
LEMMA ReturnFacts ==
  ASSUME TypeOK, TodoInv, BootInv, NEW r, Return(r), todo # <<>>, UNCHANGED <<loaded, again>>,
         torn \subseteq torn'
  PROVE  /\ TodoInv' /\ BootInv'
         /\ pc' \in {"idle", "run"} /\ ~ Writing' /\ serving' = NoCall
         /\ listening' \in BOOLEAN /\ (pc' = "run" => todo' # <<>>)
  <1>1. /\ todo' = Tail(todo)
        /\ pc' = IF Tail(todo) = <<>> THEN "idle" ELSE "run"
        /\ listening' = (listening \/ Tail(todo) = <<>>)
        /\ serving' = NoCall
    BY DEF Return, AfterCall
  <1>2. TodoInv'
    BY <1>1, HeadFacts DEF TodoInv
  <1>3. BootInv'
    <2>1. CASE ~ listening /\ Tail(todo) # <<>>
      BY <1>1, <2>1, HeadFacts DEF BootInv
    <2>2. CASE Tail(todo) = <<>>
      <3>1. 1 .. Len(todo') = {}
        BY <1>1, <2>2
      <3>2. listening' = TRUE
        BY <1>1, <2>2
      <3>. QED BY <3>1, <3>2 DEF BootInv
    <2>3. CASE listening /\ Tail(todo) # <<>>
      <3>1. listening' = TRUE
        BY <1>1, <2>3
      <3>2. ASSUME NEW i \in 1 .. Len(todo'), todo'[i] # LoadFiles, todo'[i].name \in Persist
            PROVE  Genuine(todo[i].name, todo[i].value)' \/ (~ loaded' /\ Pending(i)')
        <4>1. todo'[i] = todo[i + 1] /\ i + 1 \in 1 .. Len(todo)
          BY <1>1, HeadFacts
        <4>2. CASE Genuine(todo[i + 1].name, todo[i + 1].value)
          BY <4>1, <4>2 DEF Genuine
        <4>3. CASE ~ loaded /\ Pending(i + 1)
          <5>1. PICK j \in 1 .. Len(todo) : i + 1 < j /\ todo[j] = LoadFiles
            BY <4>3 DEF Pending
          <5>2. j # 1 /\ i < j - 1
            BY <5>1
          <5>3. j - 1 \in 1 .. Len(todo') /\ todo'[j - 1] = LoadFiles
            BY <1>1, <5>1, <5>2, HeadFacts
          <5>. QED BY <4>3, <5>2, <5>3 DEF Pending
        <4>. QED BY <2>3, <3>2, <4>1, <4>2, <4>3 DEF BootInv
      <3>. QED BY <3>1, <3>2 DEF BootInv
    <2>. QED BY <2>1, <2>2, <2>3
  <1>. QED BY <1>1, <1>2, <1>3 DEF Writing, TypeOK

(* The answer that a return sends, if any, tells what happened. *)
LEMMA ReturnAnswers ==
  ASSUME TypeOK, CallInv, AnswerInv, NEW r \in Results, Return(r), UNCHANGED <<queue, call>>,
         pc \in {"run", "write", "fsync", "rename"},
         applied \subseteq applied', applied' \subseteq applied \cup {serving},
         serving = NoCall => applied' = applied,
         serving # NoCall =>
           IF r = "SUCCESS" THEN call[serving].proto = 2 => serving \in applied'
           ELSE serving \notin applied'
  PROVE  /\ CallInv' /\ AnswerInv'
         /\ reply' \in [Calls -> {"none", "closed", "cut"} \cup Results]
         /\ applied' \in SUBSET Calls
  <1>1. /\ serving \in Calls \cup {NoCall} /\ NoCall \notin Calls
        /\ reply \in [Calls -> {"none", "closed", "cut"} \cup Results]
    BY CallsAssumption DEF TypeOK
  <1>2. /\ pc' \in {"idle", "run"} /\ serving' = NoCall
    BY DEF Return, AfterCall
  <1>3. CASE serving = NoCall
    <2>1. reply' = reply /\ applied' = applied
      BY <1>3 DEF Return
    <2>2. CallInv'
      <3>1. \A i \in 1 .. Len(queue) :
              /\ queue[i] # NoCall /\ call[queue[i]] # NewCall
              /\ reply[queue[i]] = "none" /\ queue[i] \notin applied
              /\ \A j \in 1 .. Len(queue) : queue[i] = queue[j] => i = j
        BY <1>3 DEF CallInv
      <3>. QED BY <1>2, <2>1, <3>1 DEF CallInv
    <2>3. AnswerInv'
      BY <2>1 DEF AnswerInv
    <2>. QED BY <1>1, <2>1, <2>2, <2>3 DEF TypeOK
  <1>4. CASE serving # NoCall
    <2>1. serving \in Calls /\ reply' = [reply EXCEPT ![serving] =
                                           IF call[serving].proto = 1 THEN "closed" ELSE r]
      BY <1>1, <1>4 DEF Return
    <2>2. \A k \in Calls : reply'[k] = IF k = serving
                                         THEN IF call[serving].proto = 1 THEN "closed" ELSE r
                                         ELSE reply[k]
      BY <1>1, <2>1
    <2>3. CallInv'
      <3>1. ASSUME NEW i \in 1 .. Len(queue)
            PROVE  /\ queue[i] # NoCall /\ call[queue[i]] # NewCall
                   /\ reply'[queue[i]] = "none" /\ queue[i] \notin applied'
                   /\ \A j \in 1 .. Len(queue) : queue[i] = queue[j] => i = j
        <4>1. queue[i] \in Calls
          BY ElementOfSeq DEF TypeOK
        <4>2. /\ queue[i] # serving /\ call[queue[i]] # NewCall
              /\ reply[queue[i]] = "none" /\ queue[i] \notin applied
              /\ \A j \in 1 .. Len(queue) : queue[i] = queue[j] => i = j
          BY DEF CallInv
        <4>. QED BY <1>1, <2>2, <4>1, <4>2
      <3>. QED BY <1>2, <3>1 DEF CallInv
    <2>4. AnswerInv'
      <3>. SUFFICES ASSUME NEW k \in Calls
                    PROVE
                      /\ call[k] = NewCall => reply'[k] = "none" /\ k \notin applied'
                      /\ reply'[k] \in Results \ {"SUCCESS"} => k \notin applied'
                      /\ call[k] # NewCall =>
                           /\ [by |-> call[k].by, name |-> call[k].name,
                               value |-> call[k].value] \in Asked
                           /\ call[k].proto = 2 /\ call[k].name \notin Ctl =>
                                /\ reply'[k] = "SUCCESS" => k \in applied'
                                /\ call[k].at = "ok" => reply'[k] = "SUCCESS"
        BY DEF AnswerInv
      <3>1. CASE k # serving
        BY <2>2, <3>1 DEF AnswerInv
      <3>2. CASE k = serving
        <4>1. call[k] # NewCall /\ reply[k] = "none"
          BY <1>4, <3>2 DEF CallInv
        <4>2. reply'[k] = IF call[k].proto = 1 THEN "closed" ELSE r
          BY <2>2, <3>2
        <4>3. "closed" \notin Results /\ "none" # "SUCCESS"
          BY DEF Results
        <4>4. call[k].proto = 2 /\ call[k].name \notin Ctl => call[k].at # "ok"
          BY <4>1 DEF AnswerInv
        <4>. QED BY <1>4, <3>2, <4>1, <4>2, <4>3, <4>4 DEF AnswerInv
      <3>. QED BY <3>1, <3>2
    <2>5. reply' \in [Calls -> {"none", "closed", "cut"} \cup Results]
      BY <1>1, <2>1
    <2>6. applied' \in SUBSET Calls
      BY <2>1 DEF TypeOK
    <2>. QED BY <2>3, <2>4, <2>5, <2>6
  <1>. QED BY <1>3, <1>4

(* The agreement of n outlives a return from a call on another name. *)
LEMMA MatchTail ==
  ASSUME TodoInv, todo # <<>>, todo' = Tail(todo), ~ Writing', NEW n, Match(n),
         mem'[n] = mem[n], file'[n] = file[n],
         mem[n] # NoValue => Head(todo) # [name |-> n, value |-> file[n]],
         Writing => n # Head(todo).name
  PROVE  Match(n)'
  <1>. SUFFICES ASSUME file[n] # NoValue, mem[n] # NoValue, mem[n] # file[n]
                PROVE  \E i \in 1 .. Len(todo') : todo'[i] = [name |-> n, value |-> file'[n]]
    BY DEF Match
  <1>1. PICK i \in 1 .. Len(todo) : todo[i] = [name |-> n, value |-> file[n]]
    BY DEF Match
  <1>2. i # 1
    BY <1>1, HeadFacts
  <1>. QED BY <1>1, <1>2, HeadFacts

(* property_set refuses: nothing but the list and the answer changes. *)
LEMMA PropertySetFailsKeeps ==
  ASSUME IInv, PropertySetFails
  PROVE  IInv'
  <1>0. /\ TypeOK /\ TodoInv /\ BootInv /\ WriteInv /\ FileInv /\ MatchInv /\ CallInv
        /\ AnswerInv /\ ServerType /\ StoreType /\ ClientType
    BY TypeParts DEF IInv
  <1>. DEFINE n == Head(todo).name
              v == Head(todo).value
  <1>1. /\ pc = "run" /\ Head(todo) # LoadFiles
        /\ UNCHANGED <<mem, loaded, queue, store, again, proto, call, applied>>
    BY DEF PropertySetFails
  <1>2. PICK r \in Refused(n, v) : Return(r)
    BY DEF PropertySetFails
  <1>3. r \in Results /\ r # "SUCCESS"
    BY RefusedFacts
  <1>4. todo # <<>> /\ Head(todo) \in Items
    BY <1>0, <1>1, HeadFacts DEF TypeOK
  <1>5. /\ TodoInv' /\ BootInv' /\ pc' \in {"idle", "run"} /\ ~ Writing' /\ serving' = NoCall
        /\ listening' \in BOOLEAN /\ (pc' = "run" => todo' # <<>>)
    BY <1>0, <1>1, <1>2, <1>4, ReturnFacts DEF store
  <1>6. /\ CallInv' /\ AnswerInv'
        /\ reply' \in [Calls -> {"none", "closed", "cut"} \cup Results]
        /\ applied' \in SUBSET Calls
    <2>1. serving # NoCall => serving \notin applied
      BY <1>0, <1>1 DEF CallInv
    <2>2. UNCHANGED <<queue, call, applied>> /\ pc \in {"run", "write", "fsync", "rename"}
      BY <1>1
    <2>. QED BY <1>0, <1>2, <1>3, <2>1, <2>2, ReturnAnswers
  <1>7. TypeOK'
    <2>1. ServerType' /\ StoreType' /\ ClientType'
      BY <1>0, <1>1, <1>5, <1>6 DEF ServerType, StoreType, ClientType, store
    <2>. QED BY <2>1 DEF TypeOK, ServerType, StoreType, ClientType
  <1>8. WriteInv'
    BY <1>0, <1>1, <1>5 DEF WriteInv, Writing, store
  <1>9. FileInv'
    BY <1>0, <1>1 DEF FileInv, Genuine, store
  <1>10. MatchInv'
    <2>1. ASSUME loaded, NEW x \in Persist \ spoilt
          PROVE  Match(x)'
      <3>1. Match(x) /\ file[x] \notin Long
        BY <1>0, <2>1 DEF MatchInv, FileInv
      <3>2. mem[x] # NoValue => Head(todo) # [name |-> x, value |-> file[x]]
        <4>. SUFFICES ASSUME Head(todo) = [name |-> x, value |-> file[x]], mem[x] # NoValue
                      PROVE  FALSE
          OBVIOUS
        <4>1. n = x /\ v = file[x]
          OBVIOUS
        <4>2. n \in Illegal \/ v \in Long \/ mem[n] = NoValue \/ n \in ReadOnly
          BY RefusedFacts
        <4>3. x \in AllNames \cap Illegal => mem[x] = NoValue
          BY <1>0 DEF MatchInv
        <4>. QED BY <3>1, <4>1, <4>2, <4>3, KindFacts
      <3>3. todo' = Tail(todo) /\ mem' = mem /\ file' = file /\ ~ Writing
        BY <1>1, <1>2 DEF Return, store, Writing
      <3>. QED BY <1>0, <1>4, <1>5, <3>1, <3>2, <3>3, MatchTail
    <2>. QED BY <1>0, <1>1, <2>1 DEF MatchInv, store
  <1>. QED BY <1>5, <1>6, <1>7, <1>8, <1>9, <1>10 DEF IInv

(* property_set sets the property, and the file is still to be written or  *)
(* there is none to write.                                                 *)
LEMMA PropertySetKeeps ==
  ASSUME IInv, PropertySet
  PROVE  IInv'
  <1>0. /\ TypeOK /\ TodoInv /\ BootInv /\ WriteInv /\ FileInv /\ MatchInv /\ CallInv
        /\ AnswerInv /\ ServerType /\ StoreType /\ ClientType
    BY TypeParts DEF IInv
  <1>. DEFINE n == Head(todo).name
              v == Head(todo).value
  <1>1. /\ pc = "run" /\ Head(todo) # LoadFiles
        /\ Refused(n, v) \subseteq {"SET_FAILED"}
        /\ mem' = [mem EXCEPT ![n] = v]
        /\ applied' = IF serving # NoCall /\ [name |-> n, value |-> v] =
                           [name |-> call[serving].name, value |-> call[serving].value]
                      THEN applied \cup {serving} ELSE applied
        /\ UNCHANGED <<loaded, queue, store, again, proto, call>>
    BY DEF PropertySet
  <1>2. n \notin Illegal /\ v \notin Long /\ (mem[n] = NoValue \/ n \notin ReadOnly)
    BY <1>1, RefusedFacts
  <1>3. todo # <<>> /\ Head(todo) \in Items
    BY <1>0, <1>1, HeadFacts DEF TypeOK
  <1>4. /\ n \in AllNames /\ v \in Values \cup {"2", "true", Truncated}
        /\ Head(todo) = [name |-> n, value |-> v]
    BY <1>3, ItemFacts
  <1>5. /\ mem' \in [AllNames -> Values \cup {"2", "true", NoValue, Truncated}]
        /\ \A x \in AllNames : mem'[x] = IF x = n THEN v ELSE mem[x]
    BY <1>0, <1>1, <1>4 DEF ServerType
  <1>6. /\ applied \subseteq applied' /\ applied' \subseteq applied \cup {serving}
        /\ serving = NoCall => applied' = applied
        /\ serving # NoCall => (call[serving].proto = 2 => serving \in applied')
    <2>1. serving # NoCall /\ call[serving].proto = 2 =>
            n = call[serving].name /\ v = call[serving].value
      BY <1>0, <1>1 DEF CallInv, NameOf
    <2>. QED BY <1>1, <2>1
  <1>7. FileInv'
    BY <1>0, <1>1 DEF FileInv, Genuine, store
  <1>8. \A x \in AllNames \cap Illegal : mem'[x] = NoValue
    BY <1>0, <1>2, <1>5 DEF MatchInv
  <1>. HIDE DEF n, v
  <1>9. CASE WritesFile(n)
    <2>1. pc' = "write" /\ UNCHANGED <<listening, todo, serving, reply>>
      BY <1>9 DEF PropertySet, n
    <2>2. loaded /\ n \in Persist
      BY <1>9 DEF WritesFile
    <2>3. TodoInv'
      BY <1>0, <1>3, <2>1 DEF TodoInv
    <2>4. BootInv'
      <3>1. listening
        BY <1>0, <2>2 DEF BootInv
      <3>. QED BY <1>0, <1>1, <2>1, <3>1 DEF BootInv, Pending, Genuine, store
    <2>5. WriteInv'
      BY <1>0, <1>1, <1>2, <1>4, <1>5, <2>1, <2>2 DEF WriteInv, Writing, store, n, v
    <2>6. MatchInv'
      <3>1. ASSUME NEW x \in Persist \ spoilt
            PROVE  Match(x)'
        <4>1. CASE x = n
          BY <2>1, <4>1 DEF Match, Writing, n
        <4>2. CASE x # n
          <5>1. Match(x) /\ ~ Writing /\ mem'[x] = mem[x]
            BY <1>0, <1>1, <1>5, <2>2, <4>2, KindFacts DEF MatchInv, Writing
          <5>. QED BY <1>1, <2>1, <5>1 DEF Match, store
        <4>. QED BY <4>1, <4>2
      <3>. QED BY <1>1, <1>8, <3>1 DEF MatchInv, store
    <2>7. applied' \in SUBSET Calls
      BY <1>0, <1>6, CallsAssumption DEF ServerType, ClientType
    <2>8. TypeOK'
      <3>1. ServerType' /\ StoreType' /\ ClientType'
        BY <1>0, <1>1, <1>3, <1>5, <2>1, <2>7 DEF ServerType, StoreType, ClientType, store
      <3>. QED BY <3>1 DEF TypeOK, ServerType, StoreType, ClientType
    <2>9. CallInv'
      <3>1. \A i \in 1 .. Len(queue) :
              /\ queue[i] # serving /\ call[queue[i]] # NewCall
              /\ reply[queue[i]] = "none" /\ queue[i] \notin applied'
              /\ \A j \in 1 .. Len(queue) : queue[i] = queue[j] => i = j
        BY <1>0, <1>6 DEF CallInv
      <3>2. serving # NoCall =>
               /\ call[serving] # NewCall /\ reply[serving] = "none"
               /\ todo = <<[name |-> NameOf(call[serving]), value |-> call[serving].value]>>
               /\ call[serving].proto = 2 => serving \in applied'
        BY <1>0, <1>1, <1>6 DEF CallInv
      <3>. QED BY <1>1, <2>1, <3>1, <3>2 DEF CallInv, NameOf
    <2>10. AnswerInv'
      <3>1. \A k \in Calls : k \notin applied /\ k \in applied' =>
              k = serving /\ serving # NoCall /\ call[k] # NewCall /\ reply[k] = "none"
        BY <1>0, <1>6 DEF CallInv
      <3>2. "none" \notin Results
        BY DEF Results
      <3>. QED BY <1>0, <1>1, <1>6, <2>1, <3>1, <3>2 DEF AnswerInv
    <2>. QED BY <1>7, <2>3, <2>4, <2>5, <2>6, <2>8, <2>9, <2>10 DEF IInv
  <1>10. CASE ~ WritesFile(n)
    <2>1. Return("SUCCESS")
      BY <1>10 DEF PropertySet, n
    <2>2. /\ TodoInv' /\ BootInv' /\ pc' \in {"idle", "run"} /\ ~ Writing' /\ serving' = NoCall
          /\ listening' \in BOOLEAN /\ (pc' = "run" => todo' # <<>>)
      BY <1>0, <1>1, <1>3, <2>1, ReturnFacts DEF store
    <2>3. /\ CallInv' /\ AnswerInv'
          /\ reply' \in [Calls -> {"none", "closed", "cut"} \cup Results]
          /\ applied' \in SUBSET Calls
      <3>1. "SUCCESS" \in Results
        BY DEF Results
      <3>2. UNCHANGED <<queue, call>> /\ pc \in {"run", "write", "fsync", "rename"}
        BY <1>1
      <3>. QED BY <1>0, <1>6, <2>1, <3>1, <3>2, ReturnAnswers
    <2>4. TypeOK'
      <3>1. ServerType' /\ StoreType' /\ ClientType'
        BY <1>0, <1>1, <1>5, <2>2, <2>3 DEF ServerType, StoreType, ClientType, store
      <3>. QED BY <3>1 DEF TypeOK, ServerType, StoreType, ClientType
    <2>5. WriteInv'
      BY <1>0, <1>1, <2>2 DEF WriteInv, Writing, store
    <2>6. MatchInv'
      <3>1. ASSUME loaded, NEW x \in Persist \ spoilt
            PROVE  Match(x)'
        <4>1. n \notin Persist /\ x # n
          BY <1>10, <3>1 DEF WritesFile
        <4>2. Match(x) /\ mem'[x] = mem[x]
          BY <1>0, <1>5, <3>1, <4>1, KindFacts DEF MatchInv
        <4>3. todo' = Tail(todo) /\ file' = file /\ ~ Writing
          BY <1>1, <2>1 DEF Return, store, Writing
        <4>4. Head(todo) # [name |-> x, value |-> file[x]]
          BY <4>1, <1>4
        <4>. QED BY <1>0, <1>3, <2>2, <4>2, <4>3, <4>4, MatchTail
      <3>. QED BY <1>1, <1>8, <3>1 DEF MatchInv, store
    <2>. QED BY <1>7, <2>2, <2>3, <2>4, <2>5, <2>6 DEF IInv
  <1>. QED BY <1>9, <1>10

-----------------------------------------------------------------------------
(* The file that is being written is one of Persist. *)
LEMMA WritingFacts ==
  ASSUME IInv, Writing
  PROVE  /\ todo # <<>> /\ Head(todo) \in Items /\ Head(todo) # LoadFiles /\ loaded /\ listening
         /\ Head(todo).name \in Persist
         /\ Head(todo).value \in Values \cup {Truncated} /\ Head(todo).value \notin Long
         /\ mem[Head(todo).name] = Head(todo).value
         /\ Genuine(Head(todo).name, Head(todo).value)
  <1>0. /\ TypeOK /\ TodoInv /\ BootInv /\ WriteInv /\ FileInv /\ MatchInv /\ CallInv
        /\ AnswerInv /\ ServerType /\ StoreType /\ ClientType
    BY TypeParts DEF IInv
  <1>1. todo # <<>>
    BY <1>0 DEF Writing, TypeOK
  <1>2. /\ loaded /\ Head(todo) # LoadFiles
        /\ Head(todo).name \in Persist /\ Head(todo).value \notin Long
        /\ mem[Head(todo).name] = Head(todo).value
    BY <1>0 DEF WriteInv
  <1>3. Head(todo) \in Items
    BY <1>0, <1>1, <1>2, HeadFacts
  <1>4. listening
    BY <1>0, <1>2 DEF BootInv
  <1>5. Genuine(Head(todo).name, Head(todo).value)
    BY <1>0, <1>1, <1>2, <1>4, HeadFacts DEF BootInv
  <1>. QED BY <1>1, <1>2, <1>3, <1>4, <1>5, ItemFacts

(* A step inside write_persistent_property that does not return: the       *)
(* clients notice nothing.                                                 *)
LEMMA WritingKeeps ==
  ASSUME IInv, Writing, Writing', torn \subseteq torn', spoilt \subseteq spoilt',
         UNCHANGED <<mem, listening, loaded, todo, serving, queue, file, disk, again, client>>
  PROVE  TodoInv' /\ BootInv' /\ FileInv' /\ MatchInv' /\ CallInv' /\ AnswerInv'
         /\ ServerType' /\ ClientType'
  <1>0. /\ TypeOK /\ TodoInv /\ BootInv /\ WriteInv /\ FileInv /\ MatchInv /\ CallInv
        /\ AnswerInv /\ ServerType /\ StoreType /\ ClientType
    BY TypeParts DEF IInv
  <1>1. TodoInv'
    BY <1>0 DEF TodoInv, Writing
  <1>2. BootInv'
    BY <1>0, WritingFacts DEF BootInv, Genuine
  <1>3. FileInv'
    BY <1>0 DEF FileInv, Genuine
  <1>4. MatchInv'
    BY <1>0 DEF MatchInv, Match, Writing
  <1>5. CallInv'
    BY <1>0 DEF CallInv, NameOf, Writing, client
  <1>6. AnswerInv'
    BY <1>0 DEF AnswerInv, client
  <1>7. ServerType' /\ ClientType'
    BY <1>0, WritingFacts DEF ServerType, ClientType, client, Writing
  <1>. QED BY <1>1, <1>2, <1>3, <1>4, <1>5, <1>6, <1>7

(* write_persistent_property writes the temporary file, in full or in part. *)
LEMMA WriteTempKeeps ==
  ASSUME IInv, WriteTemp
  PROVE  IInv'
  <1>0. /\ TypeOK /\ TodoInv /\ BootInv /\ WriteInv /\ FileInv /\ MatchInv /\ CallInv
        /\ AnswerInv /\ ServerType /\ StoreType /\ ClientType
    BY TypeParts DEF IInv
  <1>. DEFINE n == Head(todo).name
              v == Head(todo).value
  <1>1. /\ pc = "write" /\ synced' = FALSE /\ pc' = "fsync"
        /\ UNCHANGED <<mem, listening, loaded, todo, serving, queue, file, unsafe, disk, again, client>>
    BY DEF WriteTemp
  <1>2. \/ temp' = v /\ spoilt' = spoilt /\ torn' = torn
        \/ temp' = Truncated /\ spoilt' = spoilt \cup {n} /\ torn' = torn \cup {n}
    BY DEF WriteTemp
  <1>3. Writing /\ Writing'
    BY <1>1 DEF Writing
  <1>4. n \in Persist /\ v \in Values \cup {Truncated} /\ loaded /\ v \notin Long /\ mem[n] = v
        /\ Head(todo) # LoadFiles
    BY <1>3, WritingFacts
  <1>5. TodoInv' /\ BootInv' /\ FileInv' /\ MatchInv' /\ CallInv' /\ AnswerInv'
        /\ ServerType' /\ ClientType'
    BY <1>1, <1>2, <1>3, WritingKeeps
  <1>6. WriteInv'
    BY <1>0, <1>1, <1>2, <1>4 DEF WriteInv, Writing
  <1>7. StoreType'
    BY <1>0, <1>1, <1>2, <1>4 DEF StoreType
  <1>. QED BY <1>5, <1>6, <1>7 DEF IInv, TypeOK, ServerType, StoreType, ClientType

(* fsync forces the content of the temporary file out, or fails to. *)
LEMMA FsyncKeeps ==
  ASSUME IInv, Fsync
  PROVE  IInv'
  <1>0. /\ TypeOK /\ TodoInv /\ BootInv /\ WriteInv /\ FileInv /\ MatchInv /\ CallInv
        /\ AnswerInv /\ ServerType /\ StoreType /\ ClientType
    BY TypeParts DEF IInv
  <1>1. /\ pc = "fsync" /\ pc' = "rename"
        /\ UNCHANGED <<mem, listening, loaded, todo, serving, queue,
                       temp, file, unsafe, disk, spoilt, again, client>>
    BY DEF Fsync
  <1>2. \/ synced' = TRUE /\ torn' = torn
        \/ synced' = FALSE /\ torn' = torn \cup {Head(todo).name}
    BY DEF Fsync
  <1>3. Writing /\ Writing'
    BY <1>1 DEF Writing
  <1>4. Head(todo).name \in Persist
    BY <1>3, WritingFacts
  <1>5. TodoInv' /\ BootInv' /\ FileInv' /\ MatchInv' /\ CallInv' /\ AnswerInv'
        /\ ServerType' /\ ClientType'
    BY <1>1, <1>2, <1>3, WritingKeeps
  <1>6. WriteInv'
    BY <1>0, <1>1, <1>2 DEF WriteInv, Writing
  <1>7. StoreType'
    BY <1>0, <1>1, <1>2, <1>4 DEF StoreType
  <1>. QED BY <1>5, <1>6, <1>7 DEF IInv, TypeOK, ServerType, StoreType, ClientType

(* A step inside write_persistent_property that returns, with the file of  *)
(* the property written, or an operation on it failed.                     *)
LEMMA WrittenKeeps ==
  ASSUME IInv, Writing, Return("SUCCESS"), StoreType', unsafe' \subseteq torn,
         UNCHANGED <<mem, loaded, queue, disk, torn, again, proto, call, applied>>,
         NEW n, n = Head(todo).name,
         n \notin spoilt' => file'[n] = Head(todo).value,
         Genuine(n, file[n])', file'[n] \notin Long,
         \A x \in Persist : x # n => file'[x] = file[x] /\ (x \in spoilt => x \in spoilt')
  PROVE  IInv'
  <1>0. /\ TypeOK /\ TodoInv /\ BootInv /\ WriteInv /\ FileInv /\ MatchInv /\ CallInv
        /\ AnswerInv /\ ServerType /\ StoreType /\ ClientType
    BY TypeParts DEF IInv
  <1>. DEFINE v == Head(todo).value
  <1>1. /\ todo # <<>> /\ Head(todo) \in Items /\ loaded /\ n \in Persist
        /\ v \in Values \cup {Truncated} /\ v \notin Long /\ mem[n] = v
        /\ Head(todo) = [name |-> n, value |-> v]
    BY WritingFacts, ItemFacts
  <1>2. /\ TodoInv' /\ BootInv' /\ pc' \in {"idle", "run"} /\ ~ Writing' /\ serving' = NoCall
        /\ listening' \in BOOLEAN /\ (pc' = "run" => todo' # <<>>)
    BY <1>0, <1>1, ReturnFacts
  <1>3. /\ CallInv' /\ AnswerInv'
        /\ reply' \in [Calls -> {"none", "closed", "cut"} \cup Results]
        /\ applied' \in SUBSET Calls
    <2>1. "SUCCESS" \in Results
      BY DEF Results
    <2>2. UNCHANGED <<queue, call>> /\ pc \in {"run", "write", "fsync", "rename"}
      BY DEF Writing
    <2>3. serving # NoCall => (call[serving].proto = 2 => serving \in applied)
      BY <1>0 DEF CallInv
    <2>. QED BY <1>0, <2>1, <2>2, <2>3, ReturnAnswers
  <1>4. TypeOK'
    <2>1. ServerType' /\ ClientType'
      BY <1>0, <1>2, <1>3 DEF ServerType, ClientType
    <2>. QED BY <2>1 DEF TypeOK, ServerType, StoreType, ClientType
  <1>5. WriteInv'
    BY <1>2 DEF WriteInv, Writing
  <1>6. FileInv'
    BY <1>0 DEF FileInv, Genuine
  <1>7. MatchInv'
    <2>1. ASSUME NEW x \in Persist \ spoilt'
          PROVE  Match(x)'
      <3>1. CASE x = n
        BY <1>1, <3>1 DEF Match
      <3>2. CASE x # n
        <4>1. Match(x) /\ file'[x] = file[x] /\ mem'[x] = mem[x]
          BY <1>0, <1>1, <3>2 DEF MatchInv
        <4>2. todo' = Tail(todo) /\ Head(todo) # [name |-> x, value |-> file[x]]
          BY <1>1, <3>2 DEF Return
        <4>. QED BY <1>0, <1>1, <1>2, <3>2, <4>1, <4>2, MatchTail
      <3>. QED BY <3>1, <3>2
    <2>. QED BY <1>0, <2>1 DEF MatchInv
  <1>. QED BY <1>2, <1>3, <1>4, <1>5, <1>6, <1>7 DEF IInv

(* No temporary file: the property is set in memory only, and counted as spoilt. *)
LEMMA MkstempFailsKeeps ==
  ASSUME IInv, MkstempFails
  PROVE  IInv'
  <1>0. /\ TypeOK /\ TodoInv /\ BootInv /\ WriteInv /\ FileInv /\ MatchInv /\ CallInv
        /\ AnswerInv /\ ServerType /\ StoreType /\ ClientType
    BY TypeParts DEF IInv
  <1>1. /\ pc = "write" /\ spoilt' = spoilt \cup {Head(todo).name} /\ Return("SUCCESS")
        /\ UNCHANGED <<mem, loaded, queue, temp, synced, file, unsafe, disk, torn, again,
                       proto, call, applied>>
    BY DEF MkstempFails
  <1>2. Writing
    BY <1>1 DEF Writing
  <1>3. PICK n \in Persist : n = Head(todo).name
    BY <1>2, WritingFacts
  <1>4. StoreType'
    BY <1>0, <1>1, <1>3 DEF StoreType
  <1>5. Genuine(n, file[n])' /\ file'[n] \notin Long
    BY <1>0, <1>1, <1>3 DEF FileInv, Genuine
  <1>6. unsafe' \subseteq torn /\ n \in spoilt' /\ spoilt \subseteq spoilt'
    BY <1>0, <1>1, <1>3 DEF WriteInv
  <1>. QED BY <1>1, <1>2, <1>3, <1>4, <1>5, <1>6, WrittenKeeps

(* The rename replaces the old file, or fails and leaves it. *)
LEMMA RenameKeeps ==
  ASSUME IInv, Rename
  PROVE  IInv'
  <1>0. /\ TypeOK /\ TodoInv /\ BootInv /\ WriteInv /\ FileInv /\ MatchInv /\ CallInv
        /\ AnswerInv /\ ServerType /\ StoreType /\ ClientType
    BY TypeParts DEF IInv
  <1>. DEFINE v == Head(todo).value
  <1>1. /\ pc = "rename" /\ temp' = NoValue /\ synced' = FALSE /\ Return("SUCCESS")
        /\ UNCHANGED <<mem, loaded, queue, disk, torn, again, proto, call, applied>>
    BY DEF Rename
  <1>2. Writing
    BY <1>1 DEF Writing
  <1>3. PICK n \in Persist : n = Head(todo).name
    BY <1>2, WritingFacts
  <1>4. v \in Values \cup {Truncated} /\ v \notin Long /\ Genuine(n, v)
    BY <1>2, <1>3, WritingFacts
  <1>5. /\ synced \/ n \in torn
        /\ unsafe \subseteq torn
        /\ temp = v \/ (temp = Truncated /\ n \in torn \cap spoilt)
    BY <1>0, <1>1, <1>3 DEF WriteInv
  <1>6. Truncated \notin Long
    BY KindFacts
  <1>7. CASE /\ file' = [file EXCEPT ![n] = temp]
             /\ unsafe' = IF synced THEN unsafe \ {n} ELSE unsafe \cup {n}
             /\ spoilt' = IF temp = Head(todo).value THEN spoilt \ {n} ELSE spoilt
    <2>1. unsafe' \subseteq torn
      BY <1>5, <1>7
    <2>2. StoreType'
      BY <1>0, <1>1, <1>4, <1>5, <1>7, <2>1 DEF StoreType
    <2>3. /\ file'[n] = temp
          /\ \A x \in Persist : x # n => file'[x] = file[x] /\ (x \in spoilt => x \in spoilt')
      BY <1>0, <1>4, <1>7 DEF StoreType
    <2>4. n \notin spoilt' => file'[n] = v
      BY <1>5, <1>7, <2>3
    <2>5. Genuine(n, file[n])' /\ file'[n] \notin Long
      BY <1>1, <1>4, <1>5, <1>6, <1>7, <2>3 DEF Genuine
    <2>. QED BY <1>1, <1>2, <1>3, <1>7, <2>1, <2>2, <2>3, <2>4, <2>5, WrittenKeeps
  <1>8. CASE spoilt' = spoilt \cup {n} /\ UNCHANGED <<file, unsafe>>
    <2>1. StoreType'
      BY <1>0, <1>1, <1>4, <1>8 DEF StoreType
    <2>2. Genuine(n, file[n])' /\ file'[n] \notin Long
      BY <1>0, <1>1, <1>3, <1>8 DEF FileInv, Genuine
    <2>3. unsafe' \subseteq torn /\ n \in spoilt' /\ spoilt \subseteq spoilt'
      BY <1>5, <1>8
    <2>. QED BY <1>1, <1>2, <1>3, <1>8, <2>1, <2>2, <2>3, WrittenKeeps
  <1>. QED BY <1>3, <1>7, <1>8 DEF Rename

(* The file system writes one file back, with its content or without. *)
LEMMA WritebackKeeps ==
  ASSUME IInv, NEW n \in Persist, Writeback(n)
  PROVE  IInv'
  <1>0. /\ TypeOK /\ TodoInv /\ BootInv /\ WriteInv /\ FileInv /\ MatchInv /\ CallInv
        /\ AnswerInv /\ ServerType /\ StoreType /\ ClientType
    BY TypeParts DEF IInv
  <1>1. UNCHANGED <<server, queue, temp, synced, file, unsafe, torn, spoilt, again, client>>
    BY DEF Writeback
  <1>2. PICK content \in {file[n]} \cup (IF n \in unsafe THEN {Truncated} ELSE {}) :
          disk' = [disk EXCEPT ![n] = content]
    BY DEF Writeback
  <1>3. /\ content = file[n] \/ (content = Truncated /\ n \in torn)
        /\ Truncated \notin Long
        /\ \A x \in Persist : disk'[x] = IF x = n THEN content ELSE disk[x]
    BY <1>0, <1>2, KindFacts DEF StoreType, WriteInv
  <1>4. FileInv'
    BY <1>0, <1>1, <1>3 DEF FileInv, Genuine
  <1>5. ServerType' /\ StoreType' /\ ClientType'
    BY <1>0, <1>1, <1>2 DEF ServerType, StoreType, ClientType, server, client
  <1>6. TodoInv' /\ BootInv' /\ WriteInv' /\ MatchInv'
    BY <1>0, <1>1 DEF TodoInv, BootInv, Pending, WriteInv, MatchInv, Match, Genuine, Writing, server
  <1>7. CallInv' /\ AnswerInv'
    BY <1>0, <1>1 DEF CallInv, AnswerInv, NameOf, Writing, server, client
  <1>. QED BY <1>4, <1>5, <1>6, <1>7 DEF IInv, TypeOK, ServerType, StoreType, ClientType

-----------------------------------------------------------------------------
(* Between two handlers memory and the files agree, todo is empty and the  *)
(* socket exists.                                                          *)
LEMMA IdleFacts ==
  ASSUME IInv, pc \in {"idle", "recv"}
  PROVE  /\ todo = <<>> /\ listening
         /\ loaded => \A n \in Persist \ spoilt :
              file[n] # NoValue /\ mem[n] # NoValue => mem[n] = file[n]
  <1>0. /\ TypeOK /\ TodoInv /\ BootInv /\ WriteInv /\ FileInv /\ MatchInv /\ CallInv
        /\ AnswerInv /\ ServerType /\ StoreType /\ ClientType
    BY TypeParts DEF IInv
  <1>1. todo = <<>>
    BY <1>0 DEF TodoInv
  <1>2. listening
    BY <1>0 DEF BootInv
  <1>3. loaded => \A n \in Persist \ spoilt :
              file[n] # NoValue /\ mem[n] # NoValue => mem[n] = file[n]
    <2>1. 1 .. Len(todo) = {} /\ ~ Writing
      BY <1>1 DEF Writing
    <2>. QED BY <1>0, <2>1 DEF MatchInv, Match
  <1>. QED BY <1>1, <1>2, <1>3

(* A handler starts or ends: memory and the files stay as they are. *)
LEMMA HandlerKeeps ==
  ASSUME IInv, pc \in {"idle", "recv"}, pc' \in {"idle", "recv", "run"},
         UNCHANGED <<mem, listening, loaded, store>>,
         again' = again \/ again' = (again \/ loaded)
  PROVE  WriteInv' /\ FileInv' /\ MatchInv' /\ StoreType'
  <1>0. /\ TypeOK /\ TodoInv /\ BootInv /\ WriteInv /\ FileInv /\ MatchInv /\ CallInv
        /\ AnswerInv /\ ServerType /\ StoreType /\ ClientType
    BY TypeParts DEF IInv
  <1>1. ~ Writing' /\ (again => again') /\ again' \in BOOLEAN
    BY <1>0 DEF Writing, StoreType
  <1>2. WriteInv'
    BY <1>0, <1>1 DEF WriteInv, Writing, store
  <1>3. FileInv' /\ StoreType'
    BY <1>0, <1>1 DEF FileInv, Genuine, StoreType, store
  <1>4. MatchInv'
    BY <1>0, IdleFacts DEF MatchInv, Match, store
  <1>. QED BY <1>2, <1>3, <1>4

(* load_persist_props begins: overrides first, then the files. *)
LEMMA LoadPersistPropsKeeps ==
  ASSUME IInv, LoadPersistProps
  PROVE  IInv'
  <1>0. /\ TypeOK /\ TodoInv /\ BootInv /\ WriteInv /\ FileInv /\ MatchInv /\ CallInv
        /\ AnswerInv /\ ServerType /\ StoreType /\ ClientType
    BY TypeParts DEF IInv
  <1>. DEFINE last == <<LoadFiles, [name |-> Ready, value |-> "true"]>>
  <1>1. /\ pc = "idle" /\ pc' = "run" /\ todo' = Overrides \o last /\ again' = (again \/ loaded)
        /\ UNCHANGED <<mem, listening, loaded, serving, queue, store, client>>
    BY DEF LoadPersistProps
  <1>2. /\ last \in Seq(Items \cup {LoadFiles}) /\ Len(last) = 2
        /\ last[1] = LoadFiles /\ last[2] = [name |-> Ready, value |-> "true"]
        /\ last[2] \in Items /\ last[2] # LoadFiles /\ last[2].name \notin Persist
    <2>1. [name |-> Ready, value |-> "true"] \in Items
      BY DEF Items
    <2>2. [name |-> Ready, value |-> "true"] # LoadFiles
      BY <2>1, ItemFacts
    <2>. QED BY <2>1, <2>2, KindFacts
  <1>3. /\ Overrides \in Seq(Items \cup {LoadFiles}) /\ Len(Overrides) \in Nat
        /\ \A i \in 1 .. Len(Overrides) : Overrides[i] \in Items /\ i \in DOMAIN Overrides
    <2>1. Sets \subseteq Items
      BY DEF Sets, Items
    <2>2. Overrides \in Seq(Items)
      BY <2>1, FilesAssumption, SeqMonotonic
    <2>3. \A i \in 1 .. Len(Overrides) : Overrides[i] \in Items /\ i \in DOMAIN Overrides
      BY <2>2, ElementOfSeq, LenProperties
    <2>. QED BY <2>2, <2>3, SeqMonotonic, LenProperties
  <1>. HIDE DEF last
  <1>4. /\ todo' \in Seq(Items \cup {LoadFiles})
        /\ Len(todo') = Len(Overrides) + 2
        /\ \A i \in 1 .. Len(Overrides) + 2 :
             todo'[i] = IF i <= Len(Overrides) THEN Overrides[i] ELSE last[i - Len(Overrides)]
    <2>1. /\ Overrides \o last \in Seq(Items \cup {LoadFiles})
          /\ Len(Overrides \o last) = Len(Overrides) + Len(last)
          /\ \A i \in 1 .. Len(Overrides) + Len(last) : (Overrides \o last)[i] =
               IF i <= Len(Overrides) THEN Overrides[i] ELSE last[i - Len(Overrides)]
      BY <1>2, <1>3, ConcatProperties
    <2>. QED BY <1>1, <1>2, <2>1
  <1>5. \A i \in 1 .. Len(todo') :
          \/ i \in DOMAIN Overrides /\ todo'[i] = Overrides[i] /\ todo'[i] # LoadFiles
          \/ i = Len(todo') - 1 /\ todo'[i] = LoadFiles
          \/ i = Len(todo') /\ todo'[i] = last[2]
    <2>1. \A i \in 1 .. Len(Overrides) : Overrides[i] # LoadFiles
      BY <1>3, ItemFacts
    <2>. QED BY <1>2, <1>3, <1>4, <2>1
  <1>6. todo' # <<>>
    BY <1>3, <1>4
  <1>7. TodoInv'
    BY <1>1, <1>2, <1>4, <1>5, <1>6 DEF TodoInv
  <1>8. BootInv'
    <2>1. listening
      BY <1>1, IdleFacts
    <2>2. ASSUME NEW i \in 1 .. Len(todo'), todo'[i] # LoadFiles, todo'[i].name \in Persist
          PROVE  Genuine(todo[i].name, todo[i].value)' \/ (~ loaded' /\ Pending(i)')
      <3>1. i \in DOMAIN Overrides /\ todo'[i] = Overrides[i] /\ i < Len(todo') - 1
        BY <1>2, <1>3, <1>4, <1>5, <2>2
      <3>2. todo'[i] = [name |-> todo'[i].name, value |-> todo'[i].value]
        BY <1>3, <3>1, ItemFacts
      <3>3. CASE loaded
        BY <1>1, <3>1, <3>2, <3>3 DEF Genuine
      <3>4. CASE ~ loaded
        <4>1. Len(todo') - 1 \in 1 .. Len(todo') /\ todo'[Len(todo') - 1] = LoadFiles
          BY <1>2, <1>3, <1>4
        <4>. QED BY <1>1, <3>1, <3>4, <4>1 DEF Pending
      <3>. QED BY <3>3, <3>4
    <2>. QED BY <1>1, <2>1, <2>2 DEF BootInv
  <1>9. WriteInv' /\ FileInv' /\ MatchInv' /\ StoreType'
    BY <1>1, HandlerKeeps
  <1>10. CallInv' /\ AnswerInv'
    BY <1>0, <1>1 DEF CallInv, AnswerInv, client
  <1>11. ServerType' /\ ClientType'
    BY <1>0, <1>1, <1>6 DEF ServerType, ClientType, client
  <1>. QED BY <1>7, <1>8, <1>9, <1>10, <1>11 DEF IInv, TypeOK, ServerType, StoreType, ClientType

(* What a connection's handler sets *)
LEMMA ServingFacts ==
  ASSUME TypeOK, AnswerInv, NEW k \in Calls, call[k] # NewCall
  PROVE  /\ call[k] \in Requests
         /\ [name |-> NameOf(call[k]), value |-> call[k].value] \in Items
         /\ <<call[k].by, NameOf(call[k])>> \in Allowed => Genuine(NameOf(call[k]), call[k].value)
  <1>1. call[k] \in Requests
    BY DEF TypeOK
  <1>2. /\ call[k].name \in Names /\ call[k].value \in Values
        /\ call[k].proto \in {1, 2}
    BY <1>1 DEF Requests
  <1>3. NameOf(call[k]) = call[k].name \/ NameOf(call[k]) = call[k].value
    BY DEF NameOf
  <1>4. NameOf(call[k]) \in AllNames
    BY <1>2, <1>3 DEF AllNames
  <1>5. ASSUME <<call[k].by, NameOf(call[k])>> \in Allowed
        PROVE  Genuine(NameOf(call[k]), call[k].value)
    <2>1. PICK r \in Asked : r = [by |-> call[k].by, name |-> call[k].name, value |-> call[k].value]
      BY DEF AnswerInv
    <2>2. r.by = call[k].by /\ r.name = call[k].name /\ r.value = call[k].value
      BY <2>1
    <2>. QED BY <1>3, <1>5, <2>2 DEF Genuine
  <1>. QED BY <1>1, <1>2, <1>4, <1>5 DEF Items

(* The directory is read: every file becomes a call of property_set. *)
LEMMA LoadPersistentPropertiesKeeps ==
  ASSUME IInv, LoadPersistentProperties
  PROVE  IInv'
  <1>0. /\ TypeOK /\ TodoInv /\ BootInv /\ WriteInv /\ FileInv /\ MatchInv /\ CallInv
        /\ AnswerInv /\ ServerType /\ StoreType /\ ClientType
    BY TypeParts DEF IInv
  <1>1. /\ pc = "run" /\ Head(todo) = LoadFiles /\ loaded' = TRUE
        /\ UNCHANGED <<mem, listening, pc, serving, queue, temp, synced, file, unsafe, disk, torn,
                       again, client>>
    BY DEF LoadPersistentProperties
  <1>2. PICK skipped \in SUBSET Files :
          /\ spoilt' = spoilt \cup skipped
          /\ \E o \in LoadOrders(Files \ skipped) :
               todo' = [i \in DOMAIN o |-> [name |-> o[i], value |-> file[o[i]]]] \o Tail(todo)
    BY DEF LoadPersistentProperties
  <1>. DEFINE P == Files \ skipped
  <1>3. PICK o \in LoadOrders(P) :
               todo' = [i \in DOMAIN o |-> [name |-> o[i], value |-> file[o[i]]]] \o Tail(todo)
    BY <1>2
  <1>4. P \subseteq Persist /\ \A n \in P : file[n] \in Values \cup {Truncated}
    BY <1>0 DEF Files, StoreType
  <1>5. PICK c \in Nat : c = Cardinality(P)
    BY <1>4, FilesAssumption, FS_Subset, FS_CardinalityType
  <1>6. /\ o \in [1 .. c -> P] /\ DOMAIN o = 1 .. c
        /\ \A n \in P : \E i \in 1 .. c : o[i] = n
    BY <1>5 DEF LoadOrders
  <1>7. listening /\ todo # <<>> /\ todo[1] = LoadFiles
    BY <1>0, <1>1, HeadFacts DEF BootInv, TypeOK
  <1>8. serving = NoCall
    <2>. SUFFICES ASSUME serving # NoCall PROVE FALSE
      OBVIOUS
    <2>1. PICK k \in Calls : k = serving
      BY <1>0 DEF ServerType
    <2>2. /\ call[k] # NewCall
          /\ todo = <<[name |-> NameOf(call[k]), value |-> call[k].value]>>
      BY <1>0, <1>1, <2>1 DEF CallInv
    <2>3. [name |-> NameOf(call[k]), value |-> call[k].value] \in Items
      BY <1>0, <2>2, ServingFacts
    <2>. QED BY <1>7, <2>2, <2>3, ItemFacts
  <1>. DEFINE S == [i \in 1 .. c |-> [name |-> o[i], value |-> file[o[i]]]]
  <1>9. todo' = S \o Tail(todo)
    BY <1>3, <1>6
  <1>10. \A i \in 1 .. c : S[i] \in Items /\ S[i] = [name |-> o[i], value |-> file[o[i]]]
    BY <1>4, <1>6, KindFacts DEF Items
  <1>11. S \in Seq(Items \cup {LoadFiles}) /\ Len(S) = c
    <2>1. S \in [1 .. c -> Items \cup {LoadFiles}]
      BY <1>10
    <2>2. S \in Seq(Items \cup {LoadFiles})
      BY <2>1, SeqDef
    <2>. QED BY <2>2
  <1>. HIDE DEF S, P
  <1>12. PICK t \in Seq(Items \cup {LoadFiles}) :
           /\ t = Tail(todo) /\ Len(t) = Len(todo) - 1 /\ Len(t) \in Nat \ {0}
           /\ \A i \in 1 .. Len(t) : t[i] = todo[i + 1] /\ i + 1 \in 1 .. Len(todo)
    <2>1. Len(todo) # 1
      BY <1>0, <1>7, HeadFacts DEF TodoInv
    <2>2. /\ Tail(todo) \in Seq(Items \cup {LoadFiles}) /\ Len(Tail(todo)) = Len(todo) - 1
          /\ Len(todo) \in Nat \ {0}
          /\ \A i \in 1 .. Len(Tail(todo)) : Tail(todo)[i] = todo[i + 1] /\ i + 1 \in 1 .. Len(todo)
      BY <1>0, <1>7, HeadFacts
    <2>3. Len(Tail(todo)) \in Nat \ {0}
      BY <2>1, <2>2
    <2>. QED BY <2>2, <2>3
  <1>13. /\ todo' \in Seq(Items \cup {LoadFiles}) /\ Len(todo') = c + Len(t)
         /\ \A i \in 1 .. c + Len(t) : todo'[i] = IF i <= c THEN S[i] ELSE t[i - c]
    <2>1. todo' = S \o t
      BY <1>9, <1>12
    <2>2. /\ S \o t \in Seq(Items \cup {LoadFiles}) /\ Len(S \o t) = Len(S) + Len(t)
          /\ \A i \in 1 .. Len(S) + Len(t) : (S \o t)[i] = IF i <= Len(S) THEN S[i] ELSE t[i - Len(S)]
      BY <1>11, ConcatProperties
    <2>. QED BY <1>11, <2>1, <2>2
  <1>14. todo' # <<>>
    <2>1. Len(t) \in Nat \ {0}
      BY <1>12
    <2>2. Len(todo') = c + Len(t)
      BY <1>13
    <2>3. c + Len(t) # 0
      BY <2>1
    <2>. QED BY <2>2, <2>3
  <1>15. \A i \in 1 .. Len(todo') :
           \/ i \in 1 .. c /\ todo'[i] = S[i]
           \/ /\ i - c \in 1 .. Len(t) /\ todo'[i] = todo[i - c + 1]
              /\ i - c + 1 \in 1 .. Len(todo)
    BY <1>5, <1>12, <1>13
  <1>16. TodoInv'
    <2>1. ASSUME NEW i \in 1 .. Len(todo'), todo'[i] = LoadFiles
          PROVE  i = Len(todo') - 1
      <3>1. CASE i \in 1 .. c /\ todo'[i] = S[i]
        BY <1>10, <2>1, <3>1, ItemFacts
      <3>2. CASE /\ i - c \in 1 .. Len(t) /\ todo'[i] = todo[i - c + 1]
                 /\ i - c + 1 \in 1 .. Len(todo)
        <4>1. i - c + 1 = Len(todo) - 1
          BY <1>0, <2>1, <3>2 DEF TodoInv
        <4>. QED BY <1>5, <1>12, <1>13, <3>2, <4>1, SMTT(20)
      <3>. QED BY <1>15, <3>1, <3>2
    <2>. QED BY <1>1, <1>13, <1>14, <2>1 DEF TodoInv
  <1>17. BootInv'
    <2>1. ASSUME NEW i \in 1 .. Len(todo'), todo'[i] # LoadFiles, todo'[i].name \in Persist
          PROVE  Genuine(todo[i].name, todo[i].value)'
      <3>1. CASE i \in 1 .. c /\ todo'[i] = S[i]
        <4>1. todo'[i].name = o[i] /\ todo'[i].value = file[o[i]] /\ o[i] \in Persist
          <5>1. o[i] \in P
            BY <1>6, <3>1
          <5>2. todo'[i] = [name |-> o[i], value |-> file[o[i]]]
            BY <1>10, <3>1
          <5>. QED BY <1>4, <5>1, <5>2
        <4>2. Genuine(o[i], file[o[i]])
          BY <1>0, <4>1 DEF FileInv
        <4>. QED BY <1>1, <4>1, <4>2 DEF Genuine
      <3>2. CASE /\ i - c \in 1 .. Len(t) /\ todo'[i] = todo[i - c + 1]
                 /\ i - c + 1 \in 1 .. Len(todo)
        <4>1. ~ Pending(i - c + 1)
          <5>. SUFFICES ASSUME NEW j \in 1 .. Len(todo), i - c + 1 < j, todo[j] = LoadFiles
                        PROVE  FALSE
            BY DEF Pending
          <5>1. 1 = Len(todo) - 1 /\ j = Len(todo) - 1 /\ Len(todo) \in Nat /\ Len(t) \in Nat
            BY <1>0, <1>7, <1>12, HeadFacts DEF TodoInv
          <5>2. PICK m \in 1 .. Len(t) : m = i - c
            BY <3>2
          <5>3. m + 1 < j
            BY <5>2
          <5>. QED BY <5>1, <5>3
        <4>2. Genuine(todo[i - c + 1].name, todo[i - c + 1].value)
          BY <1>0, <1>7, <2>1, <3>2, <4>1 DEF BootInv
        <4>. QED BY <1>1, <3>2, <4>2 DEF Genuine
      <3>. QED BY <1>15, <3>1, <3>2
    <2>. QED BY <1>1, <1>7, <2>1 DEF BootInv
  <1>18. WriteInv'
    BY <1>0, <1>1 DEF WriteInv, Writing
  <1>19. FileInv'
    BY <1>0, <1>1, <1>2 DEF FileInv, Genuine
  <1>20. MatchInv'
    <2>1. ASSUME NEW x \in Persist \ spoilt', file[x] # NoValue
          PROVE  \E i \in 1 .. Len(todo') : todo'[i] = [name |-> x, value |-> file[x]]
      <3>1. x \in P
        BY <1>2, <2>1 DEF P, Files
      <3>2. PICK i \in 1 .. c : o[i] = x
        BY <1>6, <3>1
      <3>3. i \in 1 .. Len(todo') /\ todo'[i] = S[i]
        BY <1>5, <1>12, <1>13, <3>2
      <3>. QED BY <1>10, <3>2, <3>3
    <2>. QED BY <1>0, <1>1, <2>1 DEF MatchInv, Match
  <1>21. CallInv' /\ AnswerInv'
    BY <1>0, <1>1, <1>8 DEF CallInv, AnswerInv, client
  <1>22. ServerType' /\ StoreType' /\ ClientType'
    BY <1>0, <1>1, <1>2, <1>14 DEF ServerType, StoreType, ClientType, client, Files
  <1>. QED BY <1>16, <1>17, <1>18, <1>19, <1>20, <1>21, <1>22
           DEF IInv, TypeOK, ServerType, StoreType, ClientType

-----------------------------------------------------------------------------
(* handle_property_set_fd takes a connection from the backlog. *)
LEMMA AcceptKeeps ==
  ASSUME IInv, Accept
  PROVE  IInv'
  <1>0. /\ TypeOK /\ TodoInv /\ BootInv /\ WriteInv /\ FileInv /\ MatchInv /\ CallInv
        /\ AnswerInv /\ ServerType /\ StoreType /\ ClientType
    BY TypeParts DEF IInv
  <1>1. /\ pc = "idle" /\ queue # <<>> /\ pc' = "recv"
        /\ serving' = Head(queue) /\ queue' = Tail(queue)
        /\ UNCHANGED <<mem, listening, loaded, todo, store, again, client>>
    BY DEF Accept
  <1>2. queue \in Seq(Calls) /\ Len(queue) <= Backlog /\ Len(queue) \in Nat \ {0}
    BY <1>0, <1>1, EmptySeq DEF ClientType
  <1>3. /\ Head(queue) \in Calls /\ queue' \in Seq(Calls) /\ Len(queue') = Len(queue) - 1
        /\ \A i \in 1 .. Len(queue') : queue'[i] = queue[i + 1]
        /\ Head(queue) = queue[1]
    BY <1>1, <1>2, HeadTailProperties
  <1>4. 1 \in 1 .. Len(queue) /\ \A i \in 1 .. Len(queue') : i + 1 \in 1 .. Len(queue) /\ i + 1 # 1
    BY <1>2, <1>3
  <1>5. todo = <<>> /\ listening
    BY <1>1, IdleFacts
  <1>6. TodoInv' /\ BootInv'
    BY <1>0, <1>1, <1>5 DEF TodoInv, BootInv, Genuine, store
  <1>7. WriteInv' /\ FileInv' /\ MatchInv' /\ StoreType'
    BY <1>1, HandlerKeeps
  <1>8. CallInv'
    <2>1. PICK k \in Calls : k = queue[1]
      BY <1>3
    <2>2. serving' = k /\ k # NoCall /\ call[k] # NewCall /\ reply[k] = "none" /\ k \notin applied
      BY <1>0, <1>1, <1>3, <1>4, <2>1, CallsAssumption DEF CallInv
    <2>3. \A i \in 1 .. Len(queue') :
             /\ queue'[i] # k /\ call[queue'[i]] # NewCall
             /\ reply[queue'[i]] = "none" /\ queue'[i] \notin applied
             /\ \A j \in 1 .. Len(queue') : queue'[i] = queue'[j] => i = j
      <3>. SUFFICES ASSUME NEW i \in 1 .. Len(queue')
                    PROVE  /\ queue'[i] # k /\ call[queue'[i]] # NewCall
                           /\ reply[queue'[i]] = "none" /\ queue'[i] \notin applied
                           /\ \A j \in 1 .. Len(queue') : queue'[i] = queue'[j] => i = j
        OBVIOUS
      <3>1. queue'[i] = queue[i + 1] /\ i + 1 \in 1 .. Len(queue) /\ i + 1 # 1
        BY <1>3, <1>4
      <3>2. /\ call[queue[i + 1]] # NewCall
            /\ reply[queue[i + 1]] = "none" /\ queue[i + 1] \notin applied
            /\ \A j \in 1 .. Len(queue) : queue[i + 1] = queue[j] => i + 1 = j
        BY <1>0, <3>1 DEF CallInv
      <3>3. queue[i + 1] # k
        BY <1>4, <2>1, <3>1, <3>2
      <3>4. ASSUME NEW j \in 1 .. Len(queue'), queue'[i] = queue'[j]
            PROVE  i = j
        <4>1. queue'[j] = queue[j + 1] /\ j + 1 \in 1 .. Len(queue)
          BY <1>3, <1>4
        <4>2. i + 1 = j + 1
          BY <3>1, <3>2, <3>4, <4>1
        <4>. QED BY <4>2
      <3>. QED BY <3>1, <3>2, <3>3, <3>4
    <2>4. UNCHANGED <<call, reply, applied>>
      BY <1>1 DEF client
    <2>. QED BY <1>1, <2>2, <2>3, <2>4 DEF CallInv, Writing
  <1>9. AnswerInv'
    BY <1>0, <1>1 DEF AnswerInv, client
  <1>10. ServerType' /\ ClientType'
    <2>1. Len(queue') <= Backlog
      BY <1>2, <1>3, BacklogAssumption
    <2>. QED BY <1>0, <1>1, <1>3, <2>1 DEF ServerType, ClientType, client
  <1>. QED BY <1>6, <1>7, <1>8, <1>9, <1>10 DEF IInv, TypeOK, ServerType, StoreType, ClientType

(* An answer to a connection whose call has had no effect *)
LEMMA RefuseKeeps ==
  ASSUME IInv, pc = "recv", NEW r \in {"closed", "cut"} \cup Results, Refuse(r),
         r = "SUCCESS" => call[serving].proto = 1 \/ call[serving].name \in Ctl
  PROVE  IInv'
  <1>0. /\ TypeOK /\ TodoInv /\ BootInv /\ WriteInv /\ FileInv /\ MatchInv /\ CallInv
        /\ AnswerInv /\ ServerType /\ StoreType /\ ClientType
    BY TypeParts DEF IInv
  <1>1. /\ reply' = [reply EXCEPT ![serving] = r] /\ serving' = NoCall /\ pc' = "idle"
        /\ UNCHANGED <<mem, listening, loaded, todo, queue, store, again, proto, call, applied>>
    BY DEF Refuse
  <1>2. PICK k \in Calls : k = serving
    BY <1>0 DEF CallInv, ServerType
  <1>3. call[k] # NewCall /\ reply[k] = "none" /\ k \notin applied /\ k # NoCall
    BY <1>0, <1>2, CallsAssumption DEF CallInv
  <1>4. /\ reply' \in [Calls -> {"none", "closed", "cut"} \cup Results]
        /\ \A x \in Calls : reply'[x] = IF x = k THEN r ELSE reply[x]
    BY <1>0, <1>1, <1>2 DEF ClientType
  <1>5. todo = <<>> /\ listening
    BY IdleFacts
  <1>6. TodoInv' /\ BootInv'
    BY <1>0, <1>1, <1>5 DEF TodoInv, BootInv, Genuine, store
  <1>7. WriteInv' /\ FileInv' /\ MatchInv' /\ StoreType'
    BY <1>1, HandlerKeeps
  <1>8. CallInv'
    <2>1. ASSUME NEW i \in 1 .. Len(queue)
          PROVE  /\ queue[i] # NoCall /\ call[queue[i]] # NewCall
                 /\ reply'[queue[i]] = "none" /\ queue[i] \notin applied
                 /\ \A j \in 1 .. Len(queue) : queue[i] = queue[j] => i = j
      <3>1. queue[i] \in Calls
        BY <1>0, ElementOfSeq DEF ClientType
      <3>2. /\ queue[i] # k /\ call[queue[i]] # NewCall
            /\ reply[queue[i]] = "none" /\ queue[i] \notin applied
            /\ \A j \in 1 .. Len(queue) : queue[i] = queue[j] => i = j
        BY <1>0, <1>2 DEF CallInv
      <3>. QED BY <1>4, <3>1, <3>2, CallsAssumption
    <2>. QED BY <1>1, <2>1 DEF CallInv, Writing
  <1>9. AnswerInv'
    <2>. SUFFICES ASSUME NEW x \in Calls
                  PROVE
                    /\ call[x] = NewCall => reply'[x] = "none" /\ x \notin applied
                    /\ reply'[x] \in Results \ {"SUCCESS"} => x \notin applied
                    /\ call[x] # NewCall =>
                         /\ [by |-> call[x].by, name |-> call[x].name,
                             value |-> call[x].value] \in Asked
                         /\ call[x].proto = 2 /\ call[x].name \notin Ctl =>
                              /\ reply'[x] = "SUCCESS" => x \in applied
                              /\ call[x].at = "ok" => reply'[x] = "SUCCESS"
      BY <1>1 DEF AnswerInv
    <2>1. CASE x # k
      BY <1>0, <1>4, <2>1 DEF AnswerInv
    <2>2. CASE x = k
      <3>1. reply'[x] = r
        BY <1>4, <2>2
      <3>2. call[x].proto = 2 /\ call[x].name \notin Ctl => call[x].at # "ok" /\ r # "SUCCESS"
        <4>1. call[x].proto = 2 /\ call[x].name \notin Ctl => r # "SUCCESS"
          BY <1>2, <2>2
        <4>2. call[x].proto = 2 /\ call[x].name \notin Ctl /\ call[x].at = "ok" =>
                reply[x] = "SUCCESS"
          BY <1>0, <1>3, <2>2 DEF AnswerInv
        <4>. QED BY <1>3, <2>2, <4>1, <4>2
      <3>. QED BY <1>0, <1>3, <2>2, <3>1, <3>2 DEF AnswerInv
    <2>. QED BY <2>1, <2>2
  <1>10. ServerType' /\ ClientType'
    BY <1>0, <1>1, <1>4 DEF ServerType, ClientType
  <1>. QED BY <1>6, <1>7, <1>8, <1>9, <1>10 DEF IInv, TypeOK, ServerType, StoreType, ClientType

(* The message arrives in time, or late and cut short. *)
LEMMA ReceiveKeeps ==
  ASSUME IInv, Receive \/ ReceiveTimeout
  PROVE  IInv'
  <1>0. /\ TypeOK /\ TodoInv /\ BootInv /\ WriteInv /\ FileInv /\ MatchInv /\ CallInv
        /\ AnswerInv /\ ServerType /\ StoreType /\ ClientType
    BY TypeParts DEF IInv
  <1>1. pc = "recv"
    BY DEF Receive, ReceiveTimeout
  <1>2. PICK k \in Calls : k = serving
    BY <1>0, <1>1 DEF CallInv, ServerType
  <1>3. call[k] # NewCall /\ reply[k] = "none" /\ k \notin applied /\ k # NoCall
    BY <1>0, <1>1, <1>2, CallsAssumption DEF CallInv
  <1>4. CASE \E r \in {"closed", "cut"} \cup Results : r # "SUCCESS" /\ Refuse(r)
    BY <1>1, <1>4, RefuseKeeps
  <1>5. CASE ReceiveTimeout
    <2>1. {"READ_CMD", "READ_DATA", "cut"} \subseteq {"closed", "cut"} \cup Results
      BY DEF Results
    <2>. QED BY <1>4, <1>5, <2>1 DEF ReceiveTimeout
  <1>6. CASE Receive
    <2>. DEFINE n == NameOf(call[k])
                item == [name |-> n, value |-> call[k].value]
    <2>1. {"INVALID_NAME", "CONTROL_FAILED", "PERMISSION_DENIED", "SUCCESS"} \subseteq Results
      BY DEF Results
    <2>2. CASE n \in Illegal /\ Refuse("INVALID_NAME")
      BY <1>4, <2>1, <2>2
    <2>3. CASE n \in Ctl /\ Refuse(IF call[k].proto = 1 THEN "closed"
                                   ELSE IF <<call[k].by, call[k].value>> \in Controls
                                        THEN "SUCCESS" ELSE "CONTROL_FAILED")
      <3>1. CASE call[k].proto = 1
        BY <1>4, <2>3, <3>1
      <3>2. CASE call[k].proto # 1 /\ <<call[k].by, call[k].value>> \in Controls
        <4>1. call[serving].name \in Ctl
          BY <1>2, <2>3, <3>2 DEF NameOf
        <4>. QED BY <1>1, <2>1, <2>3, <3>2, <4>1, RefuseKeeps
      <3>3. CASE call[k].proto # 1 /\ <<call[k].by, call[k].value>> \notin Controls
        BY <1>4, <2>1, <2>3, <3>3
      <3>. QED BY <3>1, <3>2, <3>3
    <2>4. CASE Refuse(IF call[k].proto = 1 THEN "closed" ELSE "PERMISSION_DENIED")
      BY <1>4, <2>1, <2>4
    <2>5. CASE /\ todo' = <<item>> /\ pc' = "run" /\ <<call[k].by, n>> \in Allowed
               /\ UNCHANGED <<mem, listening, loaded, serving, queue, store, again, client>>
      <3>1. item \in Items /\ item # LoadFiles /\ Genuine(n, call[k].value)
        BY <1>0, <1>3, <2>5, ServingFacts, ItemFacts
      <3>. HIDE DEF item
      <3>2. /\ todo' \in Seq(Items \cup {LoadFiles}) /\ Len(todo') = 1 /\ todo'[1] = item
            /\ todo' # <<>>
        <4>1. Len(<<item>>) = 1 /\ <<item>>[1] = item /\ <<item>> # <<>>
          OBVIOUS
        <4>2. <<item>> \in Seq(Items \cup {LoadFiles})
          BY <3>1
        <4>. QED BY <2>5, <4>1, <4>2 DEF item
      <3>3. \A i \in 1 .. Len(todo') : todo'[i] = item
        BY <3>2
      <3>4. listening
        BY <1>1, IdleFacts
      <3>5. TodoInv'
        BY <2>5, <3>1, <3>2, <3>3 DEF TodoInv
      <3>6. BootInv'
        <4>1. item.name = n /\ item.value = call[k].value
          BY DEF item
        <4>. QED BY <2>5, <3>1, <3>3, <3>4, <4>1 DEF BootInv, Genuine, store
      <3>7. WriteInv' /\ FileInv' /\ MatchInv' /\ StoreType'
        BY <1>1, <2>5, HandlerKeeps
      <3>8. CallInv'
        <4>1. \A i \in 1 .. Len(queue) :
                /\ queue[i] # serving /\ call[queue[i]] # NewCall
                /\ reply[queue[i]] = "none" /\ queue[i] \notin applied
                /\ \A j \in 1 .. Len(queue) : queue[i] = queue[j] => i = j
          BY <1>0 DEF CallInv
        <4>2. UNCHANGED <<queue, serving, call, reply, applied>>
          BY <2>5 DEF client
        <4>. QED BY <1>2, <1>3, <2>5, <4>1, <4>2 DEF CallInv, Writing, NameOf, item
      <3>9. AnswerInv'
        BY <1>0, <2>5 DEF AnswerInv, client
      <3>10. ServerType' /\ ClientType'
        BY <1>0, <2>5, <3>2 DEF ServerType, ClientType, client
      <3>. QED BY <3>5, <3>6, <3>7, <3>8, <3>9, <3>10
               DEF IInv, TypeOK, ServerType, StoreType, ClientType
    <2>. QED BY <1>2, <1>6, <2>2, <2>3, <2>4, <2>5 DEF Receive
  <1>. QED BY <1>5, <1>6

-----------------------------------------------------------------------------
(* init and the files notice nothing of what a client does. *)
LEMMA ClientKeeps ==
  ASSUME IInv, UNCHANGED <<server, store, again>>
  PROVE  TodoInv' /\ BootInv' /\ WriteInv' /\ FileInv' /\ MatchInv' /\ ServerType' /\ StoreType'
  <1>0. /\ TypeOK /\ TodoInv /\ BootInv /\ WriteInv /\ FileInv /\ MatchInv /\ CallInv
        /\ AnswerInv /\ ServerType /\ StoreType /\ ClientType
    BY TypeParts DEF IInv
  <1>1. TodoInv' /\ BootInv' /\ WriteInv'
    BY <1>0 DEF TodoInv, BootInv, Pending, WriteInv, Genuine, Writing, server, store
  <1>2. FileInv' /\ MatchInv'
    BY <1>0 DEF FileInv, MatchInv, Match, Genuine, Writing, server, store
  <1>3. ServerType' /\ StoreType'
    BY <1>0 DEF ServerType, StoreType, server, store
  <1>. QED BY <1>1, <1>2, <1>3

(* A client finds out the protocol and connects. *)
LEMMA ConnectKeeps ==
  ASSUME IInv, NEW k \in Calls, NEW r \in Asked, Connect(k, r)
  PROVE  IInv'
  <1>0. /\ TypeOK /\ TodoInv /\ BootInv /\ WriteInv /\ FileInv /\ MatchInv /\ CallInv
        /\ AnswerInv /\ ServerType /\ StoreType /\ ClientType
    BY TypeParts DEF IInv
  <1>. DEFINE d == Detect(r.by)
              Made(at) == [at |-> at, by |-> r.by, proto |-> d, name |-> r.name,
                           value |-> r.value]
  <1>1. /\ call[k] = NewCall /\ proto' = [proto EXCEPT ![r.by] = d]
        /\ UNCHANGED <<server, store, again, reply, applied>>
    BY DEF Connect
  <1>2. PICK at \in {"connected", "error"} :
          /\ call' = [call EXCEPT ![k] = Made(at)]
          /\ \/ UNCHANGED queue
             \/ at = "connected" /\ Len(queue) < Backlog /\ queue' = Append(queue, k)
    BY DEF Connect
  <1>3. r.by \in Clients /\ r.name \in Names /\ r.value \in Values
        /\ r = [by |-> r.by, name |-> r.name, value |-> r.value]
    BY NamesAssumption
  <1>4. d \in {1, 2}
    BY <1>0, <1>3 DEF Detect, ClientType
  <1>. HIDE DEF d
  <1>5. Made(at) \in Requests /\ Made(at) # NewCall /\ Made(at).at # "ok"
    <2>1. Made(at) \in Requests
      BY <1>3, <1>4 DEF Requests
    <2>. QED BY <2>1 DEF Requests, NewCall
  <1>6. /\ Made(at).by = r.by /\ Made(at).name = r.name /\ Made(at).value = r.value
    OBVIOUS
  <1>. HIDE DEF Made
  <1>7. \A x \in Calls : call'[x] = IF x = k THEN Made(at) ELSE call[x]
    BY <1>0, <1>2 DEF ClientType
  <1>8. reply[k] = "none" /\ k \notin applied
    BY <1>0, <1>1 DEF AnswerInv
  <1>9. k # serving /\ k # NoCall
    BY <1>0, <1>1, CallsAssumption DEF CallInv
  <1>10. queue \in Seq(Calls) /\ Len(queue) \in Nat /\ \A i \in 1 .. Len(queue) : queue[i] \in Calls
    BY <1>0, ElementOfSeq, LenProperties DEF ClientType
  <1>11. \A i \in 1 .. Len(queue) : queue[i] # k
    BY <1>0, <1>1 DEF CallInv
  <1>12. /\ queue' \in Seq(Calls) /\ Len(queue') <= Backlog
         /\ \A i \in 1 .. Len(queue') :
              \/ i \in 1 .. Len(queue) /\ queue'[i] = queue[i]
              \/ i = Len(queue) + 1 /\ queue'[i] = k
    <2>1. CASE UNCHANGED queue
      BY <1>0, <1>10, <2>1 DEF ClientType
    <2>2. CASE Len(queue) < Backlog /\ queue' = Append(queue, k)
      <3>1. /\ queue' \in Seq(Calls) /\ Len(queue') = Len(queue) + 1
            /\ \A i \in 1 .. Len(queue) + 1 :
                 queue'[i] = IF i <= Len(queue) THEN queue[i] ELSE k
        BY <1>10, <2>2, AppendProperties
      <3>. QED BY <1>10, <2>2, <3>1, BacklogAssumption
    <2>. QED BY <1>2, <2>1, <2>2
  <1>13. CallInv'
    <2>1. ASSUME NEW i \in 1 .. Len(queue')
          PROVE  /\ queue'[i] # serving /\ call'[queue'[i]] # NewCall
                 /\ reply[queue'[i]] = "none" /\ queue'[i] \notin applied
                 /\ \A j \in 1 .. Len(queue') : queue'[i] = queue'[j] => i = j
      <3>1. ASSUME NEW m \in 1 .. Len(queue)
            PROVE  /\ queue[m] \in Calls /\ queue[m] # k
                   /\ queue[m] # serving /\ call'[queue[m]] # NewCall
                   /\ reply[queue[m]] = "none" /\ queue[m] \notin applied
                   /\ \A j \in 1 .. Len(queue) : queue[m] = queue[j] => m = j
        BY <1>0, <1>7, <1>10, <1>11 DEF CallInv
      <3>2. CASE i \in 1 .. Len(queue) /\ queue'[i] = queue[i]
        <4>1. ASSUME NEW j \in 1 .. Len(queue'), queue'[i] = queue'[j]
              PROVE  i = j
          BY <1>12, <3>1, <3>2, <4>1
        <4>. QED BY <3>1, <3>2, <4>1
      <3>3. CASE i = Len(queue) + 1 /\ queue'[i] = k
        <4>1. call'[k] # NewCall
          BY <1>5, <1>7
        <4>2. ASSUME NEW j \in 1 .. Len(queue'), queue'[i] = queue'[j]
              PROVE  i = j
          BY <1>12, <3>1, <3>3, <4>2
        <4>. QED BY <1>8, <1>9, <3>3, <4>1, <4>2
      <3>. QED BY <1>12, <3>2, <3>3
    <2>2. UNCHANGED <<pc, serving, todo, reply, applied>>
      BY <1>1 DEF server
    <2>3. serving # NoCall => serving \in Calls /\ call'[serving] = call[serving]
      BY <1>0, <1>7, <1>9 DEF ServerType
    <2>4. serving # NoCall =>
             /\ call[serving] # NewCall /\ reply[serving] = "none"
             /\ pc \in {"recv", "run"} => serving \notin applied
             /\ pc # "recv" => todo = <<[name |-> NameOf(call[serving]), value |-> call[serving].value]>>
             /\ Writing /\ call[serving].proto = 2 => serving \in applied
      BY <1>0 DEF CallInv
    <2>. QED BY <1>0, <2>1, <2>2, <2>3, <2>4 DEF CallInv, Writing, NameOf
  <1>14. AnswerInv'
    <2>. SUFFICES ASSUME NEW x \in Calls
                  PROVE
                    /\ call'[x] = NewCall => reply[x] = "none" /\ x \notin applied
                    /\ reply[x] \in Results \ {"SUCCESS"} => x \notin applied
                    /\ call'[x] # NewCall =>
                         /\ [by |-> call'[x].by, name |-> call'[x].name,
                             value |-> call'[x].value] \in Asked
                         /\ call'[x].proto = 2 /\ call'[x].name \notin Ctl =>
                              /\ reply[x] = "SUCCESS" => x \in applied
                              /\ call'[x].at = "ok" => reply[x] = "SUCCESS"
      BY <1>1 DEF AnswerInv
    <2>1. CASE x # k
      BY <1>0, <1>7, <2>1 DEF AnswerInv
    <2>2. CASE x = k
      BY <1>3, <1>5, <1>6, <1>7, <1>8, <2>2
    <2>. QED BY <2>1, <2>2
  <1>15. ClientType'
    <2>1. proto' \in [Clients -> {0, 1, 2}]
      BY <1>0, <1>1, <1>3, <1>4 DEF ClientType
    <2>2. call' \in [Calls -> {NewCall} \cup Requests]
      BY <1>0, <1>2, <1>5 DEF ClientType
    <2>. QED BY <1>0, <1>1, <1>12, <2>1, <2>2 DEF ClientType
  <1>16. TodoInv' /\ BootInv' /\ WriteInv' /\ FileInv' /\ MatchInv' /\ ServerType' /\ StoreType'
    BY <1>1, ClientKeeps
  <1>. QED BY <1>13, <1>14, <1>15, <1>16 DEF IInv, TypeOK, ServerType, StoreType, ClientType

(* A call moves on and stays the call it was. *)
LEMMA CallMoves ==
  ASSUME IInv, NEW at \in [Calls -> {"new", "connected", "sent", "ok", "error"}],
         \A x \in Calls : IF at[x] = call[x].at THEN call'[x] = call[x]
                          ELSE /\ call[x] # NewCall /\ at[x] # "new"
                               /\ call'[x] = [call[x] EXCEPT !.at = at[x]],
         DOMAIN call' = Calls, call' = [x \in Calls |-> call'[x]]
  PROVE  /\ call' \in [Calls -> {NewCall} \cup Requests]
         /\ \A x \in Calls : /\ call'[x] = NewCall <=> call[x] = NewCall
                             /\ call'[x].at = at[x]
                             /\ call[x] # NewCall =>
                                  /\ call'[x].by = call[x].by /\ call'[x].proto = call[x].proto
                                  /\ call'[x].name = call[x].name
                                  /\ call'[x].value = call[x].value
  <1>1. ASSUME NEW x \in Calls
        PROVE  /\ call'[x] \in {NewCall} \cup Requests
               /\ call'[x] = NewCall <=> call[x] = NewCall
               /\ call'[x].at = at[x]
               /\ call[x] # NewCall =>
                    /\ call'[x].by = call[x].by /\ call'[x].proto = call[x].proto
                    /\ call'[x].name = call[x].name
                    /\ call'[x].value = call[x].value
    <2>1. call[x] \in {NewCall} \cup Requests
      BY DEF IInv, TypeOK
    <2>2. CASE at[x] = call[x].at
      BY <2>1, <2>2
    <2>3. CASE at[x] # call[x].at
      <3>1. /\ call[x] \in Requests /\ call'[x] = [call[x] EXCEPT !.at = at[x]]
            /\ at[x] \in {"connected", "sent", "ok", "error"}
        BY <2>1, <2>3
      <3>2. /\ call'[x] \in Requests /\ call'[x].at = at[x]
            /\ call'[x].by = call[x].by /\ call'[x].proto = call[x].proto
            /\ call'[x].name = call[x].name /\ call'[x].value = call[x].value
        BY <3>1 DEF Requests
      <3>3. call'[x] # NewCall /\ call[x] # NewCall
        BY <3>1, <3>2 DEF Requests, NewCall
      <3>. QED BY <3>2, <3>3
    <2>. QED BY <2>2, <2>3
  <1>2. call' \in [Calls -> {NewCall} \cup Requests]
    BY <1>1
  <1>. QED BY <1>1, <1>2

(* What is true of the answers stays true when calls move on. *)
LEMMA AnswersKeep ==
  ASSUME IInv, UNCHANGED <<reply, applied>>,
         NEW at \in [Calls -> {"new", "connected", "sent", "ok", "error"}],
         \A x \in Calls : /\ call'[x] = NewCall <=> call[x] = NewCall
                          /\ call'[x].at = at[x]
                          /\ call[x] # NewCall =>
                               /\ call'[x].by = call[x].by /\ call'[x].proto = call[x].proto
                               /\ call'[x].name = call[x].name
                               /\ call'[x].value = call[x].value,
         \A x \in Calls : at[x] = "ok" => \/ call[x].at = "ok" \/ call[x].proto = 1
                                          \/ reply[x] = "SUCCESS"
  PROVE  AnswerInv'
  <1>. SUFFICES ASSUME NEW x \in Calls
                PROVE
                  /\ call'[x] = NewCall => reply[x] = "none" /\ x \notin applied
                  /\ reply[x] \in Results \ {"SUCCESS"} => x \notin applied
                  /\ call'[x] # NewCall =>
                       /\ [by |-> call'[x].by, name |-> call'[x].name,
                           value |-> call'[x].value] \in Asked
                       /\ call'[x].proto = 2 /\ call'[x].name \notin Ctl =>
                            /\ reply[x] = "SUCCESS" => x \in applied
                            /\ call'[x].at = "ok" => reply[x] = "SUCCESS"
    BY DEF AnswerInv
  <1>1. CASE call[x] = NewCall
    BY <1>1 DEF IInv, AnswerInv
  <1>2. CASE call[x] # NewCall
    BY <1>2 DEF IInv, AnswerInv
  <1>. QED BY <1>1, <1>2

(* A client sends, is answered, or gives up. *)
LEMMA ClientStepKeeps ==
  ASSUME IInv, NEW k \in Calls, ClientStep(k)
  PROVE  IInv'
  <1>0. /\ TypeOK /\ TodoInv /\ BootInv /\ WriteInv /\ FileInv /\ MatchInv /\ CallInv
        /\ AnswerInv /\ ServerType /\ StoreType /\ ClientType
    BY TypeParts DEF IInv
  <1>1. UNCHANGED <<server, queue, store, again, proto, reply, applied>>
    BY DEF ClientStep, Send, Finish, FinishLegacy
  <1>2. PICK a \in {"sent", "ok", "error"} :
          /\ call' = [call EXCEPT ![k].at = a] /\ call[k].at \in {"connected", "sent"}
          /\ a = "ok" => call[k].proto = 1 \/ reply[k] = "SUCCESS"
    <2>1. CASE Send(k)
      BY <2>1 DEF Send
    <2>2. CASE FinishLegacy(k)
      BY <2>2 DEF FinishLegacy
    <2>3. CASE Finish(k)
      BY <2>3 DEF Finish
    <2>. QED BY <2>1, <2>2, <2>3 DEF ClientStep
  <1>3. call[k] \in Requests /\ call[k] # NewCall
    BY <1>0, <1>2 DEF ClientType, NewCall
  <1>. DEFINE at == [x \in Calls |-> IF x = k THEN a ELSE call[x].at]
  <1>4. PICK b \in [Calls -> {"new", "connected", "sent", "ok", "error"}] : b = at
    <2>1. \A x \in Calls : call[x].at \in {"new", "connected", "sent", "ok", "error"}
      BY <1>0 DEF ClientType, NewCall, Requests
    <2>. QED BY <2>1
  <1>5. \A x \in Calls : b[x] = IF x = k THEN a ELSE call[x].at
    BY <1>4
  <1>. HIDE DEF at
  <1>6. /\ DOMAIN call' = Calls /\ call' = [x \in Calls |-> call'[x]]
        /\ \A x \in Calls : call'[x] = IF x = k THEN [call[x] EXCEPT !.at = a] ELSE call[x]
    BY <1>0, <1>2 DEF ClientType
  <1>7. [call[k] EXCEPT !.at = call[k].at] = call[k]
    BY <1>3 DEF Requests
  <1>8. \A x \in Calls : IF b[x] = call[x].at THEN call'[x] = call[x]
                         ELSE /\ call[x] # NewCall /\ b[x] # "new"
                              /\ call'[x] = [call[x] EXCEPT !.at = b[x]]
    BY <1>3, <1>5, <1>6, <1>7
  <1>9. /\ call' \in [Calls -> {NewCall} \cup Requests]
        /\ \A x \in Calls : /\ call'[x] = NewCall <=> call[x] = NewCall
                            /\ call'[x].at = b[x]
                            /\ call[x] # NewCall =>
                                 /\ call'[x].by = call[x].by /\ call'[x].proto = call[x].proto
                                 /\ call'[x].name = call[x].name
                                 /\ call'[x].value = call[x].value
    BY <1>6, <1>8, CallMoves
  <1>10. AnswerInv'
    <2>1. \A x \in Calls : b[x] = "ok" => \/ call[x].at = "ok" \/ call[x].proto = 1
                                          \/ reply[x] = "SUCCESS"
      BY <1>2, <1>5
    <2>. QED BY <1>1, <1>9, <2>1, AnswersKeep
  <1>11. CallInv'
    <2>1. UNCHANGED <<pc, serving, todo, queue, reply, applied>>
      BY <1>1 DEF server
    <2>2. \A i \in 1 .. Len(queue) : queue[i] \in Calls
      BY <1>0, ElementOfSeq DEF ClientType
    <2>3. \A i \in 1 .. Len(queue) :
            /\ queue[i] # serving /\ call'[queue[i]] # NewCall
            /\ reply[queue[i]] = "none" /\ queue[i] \notin applied
            /\ \A j \in 1 .. Len(queue) : queue[i] = queue[j] => i = j
      BY <1>0, <1>9, <2>2 DEF CallInv
    <2>4. ASSUME serving # NoCall
          PROVE  /\ call'[serving] # NewCall /\ reply[serving] = "none"
                 /\ pc \in {"recv", "run"} => serving \notin applied
                 /\ pc # "recv" => todo = <<[name |-> NameOf(call'[serving]),
                                             value |-> call'[serving].value]>>
                 /\ Writing /\ call'[serving].proto = 2 => serving \in applied
      <3>1. serving \in Calls
        BY <1>0, <2>4 DEF ServerType
      <3>2. /\ call[serving] # NewCall /\ reply[serving] = "none"
            /\ pc \in {"recv", "run"} => serving \notin applied
            /\ pc # "recv" => todo = <<[name |-> NameOf(call[serving]),
                                        value |-> call[serving].value]>>
            /\ Writing /\ call[serving].proto = 2 => serving \in applied
        BY <1>0, <2>4 DEF CallInv
      <3>3. /\ call'[serving] # NewCall /\ call'[serving].proto = call[serving].proto
            /\ call'[serving].name = call[serving].name
            /\ call'[serving].value = call[serving].value
        BY <1>9, <3>1, <3>2
      <3>4. NameOf(call'[serving]) = NameOf(call[serving])
        BY <3>3 DEF NameOf
      <3>. QED BY <3>2, <3>3, <3>4
    <2>. QED BY <1>0, <2>1, <2>3, <2>4 DEF CallInv, Writing, NameOf
  <1>12. ClientType'
    BY <1>0, <1>1, <1>9 DEF ClientType
  <1>13. TodoInv' /\ BootInv' /\ WriteInv' /\ FileInv' /\ MatchInv' /\ ServerType' /\ StoreType'
    BY <1>1, ClientKeeps
  <1>. QED BY <1>10, <1>11, <1>12, <1>13 DEF IInv, TypeOK, ServerType, StoreType, ClientType

-----------------------------------------------------------------------------
(* The boot files are calls of property_set only, and there is at least one: the version. *)
LEMMA BootScriptFacts ==
  /\ BootScript \in Seq(Items \cup {LoadFiles}) /\ BootScript # <<>>
  /\ \A i \in 1 .. Len(BootScript) : BootScript[i] # LoadFiles
  <1>. DEFINE last == [name |-> Version, value |-> "2"]
  <1>1. Sets \subseteq Items /\ last \in Items
    BY DEF Sets, Items
  <1>2. Defaults \in Seq(Items) /\ Len(Defaults) \in Nat
    BY <1>1, FilesAssumption, SeqMonotonic, LenProperties
  <1>. HIDE DEF last
  <1>3. /\ Append(Defaults, last) \in Seq(Items)
        /\ Len(Append(Defaults, last)) = Len(Defaults) + 1
    BY <1>1, <1>2, AppendProperties
  <1>4. BootScript = Append(Defaults, last)
    BY DEF BootScript, last
  <1>5. BootScript \in Seq(Items) /\ Len(BootScript) # 0
    BY <1>2, <1>3, <1>4
  <1>6. BootScript \in Seq(Items \cup {LoadFiles})
    BY <1>5, SeqMonotonic
  <1>7. \A i \in 1 .. Len(BootScript) : BootScript[i] # LoadFiles
    BY <1>5, ElementOfSeq, ItemFacts
  <1>. QED BY <1>5, <1>6, <1>7

(* The state in which init starts to run the boot files *)
Booted ==
  /\ mem = [n \in AllNames |-> NoValue] /\ listening = FALSE /\ loaded = FALSE
  /\ pc = "run" /\ todo = BootScript /\ serving = NoCall /\ queue = <<>>
  /\ temp = NoValue /\ synced = FALSE /\ unsafe = {} /\ proto = FirstProto
BootedInv ==
  /\ ServerType /\ TodoInv /\ BootInv /\ WriteInv /\ MatchInv /\ CallInv
  /\ queue \in Seq(Calls) /\ Len(queue) <= Backlog
  /\ proto \in [Clients -> {0, 1, 2}]

(* It has all of the invariant that is about init, memory and the socket. *)
LEMMA BootKeeps == Booted => BootedInv
  <1>. SUFFICES ASSUME Booted PROVE BootedInv
    OBVIOUS
  <1>. USE DEF Booted
  <1>1. ServerType
    BY BootScriptFacts DEF ServerType
  <1>2. TodoInv
    BY BootScriptFacts DEF TodoInv
  <1>3. BootInv
    BY BootScriptFacts DEF BootInv
  <1>4. WriteInv
    BY DEF WriteInv, Writing
  <1>5. MatchInv
    BY DEF MatchInv
  <1>6. 1 .. Len(queue) = {} /\ queue \in Seq(Calls) /\ Len(queue) <= Backlog
    BY EmptySeq, BacklogAssumption
  <1>7. CallInv
    BY <1>6 DEF CallInv
  <1>8. proto \in [Clients -> {0, 1, 2}]
    BY DEF FirstProto
  <1>. QED BY <1>1, <1>2, <1>3, <1>4, <1>5, <1>6, <1>7, <1>8 DEF BootedInv

(* After power-on, before the boot files: the invariant holds whatever the disk holds that is genuine. *)
LEMMA InitIInv == Init => IInv
  <1>. SUFFICES ASSUME Init PROVE IInv
    OBVIOUS
  <1>1. /\ ServerType /\ TodoInv /\ BootInv /\ WriteInv /\ MatchInv /\ CallInv
        /\ queue \in Seq(Calls) /\ Len(queue) <= Backlog
        /\ proto \in [Clients -> {0, 1, 2}]
    BY BootKeeps DEF Init, Booted, BootedInv
  <1>2. StoreType /\ FileInv
    <2>1. Factory \in [Persist -> (Values \ Long) \cup {NoValue}] /\ NoValue \notin Long
      BY FilesAssumption, KindFacts
    <2>2. StoreType
      BY <2>1 DEF Init, StoreType
    <2>3. \A n \in Persist : Factory[n] \notin Long
      BY <2>1
    <2>. QED BY <2>2, <2>3 DEF Init, FileInv, Genuine
  <1>3. ClientType
    BY <1>1 DEF Init, ClientType
  <1>4. AnswerInv
    <2>1. \A k \in Calls : call[k] = NewCall /\ reply[k] = "none" /\ k \notin applied
      BY DEF Init
    <2>2. "none" \notin Results
      BY DEF Results
    <2>. QED BY <2>1, <2>2 DEF AnswerInv
  <1>. QED BY <1>1, <1>2, <1>3, <1>4 DEF IInv, TypeOK, ServerType, StoreType, ClientType

(* The power goes, and init boots with what is on the disk. *)
LEMMA CrashKeeps ==
  ASSUME IInv, Crash
  PROVE  IInv'
  <1>0. /\ TypeOK /\ TodoInv /\ BootInv /\ WriteInv /\ FileInv /\ MatchInv /\ CallInv
        /\ AnswerInv /\ ServerType /\ StoreType /\ ClientType
    BY TypeParts DEF IInv
  <1>1. /\ Boot /\ file' = disk /\ UNCHANGED <<disk, torn, again, reply, applied>>
        /\ call' = [k \in Calls |-> IF call[k].at \in {"connected", "sent"}
                                    THEN [call[k] EXCEPT !.at = "error"] ELSE call[k]]
    BY DEF Crash
  <1>2. (/\ ServerType /\ TodoInv /\ BootInv /\ WriteInv /\ MatchInv /\ CallInv
         /\ queue \in Seq(Calls) /\ Len(queue) <= Backlog
         /\ proto \in [Clients -> {0, 1, 2}])'
    <2>1. Booted'
      BY <1>1 DEF Boot, Booted
    <2>2. BootedInv'
      BY <2>1, BootKeeps, PTL
    <2>. QED BY <2>2 DEF BootedInv
  <1>3. StoreType' /\ FileInv'
    <2>1. StoreType'
      BY <1>0, <1>1 DEF Boot, StoreType
    <2>. QED BY <1>0, <1>1, <2>1 DEF FileInv, Genuine
  <1>4. PICK b \in [Calls -> {"new", "connected", "sent", "ok", "error"}] :
          \A x \in Calls : b[x] = IF call[x].at \in {"connected", "sent"} THEN "error"
                                  ELSE call[x].at
    <2>1. \A x \in Calls : call[x].at \in {"new", "connected", "sent", "ok", "error"}
      BY <1>0 DEF ClientType, NewCall, Requests
    <2>. DEFINE b == [x \in Calls |-> IF call[x].at \in {"connected", "sent"} THEN "error"
                                      ELSE call[x].at]
    <2>2. b \in [Calls -> {"new", "connected", "sent", "ok", "error"}]
      BY <2>1
    <2>. QED BY <2>2
  <1>5. \A x \in Calls : IF b[x] = call[x].at THEN call'[x] = call[x]
                         ELSE /\ call[x] # NewCall /\ b[x] # "new"
                              /\ call'[x] = [call[x] EXCEPT !.at = b[x]]
    <2>. SUFFICES ASSUME NEW x \in Calls
                  PROVE  IF b[x] = call[x].at THEN call'[x] = call[x]
                         ELSE /\ call[x] # NewCall /\ b[x] # "new"
                              /\ call'[x] = [call[x] EXCEPT !.at = b[x]]
      OBVIOUS
    <2>1. CASE call[x].at \in {"connected", "sent"}
      <3>1. b[x] = "error" /\ call'[x] = [call[x] EXCEPT !.at = "error"] /\ b[x] # call[x].at
        BY <1>1, <1>4, <2>1
      <3>2. call[x] # NewCall
        BY <2>1 DEF NewCall
      <3>. QED BY <3>1, <3>2
    <2>2. CASE call[x].at \notin {"connected", "sent"}
      BY <1>1, <1>4, <2>2
    <2>. QED BY <2>1, <2>2
  <1>6. DOMAIN call' = Calls /\ call' = [x \in Calls |-> call'[x]]
    BY <1>1
  <1>7. /\ call' \in [Calls -> {NewCall} \cup Requests]
        /\ \A x \in Calls : /\ call'[x] = NewCall <=> call[x] = NewCall
                            /\ call'[x].at = b[x]
                            /\ call[x] # NewCall =>
                                 /\ call'[x].by = call[x].by /\ call'[x].proto = call[x].proto
                                 /\ call'[x].name = call[x].name
                                 /\ call'[x].value = call[x].value
    BY <1>5, <1>6, CallMoves
  <1>8. AnswerInv'
    <2>1. \A x \in Calls : b[x] = "ok" => call[x].at = "ok"
      BY <1>4
    <2>. QED BY <1>1, <1>7, <2>1, AnswersKeep
  <1>9. ClientType'
    BY <1>0, <1>1, <1>2, <1>7 DEF ClientType
  <1>. QED BY <1>2, <1>3, <1>8, <1>9 DEF IInv, TypeOK, ServerType, StoreType, ClientType

(* Every step keeps the invariant: one case for each action. *)
LEMMA NextIInv ==
  ASSUME IInv, [Next]_vars
  PROVE  IInv'
  <1>1. CASE UNCHANGED vars
    <2>1. TodoInv' /\ BootInv' /\ WriteInv' /\ FileInv' /\ MatchInv' /\ ServerType' /\ StoreType'
      BY <1>1, ClientKeeps DEF vars
    <2>2. CallInv' /\ AnswerInv' /\ ClientType'
      BY <1>1, TypeParts DEF vars, server, client, IInv, CallInv, AnswerInv, ClientType,
                             NameOf, Writing
    <2>. QED BY <2>1, <2>2 DEF IInv, TypeOK, ServerType, StoreType, ClientType
  <1>2. CASE Next
    BY <1>2, PropertySetKeeps, PropertySetFailsKeeps, WriteTempKeeps, MkstempFailsKeeps,
       FsyncKeeps, RenameKeeps, LoadPersistentPropertiesKeeps, AcceptKeeps, ReceiveKeeps,
       LoadPersistPropsKeeps, CrashKeeps, WritebackKeeps, ClientStepKeeps, ConnectKeeps
       DEF Next, Set, Handle
  <1>. QED BY <1>1, <1>2

(* Every behaviour keeps the inductive invariant. *)
THEOREM Inductive == Spec => []IInv
  BY InitIInv, NextIInv, PTL DEF Spec

(* Every variable of init, the files and the clients keeps its type. *)
THEOREM TypeCorrect == Spec => []TypeOK
  BY Inductive, PTL DEF IInv

(* With protocol 2 a client is told what happened to its call. *)
THEOREM RepliesAreTrue == Spec => []ReplyIsTrue
  <1>1. IInv => ReplyIsTrue
    BY DEF IInv, AnswerInv, ReplyIsTrue
  <1>. QED BY <1>1, Inductive, PTL

(* Whenever the power goes, the files hold values they may hold. *)
THEOREM FilesAreAlwaysGenuine == Spec => []FilesAreGenuine
  <1>1. IInv => FilesAreGenuine
    BY DEF IInv, FileInv, FilesAreGenuine, Genuine
  <1>. QED BY <1>1, Inductive, PTL

(* Between two handlers memory and the files agree. *)
THEOREM MemoryAlwaysMatchesFiles == Spec => []MemoryMatchesFiles
  <1>1. IInv => MemoryMatchesFiles
    BY IdleFacts DEF MemoryMatchesFiles
  <1>. QED BY <1>1, Inductive, PTL

(* No step but a boot changes a ro. property that has a value. *)
THEOREM ReadOnlyIsWriteOnce == Spec => WriteOnce
  <1>1. ASSUME IInv, [Next]_vars
        PROVE  [\A n \in ReadOnly : mem[n] # NoValue /\ mem'[n] # mem[n] =>
                                      todo' = BootScript]_vars
    <2>1. mem \in [AllNames -> Values \cup {"2", "true", NoValue, Truncated}]
      BY <1>1 DEF IInv, TypeOK
    <2>. SUFFICES ASSUME Next, NEW n \in ReadOnly, mem[n] # NoValue, mem'[n] # mem[n]
                  PROVE  todo' = BootScript
      BY <1>1
    <2>2. CASE PropertySet
      <3>1. /\ mem' = [mem EXCEPT ![Head(todo).name] = Head(todo).value]
            /\ Refused(Head(todo).name, Head(todo).value) \subseteq {"SET_FAILED"}
        BY <2>2 DEF PropertySet
      <3>2. Head(todo).name = n
        BY <2>1, <3>1
      <3>. QED BY <3>1, <3>2, RefusedFacts
    <2>3. CASE Crash
      BY <2>3 DEF Crash, Boot
    <2>4. CASE ~ PropertySet /\ ~ Crash
      <3>1. mem' = mem
        BY <2>4 DEF Next, Set, Handle, PropertySetFails, WriteTemp, MkstempFails, Fsync, Rename,
           LoadPersistentProperties, Accept, Receive, ReceiveTimeout, Refuse, LoadPersistProps,
           Writeback, ClientStep, Send, Finish, FinishLegacy, Connect, server
      <3>. QED BY <3>1
    <2>. QED BY <2>2, <2>3, <2>4
  <1>. QED BY <1>1, Inductive, PTL DEF Spec, WriteOnce

=============================================================================
