------------------------------ MODULE PropTrie ------------------------------
(***************************************************************************)
(* The property areas of system_properties.cpp: a trie of binary trees in  *)
(* a bump-allocated area per context, which init extends while readers of  *)
(* every process walk it without a lock.  One step is one load or store of *)
(* a pointer; what is behind a pointer was written before it (release and  *)
(* consume).  The list of prefixes selects the area of a name.             *)
(***************************************************************************)
EXTENDS Integers, Sequences, SequencesExt, FiniteSets

CONSTANTS Readers,    \* threads of any process
          Init_,      \* init's thread, the only one that adds
          Tokens,     \* parts of names between dots, ordered by cmp_prop_name
          Names,      \* sequences of tokens
          Lines,      \* property_contexts, in order: [prefix, len, context]
          Matches,    \* the names that a prefix is a prefix of
          BtSize,     \* bytes of a prop_bt
          InfoSize,   \* bytes of a prop_info
          AreaSize,   \* pa_data_size
          NoArea      \* for a name that no prefix matches

Empty == 0            \* the token between two dots
Star == "*"           \* the prefix of every name
Contexts == {Lines[i].context : i \in DOMAIN Lines}
LineSet == {Lines[i] : i \in DOMAIN Lines}
Threads == Readers \cup {Init_}

ASSUME ThreadsAssumption == Init_ \notin Readers
ASSUME TokensAssumption == Tokens \subseteq Nat
ASSUME NamesAssumption == IsFiniteSet(Names) /\ \A n \in Names : n \in Seq(Tokens) /\ n # <<>>
ASSUME LinesAssumption ==
  /\ Lines \in Seq(LineSet) /\ NoArea \notin Contexts
  /\ \A l \in LineSet : /\ l.len \in Nat \ {0} /\ Matches[l.prefix] \subseteq Names
                        /\ l.prefix = Star => l.len = 1
  /\ Matches[Star] = Names
(* Two prefixes of one name: the longer begins with the shorter. *)
ASSUME PrefixAssumption ==
  \A i, j \in DOMAIN Lines :
    LET p == Lines[i]
        q == Lines[j]
    IN /\ Matches[p.prefix] \cap Matches[q.prefix] # {} /\ p.len <= q.len
       => Matches[q.prefix] \subseteq Matches[p.prefix] \/ q.prefix = Star
ASSUME SizeAssumption ==
  BtSize \in Nat \ {0} /\ InfoSize \in Nat \ {0} /\ AreaSize \in Nat /\ BtSize <= AreaSize

VARIABLES
  prefixes,  \* the list of prefix_nodes
  contexts,  \* the list of context_nodes
  unread,    \* lines of property_contexts not read yet
  used,      \* bytes_used_ of each area
  bt,        \* each area: offset -> prop_bt
  info,      \* each area: offset -> name of the prop_info
  thr,       \* each thread: where it is in find_property or foreach_property
  seen,      \* each reader: the names its foreach has passed to propfn
  had        \* history: the names that existed when that foreach began

lists == <<prefixes, contexts, unread>>
memory == <<used, bt, info>>
vars == <<lists, memory, thr, seen, had>>

NewBt(tok) == [name |-> tok, left |-> 0, right |-> 0, children |-> 0, prop |-> 0]
Idle == [at |-> "idle"]
Walker(at, a, n, i, o) == [at |-> at, area |-> a, name |-> n, i |-> i, node |-> o]
Find(a, n) == Walker("level", a, n, 1, 0)
Done(x, found) == [at |-> "done", area |-> x.area, name |-> x.name, found |-> found]
Foreach(stack) == [at |-> "foreach", stack |-> stack]
Put(f, o, v) == [q \in DOMAIN f \cup {o} |-> IF q = o THEN v ELSE f[q]]

Init ==
  /\ prefixes = <<>> /\ contexts = <<>> /\ unread = Lines
  /\ used = [a \in Contexts |-> BtSize]
  /\ bt = [a \in Contexts |-> [o \in {0} |-> NewBt(Empty)]]
  /\ info = [a \in Contexts |-> <<>>]
  /\ thr = [t \in Threads |-> Idle]
  /\ seen = [r \in Readers |-> <<>>]
  /\ had = [r \in Readers |-> {}]

-----------------------------------------------------------------------------
(* Initialization: the lists of prefixes and contexts *)

(* Mutant of list_add_after_len: sorted the wrong way. *)
list_add_after_longer(list, p) ==
  LET Before(i) == list[i].len > p.len \/ list[i].prefix = Star
      at == CHOOSE i \in 1 .. Len(list) + 1 :
              /\ i <= Len(list) => Before(i)
              /\ \A j \in 1 .. i - 1 : ~ Before(j)
  IN InsertAt(list, at, p)

(* Before the first shorter prefix or the first * *)
list_add_after_len(list, p) ==
  LET Before(i) == list[i].len < p.len \/ list[i].prefix = Star
      at == CHOOSE i \in 1 .. Len(list) + 1 :
              /\ i <= Len(list) => Before(i)
              /\ \A j \in 1 .. i - 1 : ~ Before(j)
  IN InsertAt(list, at, p)

(* One line of the file.  Properties named ctl. are never stored. *)
ReadLine ==
  /\ unread # <<>>
  /\ LET l == Head(unread)
     IN IF l.prefix = "ctl." THEN UNCHANGED <<prefixes, contexts>>
        ELSE /\ prefixes' = list_add_after_len(prefixes, l)
             /\ contexts' = IF Contains(contexts, l.context) THEN contexts
                            ELSE <<l.context>> \o contexts
  /\ unread' = Tail(unread)
  /\ UNCHANGED <<memory, thr, seen, had>>

(* The context of the first prefix in the list that matches *)
get_prop_area_for_name(n) ==
  LET hits == {i \in DOMAIN prefixes : n \in Matches[prefixes[i].prefix]}
  IN IF hits = {} THEN NoArea
     ELSE prefixes[CHOOSE i \in hits : \A j \in hits : i <= j].context

-----------------------------------------------------------------------------
(* The walk: find_property and find_prop_bt *)

Legal(n) == \A i \in DOMAIN n : n[i] # Empty

(* The names with a prop_info that a pointer leads to *)
Nodes(a) == DOMAIN bt[a]
NamesIn(a) == {info[a][bt[a][o].prop] : o \in {o \in Nodes(a) : bt[a][o].prop # 0}}
InfoNames == UNION {NamesIn(a) : a \in Contexts}

(* __system_property_find, and __system_property_add by property_set, of a *)
(* legal name that it has not found                                        *)
Begin(t, n) ==
  /\ unread = <<>>
  /\ thr[t].at \in {"idle", "done"}
  /\ t = Init_ => Legal(n) /\ n \notin InfoNames
  /\ thr' = [thr EXCEPT ![t] = Find(get_prop_area_for_name(n), n)]
  /\ UNCHANGED <<lists, memory, seen, had>>

(* Mutant of Allocate: bytes_used_ grows also when there is no room. *)
AllocateFirst(t, tok, slot) ==
  LET x == thr[t]
      size == IF slot = "prop" THEN InfoSize ELSE BtSize
      off == used[x.area]
  IN /\ used' = [used EXCEPT ![x.area] = off + size]
     /\ IF off + size > AreaSize
          THEN thr' = [thr EXCEPT ![t] = Done(x, FALSE)] /\ UNCHANGED <<bt, info>>
          ELSE /\ IF slot = "prop"
                    THEN info' = [info EXCEPT ![x.area] = Put(@, off, x.name)] /\ UNCHANGED bt
                    ELSE bt' = [bt EXCEPT ![x.area] = Put(@, off, NewBt(tok))] /\ UNCHANGED info
               /\ thr' = [thr EXCEPT ![t] = [at |-> "link", area |-> x.area, name |-> x.name,
                                             i |-> x.i, node |-> x.node, slot |-> slot, new |-> off]]

(* allocate_obj and the constructor; nothing points to the object yet *)
Allocate(t, tok, slot) ==
  LET x == thr[t]
      size == IF slot = "prop" THEN InfoSize ELSE BtSize
      off == used[x.area]
  IN IF off + size > AreaSize
       THEN thr' = [thr EXCEPT ![t] = Done(x, FALSE)] /\ UNCHANGED memory
       ELSE /\ used' = [used EXCEPT ![x.area] = off + size]
            /\ IF slot = "prop"
                 THEN info' = [info EXCEPT ![x.area] = Put(@, off, x.name)] /\ UNCHANGED bt
                 ELSE bt' = [bt EXCEPT ![x.area] = Put(@, off, NewBt(tok))] /\ UNCHANGED info
            /\ thr' = [thr EXCEPT ![t] = [at |-> "link", area |-> x.area, name |-> x.name,
                                          i |-> x.i, node |-> x.node, slot |-> slot, new |-> off]]

(* Mutant of Follow: a reader that loads a null pointer tries again. *)
FollowSpins(t, tok, slot) ==
  LET x == thr[t]
      p == bt[x.area][x.node][slot]
  IN \/ /\ p # 0
        /\ thr' = [thr EXCEPT ![t] = IF slot = "prop" THEN Done(x, TRUE)
                                     ELSE Walker("search", x.area, x.name, x.i, p)]
        /\ UNCHANGED memory
     \/ p = 0 /\ t = Init_ /\ Allocate(t, tok, slot)
     \/ p = 0 /\ t # Init_ /\ UNCHANGED <<thr, memory>>

(* A pointer was loaded: follow it, or end there, or extend the trie. *)
Follow(t, tok, slot) ==
  LET x == thr[t]
      p == bt[x.area][x.node][slot]
  IN \/ /\ p # 0
        /\ thr' = [thr EXCEPT ![t] = IF slot = "prop" THEN Done(x, TRUE)
                                     ELSE Walker("search", x.area, x.name, x.i, p)]
        /\ UNCHANGED memory
     \/ p = 0 /\ t = Init_ /\ Allocate(t, tok, slot)
     \/ p = 0 /\ t # Init_ /\ thr' = [thr EXCEPT ![t] = Done(x, FALSE)] /\ UNCHANGED memory

(* find_property: the children of the node of the previous token *)
Level(t) ==
  LET x == thr[t] IN
  /\ x.at = "level"
  /\ IF x.area = NoArea \/ x.name[x.i] = Empty
       THEN thr' = [thr EXCEPT ![t] = Done(x, FALSE)] /\ UNCHANGED memory
       ELSE Follow(t, x.name[x.i], "children")
  /\ UNCHANGED <<lists, seen, had>>

(* find_prop_bt: one node of the binary tree *)
Search(t) ==
  LET x == thr[t]
      tok == x.name[x.i]
      here == bt[x.area][x.node].name
  IN /\ x.at = "search"
     /\ \/ tok < here /\ Follow(t, tok, "left")
        \/ tok > here /\ Follow(t, tok, "right")
        \/ /\ tok = here
           /\ thr' = [thr EXCEPT ![t] = IF x.i = Len(x.name)
                                          THEN Walker("prop", x.area, x.name, x.i, x.node)
                                          ELSE Walker("level", x.area, x.name, x.i + 1, x.node)]
           /\ UNCHANGED memory
     /\ UNCHANGED <<lists, seen, had>>

Prop(t) ==
  /\ thr[t].at = "prop"
  /\ Follow(t, Empty, "prop")
  /\ UNCHANGED <<lists, seen, had>>

(* Mutant of Link: the pointer to the sibling tree is overwritten. *)
LinkAtParent ==
  LET x == thr[Init_] IN
  /\ x.at = "link"
  /\ bt' = [bt EXCEPT ![x.area][IF x.slot = "prop" THEN x.node ELSE 0]
                      [IF x.slot = "prop" THEN "prop" ELSE "children"] = x.new]
  /\ thr' = [thr EXCEPT ![Init_] = IF x.slot = "prop" THEN Done(x, TRUE)
                                   ELSE Walker("search", x.area, x.name, x.i, x.new)]
  /\ UNCHANGED <<lists, used, info, seen, had>>

(* The store that makes the new object reachable.  A new prop_bt is where  *)
(* the search ends, a new prop_info where add does.                        *)
Link ==
  LET x == thr[Init_] IN
  /\ x.at = "link"
  /\ bt' = [bt EXCEPT ![x.area][x.node][x.slot] = x.new]
  /\ thr' = [thr EXCEPT ![Init_] = IF x.slot = "prop" THEN Done(x, TRUE)
                                   ELSE Walker("search", x.area, x.name, x.i, x.new)]
  /\ UNCHANGED <<lists, used, info, seen, had>>

-----------------------------------------------------------------------------
(* __system_property_foreach: the recursion of foreach_property as a stack *)
(* of <<area, node, field>>, the next field of the node to look at         *)

(* Mutant of Fields: left where right is meant. *)
FieldsTwiceLeft == <<"left", "prop", "children", "left">>

Fields == <<"left", "prop", "children", "right">>

BeginForeach(r) ==
  /\ unread = <<>>
  /\ thr[r].at \in {"idle", "done"}
  /\ thr' = [thr EXCEPT ![r] = Foreach([i \in DOMAIN contexts |-> <<contexts[i], 0, 1>>])]
  /\ seen' = [seen EXCEPT ![r] = <<>>]
  /\ had' = [had EXCEPT ![r] = InfoNames]
  /\ UNCHANGED <<lists, memory>>

Visit(r) ==
  LET x == thr[r]
      top == Head(x.stack)
      a == top[1]
      field == Fields[top[3]]
      p == bt[a][top[2]][field]
      rest == IF top[3] = Len(Fields) THEN Tail(x.stack)
              ELSE <<<<a, top[2], top[3] + 1>>>> \o Tail(x.stack)
  IN /\ x.at = "foreach" /\ x.stack # <<>>
     /\ thr' = [thr EXCEPT ![r] = Foreach(IF p # 0 /\ field # "prop"
                                             THEN <<<<a, p, 1>>>> \o rest ELSE rest)]
     /\ seen' = IF p # 0 /\ field = "prop" THEN [seen EXCEPT ![r] = Append(@, info[a][p])] ELSE seen
     /\ UNCHANGED <<lists, memory, had>>

EndForeach(r) ==
  /\ thr[r].at = "foreach" /\ thr[r].stack = <<>>
  /\ thr' = [thr EXCEPT ![r] = Idle]
  /\ UNCHANGED <<lists, memory, seen, had>>

-----------------------------------------------------------------------------
Walk(t) == Level(t) \/ Search(t) \/ Prop(t)
ReaderStep(r) == Walk(r) \/ Visit(r) \/ EndForeach(r)
InitStep == Walk(Init_) \/ Link
Next ==
  \/ ReadLine
  \/ InitStep
  \/ \E n \in Names : Begin(Init_, n)
  \/ \E r \in Readers : ReaderStep(r) \/ BeginForeach(r) \/ \E n \in Names : Begin(r, n)

Spec == Init /\ [][Next]_vars

(* A thread that has begun a call runs on. *)
Fairness == \A r \in Readers : WF_vars(ReaderStep(r))
FairSpec == Spec /\ Fairness

-----------------------------------------------------------------------------
(* The nodes that a pointer leads to, the root included *)
Pointers(a) == {bt[a][o][f] : o \in Nodes(a), f \in {"left", "right", "children"}}
Linked(a) == Pointers(a) \cup {0}

(* Types, and the layout of the areas: a pointer leads to an object of its *)
(* kind, and objects neither overlap nor leave the area.                   *)
TypeOK ==
  /\ \A a \in Contexts :
       /\ Linked(a) \subseteq Nodes(a)
       /\ {bt[a][o].prop : o \in Nodes(a)} \subseteq DOMAIN info[a] \cup {0}
       /\ used[a] \in 0 .. AreaSize
       /\ Nodes(a) \cap DOMAIN info[a] = {}
       /\ \A o, q \in Nodes(a) \cup DOMAIN info[a] \cup {used[a]} : o < q =>
            o + (IF o \in Nodes(a) THEN BtSize ELSE InfoSize) <= q
  /\ \A t \in Threads : thr[t].at \in {"idle", "level", "search", "prop", "link", "done", "foreach"}
  /\ \A r \in Readers : thr[r].at # "link"

(* The trie implements a set with atomic look-ups: a reader that walks it  *)
(* while init links nodes is told that a name is there or not as it was at *)
(* one instant of its call, and an add that fails half way adds nothing.   *)
Lookup(x) ==
  CASE x.at \in {"level", "search", "prop"} -> <<"asked", x.name>>
    [] x.at = "done" -> <<IF x.found THEN "present" ELSE "absent", x.name>>
    [] OTHER -> <<"idle">>
Store == INSTANCE PropStore WITH props <- InfoNames, lookup <- [r \in Readers |-> Lookup(thr[r])]
Linearizable == Store!Spec

(* A foreach passes every property that existed when it began exactly      *)
(* once, and nothing that does not exist, however the trie grows meanwhile.*)
ForeachComplete ==
  \A r \in Readers :
    /\ \A i, j \in DOMAIN seen[r] : seen[r][i] = seen[r][j] => i = j
    /\ ToSet(seen[r]) \subseteq InfoNames
    /\ thr[r].at = "foreach" /\ thr[r].stack = <<>> => had[r] \subseteq ToSet(seen[r])

(* An add that runs out of space leaves nodes behind, but they are of use  *)
(* to the next one: between two adds every byte that was allocated belongs *)
(* to a node or a property of the trie, and no two nodes stand for the     *)
(* same beginning of a name, however often adds fail and are repeated.     *)
NothingLeaks ==
  thr[Init_].at \in {"idle", "done"} =>
    \A a \in Contexts :
      /\ used[a] = BtSize * Cardinality(Linked(a)) + InfoSize * Cardinality(NamesIn(a))
      /\ Cardinality(Linked(a)) - 1 <=
           Cardinality(UNION {{SubSeq(n, 1, i) : i \in DOMAIN n} : n \in {m \in Names : Legal(m)}})

(* The list of prefixes, built line by line, gives every name the context  *)
(* of the longest prefix that matches it, and * only when none does.       *)
LongestPrefixWins ==
  \A n \in Names :
    LET read == {l \in ToSet(SubSeq(Lines, 1, Len(Lines) - Len(unread))) :
                   l.prefix # "ctl." /\ n \in Matches[l.prefix]}
        proper == {l \in read : l.prefix # Star}
        best == {l \in proper : \A m \in proper : m.len <= l.len}
    IN get_prop_area_for_name(n) \in
         IF read = {} THEN {NoArea}
         ELSE {l.context : l \in IF proper = {} THEN read ELSE best}

(* Every look-up and every foreach ends, although the trie may grow under  *)
(* it.                                                                     *)
FindReturns ==
  \A r \in Readers : thr[r].at \notin {"idle", "done"} ~> thr[r].at \in {"idle", "done"}
=============================================================================
