--------------------------- MODULE PropTrieProofs ---------------------------
(***************************************************************************)
(* Proofs about PropTrie for every set of readers, names and tokens, every *)
(* property_contexts and every size of the areas: the trie is a set with   *)
(* atomic look-ups, a foreach skips and repeats nothing, objects do not    *)
(* overlap, and the list of prefixes is sorted.                            *)
(*                                                                         *)
(* A node of the trie is given two attributes that the code does not       *)
(* store: its level, the tokens on the way to its binary tree, and its     *)
(* range, the tokens that a search which comes to this node can look for.  *)
(* They are functions lev and rng on the nodes that pointers lead to.      *)
(***************************************************************************)
EXTENDS PropTrie, SequenceTheorems, FiniteSetTheorems, TLAPS

BtRec == [name : Nat, left : Nat, right : Nat, children : Nat, prop : Nat]
Slots == {"left", "right", "children"}

(* The tokens that lead to node o, its own included *)
Word(b, lev, o) == IF o = 0 THEN <<>> ELSE Append(lev[o], b[o].name)

(* Level and range of what hangs, or would hang, on the pointer s of o *)
SlotLev(b, lev, o, s) == IF s = "children" THEN Word(b, lev, o) ELSE lev[o]
SlotRng(b, rng, o, s) ==
  IF s = "children" THEN Tokens
  ELSE IF s = "left" THEN {k \in rng[o] : k < b[o].name}
  ELSE {k \in rng[o] : k > b[o].name}

Shape(b, lev, rng) ==
  /\ DOMAIN lev \in SUBSET Nat /\ 0 \in DOMAIN lev /\ DOMAIN lev \subseteq DOMAIN b
  /\ lev \in [DOMAIN lev -> Seq(Tokens)] /\ rng \in [DOMAIN lev -> SUBSET Tokens]
  /\ lev[0] = <<>> /\ rng[0] = {}
  /\ \A o \in DOMAIN lev : /\ b[o] \in BtRec
                           /\ o # 0 => b[o].name \in rng[o]
                           /\ \A s \in Slots : b[o][s] \in DOMAIN lev

(* A node has the level and the range of the pointer to it. *)
Edges(b, lev, rng) ==
  \A o \in DOMAIN lev : \A s \in Slots : b[o][s] # 0 =>
    lev[b[o][s]] = SlotLev(b, lev, o, s) /\ rng[b[o][s]] = SlotRng(b, rng, o, s)

(* For each token of a level there is at most one null pointer at which a  *)
(* search can end, and none if there is a node.                            *)
Gaps(b, lev, rng) ==
  \A o, q \in DOMAIN lev : \A s, u \in Slots : \A k \in Tokens :
    /\ b[o][s] = 0 /\ b[q][u] = 0 /\ SlotLev(b, lev, o, s) = SlotLev(b, lev, q, u)
    /\ k \in SlotRng(b, rng, o, s) /\ k \in SlotRng(b, rng, q, u)
    => o = q /\ s = u
Taken(b, lev, rng) ==
  \A q \in DOMAIN lev \ {0} : \A o \in DOMAIN lev : \A s \in Slots :
    b[o][s] = 0 /\ SlotLev(b, lev, o, s) = lev[q] => b[q].name \notin SlotRng(b, rng, o, s)

(* Two nodes do not have the same word, and every beginning of a node's    *)
(* word has a node.                                                        *)
Unique(b, lev) ==
  \A o, q \in DOMAIN lev : Word(b, lev, o) = Word(b, lev, q) => o = q
Closed(b, lev) ==
  \A o \in DOMAIN lev : \A i \in 0 .. Len(Word(b, lev, o)) :
    \E p \in DOMAIN lev : Word(b, lev, p) = SubSeq(Word(b, lev, o), 1, i)

Tree(b, lev, rng) ==
  /\ Shape(b, lev, rng) /\ Edges(b, lev, rng) /\ Gaps(b, lev, rng) /\ Taken(b, lev, rng)
  /\ Unique(b, lev) /\ Closed(b, lev)

-----------------------------------------------------------------------------
(* Sequences of tokens *)

(* The beginning of n with one token more *)
LEMMA PrefixStep ==
  ASSUME NEW n \in Seq(Tokens), NEW i \in 1 .. Len(n)
  PROVE  /\ SubSeq(n, 1, i - 1) \in Seq(Tokens) /\ n[i] \in Tokens
         /\ SubSeq(n, 1, i) = Append(SubSeq(n, 1, i - 1), n[i])
         /\ Len(SubSeq(n, 1, i)) = i
         /\ SubSeq(n, 1, 0) = <<>> /\ SubSeq(n, 1, Len(n)) = n
  <1>1. Len(n) \in Nat /\ n[i] \in Tokens
    BY LenProperties, ElementOfSeq
  <1>. QED BY <1>1, SubSeqProperties

(* The beginnings of a word with one token more *)
LEMMA AppendPrefix ==
  ASSUME NEW w \in Seq(Tokens), NEW k \in Tokens
  PROVE  /\ Append(w, k) \in Seq(Tokens) /\ Len(Append(w, k)) = Len(w) + 1 /\ Len(w) \in Nat
         /\ Append(w, k) # <<>>
         /\ \A i \in 0 .. Len(w) : SubSeq(Append(w, k), 1, i) = SubSeq(w, 1, i)
         /\ SubSeq(w, 1, Len(w)) = w
         /\ SubSeq(Append(w, k), 1, Len(w) + 1) = Append(w, k)
  OBVIOUS

(* Two words with one token more are equal when both parts are. *)
LEMMA AppendSame ==
  ASSUME NEW v \in Seq(Tokens), NEW w \in Seq(Tokens), NEW j \in Tokens, NEW k \in Tokens,
         Append(v, j) = Append(w, k)
  PROVE  v = w /\ j = k
  BY AppendInjective

-----------------------------------------------------------------------------
(* The trie of one area *)

(* The word of a node, the root's and the others' *)
LEMMA WordFacts ==
  ASSUME NEW b, NEW lev, NEW rng, Shape(b, lev, rng), NEW o \in DOMAIN lev
  PROVE  /\ Word(b, lev, o) \in Seq(Tokens)
         /\ o = 0 => Word(b, lev, o) = <<>>
         /\ o # 0 => /\ lev[o] \in Seq(Tokens) /\ b[o].name \in Tokens
                     /\ Word(b, lev, o) = Append(lev[o], b[o].name)
                     /\ Len(Word(b, lev, o)) = Len(lev[o]) + 1
                     /\ Word(b, lev, o) # <<>>
  <1>1. CASE o = 0
    BY <1>1 DEF Word
  <1>2. CASE o # 0
    <2>1. lev[o] \in Seq(Tokens) /\ b[o].name \in Tokens
      BY <1>2 DEF Shape
    <2>. QED BY <1>2, <2>1, AppendPrefix DEF Word
  <1>. QED BY <1>1, <1>2

(* A word whose search ends at a null pointer has no node. *)
LEMMA NullSlot ==
  ASSUME NEW b, NEW lev, NEW rng, Tree(b, lev, rng),
         NEW o \in DOMAIN lev, NEW s \in Slots, b[o][s] = 0,
         NEW n \in Seq(Tokens), NEW i \in 1 .. Len(n),
         SlotLev(b, lev, o, s) = SubSeq(n, 1, i - 1), n[i] \in SlotRng(b, rng, o, s),
         NEW q \in DOMAIN lev
  PROVE  Word(b, lev, q) # n
  <1>. SUFFICES ASSUME Word(b, lev, q) = n PROVE FALSE
    OBVIOUS
  <1>0. Shape(b, lev, rng) /\ Closed(b, lev) /\ Taken(b, lev, rng)
    BY DEF Tree
  <1>1. PICK p \in DOMAIN lev : Word(b, lev, p) = SubSeq(n, 1, i)
    <2>1. i \in 0 .. Len(Word(b, lev, q))
      BY LenProperties
    <2>. QED BY <1>0, <2>1 DEF Closed
  <1>2. p # 0
    BY <1>0, <1>1, WordFacts, PrefixStep
  <1>3. lev[p] = SubSeq(n, 1, i - 1) /\ b[p].name = n[i]
    <2>1. /\ lev[p] \in Seq(Tokens) /\ b[p].name \in Tokens
          /\ SubSeq(n, 1, i) = Append(lev[p], b[p].name)
      BY <1>0, <1>1, <1>2, WordFacts
    <2>2. /\ SubSeq(n, 1, i - 1) \in Seq(Tokens) /\ n[i] \in Tokens
          /\ SubSeq(n, 1, i) = Append(SubSeq(n, 1, i - 1), n[i])
      BY PrefixStep
    <2>3. PICK v, w, j, k : v = lev[p] /\ w = SubSeq(n, 1, i - 1) /\ j = b[p].name /\ k = n[i]
      OBVIOUS
    <2>4. /\ v \in Seq(Tokens) /\ w \in Seq(Tokens) /\ j \in Tokens /\ k \in Tokens
          /\ Append(v, j) = Append(w, k)
      BY <2>1, <2>2, <2>3
    <2>5. v = w /\ j = k
      BY <2>4, AppendSame
    <2>. QED BY <2>3, <2>5
  <1>. QED BY <1>0, <1>2, <1>3 DEF Taken

(* The store of one pointer of a node *)
LEMMA SetSlot ==
  ASSUME NEW x \in BtRec, NEW s \in Slots, NEW v \in Nat
  PROVE  /\ [x EXCEPT ![s] = v] \in BtRec
         /\ [x EXCEPT ![s] = v].name = x.name /\ [x EXCEPT ![s] = v].prop = x.prop
         /\ \A u \in Slots : [x EXCEPT ![s] = v][u] = IF u = s THEN v ELSE x[u]
  BY DEF BtRec, Slots

(* A new node has no pointers. *)
LEMMA NewBtFacts ==
  ASSUME NEW k \in Tokens
  PROVE  /\ NewBt(k) \in BtRec /\ NewBt(k).name = k /\ NewBt(k).prop = 0
         /\ \A u \in Slots : NewBt(k)[u] = 0
  BY TokensAssumption DEF NewBt, BtRec, Slots

(* A null pointer that a search for the token k ends at is made to lead to *)
(* a new node for k.                                                       *)
Linking(b, lev, rng, o, s, k, new, c, l2, r2) ==
  /\ Tree(b, lev, rng) /\ o \in DOMAIN lev /\ s \in Slots /\ b[o][s] = 0
  /\ k \in SlotRng(b, rng, o, s) /\ new \in DOMAIN b /\ new \in Nat \ {0}
  /\ new \notin DOMAIN lev /\ b[new] = NewBt(k)
  /\ c = [b EXCEPT ![o][s] = new]
  /\ l2 = Put(lev, new, SlotLev(b, lev, o, s)) /\ r2 = Put(rng, new, SlotRng(b, rng, o, s))

(* It is still a trie, with one node more. *)
LEMMA LinkTree ==
  ASSUME NEW b, NEW lev, NEW rng, NEW o, NEW s, NEW k, NEW new, NEW c, NEW l2, NEW r2,
         Linking(b, lev, rng, o, s, k, new, c, l2, r2)
  PROVE  /\ Tree(c, l2, r2)
         /\ \A q \in DOMAIN lev : c[q].name = b[q].name /\ c[q].prop = b[q].prop
                                  /\ Word(c, l2, q) = Word(b, lev, q)
         /\ \A q \in DOMAIN lev, u \in Slots : /\ SlotLev(c, l2, q, u) = SlotLev(b, lev, q, u)
                                              /\ SlotRng(c, r2, q, u) = SlotRng(b, rng, q, u)
         /\ c[new] = b[new] /\ Word(c, l2, new) = Append(SlotLev(b, lev, o, s), k)
  <1>h. /\ Tree(b, lev, rng) /\ o \in DOMAIN lev /\ s \in Slots /\ b[o][s] = 0
        /\ k \in SlotRng(b, rng, o, s) /\ new \in DOMAIN b /\ new \in Nat \ {0}
        /\ new \notin DOMAIN lev /\ b[new] = NewBt(k)
    BY DEF Linking
  <1>c. c = [b EXCEPT ![o][s] = new]
    BY DEF Linking
  <1>l. l2 = Put(lev, new, SlotLev(b, lev, o, s)) /\ r2 = Put(rng, new, SlotRng(b, rng, o, s))
    BY DEF Linking
  <1>. USE <1>h
  <1>. DEFINE L == DOMAIN lev
              SL(q, u) == SlotLev(b, lev, q, u)
              SR(q, u) == SlotRng(b, rng, q, u)
              W(q) == Word(b, lev, q)
  <1>0. /\ Shape(b, lev, rng) /\ Edges(b, lev, rng) /\ Gaps(b, lev, rng)
        /\ Taken(b, lev, rng) /\ Unique(b, lev) /\ Closed(b, lev)
    BY DEF Tree
  <1>1. /\ L \subseteq Nat /\ L \subseteq DOMAIN b /\ 0 \in L
        /\ \A q \in L : b[q] \in BtRec /\ (\A u \in Slots : b[q][u] \in L)
    BY <1>0 DEF Shape
  <1>2. /\ DOMAIN c = DOMAIN b /\ c[new] = b[new]
        /\ \A q \in L : q # o => c[q] = b[q]
        /\ c[o] = [b[o] EXCEPT ![s] = new]
    BY <1>1, <1>c
  <1>3. \A q \in L : /\ c[q] \in BtRec /\ c[q].name = b[q].name /\ c[q].prop = b[q].prop
                     /\ \A u \in Slots : c[q][u] = IF q = o /\ u = s THEN new ELSE b[q][u]
    <2>1. new \in Nat /\ b[o] \in BtRec
      BY <1>1
    <2>2. /\ c[o] \in BtRec /\ c[o].name = b[o].name /\ c[o].prop = b[o].prop
          /\ \A u \in Slots : c[o][u] = IF u = s THEN new ELSE b[o][u]
      BY <1>2, <2>1, SetSlot
    <2>. QED BY <1>1, <1>2, <2>2
  <1>4. /\ c[new] = NewBt(k) /\ k \in Tokens
        /\ c[new].name = k /\ \A u \in Slots : c[new][u] = 0
    <2>1. k \in Tokens
      BY <1>0 DEF SlotRng, Shape
    <2>. QED BY <1>2, <2>1, NewBtFacts
  <1>5. /\ DOMAIN l2 = L \cup {new} /\ l2[new] = SL(o, s) /\ r2[new] = SR(o, s)
        /\ \A q \in L : l2[q] = lev[q] /\ r2[q] = rng[q]
        /\ DOMAIN r2 = L \cup {new}
    BY <1>0, <1>l DEF Put, Shape
  <1>6. SL(o, s) \in Seq(Tokens) /\ SR(o, s) \subseteq Tokens
    BY <1>0, WordFacts DEF SlotLev, SlotRng, Shape
  <1>7. /\ \A q \in L : Word(c, l2, q) = W(q)
        /\ Word(c, l2, new) = Append(SL(o, s), k)
    BY <1>3, <1>4, <1>5 DEF Word
  <1>8. \A q \in L, u \in Slots : SlotLev(c, l2, q, u) = SL(q, u) /\ SlotRng(c, r2, q, u) = SR(q, u)
    BY <1>3, <1>5, <1>7 DEF SlotLev, SlotRng
  <1>9. /\ SlotLev(c, l2, new, "children") = Append(SL(o, s), k)
        /\ SlotRng(c, r2, new, "children") = Tokens
        /\ SlotLev(c, l2, new, "left") = SL(o, s) /\ SlotLev(c, l2, new, "right") = SL(o, s)
        /\ SlotRng(c, r2, new, "left") = {j \in SR(o, s) : j < k}
        /\ SlotRng(c, r2, new, "right") = {j \in SR(o, s) : j > k}
    BY <1>4, <1>5, <1>7 DEF SlotLev, SlotRng
  <1>10. /\ \A q \in L : Word(b, lev, q) \in Seq(Tokens)
         /\ \A q \in L : q # 0 => /\ lev[q] \in Seq(Tokens) /\ b[q].name \in Tokens
                                 /\ W(q) = Append(lev[q], b[q].name)
         /\ W(0) = <<>>
    <2>1. ASSUME NEW q \in L
          PROVE  /\ W(q) \in Seq(Tokens) /\ (q = 0 => W(q) = <<>>)
                 /\ q # 0 => lev[q] \in Seq(Tokens) /\ b[q].name \in Tokens
                            /\ W(q) = Append(lev[q], b[q].name)
      BY <1>0, WordFacts
    <2>. QED BY <1>1, <2>1
  <1>11. /\ Append(SL(o, s), k) \in Seq(Tokens) /\ Append(SL(o, s), k) # <<>>
         /\ Append(SL(o, s), k) # SL(o, s) /\ Len(SL(o, s)) \in Nat
         /\ Len(Append(SL(o, s), k)) = Len(SL(o, s)) + 1
    BY <1>4, <1>6, AppendPrefix
  <1>12. \A q \in L : b[q].name \in rng[q] \/ q = 0
    BY <1>0 DEF Shape
  <1>13. rng \in [L -> SUBSET Tokens] /\ rng[0] = {} /\ lev[0] = <<>> /\ lev \in [L -> Seq(Tokens)]
    BY <1>0 DEF Shape
  <1>14. Shape(c, l2, r2)
    <2>1. l2 \in [L \cup {new} -> Seq(Tokens)] /\ r2 \in [L \cup {new} -> SUBSET Tokens]
      BY <1>6, <1>13, <1>l DEF Put
    <2>2. c[new] \in BtRec
      BY <1>4, NewBtFacts
    <2>3. ASSUME NEW q \in L \cup {new}
          PROVE  /\ c[q] \in BtRec /\ (q # 0 => c[q].name \in r2[q])
                 /\ \A u \in Slots : c[q][u] \in L \cup {new}
      <3>1. CASE q \in L
        BY <1>1, <1>3, <1>5, <1>12, <3>1
      <3>2. CASE q = new
        BY <1>1, <1>4, <1>5, <2>2, <3>2
      <3>. QED BY <3>1, <3>2
    <2>4. /\ L \cup {new} \in SUBSET Nat /\ 0 \in L \cup {new} /\ L \cup {new} \subseteq DOMAIN c
          /\ l2[0] = <<>> /\ r2[0] = {}
      BY <1>1, <1>2, <1>5, <1>13
    <2>. HIDE DEF L
    <2>. QED BY <1>5, <2>1, <2>3, <2>4 DEF Shape
  <1>. HIDE DEF SL, SR, W
  <1>15. Edges(c, l2, r2)
    <2>. SUFFICES ASSUME NEW q \in L \cup {new}, NEW u \in Slots, c[q][u] # 0
                  PROVE  /\ l2[c[q][u]] = SlotLev(c, l2, q, u)
                         /\ r2[c[q][u]] = SlotRng(c, r2, q, u)
      BY <1>5 DEF Edges
    <2>1. q \in L
      BY <1>4
    <2>2. CASE q = o /\ u = s
      <3>1. c[q][u] = new
        BY <1>3, <2>2
      <3>2. SlotLev(c, l2, q, u) = SL(o, s) /\ SlotRng(c, r2, q, u) = SR(o, s)
        BY <1>8, <2>2
      <3>. QED BY <1>5, <3>1, <3>2
    <2>3. CASE ~ (q = o /\ u = s)
      <3>1. c[q][u] = b[q][u] /\ b[q][u] \in L
        BY <1>1, <1>3, <2>1, <2>3
      <3>2. lev[b[q][u]] = SL(q, u) /\ rng[b[q][u]] = SR(q, u)
        BY <1>0, <2>1, <3>1 DEF Edges, SL, SR
      <3>. QED BY <1>5, <1>8, <2>1, <3>1, <3>2
    <2>. QED BY <2>2, <2>3
  <1>16. \A q \in L : W(q) # Append(SL(o, s), k)
    <2>. SUFFICES ASSUME NEW q \in L, W(q) = Append(SL(o, s), k) PROVE FALSE
      OBVIOUS
    <2>1. q # 0
      BY <1>10, <1>11
    <2>2. lev[q] = SL(o, s) /\ b[q].name = k
      <3>1. PICK v \in Seq(Tokens) : v = SL(o, s)
        BY <1>6
      <3>2. /\ Append(lev[q], b[q].name) = Append(v, k) /\ k \in Tokens
            /\ lev[q] \in Seq(Tokens) /\ b[q].name \in Tokens
        BY <1>4, <1>10, <2>1, <3>1
      <3>3. lev[q] = v /\ b[q].name = k
        BY <3>2, AppendSame
      <3>. QED BY <3>1, <3>3
    <2>. QED BY <1>0, <2>1, <2>2 DEF Taken, SL
  <1>17. \A q \in L : lev[q] # Append(SL(o, s), k)
    <2>. SUFFICES ASSUME NEW q \in L, q # 0 PROVE lev[q] # Append(SL(o, s), k)
      BY <1>11, <1>13
    <2>1. /\ Len(W(q)) = Len(lev[q]) + 1 /\ Len(lev[q]) \in Nat
          /\ SubSeq(W(q), 1, Len(lev[q])) = lev[q]
      <3>1. PICK v \in Seq(Tokens), j \in Tokens : /\ v = lev[q] /\ j = b[q].name
                                                   /\ W(q) = Append(v, j)
        BY <1>10
      <3>2. /\ Len(Append(v, j)) = Len(v) + 1 /\ Len(v) \in Nat /\ Len(v) \in 0 .. Len(v)
            /\ SubSeq(Append(v, j), 1, Len(v)) = v
        BY AppendPrefix
      <3>. QED BY <3>1, <3>2
    <2>2. PICK p \in L : W(p) = SubSeq(W(q), 1, Len(lev[q]))
      <3>1. Len(lev[q]) \in 0 .. Len(W(q))
        BY <2>1
      <3>. QED BY <1>0, <3>1 DEF Closed, W
    <2>. QED BY <1>16, <2>1, <2>2
  <1>18. \A q \in L, u \in Slots : SL(q, u) # Append(SL(o, s), k)
    BY <1>16, <1>17 DEF SL, SlotLev, W
  <1>19. \A q \in L, u \in Slots : c[q][u] = 0 => b[q][u] = 0 /\ ~ (q = o /\ u = s)
    BY <1>3
  <1>20. \A x, y \in L, u, v \in Slots, j \in Tokens :
           /\ b[x][u] = 0 /\ b[y][v] = 0 /\ SL(x, u) = SL(y, v) /\ j \in SR(x, u) /\ j \in SR(y, v)
           => x = y /\ u = v
    BY <1>0 DEF Gaps, SL, SR
  <1>21. Gaps(c, l2, r2)
    <2>1. ASSUME NEW x \in L, NEW u \in Slots, NEW v \in Slots, NEW j \in Tokens, c[x][u] = 0,
                 SlotLev(c, l2, x, u) = SlotLev(c, l2, new, v),
                 j \in SlotRng(c, r2, x, u), j \in SlotRng(c, r2, new, v)
          PROVE  FALSE
      <3>1. SlotLev(c, l2, x, u) = SL(x, u) /\ SlotRng(c, r2, x, u) = SR(x, u)
        BY <1>8
      <3>2. v # "children"
        BY <1>9, <1>18, <2>1, <3>1
      <3>3. SlotLev(c, l2, new, v) = SL(o, s) /\ SlotRng(c, r2, new, v) \subseteq SR(o, s)
        BY <1>9, <3>2 DEF Slots
      <3>4. SL(x, u) = SL(o, s) /\ j \in SR(x, u) /\ j \in SR(o, s)
        BY <2>1, <3>1, <3>3
      <3>5. b[x][u] = 0 /\ ~ (x = o /\ u = s) /\ b[o][s] = 0
        BY <1>19, <2>1
      <3>. QED BY <1>20, <3>4, <3>5
    <2>2. ASSUME NEW u \in Slots, NEW v \in Slots, NEW j \in Tokens,
                 SlotLev(c, l2, new, u) = SlotLev(c, l2, new, v),
                 j \in SlotRng(c, r2, new, u), j \in SlotRng(c, r2, new, v)
          PROVE  u = v
      <3>1. k \in Nat /\ j \in Nat
        BY <1>4, TokensAssumption
      <3>2. u = "children" <=> v = "children"
        BY <1>9, <1>11, <2>2 DEF Slots
      <3>3. ~ (j < k /\ j > k)
        BY <3>1
      <3>4. CASE u = "left" /\ v = "right"
        BY <1>9, <2>2, <3>3, <3>4
      <3>5. CASE u = "right" /\ v = "left"
        BY <1>9, <2>2, <3>3, <3>5
      <3>. QED BY <3>2, <3>4, <3>5 DEF Slots
    <2>. SUFFICES ASSUME NEW x \in DOMAIN l2, NEW y \in DOMAIN l2,
                         NEW u \in Slots, NEW v \in Slots, NEW j \in Tokens,
                         c[x][u] = 0, c[y][v] = 0,
                         SlotLev(c, l2, x, u) = SlotLev(c, l2, y, v),
                         j \in SlotRng(c, r2, x, u), j \in SlotRng(c, r2, y, v)
                  PROVE  x = y /\ u = v
      BY DEF Gaps
    <2>3. CASE x \in L /\ y \in L
      <3>1. SL(x, u) = SL(y, v) /\ j \in SR(x, u) /\ j \in SR(y, v)
        BY <1>8, <2>3
      <3>2. b[x][u] = 0 /\ b[y][v] = 0
        BY <1>19, <2>3
      <3>. QED BY <1>20, <2>3, <3>1, <3>2
    <2>4. CASE x \in L /\ y = new
      BY <2>1, <2>4
    <2>5. CASE x = new /\ y \in L
      BY <2>1, <2>5
    <2>6. CASE x = new /\ y = new
      BY <2>2, <2>6
    <2>. QED BY <1>5, <2>3, <2>4, <2>5, <2>6
  <1>22. \A q \in L \ {0} : \A x \in L : \A u \in Slots :
           b[x][u] = 0 /\ SL(x, u) = lev[q] => b[q].name \notin SR(x, u)
    BY <1>0 DEF Taken, SL, SR
  <1>23. k \in SR(o, s)
    BY DEF SR
  <1>24. Taken(c, l2, r2)
    <2>1. ASSUME NEW q \in L \ {0}, NEW x \in L, NEW u \in Slots, c[x][u] = 0,
                 SlotLev(c, l2, x, u) = l2[q]
          PROVE  c[q].name \notin SlotRng(c, r2, x, u)
      <3>1. SL(x, u) = lev[q] /\ b[x][u] = 0
        BY <1>5, <1>8, <1>19, <2>1
      <3>2. b[q].name \notin SR(x, u)
        BY <1>22, <3>1
      <3>. QED BY <1>3, <1>8, <3>2
    <2>2. ASSUME NEW q \in L \ {0}, NEW u \in Slots, SlotLev(c, l2, new, u) = l2[q]
          PROVE  c[q].name \notin SlotRng(c, r2, new, u)
      <3>1. l2[q] = lev[q] /\ c[q].name = b[q].name
        BY <1>3, <1>5
      <3>2. u # "children"
        BY <1>9, <1>17, <2>2, <3>1
      <3>3. SlotLev(c, l2, new, u) = SL(o, s) /\ SlotRng(c, r2, new, u) \subseteq SR(o, s)
        BY <1>9, <3>2 DEF Slots
      <3>4. b[q].name \notin SR(o, s)
        BY <1>22, <2>2, <3>1, <3>3
      <3>. QED BY <3>1, <3>3, <3>4
    <2>3. ASSUME NEW x \in L, NEW u \in Slots, c[x][u] = 0, SlotLev(c, l2, x, u) = l2[new]
          PROVE  c[new].name \notin SlotRng(c, r2, x, u)
      <3>1. SL(x, u) = SL(o, s) /\ SlotRng(c, r2, x, u) = SR(x, u) /\ c[new].name = k
        BY <1>4, <1>5, <1>8, <2>3
      <3>2. b[x][u] = 0 /\ ~ (x = o /\ u = s) /\ b[o][s] = 0 /\ k \in Tokens
        BY <1>4, <1>19, <2>3
      <3>3. k \notin SR(x, u)
        BY <1>20, <1>23, <3>1, <3>2
      <3>. QED BY <3>1, <3>3
    <2>4. ASSUME NEW u \in Slots, SlotLev(c, l2, new, u) = l2[new]
          PROVE  c[new].name \notin SlotRng(c, r2, new, u)
      <3>1. k \in Nat /\ l2[new] = SL(o, s) /\ c[new].name = k
        BY <1>4, <1>5, TokensAssumption
      <3>2. u # "children"
        BY <1>9, <1>11, <2>4, <3>1
      <3>3. k \notin {j \in SR(o, s) : j < k} /\ k \notin {j \in SR(o, s) : j > k}
        BY <3>1
      <3>. QED BY <1>9, <3>1, <3>2, <3>3 DEF Slots
    <2>5. ASSUME NEW q \in (L \cup {new}) \ {0}, NEW x \in L \cup {new}, NEW u \in Slots,
                 c[x][u] = 0, SlotLev(c, l2, x, u) = l2[q]
          PROVE  c[q].name \notin SlotRng(c, r2, x, u)
      <3>1. CASE q \in L /\ x \in L
        BY <2>1, <2>5, <3>1
      <3>2. CASE q \in L /\ x = new
        BY <2>2, <2>5, <3>2
      <3>3. CASE q = new /\ x \in L
        BY <2>3, <2>5, <3>3
      <3>4. CASE q = new /\ x = new
        BY <2>4, <2>5, <3>4
      <3>. QED BY <3>1, <3>2, <3>3, <3>4
    <2>. HIDE DEF L
    <2>. QED BY <1>5, <2>5 DEF Taken
  <1>25. \A x, y \in L : W(x) = W(y) => x = y
    BY <1>0 DEF Unique, W
  <1>26. Unique(c, l2)
    <2>1. \A q \in L : Word(c, l2, q) = W(q) /\ W(q) # Word(c, l2, new)
      BY <1>7, <1>16 DEF W
    <2>. HIDE DEF L
    <2>. QED BY <1>5, <1>25, <2>1 DEF Unique
  <1>27. Closed(c, l2)
    <2>1. ASSUME NEW q \in L, NEW i \in 0 .. Len(Word(c, l2, q))
          PROVE  \E p \in L : Word(c, l2, p) = SubSeq(Word(c, l2, q), 1, i)
      <3>1. Word(c, l2, q) = W(q)
        BY <1>7 DEF W
      <3>2. PICK p \in L : W(p) = SubSeq(W(q), 1, i)
        BY <1>0, <2>1, <3>1 DEF Closed, W
      <3>. QED BY <1>7, <3>1, <3>2 DEF W
    <2>2. ASSUME NEW i \in 0 .. Len(SL(o, s))
          PROVE  \E p \in L : W(p) = SubSeq(SL(o, s), 1, i)
      <3>1. CASE s = "children"
        BY <1>0, <2>2, <3>1 DEF Closed, SL, SlotLev, W
      <3>2. CASE s # "children"
        <4>1. o # 0 /\ SL(o, s) = lev[o]
          BY <1>13, <1>23, <3>2 DEF SL, SlotLev, SR, SlotRng
        <4>2. /\ SubSeq(W(o), 1, i) = SubSeq(lev[o], 1, i) /\ i \in 0 .. Len(W(o))
          BY <1>10, <2>2, <4>1, AppendPrefix
        <4>. QED BY <1>0, <4>1, <4>2 DEF Closed, W
      <3>. QED BY <3>1, <3>2
    <2>3. ASSUME NEW i \in 0 .. Len(Word(c, l2, new))
          PROVE  \E p \in L \cup {new} : Word(c, l2, p) = SubSeq(Word(c, l2, new), 1, i)
      <3>1. PICK v \in Seq(Tokens) : v = SL(o, s)
        BY <1>6
      <3>2. Word(c, l2, new) = Append(v, k) /\ k \in Tokens
        BY <1>4, <1>7, <3>1
      <3>3. CASE i = Len(v) + 1
        <4>1. SubSeq(Word(c, l2, new), 1, i) = Word(c, l2, new)
          BY <3>2, <3>3, AppendPrefix
        <4>. QED BY <4>1
      <3>4. CASE i # Len(v) + 1
        <4>1. i \in 0 .. Len(v) /\ SubSeq(Word(c, l2, new), 1, i) = SubSeq(v, 1, i)
          <5>1. /\ Len(Append(v, k)) = Len(v) + 1 /\ Len(v) \in Nat
                /\ \A j \in 0 .. Len(v) : SubSeq(Append(v, k), 1, j) = SubSeq(v, 1, j)
            BY <3>2, AppendPrefix
          <5>2. i \in 0 .. Len(v)
            BY <2>3, <3>2, <3>4, <5>1
          <5>. QED BY <3>2, <5>1, <5>2
        <4>2. PICK p \in L : W(p) = SubSeq(v, 1, i)
          BY <2>2, <3>1, <4>1
        <4>. QED BY <1>7, <4>1, <4>2 DEF W
      <3>. QED BY <3>3, <3>4
    <2>. SUFFICES ASSUME NEW q \in DOMAIN l2, NEW i \in 0 .. Len(Word(c, l2, q))
                  PROVE  \E p \in DOMAIN l2 : Word(c, l2, p) = SubSeq(Word(c, l2, q), 1, i)
      BY DEF Closed
    <2>4. CASE q \in L
      BY <1>5, <2>1, <2>4
    <2>5. CASE q = new
      BY <1>5, <2>3, <2>5
    <2>. QED BY <1>5, <2>4, <2>5
  <1>. QED BY <1>2, <1>3, <1>7, <1>8, <1>14, <1>15, <1>21, <1>24, <1>26, <1>27 DEF Tree, W, SL, SR

(* The trie does not depend on the properties, nor on nodes that no        *)
(* pointer leads to.                                                       *)
LEMMA SameTree ==
  ASSUME NEW b, NEW lev, NEW rng, Tree(b, lev, rng), NEW c, DOMAIN lev \subseteq DOMAIN c,
         \A o \in DOMAIN lev : /\ c[o] \in BtRec /\ c[o].name = b[o].name
                               /\ \A s \in Slots : c[o][s] = b[o][s]
  PROVE  /\ Tree(c, lev, rng)
         /\ \A o \in DOMAIN lev : /\ Word(c, lev, o) = Word(b, lev, o)
                                  /\ \A s \in Slots : /\ SlotLev(c, lev, o, s) = SlotLev(b, lev, o, s)
                                                      /\ SlotRng(c, rng, o, s) = SlotRng(b, rng, o, s)
  <1>0. /\ Shape(b, lev, rng) /\ Edges(b, lev, rng) /\ Gaps(b, lev, rng)
        /\ Taken(b, lev, rng) /\ Unique(b, lev) /\ Closed(b, lev)
    BY DEF Tree
  <1>1. \A o \in DOMAIN lev : Word(c, lev, o) = Word(b, lev, o)
    BY DEF Word
  <1>2. \A o \in DOMAIN lev, s \in Slots : /\ SlotLev(c, lev, o, s) = SlotLev(b, lev, o, s)
                                           /\ SlotRng(c, rng, o, s) = SlotRng(b, rng, o, s)
    BY <1>1 DEF SlotLev, SlotRng
  <1>3. Shape(c, lev, rng)
    BY <1>0 DEF Shape
  <1>4. Edges(c, lev, rng)
    BY <1>0, <1>2 DEF Edges
  <1>5. Gaps(c, lev, rng)
    BY <1>0, <1>2 DEF Gaps
  <1>6. Taken(c, lev, rng)
    BY <1>0, <1>2 DEF Taken
  <1>7. Unique(c, lev)
    BY <1>0, <1>1 DEF Unique
  <1>8. Closed(c, lev)
    BY <1>0, <1>1 DEF Closed
  <1>. QED BY <1>1, <1>2, <1>3, <1>4, <1>5, <1>6, <1>7, <1>8 DEF Tree

(* The root alone *)
LEMMA RootTree ==
  ASSUME NEW b, b = [o \in {0} |-> NewBt(Empty)], NEW lev, lev = [o \in {0} |-> <<>>],
         NEW rng, rng = [o \in {0} |-> {}]
  PROVE  Tree(b, lev, rng)
  <1>1. DOMAIN lev = {0} /\ DOMAIN b = {0} /\ lev[0] = <<>> /\ rng[0] = {} /\ b[0] = NewBt(0)
    BY DEF Empty
  <1>2. /\ NewBt(0) \in BtRec /\ \A s \in Slots : NewBt(0)[s] = 0
    BY DEF NewBt, BtRec, Slots
  <1>3. Word(b, lev, 0) = <<>>
    BY DEF Word
  <1>4. \A s \in Slots : s # "children" => SlotRng(b, rng, 0, s) = {}
    BY <1>1 DEF SlotRng
  <1>5. Shape(b, lev, rng)
    <2>1. lev \in [{0} -> Seq(Tokens)] /\ rng \in [{0} -> SUBSET Tokens]
      OBVIOUS
    <2>. QED BY <1>1, <1>2, <2>1 DEF Shape
  <1>6. Edges(b, lev, rng)
    BY <1>1, <1>2 DEF Edges
  <1>7. Gaps(b, lev, rng)
    BY <1>1, <1>4 DEF Gaps
  <1>8. Taken(b, lev, rng)
    BY <1>1 DEF Taken
  <1>9. Unique(b, lev)
    BY <1>1 DEF Unique
  <1>10. Closed(b, lev)
    <2>1. \A i \in 0 .. Len(<<>>) : SubSeq(<<>>, 1, i) = <<>>
      OBVIOUS
    <2>. QED BY <1>1, <1>3, <2>1 DEF Closed
  <1>. QED BY <1>5, <1>6, <1>7, <1>8, <1>9, <1>10 DEF Tree

-----------------------------------------------------------------------------
(* What a foreach finds behind each field of a node *)

FieldSet == {"left", "prop", "children", "right"}

(* The name n belongs behind field f of node o. *)
InField(b, lev, rng, o, f, n) ==
  IF f = "prop" THEN n = Word(b, lev, o)
  ELSE \E i \in 1 .. Len(n) : /\ SubSeq(n, 1, i - 1) = SlotLev(b, lev, o, f)
                              /\ n[i] \in SlotRng(b, rng, o, f)

(* ... behind one of the fields of o from the cth on. *)
InRest(b, lev, rng, o, c, n) ==
  \E d \in c .. 4 : InField(b, lev, rng, o, Fields[d], n)

(* ... at node o or below it: n goes on from the level of o by a token in  *)
(* the range of o.                                                         *)
Below(lev, rng, o, n) ==
  /\ Len(n) >= Len(lev[o]) + 1 /\ SubSeq(n, 1, Len(lev[o])) = lev[o]
  /\ n[Len(lev[o]) + 1] \in rng[o]

(* Lengths of beginnings *)
LEMMA PrefixLen ==
  ASSUME NEW n \in Seq(Tokens), NEW i \in 1 .. Len(n), NEW w \in Seq(Tokens),
         SubSeq(n, 1, i - 1) = w
  PROVE  i = Len(w) + 1
  <1>1. Len(SubSeq(n, 1, i - 1)) = i - 1
    BY LenProperties, SubSeqProperties
  <1>. QED BY <1>1

(* The field of a node that a name below it belongs to is found by         *)
(* comparing one token.                                                    *)
LEMMA FieldAt ==
  ASSUME NEW b, NEW lev, NEW rng, Shape(b, lev, rng), NEW o \in DOMAIN lev, o # 0,
         NEW n \in Seq(Tokens)
  PROVE  LET k == n[Len(lev[o]) + 1]
             key == b[o].name
         IN /\ InField(b, lev, rng, o, "left", n) <=> Below(lev, rng, o, n) /\ k < key
            /\ InField(b, lev, rng, o, "right", n) <=> Below(lev, rng, o, n) /\ k > key
            /\ InField(b, lev, rng, o, "prop", n) <=>
                 Below(lev, rng, o, n) /\ k = key /\ Len(n) = Len(lev[o]) + 1
            /\ InField(b, lev, rng, o, "children", n) <=>
                 Below(lev, rng, o, n) /\ k = key /\ Len(n) # Len(lev[o]) + 1
  <1>. DEFINE l == lev[o]
              key == b[o].name
              i == Len(l) + 1
  <1>1. /\ l \in Seq(Tokens) /\ key \in Tokens /\ rng[o] \subseteq Tokens /\ key \in rng[o]
        /\ Word(b, lev, o) = Append(l, key)
    BY WordFacts DEF Shape
  <1>2. Len(l) \in Nat /\ Len(n) \in Nat /\ i \in Nat \ {0} /\ i - 1 = Len(l)
    BY <1>1, LenProperties
  <1>3. ASSUME NEW j \in 1 .. Len(n), SubSeq(n, 1, j - 1) = l
        PROVE  j = i /\ Len(n) >= i /\ SubSeq(n, 1, Len(l)) = l
    <2>1. j = Len(l) + 1
      BY <1>1, <1>3, PrefixLen
    <2>. QED BY <1>2, <1>3, <2>1
  <1>4. ASSUME Len(n) >= i, SubSeq(n, 1, Len(l)) = l
        PROVE  i \in 1 .. Len(n) /\ SubSeq(n, 1, i - 1) = l
    BY <1>2, <1>4
  <1>5. InField(b, lev, rng, o, "left", n) <=> Below(lev, rng, o, n) /\ n[i] < key
    <2>1. SlotLev(b, lev, o, "left") = l /\ SlotRng(b, rng, o, "left") = {k \in rng[o] : k < key}
      BY DEF SlotLev, SlotRng
    <2>. QED BY <1>3, <1>4, <2>1 DEF InField, Below
  <1>6. InField(b, lev, rng, o, "right", n) <=> Below(lev, rng, o, n) /\ n[i] > key
    <2>1. SlotLev(b, lev, o, "right") = l /\ SlotRng(b, rng, o, "right") = {k \in rng[o] : k > key}
      BY DEF SlotLev, SlotRng
    <2>. QED BY <1>3, <1>4, <2>1 DEF InField, Below
  <1>7. ASSUME i \in 1 .. Len(n), SubSeq(n, 1, Len(l)) = l, n[i] = key
        PROVE  SubSeq(n, 1, i) = Append(l, key)
    BY <1>2, <1>7, PrefixStep
  <1>8. ASSUME i \in 1 .. Len(n), SubSeq(n, 1, i) = Append(l, key)
        PROVE  SubSeq(n, 1, Len(l)) = l /\ n[i] = key
    <2>1. PICK v \in Seq(Tokens) : v = SubSeq(n, 1, Len(l))
      BY <1>2, <1>8, PrefixStep
    <2>2. n[i] \in Tokens /\ Append(v, n[i]) = Append(l, key)
      BY <1>2, <1>8, <2>1, PrefixStep
    <2>. HIDE DEF l, key, i
    <2>3. v = l /\ n[i] = key
      BY <1>1, <2>2, AppendSame
    <2>. QED BY <2>1, <2>3
  <1>9. InField(b, lev, rng, o, "prop", n) <=>
          Below(lev, rng, o, n) /\ n[i] = key /\ Len(n) = i
    <2>1. ASSUME n = Append(l, key)
          PROVE  Len(n) = i /\ SubSeq(n, 1, Len(l)) = l /\ n[i] = key
      BY <1>1, <1>2, <2>1, AppendPrefix, AppendProperties
    <2>2. ASSUME Len(n) = i, SubSeq(n, 1, Len(l)) = l, n[i] = key
          PROVE  n = Append(l, key)
      <3>1. i \in 1 .. Len(n) /\ SubSeq(n, 1, i) = n
        BY <1>2, <2>2
      <3>. QED BY <1>7, <2>2, <3>1
    <2>. QED BY <1>1, <1>2, <2>1, <2>2 DEF InField, Below
  <1>10. InField(b, lev, rng, o, "children", n) <=>
           Below(lev, rng, o, n) /\ n[i] = key /\ Len(n) # i
    <2>1. SlotLev(b, lev, o, "children") = Append(l, key) /\ SlotRng(b, rng, o, "children") = Tokens
      BY <1>1 DEF SlotLev, SlotRng
    <2>2. ASSUME NEW j \in 1 .. Len(n), SubSeq(n, 1, j - 1) = Append(l, key)
          PROVE  j = i + 1 /\ Below(lev, rng, o, n) /\ n[i] = key /\ Len(n) # i
      <3>1. j = Len(Append(l, key)) + 1
        BY <1>1, <2>2, AppendPrefix, PrefixLen
      <3>2. j = i + 1
        BY <1>1, <1>2, <3>1, AppendPrefix
      <3>3. i \in 1 .. Len(n) /\ Len(n) # i /\ Len(n) >= i
        BY <1>2, <2>2, <3>2
      <3>4. SubSeq(n, 1, i) = Append(l, key)
        BY <1>2, <2>2, <3>2
      <3>. QED BY <1>1, <1>8, <3>2, <3>3, <3>4 DEF Below
    <2>3. ASSUME Below(lev, rng, o, n), n[i] = key, Len(n) # i
          PROVE  /\ i + 1 \in 1 .. Len(n) /\ SubSeq(n, 1, i + 1 - 1) = Append(l, key)
                 /\ n[i + 1] \in Tokens
      <3>1. i \in 1 .. Len(n) /\ i + 1 \in 1 .. Len(n) /\ i + 1 - 1 = i
        BY <1>2, <2>3 DEF Below
      <3>2. SubSeq(n, 1, i) = Append(l, key)
        BY <1>7, <2>3, <3>1 DEF Below
      <3>3. n[i + 1] \in Tokens
        BY <3>1, ElementOfSeq
      <3>. QED BY <3>1, <3>2, <3>3
    <2>4. InField(b, lev, rng, o, "children", n) <=>
            \E j \in 1 .. Len(n) : SubSeq(n, 1, j - 1) = Append(l, key) /\ n[j] \in Tokens
      BY <2>1 DEF InField
    <2>5. ASSUME InField(b, lev, rng, o, "children", n)
          PROVE  Below(lev, rng, o, n) /\ n[i] = key /\ Len(n) # i
      <3>1. PICK j \in 1 .. Len(n) : SubSeq(n, 1, j - 1) = Append(l, key)
        BY <2>4, <2>5
      <3>. QED BY <2>2, <3>1
    <2>6. ASSUME Below(lev, rng, o, n), n[i] = key, Len(n) # i
          PROVE  InField(b, lev, rng, o, "children", n)
      <3>1. PICK j \in 1 .. Len(n) : SubSeq(n, 1, j - 1) = Append(l, key) /\ n[j] \in Tokens
        <4>1. /\ i + 1 \in 1 .. Len(n) /\ SubSeq(n, 1, i + 1 - 1) = Append(l, key)
              /\ n[i + 1] \in Tokens
          BY <2>3, <2>6
        <4>. QED BY <4>1
      <3>. QED BY <2>4, <3>1
    <2>. QED BY <2>5, <2>6
  <1>. QED BY <1>5, <1>6, <1>9, <1>10

(* No name belongs behind two fields of a node. *)
LEMMA FieldsDisjoint ==
  ASSUME NEW b, NEW lev, NEW rng, Shape(b, lev, rng), NEW o \in DOMAIN lev,
         NEW n \in Seq(Tokens), NEW f \in FieldSet, NEW g \in FieldSet,
         InField(b, lev, rng, o, f, n), InField(b, lev, rng, o, g, n)
  PROVE  f = g
  <1>1. CASE o = 0
    <2>1. \A k : k \notin SlotRng(b, rng, 0, "left") /\ k \notin SlotRng(b, rng, 0, "right")
      BY DEF Shape, SlotRng
    <2>2. f \notin {"left", "right"} /\ g \notin {"left", "right"}
      BY <1>1, <2>1 DEF InField
    <2>3. Word(b, lev, 0) = <<>> /\ Len(<<>>) = 0
      BY DEF Word
    <2>4. ~ (InField(b, lev, rng, 0, "prop", n) /\ InField(b, lev, rng, 0, "children", n))
      BY <2>3 DEF InField
    <2>. QED BY <1>1, <2>2, <2>4 DEF FieldSet
  <1>2. CASE o # 0
    <2>. DEFINE k == n[Len(lev[o]) + 1]
                key == b[o].name
    <2>1. key \in Nat /\ (Below(lev, rng, o, n) => k \in Nat)
      BY <1>2, TokensAssumption DEF Below, Shape
    <2>2. /\ InField(b, lev, rng, o, "left", n) => k \in Nat /\ k < key
          /\ InField(b, lev, rng, o, "right", n) => k \in Nat /\ k > key
          /\ InField(b, lev, rng, o, "prop", n) => k = key /\ Len(n) = Len(lev[o]) + 1
          /\ InField(b, lev, rng, o, "children", n) => k = key /\ Len(n) # Len(lev[o]) + 1
      BY <1>2, <2>1, FieldAt
    <2>. HIDE DEF k, key
    <2>. QED BY <2>1, <2>2 DEF FieldSet
  <1>. QED BY <1>1, <1>2

(* What belongs behind a pointer belongs behind a field of the node that   *)
(* it leads to.                                                            *)
LEMMA PointerField ==
  ASSUME NEW b, NEW lev, NEW rng, Shape(b, lev, rng), Edges(b, lev, rng),
         NEW o \in DOMAIN lev, NEW s \in Slots, NEW p \in DOMAIN lev, p = b[o][s], p # 0,
         NEW n \in Seq(Tokens)
  PROVE  InField(b, lev, rng, o, s, n) <=> \E f \in FieldSet : InField(b, lev, rng, p, f, n)
  <1>1. lev[p] = SlotLev(b, lev, o, s) /\ rng[p] = SlotRng(b, rng, o, s)
    BY DEF Edges
  <1>2. lev[p] \in Seq(Tokens) /\ rng[p] \subseteq Tokens /\ b[p].name \in Nat
    BY TokensAssumption DEF Shape
  <1>3. InField(b, lev, rng, o, s, n) <=> Below(lev, rng, p, n)
    <2>1. InField(b, lev, rng, o, s, n) <=>
            \E i \in 1 .. Len(n) : SubSeq(n, 1, i - 1) = lev[p] /\ n[i] \in rng[p]
      BY <1>1 DEF InField, Slots
    <2>2. ASSUME NEW i \in 1 .. Len(n), SubSeq(n, 1, i - 1) = lev[p], n[i] \in rng[p]
          PROVE  Below(lev, rng, p, n)
      <3>1. i = Len(lev[p]) + 1 /\ Len(lev[p]) \in Nat /\ Len(n) \in Nat
        BY <1>2, <2>2, PrefixLen, LenProperties
      <3>2. i - 1 = Len(lev[p]) /\ Len(n) >= Len(lev[p]) + 1
        BY <3>1
      <3>. QED BY <2>2, <3>1, <3>2 DEF Below
    <2>3. ASSUME Below(lev, rng, p, n)
          PROVE  \E i \in 1 .. Len(n) : SubSeq(n, 1, i - 1) = lev[p] /\ n[i] \in rng[p]
      <3>1. PICK i \in 1 .. Len(n) : i = Len(lev[p]) + 1 /\ i - 1 = Len(lev[p])
        BY <1>2, <2>3, LenProperties DEF Below
      <3>. QED BY <2>3, <3>1 DEF Below
    <2>. QED BY <2>1, <2>2, <2>3
  <1>4. Below(lev, rng, p, n) <=> \E f \in FieldSet : InField(b, lev, rng, p, f, n)
    <2>1. Below(lev, rng, p, n) => n[Len(lev[p]) + 1] \in Nat
      BY <1>2, TokensAssumption DEF Below
    <2>2. Below(lev, rng, p, n) => \/ n[Len(lev[p]) + 1] < b[p].name
                                   \/ n[Len(lev[p]) + 1] > b[p].name
                                   \/ n[Len(lev[p]) + 1] = b[p].name
      BY <1>2, <2>1
    <2>. QED BY <2>2, FieldAt DEF FieldSet
  <1>. QED BY <1>3, <1>4

(* Nothing belongs behind a null pointer. *)
LEMMA NullField ==
  ASSUME NEW b, NEW lev, NEW rng, Tree(b, lev, rng), NEW o \in DOMAIN lev, NEW s \in Slots,
         b[o][s] = 0, NEW n \in Seq(Tokens), InField(b, lev, rng, o, s, n),
         NEW q \in DOMAIN lev
  PROVE  Word(b, lev, q) # n
  <1>1. PICK i \in 1 .. Len(n) : /\ SubSeq(n, 1, i - 1) = SlotLev(b, lev, o, s)
                                 /\ n[i] \in SlotRng(b, rng, o, s)
    BY DEF InField, Slots
  <1>. QED BY <1>1, NullSlot

(* Every name belongs behind a field of the root. *)
LEMMA RootField ==
  ASSUME NEW b, NEW lev, NEW rng, Shape(b, lev, rng), NEW n \in Seq(Tokens), n # <<>>
  PROVE  InField(b, lev, rng, 0, "children", n)
  <1>1. 1 \in 1 .. Len(n) /\ SubSeq(n, 1, 1 - 1) = <<>> /\ n[1] \in Tokens
    BY LenProperties, EmptySeq, PrefixStep
  <1>2. SlotLev(b, lev, 0, "children") = <<>> /\ SlotRng(b, rng, 0, "children") = Tokens
    BY DEF SlotLev, SlotRng, Word
  <1>. QED BY <1>1, <1>2 DEF InField

-----------------------------------------------------------------------------
(* The invariant of the specification, for attributes lev and rng of the   *)
(* nodes of each area                                                      *)

WalkerAts == {"level", "search", "prop"}

(* Sequences without repetitions, and the elements of one in another *)
NoRepeats(s) == \A i, j \in 1 .. Len(s) : s[i] = s[j] => i = j
HasAll(r, s) == \A i \in 1 .. Len(s) : \E j \in 1 .. Len(r) : r[j] = s[i]

(* The lists of prefixes and contexts; while they are read nothing else    *)
(* happens.                                                                *)
ListInv ==
  /\ unread \in Seq(LineSet) /\ prefixes \in Seq(LineSet) /\ contexts \in Seq(Contexts)
  /\ NoRepeats(contexts)
  /\ \A i \in 1 .. Len(prefixes) : \E j \in 1 .. Len(contexts) : contexts[j] = prefixes[i].context
  /\ unread # <<>> => /\ \A t \in Threads : thr[t].at = "idle"
                      /\ \A a \in Contexts : \A o \in Nodes(a) : bt[a][o].prop = 0

(* The node that init, at x, has allocated in area a and not linked yet *)
NewNodes(x, a) == {o \in {x.new} : x.at = "link" /\ x.slot # "prop" /\ x.area = a}

(* Objects lie behind each other and do not overlap. *)
Layout(a) ==
  /\ used[a] \in Nat /\ used[a] <= AreaSize
  /\ Nodes(a) \subseteq Nat /\ DOMAIN info[a] \subseteq Nat \ {0}
  /\ \A o \in Nodes(a) : o + BtSize <= used[a]
  /\ \A p \in DOMAIN info[a] : p + InfoSize <= used[a]
  /\ \A o, q \in Nodes(a) : o < q => o + BtSize <= q
  /\ \A p, q \in DOMAIN info[a] : p < q => p + InfoSize <= q
  /\ \A o \in Nodes(a), p \in DOMAIN info[a] : o + BtSize <= p \/ p + InfoSize <= o

(* A property hangs on the node of its name, in the area of its name. *)
PropInv(lev, a) ==
  \A o \in DOMAIN lev[a] : bt[a][o].prop # 0 =>
    /\ bt[a][o].prop \in DOMAIN info[a]
    /\ info[a][bt[a][o].prop] = Word(bt[a], lev[a], o)
    /\ Word(bt[a], lev[a], o) \in Names /\ Legal(Word(bt[a], lev[a], o))
    /\ get_prop_area_for_name(Word(bt[a], lev[a], o)) = a

MemInv(lev, rng) ==
  /\ used \in [Contexts -> Nat]
  /\ DOMAIN bt = Contexts /\ DOMAIN info = Contexts
  /\ DOMAIN lev = Contexts /\ DOMAIN rng = Contexts
  /\ \A a \in Contexts : /\ Tree(bt[a], lev[a], rng[a]) /\ Layout(a) /\ PropInv(lev, a)
                         /\ Nodes(a) = DOMAIN lev[a] \cup NewNodes(thr[Init_], a)

(* A search for x.name has come to x.node. *)
Reached(lev, rng, x) ==
  LET a == x.area
      w == SubSeq(x.name, 1, x.i - 1)
  IN /\ x.node \in DOMAIN lev[a]
     /\ x.at = "level" => Word(bt[a], lev[a], x.node) = w
     /\ x.at = "search" => x.node # 0 /\ lev[a][x.node] = w /\ x.name[x.i] \in rng[a][x.node]
     /\ x.at = "prop" => Word(bt[a], lev[a], x.node) = x.name
WalkOK(lev, rng, t, x) ==
  x.at \in WalkerAts =>
    /\ x.name \in Names /\ x.i \in 1 .. Len(x.name)
    /\ x.area = get_prop_area_for_name(x.name)
    /\ x.area = NoArea => x.at = "level"
    /\ x.area # NoArea => x.area \in Contexts /\ Reached(lev, rng, x)
    /\ t = Init_ => Legal(x.name)

(* init is about to store the pointer x.new into x.node, where it is       *)
(* missing.                                                                *)
LinkOK(lev, rng, x) ==
  LET a == x.area
  IN x.at = "link" =>
       /\ x.name \in Names /\ Legal(x.name) /\ a \in Contexts
       /\ a = get_prop_area_for_name(x.name)
       /\ x.i \in 1 .. Len(x.name) /\ x.node \in DOMAIN lev[a]
       /\ x.slot \in Slots \cup {"prop"} /\ bt[a][x.node][x.slot] = 0
       /\ x.slot = "prop" => /\ Word(bt[a], lev[a], x.node) = x.name
                             /\ x.new \in DOMAIN info[a] /\ info[a][x.new] = x.name
       /\ x.slot # "prop" => /\ SlotLev(bt[a], lev[a], x.node, x.slot) = SubSeq(x.name, 1, x.i - 1)
                             /\ x.name[x.i] \in SlotRng(bt[a], rng[a], x.node, x.slot)
                             /\ x.new \in Nat \ {0} /\ x.new \notin DOMAIN lev[a]
                             /\ bt[a][x.new] = NewBt(x.name[x.i])

ThreadOK(lev, rng, t, x) ==
  /\ x.at \in WalkerAts \cup {"idle", "link", "done", "foreach"}
  /\ x.at = "link" => t = Init_
  /\ x.at = "foreach" => t # Init_
  /\ WalkOK(lev, rng, t, x)

ThreadInv(lev, rng) ==
  /\ DOMAIN thr = Threads
  /\ \A t \in Threads : ThreadOK(lev, rng, t, thr[t])
  /\ LinkOK(lev, rng, thr[Init_])

Core(lev, rng) == ListInv /\ MemInv(lev, rng) /\ ThreadInv(lev, rng)

-----------------------------------------------------------------------------
(* The lists *)

(* Every non-empty set of numbers has a least element. *)
LEMMA NatMin ==
  ASSUME NEW T \in SUBSET Nat, T # {}
  PROVE  \E x \in T : \A y \in T : x <= y
  <1>1. PICK x \in T : \A y \in T : ~ (<<y, x>> \in OpToRel(<, Nat))
    BY NatLessThanWellFounded, WFMin
  <1>2. OpToRel(<, Nat) = {ss \in Nat \X Nat : ss[1] < ss[2]}
    BY Zenon DEF OpToRel
  <1>. HIDE DEF OpToRel
  <1>3. ASSUME NEW y \in T PROVE x <= y
    <2>1. <<y, x>> \notin {ss \in Nat \X Nat : ss[1] < ss[2]}
      BY <1>1, <1>2, Zenon
    <2>2. ~ (y < x)
      BY <2>1, SMT
    <2>. QED BY <2>2
  <1>. QED BY <1>3

(* The area of a name is a context in the list, or none. *)
LEMMA AreaFacts ==
  ASSUME ListInv, NEW n
  PROVE  \/ get_prop_area_for_name(n) = NoArea
         \/ /\ get_prop_area_for_name(n) \in Contexts
            /\ \E j \in 1 .. Len(contexts) : contexts[j] = get_prop_area_for_name(n)
  <1>. DEFINE hits == {i \in DOMAIN prefixes : n \in Matches[prefixes[i].prefix]}
  <1>1. /\ prefixes \in Seq(LineSet) /\ DOMAIN prefixes = 1 .. Len(prefixes)
        /\ Len(prefixes) \in Nat
    BY LenProperties DEF ListInv
  <1>2. CASE hits = {}
    BY <1>2 DEF get_prop_area_for_name
  <1>3. CASE hits # {}
    <2>1. PICK i \in hits : \A j \in hits : i <= j
      <3>0. hits \subseteq Nat
        BY <1>1
      <3>. HIDE DEF hits
      <3>1. PICK T \in SUBSET Nat : T = hits
        BY <3>0
      <3>2. \E i \in T : \A j \in T : i <= j
        BY <1>3, <3>1, NatMin
      <3>. QED BY <3>1, <3>2
    <2>. DEFINE m == CHOOSE k \in hits : \A j \in hits : k <= j
    <2>2. m \in hits
      BY <2>1
    <2>3. get_prop_area_for_name(n) = prefixes[m].context
      BY <1>3 DEF get_prop_area_for_name
    <2>. HIDE DEF m
    <2>4. m \in 1 .. Len(prefixes)
      BY <1>1, <2>2
    <2>5. prefixes[m] \in LineSet
      BY <1>1, <2>4, ElementOfSeq
    <2>6. prefixes[m].context \in Contexts
      BY <2>5 DEF LineSet, Contexts
    <2>. QED BY <2>3, <2>4, <2>6 DEF ListInv
  <1>. QED BY <1>2, <1>3

-----------------------------------------------------------------------------
(* Steps *)

(* The trie grows at most: what lev and rng say of a node stays. *)
Grows(lev, rng, l2, r2) ==
  \A a \in Contexts : \A o \in DOMAIN lev[a] :
    /\ o \in DOMAIN l2[a] /\ l2[a][o] = lev[a][o] /\ r2[a][o] = rng[a][o]
    /\ bt'[a][o].name = bt[a][o].name

(* A search that came to a node has come to it in the larger trie. *)
LEMMA WalkKept ==
  ASSUME NEW lev, NEW rng, NEW l2, NEW r2, Grows(lev, rng, l2, r2), prefixes' = prefixes,
         NEW t, NEW x, WalkOK(lev, rng, t, x)
  PROVE  WalkOK(l2, r2, t, x)'
  <1>. SUFFICES ASSUME x.at \in WalkerAts
                PROVE  /\ x.name \in Names /\ x.i \in 1 .. Len(x.name)
                       /\ x.area = get_prop_area_for_name(x.name)'
                       /\ x.area = NoArea => x.at = "level"
                       /\ x.area # NoArea => x.area \in Contexts /\ Reached(l2, r2, x)'
                       /\ t = Init_ => Legal(x.name)
    BY DEF WalkOK
  <1>1. get_prop_area_for_name(x.name)' = get_prop_area_for_name(x.name)
    BY DEF get_prop_area_for_name
  <1>2. ASSUME x.area # NoArea PROVE Reached(l2, r2, x)'
    <2>1. x.area \in Contexts /\ Reached(lev, rng, x)
      BY <1>2 DEF WalkOK
    <2>2. PICK a \in Contexts : a = x.area
      BY <2>1
    <2>3. PICK o \in DOMAIN lev[a] : o = x.node
      BY <2>1, <2>2 DEF Reached
    <2>4. /\ o \in DOMAIN l2[a] /\ l2[a][o] = lev[a][o] /\ r2[a][o] = rng[a][o]
          /\ Word(bt[a], l2[a], o)' = Word(bt[a], lev[a], o)
      BY DEF Grows, Word
    <2>. QED BY <2>1, <2>2, <2>3, <2>4 DEF Reached
  <1>. QED BY <1>1, <1>2 DEF WalkOK

(* A step of one thread that writes nothing *)
LEMMA Quiet ==
  ASSUME NEW lev, NEW rng, Core(lev, rng), NEW t \in Threads, NEW y,
         UNCHANGED <<lists, memory>>, unread = <<>>, thr' = [thr EXCEPT ![t] = y],
         thr[t].at # "link", y.at # "link", ThreadOK(lev, rng, t, y)
  PROVE  Core(lev, rng)' /\ Grows(lev, rng, lev, rng)
  <1>1. /\ prefixes' = prefixes /\ contexts' = contexts /\ unread' = unread
        /\ used' = used /\ bt' = bt /\ info' = info
    BY DEF lists, memory
  <1>2. Grows(lev, rng, lev, rng)
    BY <1>1 DEF Grows
  <1>3. DOMAIN thr = Threads /\ DOMAIN thr' = Threads /\ thr'[t] = y
        /\ \A u \in Threads : u # t => thr'[u] = thr[u]
    BY DEF Core, ThreadInv
  <1>4. ListInv'
    BY <1>1 DEF Core, ListInv
  <1>5. ASSUME NEW a PROVE NewNodes(thr[Init_], a)' = NewNodes(thr[Init_], a)
    <2>1. CASE t = Init_
      BY <1>3, <2>1 DEF NewNodes
    <2>2. CASE t # Init_
      <3>1. thr'[Init_] = thr[Init_]
        BY <1>3, <2>2 DEF Threads
      <3>. QED BY <3>1 DEF NewNodes
    <2>. QED BY <2>1, <2>2
  <1>6. ASSUME NEW n PROVE get_prop_area_for_name(n)' = get_prop_area_for_name(n)
    BY <1>1 DEF get_prop_area_for_name
  <1>7. MemInv(lev, rng)'
    <2>1. ASSUME NEW a \in Contexts
          PROVE  Layout(a)' /\ PropInv(lev, a)' /\ Nodes(a)' = DOMAIN lev[a] \cup NewNodes(thr[Init_], a)'
      <3>1. Layout(a) /\ PropInv(lev, a) /\ Nodes(a) = DOMAIN lev[a] \cup NewNodes(thr[Init_], a)
        BY DEF Core, MemInv
      <3>2. Layout(a)'
        BY <1>1, <3>1 DEF Layout, Nodes
      <3>3. PropInv(lev, a)'
        BY <1>1, <1>6, <3>1 DEF PropInv
      <3>. QED BY <1>1, <1>5, <3>1, <3>2, <3>3 DEF Nodes
    <2>. QED BY <1>1, <2>1 DEF Core, MemInv
  <1>8. ASSUME NEW u \in Threads PROVE ThreadOK(lev, rng, u, thr[u])'
    <2>1. PICK z : z = thr'[u] /\ ThreadOK(lev, rng, u, z)
      BY <1>3 DEF Core, ThreadInv
    <2>2. WalkOK(lev, rng, u, z)'
      BY <1>1, <1>2, <2>1, WalkKept DEF ThreadOK
    <2>. QED BY <2>1, <2>2 DEF ThreadOK
  <1>9. LinkOK(lev, rng, thr[Init_])'
    <2>1. CASE t = Init_
      BY <1>3, <2>1 DEF LinkOK
    <2>2. CASE t # Init_
      <3>1. PICK z : z = thr'[Init_] /\ LinkOK(lev, rng, z)
        BY <1>3, <2>2 DEF Core, ThreadInv, Threads
      <3>2. LinkOK(lev, rng, z)'
        BY <1>1, <1>6, <3>1 DEF LinkOK
      <3>. QED BY <3>1, <3>2 DEF LinkOK
    <2>. QED BY <2>1, <2>2
  <1>. QED BY <1>2, <1>3, <1>4, <1>7, <1>8, <1>9 DEF Core, ThreadInv

(* Where a thread in a call is *)
LEMMA WalkerFacts ==
  ASSUME NEW lev, NEW rng, Core(lev, rng), NEW t \in Threads, NEW x, x = thr[t],
         x.at \in WalkerAts
  PROVE  /\ unread = <<>> /\ x.name \in Names /\ x.name \in Seq(Tokens) /\ x.i \in 1 .. Len(x.name)
         /\ x.area = get_prop_area_for_name(x.name) /\ (t = Init_ => Legal(x.name))
         /\ x.area = NoArea => x.at = "level"
         /\ x.area # NoArea => /\ x.area \in Contexts /\ x.node \in DOMAIN lev[x.area]
                               /\ Reached(lev, rng, x)
                               /\ Tree(bt[x.area], lev[x.area], rng[x.area])
  <1>1. ThreadOK(lev, rng, t, x)
    BY DEF Core, ThreadInv
  <1>2. unread = <<>>
    BY DEF Core, ListInv, WalkerAts
  <1>3. x.name \in Names => x.name \in Seq(Tokens)
    BY NamesAssumption
  <1>. QED BY <1>1, <1>2, <1>3 DEF ThreadOK, WalkOK, Reached, Core, MemInv

(* find_property begins at the root. *)
LEMMA BeginStep ==
  ASSUME NEW lev, NEW rng, Core(lev, rng), NEW t \in Threads, NEW n \in Names, Begin(t, n)
  PROVE  Core(lev, rng)' /\ Grows(lev, rng, lev, rng)
  <1>. DEFINE a == get_prop_area_for_name(n)
              y == Find(a, n)
  <1>1. /\ y.at = "level" /\ y.area = a /\ y.name = n /\ y.i = 1 /\ y.node = 0
    BY DEF Find, Walker
  <1>2. n \in Seq(Tokens) /\ n # <<>> /\ 1 \in 1 .. Len(n) /\ SubSeq(n, 1, 1 - 1) = <<>>
    BY NamesAssumption, LenProperties, EmptySeq, PrefixStep
  <1>3. ASSUME a \in Contexts PROVE Reached(lev, rng, y)
    <2>1. 0 \in DOMAIN lev[a] /\ Word(bt[a], lev[a], 0) = <<>>
      BY <1>3 DEF Core, MemInv, Tree, Shape, Word
    <2>. QED BY <1>1, <1>2, <2>1 DEF Reached
  <1>4. a = NoArea \/ a \in Contexts
    BY AreaFacts DEF Core
  <1>. HIDE DEF a
  <1>5. ThreadOK(lev, rng, t, y)
    <2>. HIDE DEF y
    <2>. QED BY <1>1, <1>2, <1>3, <1>4 DEF ThreadOK, WalkOK, Begin, WalkerAts, a
  <1>. HIDE DEF y
  <1>. QED BY <1>1, <1>5, Quiet DEF Begin, y, a

(* A search goes on along a pointer, or a call returns. *)
LEMMA MoveOn ==
  ASSUME NEW lev, NEW rng, Core(lev, rng), NEW t \in Threads, NEW y,
         UNCHANGED <<lists, memory>>, thr' = [thr EXCEPT ![t] = y], thr[t].at \in WalkerAts,
         \/ \E f \in BOOLEAN : y = Done(thr[t], f)
         \/ /\ thr[t].area # NoArea
            /\ \E at \in WalkerAts, i \in 1 .. Len(thr[t].name) : \E o :
                 /\ y = Walker(at, thr[t].area, thr[t].name, i, o)
                 /\ Reached(lev, rng, y)
  PROVE  Core(lev, rng)' /\ Grows(lev, rng, lev, rng)
  <1>. DEFINE x == thr[t]
  <1>1. /\ unread = <<>> /\ x.name \in Names /\ x.area = get_prop_area_for_name(x.name)
        /\ t = Init_ => Legal(x.name)
        /\ x.area # NoArea => x.area \in Contexts
    BY WalkerFacts
  <1>. HIDE DEF x
  <1>2. ThreadOK(lev, rng, t, y) /\ y.at # "link"
    <2>1. CASE \E f \in BOOLEAN : y = Done(x, f)
      BY <2>1 DEF Done, ThreadOK, WalkOK, WalkerAts
    <2>2. CASE /\ x.area # NoArea
               /\ \E at \in WalkerAts, i \in 1 .. Len(x.name) : \E o :
                    y = Walker(at, x.area, x.name, i, o) /\ Reached(lev, rng, y)
      <3>1. PICK at \in WalkerAts, i \in 1 .. Len(x.name) : \E o :
                   y = Walker(at, x.area, x.name, i, o) /\ Reached(lev, rng, y)
        BY <2>2
      <3>2. y.at = at /\ y.area = x.area /\ y.name = x.name /\ y.i = i
        BY <3>1 DEF Walker
      <3>3. at # "link" /\ at # "foreach"
        BY DEF WalkerAts
      <3>. QED BY <1>1, <2>2, <3>1, <3>2, <3>3 DEF ThreadOK, WalkOK
    <2>. QED BY <2>1, <2>2 DEF x
  <1>3. x.at # "link"
    BY DEF WalkerAts, x
  <1>. QED BY <1>1, <1>2, <1>3, Quiet DEF x

(* Once they are read, the lists do not change. *)
LEMMA ListKept ==
  ASSUME ListInv, unread = <<>>, UNCHANGED lists
  PROVE  ListInv'
  <1>1. prefixes' = prefixes /\ contexts' = contexts /\ unread' = unread
    BY DEF lists
  <1>2. unread' = <<>>
    BY <1>1
  <1>3. /\ unread \in Seq(LineSet) /\ prefixes \in Seq(LineSet) /\ contexts \in Seq(Contexts)
        /\ NoRepeats(contexts)
        /\ \A i \in 1 .. Len(prefixes) : \E j \in 1 .. Len(contexts) : contexts[j] = prefixes[i].context
    BY DEF ListInv
  <1>. QED BY <1>1, <1>2, <1>3, Zenon DEF ListInv

(* Bytes behind the last object of an area are free. *)
LEMMA FreshOffset ==
  ASSUME NEW lev, NEW rng, Core(lev, rng), NEW a \in Contexts, NEW off, off = used[a]
  PROVE  /\ off \in Nat \ {0} /\ off \notin Nodes(a) /\ off \notin DOMAIN info[a]
         /\ off \notin DOMAIN lev[a] /\ Nodes(a) \subseteq Nat
         /\ DOMAIN info[a] \subseteq Nat \ {0} /\ 0 \in Nodes(a) /\ DOMAIN lev[a] \subseteq Nodes(a)
  <1>1. Layout(a) /\ Tree(bt[a], lev[a], rng[a])
    BY DEF Core, MemInv
  <1>2. 0 \in DOMAIN lev[a] /\ DOMAIN lev[a] \subseteq Nodes(a)
    BY <1>1 DEF Tree, Shape, Nodes
  <1>3. BtSize \in Nat \ {0} /\ InfoSize \in Nat \ {0}
    BY SizeAssumption
  <1>4. /\ off \in Nat /\ Nodes(a) \subseteq Nat /\ DOMAIN info[a] \subseteq Nat \ {0}
        /\ \A o \in Nodes(a) : o + BtSize <= off
        /\ \A o \in DOMAIN info[a] : o + InfoSize <= off
    BY <1>1 DEF Layout
  <1>. QED BY <1>2, <1>3, <1>4

(* A new node: nothing leads to it yet, the trie is the same. *)
LEMMA AllocNode ==
  ASSUME NEW lev, NEW rng, Core(lev, rng), NEW x, x = thr[Init_], x.at \in WalkerAts,
         x.area \in Contexts, NEW slot \in Slots, bt[x.area][x.node][slot] = 0,
         NEW k, k = x.name[x.i],
         SlotLev(bt[x.area], lev[x.area], x.node, slot) = SubSeq(x.name, 1, x.i - 1),
         k \in SlotRng(bt[x.area], rng[x.area], x.node, slot),
         used[x.area] + BtSize <= AreaSize, Allocate(Init_, k, slot), UNCHANGED lists
  PROVE  Core(lev, rng)' /\ Grows(lev, rng, lev, rng)
  <1>. DEFINE a == x.area
  <1>a. PICK off : off = used[a]
    OBVIOUS
  <1>b. PICK y : y = [at |-> "link", area |-> a, name |-> x.name, i |-> x.i, node |-> x.node,
                      slot |-> slot, new |-> off]
    OBVIOUS
  <1>0. Init_ \in Threads /\ slot # "prop"
    BY DEF Threads, Slots
  <1>1. /\ unread = <<>> /\ x.name \in Names /\ x.name \in Seq(Tokens) /\ x.i \in 1 .. Len(x.name)
        /\ a = get_prop_area_for_name(x.name) /\ Legal(x.name) /\ x.node \in DOMAIN lev[a]
        /\ a \in Contexts /\ a # NoArea
    BY <1>0, WalkerFacts, LinesAssumption
  <1>2. /\ used' = [used EXCEPT ![a] = off + BtSize]
        /\ bt' = [bt EXCEPT ![a] = Put(bt[a], off, NewBt(k))]
        /\ info' = info /\ thr' = [thr EXCEPT ![Init_] = y]
    <2>1. ~ (off + BtSize > AreaSize)
      BY <1>a, SizeAssumption DEF Core, MemInv, Layout
    <2>. QED BY <1>0, <1>a, <1>b, <2>1 DEF Allocate
  <1>3. prefixes' = prefixes /\ contexts' = contexts /\ unread' = unread
    BY DEF lists
  <1>4. /\ off \in Nat \ {0} /\ off \notin Nodes(a) /\ off \notin DOMAIN info[a]
        /\ off \notin DOMAIN lev[a] /\ Nodes(a) \subseteq Nat /\ DOMAIN info[a] \subseteq Nat \ {0}
        /\ 0 \in Nodes(a) /\ DOMAIN lev[a] \subseteq Nodes(a)
    BY <1>1, <1>a, FreshOffset
  <1>5. /\ DOMAIN bt = Contexts /\ DOMAIN used = Contexts /\ DOMAIN info = Contexts
        /\ DOMAIN lev = Contexts /\ DOMAIN rng = Contexts
        /\ DOMAIN bt' = Contexts /\ DOMAIN used' = Contexts /\ used \in [Contexts -> Nat]
        /\ DOMAIN thr = Threads /\ DOMAIN thr' = Threads
    BY <1>2 DEF Core, MemInv, ThreadInv
  <1>6. /\ thr'[Init_] = y /\ \A u \in Threads : u # Init_ => thr'[u] = thr[u]
        /\ \A c \in Contexts : c # a => bt'[c] = bt[c] /\ used'[c] = used[c]
        /\ used'[a] = off + BtSize
    BY <1>0, <1>1, <1>2, <1>5
  <1>7. /\ DOMAIN bt'[a] = Nodes(a) \cup {off} /\ bt'[a][off] = NewBt(k)
        /\ \A o \in Nodes(a) : bt'[a][o] = bt[a][o]
    <2>1. bt'[a] = Put(bt[a], off, NewBt(k))
      BY <1>1, <1>2, <1>5
    <2>. QED BY <1>4, <2>1 DEF Put, Nodes
  <1>8. Grows(lev, rng, lev, rng)
    <2>1. ASSUME NEW c \in Contexts, NEW o \in DOMAIN lev[c] PROVE bt'[c][o].name = bt[c][o].name
      BY <1>4, <1>6, <1>7, <2>1
    <2>. QED BY <2>1 DEF Grows
  <1>9. /\ y.at = "link" /\ y.area = a /\ y.name = x.name /\ y.i = x.i /\ y.node = x.node
        /\ y.slot = slot /\ y.new = off
    BY <1>b
  <1>10. \A c \in Contexts : NewNodes(thr[Init_], c) = {}
    BY DEF NewNodes, WalkerAts
  <1>11. \A c \in Contexts : NewNodes(thr[Init_], c)' = IF c = a THEN {off} ELSE {}
    <2>1. \A c : NewNodes(y, c) = IF c = a THEN {off} ELSE {}
      BY <1>0, <1>9 DEF NewNodes
    <2>. QED BY <1>6, <2>1
  <1>12. ASSUME NEW n PROVE get_prop_area_for_name(n)' = get_prop_area_for_name(n)
    BY <1>3 DEF get_prop_area_for_name
  <1>13. Tree(bt[a], lev[a], rng[a]) /\ Layout(a) /\ PropInv(lev, a) /\ Nodes(a) = DOMAIN lev[a]
    BY <1>1, <1>10 DEF Core, MemInv
  <1>14. /\ Tree(bt'[a], lev[a], rng[a])
         /\ \A o \in DOMAIN lev[a] : /\ Word(bt'[a], lev[a], o) = Word(bt[a], lev[a], o)
                                     /\ \A s \in Slots :
                                          /\ SlotLev(bt'[a], lev[a], o, s) = SlotLev(bt[a], lev[a], o, s)
                                          /\ SlotRng(bt'[a], rng[a], o, s) = SlotRng(bt[a], rng[a], o, s)
    <2>1. PICK c : c = bt'[a]
      OBVIOUS
    <2>2. DOMAIN lev[a] \subseteq DOMAIN c /\ \A o \in DOMAIN lev[a] : c[o] = bt[a][o]
      BY <1>4, <1>7, <2>1
    <2>3. \A o \in DOMAIN lev[a] : bt[a][o] \in BtRec
      BY <1>13 DEF Tree, Shape
    <2>4. \A o \in DOMAIN lev[a] : /\ c[o] \in BtRec /\ c[o].name = bt[a][o].name
                                   /\ \A s \in Slots : c[o][s] = bt[a][o][s]
      BY <2>2, <2>3
    <2>5. PICK b, lv, rg : b = bt[a] /\ lv = lev[a] /\ rg = rng[a]
      OBVIOUS
    <2>6. /\ Tree(b, lv, rg) /\ DOMAIN lv \subseteq DOMAIN c
          /\ \A o \in DOMAIN lv : /\ c[o] \in BtRec /\ c[o].name = b[o].name
                                  /\ \A s \in Slots : c[o][s] = b[o][s]
      BY <1>13, <2>2, <2>4, <2>5
    <2>7. /\ Tree(c, lv, rg)
          /\ \A o \in DOMAIN lv : /\ Word(c, lv, o) = Word(b, lv, o)
                                  /\ \A s \in Slots : /\ SlotLev(c, lv, o, s) = SlotLev(b, lv, o, s)
                                                      /\ SlotRng(c, rg, o, s) = SlotRng(b, rg, o, s)
      BY <2>6, SameTree
    <2>. QED BY <2>1, <2>5, <2>7
  <1>15. Layout(a)'
    <2>1. /\ used'[a] = off + BtSize /\ info'[a] = info[a] /\ Nodes(a)' = Nodes(a) \cup {off}
      BY <1>2, <1>6, <1>7 DEF Nodes
    <2>2. /\ BtSize \in Nat \ {0} /\ InfoSize \in Nat \ {0} /\ AreaSize \in Nat
          /\ off + BtSize <= AreaSize /\ off = used[a]
      BY <1>a, SizeAssumption
    <2>3. /\ \A o \in Nodes(a) : o + BtSize <= off
          /\ \A p \in DOMAIN info[a] : p + InfoSize <= off
          /\ \A o, q \in Nodes(a) : o < q => o + BtSize <= q
          /\ \A p, q \in DOMAIN info[a] : p < q => p + InfoSize <= q
          /\ \A o \in Nodes(a), p \in DOMAIN info[a] : o + BtSize <= p \/ p + InfoSize <= o
      BY <1>13, <2>2 DEF Layout
    <2>4. PICK N, P, M, u : N = Nodes(a) /\ P = DOMAIN info[a] /\ M = N \cup {off} /\ u = off + BtSize
      OBVIOUS
    <2>5. off \in Nat /\ N \subseteq Nat /\ P \subseteq Nat \ {0}
      BY <1>4, <2>4
    <2>6. /\ u \in Nat /\ u <= AreaSize /\ (\A o \in M : o + BtSize <= u)
          /\ \A p \in P : p + InfoSize <= u
      <3>1. u \in Nat /\ u <= AreaSize /\ off <= u /\ off + BtSize <= u
        BY <2>2, <2>4, <2>5
      <3>2. ASSUME NEW o \in N PROVE o + BtSize <= u
        <4>1. o + BtSize <= off /\ o \in Nat
          BY <2>3, <2>4, <2>5
        <4>. QED BY <2>2, <2>5, <3>1, <4>1
      <3>3. ASSUME NEW p \in P PROVE p + InfoSize <= u
        <4>1. p + InfoSize <= off /\ p \in Nat
          BY <2>3, <2>4, <2>5
        <4>. QED BY <2>2, <2>5, <3>1, <4>1
      <3>. QED BY <2>4, <3>1, <3>2, <3>3
    <2>7. \A o, q \in M : o < q => o + BtSize <= q
      BY <2>2, <2>3, <2>4, <2>5
    <2>8. \A o \in M, p \in P : o + BtSize <= p \/ p + InfoSize <= o
      BY <2>2, <2>3, <2>4, <2>5
    <2>9. M \subseteq Nat /\ \A p, q \in P : p < q => p + InfoSize <= q
      BY <2>3, <2>4, <2>5
    <2>. QED BY <2>1, <2>4, <2>5, <2>6, <2>7, <2>8, <2>9 DEF Layout
  <1>16. PropInv(lev, a)'
    <2>1. \A o \in DOMAIN lev[a] : bt'[a][o] = bt[a][o]
      BY <1>4, <1>7
    <2>. QED BY <1>2, <1>12, <1>13, <1>14, <2>1, ZenonT(60) DEF PropInv
  <1>17. ASSUME NEW c \in Contexts, c # a
         PROVE  /\ Tree(bt'[c], lev[c], rng[c]) /\ Layout(c)' /\ PropInv(lev, c)'
                /\ Nodes(c)' = DOMAIN lev[c]
    <2>1. /\ Tree(bt[c], lev[c], rng[c]) /\ Layout(c) /\ PropInv(lev, c) /\ Nodes(c) = DOMAIN lev[c]
      BY <1>10 DEF Core, MemInv
    <2>2. bt'[c] = bt[c] /\ used'[c] = used[c] /\ info'[c] = info[c]
      BY <1>2, <1>6, <1>17
    <2>. QED BY <1>12, <2>1, <2>2 DEF Layout, PropInv, Nodes
  <1>18. MemInv(lev, rng)'
    <2>1. used' \in [Contexts -> Nat]
      <3>1. off + BtSize \in Nat
        BY <1>4, SizeAssumption
      <3>. QED BY <1>2, <1>5, <3>1
    <2>2. Nodes(a)' = DOMAIN lev[a] \cup {off}
      BY <1>7, <1>13 DEF Nodes
    <2>3. ASSUME NEW c \in Contexts
          PROVE  /\ Tree(bt'[c], lev[c], rng[c]) /\ Layout(c)' /\ PropInv(lev, c)'
                 /\ Nodes(c)' = DOMAIN lev[c] \cup NewNodes(thr[Init_], c)'
      BY <1>11, <1>14, <1>15, <1>16, <1>17, <2>2
    <2>. QED BY <1>2, <1>5, <2>1, <2>3 DEF MemInv
  <1>19. ListInv'
    BY <1>1, ListKept DEF Core
  <1>20. ASSUME NEW u \in Threads PROVE ThreadOK(lev, rng, u, thr[u])'
    <2>1. CASE u = Init_
      <3>1. ThreadOK(lev, rng, Init_, y)'
        BY <1>9 DEF ThreadOK, WalkOK, WalkerAts
      <3>. QED BY <1>6, <2>1, <3>1
    <2>2. CASE u # Init_
      <3>1. PICK z : z = thr'[u] /\ ThreadOK(lev, rng, u, z)
        BY <1>6, <2>2 DEF Core, ThreadInv
      <3>2. WalkOK(lev, rng, u, z)'
        BY <1>3, <1>8, <3>1, WalkKept DEF ThreadOK
      <3>. QED BY <3>1, <3>2 DEF ThreadOK
    <2>. QED BY <2>1, <2>2
  <1>21. LinkOK(lev, rng, y)'
    <2>1. bt'[a][x.node] = bt[a][x.node]
      BY <1>1, <1>4, <1>7
    <2>2. a = get_prop_area_for_name(x.name)'
      BY <1>1, <1>12
    <2>3. /\ SlotLev(bt'[a], lev[a], x.node, slot) = SubSeq(x.name, 1, x.i - 1)
          /\ x.name[x.i] \in SlotRng(bt'[a], rng[a], x.node, slot)
      BY <1>1, <1>14
    <2>4. bt'[a][x.node][slot] = 0 /\ bt'[a][off] = NewBt(x.name[x.i])
      BY <1>7, <2>1
    <2>. QED BY <1>0, <1>1, <1>4, <1>9, <2>2, <2>3, <2>4 DEF LinkOK
  <1>. QED BY <1>5, <1>6, <1>8, <1>18, <1>19, <1>20, <1>21 DEF Core, ThreadInv

(* A new prop_info: no node leads to it yet. *)
LEMMA AllocInfo ==
  ASSUME NEW lev, NEW rng, Core(lev, rng), NEW x, x = thr[Init_], x.at = "prop",
         bt[x.area][x.node]["prop"] = 0, NEW k,
         used[x.area] + InfoSize <= AreaSize, Allocate(Init_, k, "prop"), UNCHANGED lists
  PROVE  Core(lev, rng)' /\ Grows(lev, rng, lev, rng)
  <1>. DEFINE a == x.area
  <1>a. PICK off : off = used[a]
    OBVIOUS
  <1>b. PICK y : y = [at |-> "link", area |-> a, name |-> x.name, i |-> x.i, node |-> x.node,
                      slot |-> "prop", new |-> off]
    OBVIOUS
  <1>0. Init_ \in Threads /\ x.at \in WalkerAts
    BY DEF Threads, WalkerAts
  <1>1. /\ unread = <<>> /\ x.name \in Names /\ x.name \in Seq(Tokens) /\ x.i \in 1 .. Len(x.name)
        /\ a = get_prop_area_for_name(x.name) /\ Legal(x.name) /\ x.node \in DOMAIN lev[a]
        /\ a \in Contexts /\ Word(bt[a], lev[a], x.node) = x.name
    BY <1>0, WalkerFacts DEF Reached
  <1>2. /\ used' = [used EXCEPT ![a] = off + InfoSize]
        /\ info' = [info EXCEPT ![a] = Put(info[a], off, x.name)]
        /\ bt' = bt /\ thr' = [thr EXCEPT ![Init_] = y]
    <2>1. ~ (off + InfoSize > AreaSize)
      BY <1>1, <1>a, SizeAssumption DEF Core, MemInv, Layout
    <2>. QED BY <1>0, <1>a, <1>b, <2>1 DEF Allocate
  <1>3. prefixes' = prefixes /\ contexts' = contexts /\ unread' = unread
    BY DEF lists
  <1>4. /\ off \in Nat \ {0} /\ off \notin Nodes(a) /\ off \notin DOMAIN info[a]
        /\ off \notin DOMAIN lev[a] /\ Nodes(a) \subseteq Nat /\ DOMAIN info[a] \subseteq Nat \ {0}
        /\ 0 \in Nodes(a) /\ DOMAIN lev[a] \subseteq Nodes(a)
    BY <1>1, <1>a, FreshOffset
  <1>5. /\ DOMAIN bt = Contexts /\ DOMAIN used = Contexts /\ DOMAIN info = Contexts
        /\ DOMAIN lev = Contexts /\ DOMAIN rng = Contexts
        /\ DOMAIN info' = Contexts /\ DOMAIN used' = Contexts /\ used \in [Contexts -> Nat]
        /\ DOMAIN thr = Threads /\ DOMAIN thr' = Threads
    BY <1>2 DEF Core, MemInv, ThreadInv
  <1>6. /\ thr'[Init_] = y /\ \A u \in Threads : u # Init_ => thr'[u] = thr[u]
        /\ \A c \in Contexts : c # a => info'[c] = info[c] /\ used'[c] = used[c]
        /\ used'[a] = off + InfoSize
    BY <1>0, <1>1, <1>2, <1>5
  <1>7. /\ DOMAIN info'[a] = DOMAIN info[a] \cup {off} /\ info'[a][off] = x.name
        /\ \A o \in DOMAIN info[a] : info'[a][o] = info[a][o]
    <2>1. info'[a] = Put(info[a], off, x.name)
      BY <1>1, <1>2, <1>5
    <2>. QED BY <1>4, <2>1 DEF Put
  <1>8. Grows(lev, rng, lev, rng)
    BY <1>2 DEF Grows
  <1>9. /\ y.at = "link" /\ y.area = a /\ y.name = x.name /\ y.i = x.i /\ y.node = x.node
        /\ y.slot = "prop" /\ y.new = off
    BY <1>b
  <1>10. \A c \in Contexts : NewNodes(thr[Init_], c) = {}
    BY DEF NewNodes
  <1>11. \A c \in Contexts : NewNodes(thr[Init_], c)' = {}
    <2>1. \A c : NewNodes(y, c) = {}
      BY <1>9 DEF NewNodes
    <2>. QED BY <1>6, <2>1
  <1>12. ASSUME NEW n PROVE get_prop_area_for_name(n)' = get_prop_area_for_name(n)
    BY <1>3 DEF get_prop_area_for_name
  <1>13. Tree(bt[a], lev[a], rng[a]) /\ Layout(a) /\ PropInv(lev, a) /\ Nodes(a) = DOMAIN lev[a]
    BY <1>1, <1>10 DEF Core, MemInv
  <1>15. Layout(a)'
    <2>1. /\ used'[a] = off + InfoSize /\ DOMAIN info'[a] = DOMAIN info[a] \cup {off}
          /\ Nodes(a)' = Nodes(a)
      BY <1>2, <1>6, <1>7 DEF Nodes
    <2>2. /\ BtSize \in Nat \ {0} /\ InfoSize \in Nat \ {0} /\ AreaSize \in Nat
          /\ off + InfoSize <= AreaSize /\ off = used[a]
      BY <1>a, SizeAssumption
    <2>3. /\ \A o \in Nodes(a) : o + BtSize <= off
          /\ \A p \in DOMAIN info[a] : p + InfoSize <= off
          /\ \A o, q \in Nodes(a) : o < q => o + BtSize <= q
          /\ \A p, q \in DOMAIN info[a] : p < q => p + InfoSize <= q
          /\ \A o \in Nodes(a), p \in DOMAIN info[a] : o + BtSize <= p \/ p + InfoSize <= o
      BY <1>13, <2>2 DEF Layout
    <2>. QED BY <1>4, <2>1, <2>2, <2>3 DEF Layout
  <1>16. PropInv(lev, a)'
    <2>1. ASSUME NEW o \in DOMAIN lev[a], bt[a][o].prop # 0
          PROVE  /\ bt[a][o].prop \in DOMAIN info'[a]
                 /\ info'[a][bt[a][o].prop] = info[a][bt[a][o].prop]
      BY <1>7, <1>13, <2>1 DEF PropInv
    <2>. QED BY <1>2, <1>12, <1>13, <2>1 DEF PropInv
  <1>17. ASSUME NEW c \in Contexts, c # a
         PROVE  /\ Tree(bt'[c], lev[c], rng[c]) /\ Layout(c)' /\ PropInv(lev, c)'
                /\ Nodes(c)' = DOMAIN lev[c]
    <2>1. /\ Tree(bt[c], lev[c], rng[c]) /\ Layout(c) /\ PropInv(lev, c) /\ Nodes(c) = DOMAIN lev[c]
      BY <1>10 DEF Core, MemInv
    <2>2. bt'[c] = bt[c] /\ used'[c] = used[c] /\ info'[c] = info[c]
      BY <1>2, <1>6, <1>17
    <2>. QED BY <1>12, <2>1, <2>2 DEF Layout, PropInv, Nodes
  <1>18. MemInv(lev, rng)'
    <2>1. used' \in [Contexts -> Nat]
      <3>1. off + InfoSize \in Nat
        BY <1>4, SizeAssumption
      <3>. QED BY <1>2, <1>5, <3>1
    <2>2. Nodes(a)' = DOMAIN lev[a] /\ Tree(bt'[a], lev[a], rng[a])
      BY <1>2, <1>13 DEF Nodes
    <2>3. ASSUME NEW c \in Contexts
          PROVE  /\ Tree(bt'[c], lev[c], rng[c]) /\ Layout(c)' /\ PropInv(lev, c)'
                 /\ Nodes(c)' = DOMAIN lev[c] \cup NewNodes(thr[Init_], c)'
      BY <1>11, <1>15, <1>16, <1>17, <2>2
    <2>. QED BY <1>2, <1>5, <2>1, <2>3 DEF MemInv
  <1>19. ListInv'
    BY <1>1, ListKept DEF Core
  <1>20. ASSUME NEW u \in Threads PROVE ThreadOK(lev, rng, u, thr[u])'
    <2>1. CASE u = Init_
      <3>1. ThreadOK(lev, rng, Init_, y)'
        BY <1>9 DEF ThreadOK, WalkOK, WalkerAts
      <3>. QED BY <1>6, <2>1, <3>1
    <2>2. CASE u # Init_
      <3>1. PICK z : z = thr'[u] /\ ThreadOK(lev, rng, u, z)
        BY <1>6, <2>2 DEF Core, ThreadInv
      <3>2. WalkOK(lev, rng, u, z)'
        BY <1>3, <1>8, <3>1, WalkKept DEF ThreadOK
      <3>. QED BY <3>1, <3>2 DEF ThreadOK
    <2>. QED BY <2>1, <2>2
  <1>21. LinkOK(lev, rng, y)'
    BY <1>1, <1>2, <1>7, <1>9, <1>12 DEF LinkOK
  <1>. QED BY <1>5, <1>6, <1>8, <1>18, <1>19, <1>20, <1>21 DEF Core, ThreadInv

(* A pointer of the trie that was loaded is followed, or the trie is       *)
(* extended there.                                                         *)
LEMMA FollowStep ==
  ASSUME NEW lev, NEW rng, Core(lev, rng), NEW t \in Threads, NEW x, x = thr[t],
         x.at \in WalkerAts, x.area \in Contexts, NEW slot \in Slots, NEW k, k = x.name[x.i],
         SlotLev(bt[x.area], lev[x.area], x.node, slot) = SubSeq(x.name, 1, x.i - 1),
         k \in SlotRng(bt[x.area], rng[x.area], x.node, slot),
         Follow(t, k, slot), UNCHANGED lists
  PROVE  Core(lev, rng)' /\ Grows(lev, rng, lev, rng)
  <1>. DEFINE a == x.area
              p == bt[a][x.node][slot]
  <1>0. a # NoArea /\ slot # "prop"
    BY LinesAssumption DEF Slots
  <1>1. /\ Tree(bt[a], lev[a], rng[a]) /\ x.node \in DOMAIN lev[a] /\ x.i \in 1 .. Len(x.name)
    BY <1>0, WalkerFacts
  <1>2. CASE p # 0 /\ UNCHANGED memory /\ thr' = [thr EXCEPT ![t] = Walker("search", a, x.name, x.i, p)]
    <2>1. PICK y : y = Walker("search", a, x.name, x.i, p)
      OBVIOUS
    <2>2. y.at = "search" /\ y.area = a /\ y.name = x.name /\ y.i = x.i /\ y.node = p
      BY <2>1 DEF Walker
    <2>3. /\ p \in DOMAIN lev[a] /\ lev[a][p] = SlotLev(bt[a], lev[a], x.node, slot)
          /\ rng[a][p] = SlotRng(bt[a], rng[a], x.node, slot)
      BY <1>1, <1>2 DEF Tree, Shape, Edges
    <2>4. Reached(lev, rng, y)
      BY <1>2, <2>2, <2>3 DEF Reached
    <2>5. \E at \in WalkerAts, i \in 1 .. Len(x.name) : \E o :
            y = Walker(at, a, x.name, i, o) /\ Reached(lev, rng, y)
      <3>1. "search" \in WalkerAts
        BY DEF WalkerAts
      <3>. QED BY <1>1, <2>1, <2>4, <3>1, Zenon
    <2>. QED BY <1>0, <1>2, <2>1, <2>5, MoveOn
  <1>3. CASE UNCHANGED memory /\ thr' = [thr EXCEPT ![t] = Done(x, FALSE)]
    <2>1. PICK y : y = Done(x, FALSE)
      OBVIOUS
    <2>. QED BY <1>3, <2>1, MoveOn
  <1>4. CASE p = 0 /\ t = Init_ /\ Allocate(t, k, slot)
    <2>1. /\ used[a] \in Nat /\ BtSize \in Nat /\ AreaSize \in Nat
      BY SizeAssumption DEF Core, MemInv
    <2>2. CASE used[a] + BtSize > AreaSize
      <3>1. UNCHANGED memory /\ thr' = [thr EXCEPT ![t] = Done(x, FALSE)]
        BY <1>0, <1>4, <2>2 DEF Allocate
      <3>. QED BY <1>3, <3>1
    <2>3. CASE used[a] + BtSize <= AreaSize
      BY <1>4, <2>3, AllocNode
    <2>. QED BY <2>1, <2>2, <2>3
  <1>. QED BY <1>0, <1>2, <1>3, <1>4 DEF Follow

(* The pointer to the prop_info was loaded. *)
LEMMA PropStep ==
  ASSUME NEW lev, NEW rng, Core(lev, rng), NEW t \in Threads, Prop(t)
  PROVE  Core(lev, rng)' /\ Grows(lev, rng, lev, rng)
  <1>1. PICK x : x = thr[t] /\ x.at = "prop"
    BY DEF Prop
  <1>. DEFINE a == x.area
              p == bt[a][x.node]["prop"]
  <1>2. x.at \in WalkerAts /\ a \in Contexts
    BY <1>1, WalkerFacts DEF WalkerAts
  <1>3. CASE UNCHANGED memory /\ \E f \in BOOLEAN : thr' = [thr EXCEPT ![t] = Done(x, f)]
    <2>1. PICK f \in BOOLEAN : thr' = [thr EXCEPT ![t] = Done(x, f)]
      BY <1>3
    <2>2. PICK y : y = Done(x, f)
      OBVIOUS
    <2>3. UNCHANGED lists
      BY DEF Prop, lists
    <2>. QED BY <1>1, <1>2, <1>3, <2>1, <2>2, <2>3, MoveOn
  <1>4. CASE p = 0 /\ t = Init_ /\ Allocate(t, Empty, "prop")
    <2>1. /\ used[a] \in Nat /\ InfoSize \in Nat /\ AreaSize \in Nat
      BY <1>2, SizeAssumption DEF Core, MemInv
    <2>2. CASE used[a] + InfoSize > AreaSize
      <3>1. UNCHANGED memory /\ thr' = [thr EXCEPT ![t] = Done(x, FALSE)]
        BY <1>1, <1>4, <2>2 DEF Allocate
      <3>. QED BY <1>3, <3>1
    <2>3. CASE used[a] + InfoSize <= AreaSize
      BY <1>1, <1>4, <2>3, AllocInfo DEF Prop
    <2>. QED BY <2>1, <2>2, <2>3
  <1>. QED BY <1>1, <1>3, <1>4 DEF Follow, Prop

(* find_property at the children of a node *)
LEMMA LevelStep ==
  ASSUME NEW lev, NEW rng, Core(lev, rng), NEW t \in Threads, Level(t)
  PROVE  Core(lev, rng)' /\ Grows(lev, rng, lev, rng)
  <1>1. PICK x : x = thr[t] /\ x.at = "level"
    BY DEF Level
  <1>2. x.at \in WalkerAts /\ UNCHANGED lists
    BY <1>1 DEF WalkerAts, Level, lists
  <1>3. CASE UNCHANGED memory /\ thr' = [thr EXCEPT ![t] = Done(x, FALSE)]
    <2>1. PICK y : y = Done(x, FALSE)
      OBVIOUS
    <2>. QED BY <1>1, <1>2, <1>3, <2>1, MoveOn
  <1>4. CASE x.area # NoArea /\ Follow(t, x.name[x.i], "children")
    <2>1. /\ x.name \in Seq(Tokens) /\ x.i \in 1 .. Len(x.name)
          /\ x.area \in Contexts /\ Reached(lev, rng, x)
      BY <1>1, <1>2, <1>4, WalkerFacts
    <2>2. x.name[x.i] \in Tokens
      BY <2>1, PrefixStep
    <2>3. /\ SlotLev(bt[x.area], lev[x.area], x.node, "children") = SubSeq(x.name, 1, x.i - 1)
          /\ SlotRng(bt[x.area], rng[x.area], x.node, "children") = Tokens
      BY <1>1, <2>1 DEF Reached, SlotLev, SlotRng
    <2>4. PICK slot \in Slots : slot = "children"
      BY DEF Slots
    <2>5. PICK k : k = x.name[x.i]
      OBVIOUS
    <2>. QED BY <1>1, <1>2, <1>4, <2>1, <2>2, <2>3, <2>4, <2>5, FollowStep
  <1>. QED BY <1>1, <1>3, <1>4 DEF Level

(* find_prop_bt at a node of the binary tree *)
LEMMA SearchStep ==
  ASSUME NEW lev, NEW rng, Core(lev, rng), NEW t \in Threads, Search(t)
  PROVE  Core(lev, rng)' /\ Grows(lev, rng, lev, rng)
  <1>1. PICK x : x = thr[t] /\ x.at = "search"
    BY DEF Search
  <1>. DEFINE a == x.area
              k == x.name[x.i]
              here == bt[a][x.node].name
  <1>2. x.at \in WalkerAts /\ UNCHANGED lists
    BY <1>1 DEF WalkerAts, Search, lists
  <1>3. /\ x.name \in Seq(Tokens) /\ x.i \in 1 .. Len(x.name)
        /\ a \in Contexts /\ a # NoArea /\ Reached(lev, rng, x)
        /\ x.node \in DOMAIN lev[a] /\ Shape(bt[a], lev[a], rng[a])
    BY <1>1, <1>2, WalkerFacts DEF Tree
  <1>4. /\ x.node # 0 /\ lev[a][x.node] = SubSeq(x.name, 1, x.i - 1) /\ k \in rng[a][x.node]
        /\ Word(bt[a], lev[a], x.node) = Append(lev[a][x.node], here)
    BY <1>1, <1>3 DEF Reached, Word
  <1>5. /\ \A s \in {"left", "right"} :
             SlotLev(bt[a], lev[a], x.node, s) = SubSeq(x.name, 1, x.i - 1)
        /\ k < here => k \in SlotRng(bt[a], rng[a], x.node, "left")
        /\ k > here => k \in SlotRng(bt[a], rng[a], x.node, "right")
    BY <1>4 DEF SlotLev, SlotRng
  <1>6. CASE k < here /\ Follow(t, k, "left")
    <2>1. PICK slot \in Slots : slot = "left"
      BY DEF Slots
    <2>2. PICK j : j = k
      OBVIOUS
    <2>. QED BY <1>1, <1>2, <1>3, <1>5, <1>6, <2>1, <2>2, FollowStep
  <1>7. CASE k > here /\ Follow(t, k, "right")
    <2>1. PICK slot \in Slots : slot = "right"
      BY DEF Slots
    <2>2. PICK j : j = k
      OBVIOUS
    <2>. QED BY <1>1, <1>2, <1>3, <1>5, <1>7, <2>1, <2>2, FollowStep
  <1>8. CASE /\ k = here /\ UNCHANGED memory
             /\ thr' = [thr EXCEPT ![t] = IF x.i = Len(x.name)
                                            THEN Walker("prop", a, x.name, x.i, x.node)
                                            ELSE Walker("level", a, x.name, x.i + 1, x.node)]
    <2>1. /\ Word(bt[a], lev[a], x.node) = SubSeq(x.name, 1, x.i)
          /\ x.i = Len(x.name) => SubSeq(x.name, 1, x.i) = x.name
          /\ x.i # Len(x.name) => x.i + 1 \in 1 .. Len(x.name)
          /\ x.i + 1 - 1 = x.i
      <3>1. /\ SubSeq(x.name, 1, x.i) = Append(SubSeq(x.name, 1, x.i - 1), k)
            /\ SubSeq(x.name, 1, Len(x.name)) = x.name /\ Len(x.name) \in Nat
        BY <1>3, PrefixStep, LenProperties
      <3>2. Word(bt[a], lev[a], x.node) = SubSeq(x.name, 1, x.i)
        <4>1. PICK w, l : w = Word(bt[a], lev[a], x.node) /\ l = lev[a][x.node]
          OBVIOUS
        <4>2. w = Append(l, here) /\ l = SubSeq(x.name, 1, x.i - 1) /\ here = k
          BY <1>4, <1>8, <4>1
        <4>. QED BY <3>1, <4>1, <4>2
      <3>3. PICK m \in Nat, i \in Nat : m = Len(x.name) /\ i = x.i /\ 1 <= i /\ i <= m
        <4>1. PICK m \in Nat : m = Len(x.name)
          BY <3>1, Zenon
        <4>2. PICK i \in 1 .. m : i = x.i
          BY <1>3, <4>1, Zenon
        <4>3. i \in Nat /\ 1 <= i /\ i <= m
          BY ONLY <4>1, <4>2
        <4>. QED BY <4>1, <4>2, <4>3, Zenon
      <3>4. i + 1 - 1 = i /\ (i # m => i + 1 \in 1 .. m)
        BY <3>3
      <3>5. i = m => SubSeq(x.name, 1, i) = x.name
        BY <3>1, <3>3
      <3>. QED BY <3>2, <3>3, <3>4, <3>5, Zenon
    <2>2. CASE x.i = Len(x.name)
      <3>0. PICK at \in WalkerAts, i \in 1 .. Len(x.name) : at = "prop" /\ i = x.i
        BY <1>3 DEF WalkerAts
      <3>1. PICK y : y = Walker(at, a, x.name, i, x.node) /\ at = "prop" /\ i = x.i
        BY <3>0
      <3>2. y.at = "prop" /\ y.area = a /\ y.name = x.name /\ y.node = x.node
        BY <3>1 DEF Walker
      <3>3. Reached(lev, rng, y)
        BY <1>3, <2>1, <2>2, <3>2 DEF Reached
      <3>. QED BY <1>1, <1>2, <1>3, <1>8, <2>2, <3>1, <3>3, MoveOn
    <2>3. CASE x.i # Len(x.name)
      <3>0. PICK at \in WalkerAts, i \in 1 .. Len(x.name) : at = "level" /\ i = x.i + 1
        BY <2>1, <2>3 DEF WalkerAts
      <3>1. PICK y : y = Walker(at, a, x.name, i, x.node) /\ at = "level" /\ i = x.i + 1
        BY <3>0
      <3>2. y.at = "level" /\ y.area = a /\ y.name = x.name /\ y.i = x.i + 1 /\ y.node = x.node
        BY <3>1 DEF Walker
      <3>3. Reached(lev, rng, y)
        BY <1>3, <2>1, <3>2 DEF Reached
      <3>. QED BY <1>1, <1>2, <1>3, <1>8, <2>3, <3>1, <3>3, MoveOn
    <2>. QED BY <2>2, <2>3
  <1>. QED BY <1>1, <1>6, <1>7, <1>8 DEF Search

(* What init knows when it stores a pointer *)
LEMMA LinkFacts ==
  ASSUME NEW lev, NEW rng, Core(lev, rng), NEW x, x = thr[Init_], x.at = "link"
  PROVE  /\ Init_ \in Threads /\ unread = <<>> /\ LinkOK(lev, rng, x) /\ x.area \in Contexts
         /\ x.node \in DOMAIN lev[x.area] /\ x.node \in Nodes(x.area)
         /\ Tree(bt[x.area], lev[x.area], rng[x.area]) /\ Layout(x.area) /\ PropInv(lev, x.area)
         /\ Nodes(x.area) = DOMAIN lev[x.area] \cup NewNodes(x, x.area)
         /\ DOMAIN bt = Contexts /\ DOMAIN used = Contexts /\ DOMAIN info = Contexts
         /\ DOMAIN lev = Contexts /\ DOMAIN rng = Contexts /\ DOMAIN thr = Threads
  <1>1. Init_ \in Threads
    BY DEF Threads
  <1>2. unread = <<>>
    BY <1>1 DEF Core, ListInv
  <1>3. LinkOK(lev, rng, x)
    BY DEF Core, ThreadInv
  <1>4. x.area \in Contexts /\ x.node \in DOMAIN lev[x.area]
    BY <1>3 DEF LinkOK
  <1>. QED BY <1>1, <1>2, <1>3, <1>4 DEF Core, MemInv, ThreadInv

(* The property is linked to its node. *)
LEMMA LinkProp ==
  ASSUME NEW lev, NEW rng, Core(lev, rng), NEW x, x = thr[Init_], x.slot = "prop", Link
  PROVE  Core(lev, rng)' /\ Grows(lev, rng, lev, rng)
  <1>. DEFINE a == x.area
              node == x.node
              new == x.new
  <1>a. PICK y : y = Done(x, TRUE)
    OBVIOUS
  <1>1. /\ x.at = "link" /\ thr' = [thr EXCEPT ![Init_] = y] /\ UNCHANGED lists
        /\ bt' = [bt EXCEPT ![a][node]["prop"] = new] /\ used' = used /\ info' = info
    BY <1>a DEF Link
  <1>2. /\ Init_ \in Threads /\ unread = <<>> /\ LinkOK(lev, rng, x) /\ a \in Contexts
        /\ node \in DOMAIN lev[a] /\ node \in Nodes(a)
        /\ Tree(bt[a], lev[a], rng[a]) /\ Layout(a) /\ PropInv(lev, a)
        /\ Nodes(a) = DOMAIN lev[a] \cup NewNodes(x, a)
        /\ DOMAIN bt = Contexts /\ DOMAIN thr = Threads
    BY <1>1, LinkFacts
  <1>3. /\ x.name \in Names /\ Legal(x.name) /\ a = get_prop_area_for_name(x.name)
        /\ Word(bt[a], lev[a], node) = x.name
        /\ new \in DOMAIN info[a] /\ info[a][new] = x.name /\ new \in Nat
    BY <1>1, <1>2 DEF LinkOK, Layout
  <1>4. y.at = "done"
    BY <1>a DEF Done
  <1>5. /\ DOMAIN bt' = Contexts /\ DOMAIN thr' = Threads /\ thr'[Init_] = y
        /\ \A u \in Threads : u # Init_ => thr'[u] = thr[u]
        /\ \A c \in Contexts : c # a => bt'[c] = bt[c]
        /\ DOMAIN bt'[a] = Nodes(a) /\ \A o \in Nodes(a) : o # node => bt'[a][o] = bt[a][o]
        /\ bt'[a][node] = [bt[a][node] EXCEPT !["prop"] = new]
    BY <1>1, <1>2 DEF Nodes
  <1>6. /\ bt'[a][node] \in BtRec /\ bt'[a][node].name = bt[a][node].name
        /\ bt'[a][node].prop = new
        /\ \A s \in Slots : bt'[a][node][s] = bt[a][node][s]
    <2>1. PICK z \in BtRec : z = bt[a][node]
      BY <1>2 DEF Tree, Shape
    <2>2. PICK v : v = [z EXCEPT !["prop"] = new]
      OBVIOUS
    <2>3. v \in BtRec /\ v.name = z.name /\ v.prop = new /\ \A s \in Slots : v[s] = z[s]
      BY <1>3, <2>2 DEF BtRec, Slots
    <2>4. bt'[a][node] = v
      BY <1>5, <2>1, <2>2
    <2>. QED BY <2>1, <2>3, <2>4
  <1>7. DOMAIN lev[a] \subseteq Nodes(a)
    BY <1>2
  <1>8. \A o \in DOMAIN lev[a] : /\ bt'[a][o] \in BtRec /\ bt'[a][o].name = bt[a][o].name
                                 /\ \A s \in Slots : bt'[a][o][s] = bt[a][o][s]
    <2>1. \A o \in DOMAIN lev[a] : bt[a][o] \in BtRec
      BY <1>2 DEF Tree, Shape
    <2>2. ASSUME NEW o \in DOMAIN lev[a], o # node PROVE bt'[a][o] = bt[a][o]
      BY <1>5, <1>7, <2>2
    <2>. QED BY <1>6, <2>1, <2>2
  <1>9. /\ Tree(bt'[a], lev[a], rng[a])
        /\ \A o \in DOMAIN lev[a] : Word(bt'[a], lev[a], o) = Word(bt[a], lev[a], o)
    <2>1. PICK b, c : b = bt[a] /\ c = bt'[a]
      OBVIOUS
    <2>. QED BY <1>2, <1>5, <1>7, <1>8, <2>1, SameTree
  <1>10. Grows(lev, rng, lev, rng)
    BY <1>5, <1>8 DEF Grows
  <1>11. prefixes' = prefixes /\ contexts' = contexts /\ unread' = unread
    BY <1>1 DEF lists
  <1>12. ASSUME NEW n PROVE get_prop_area_for_name(n)' = get_prop_area_for_name(n)
    BY <1>11 DEF get_prop_area_for_name
  <1>13. \A c \in Contexts : NewNodes(thr[Init_], c) = {} /\ NewNodes(thr[Init_], c)' = {}
    BY <1>4, <1>5 DEF NewNodes
  <1>14. PropInv(lev, a)'
    <2>1. ASSUME NEW o \in DOMAIN lev[a], o # node PROVE bt'[a][o] = bt[a][o]
      BY <1>5, <1>7, <2>1
    <2>2. ASSUME NEW o \in DOMAIN lev[a], bt'[a][o].prop # 0
          PROVE  /\ bt'[a][o].prop \in DOMAIN info[a]
                 /\ info[a][bt'[a][o].prop] = Word(bt[a], lev[a], o)
                 /\ Word(bt[a], lev[a], o) \in Names /\ Legal(Word(bt[a], lev[a], o))
                 /\ get_prop_area_for_name(Word(bt[a], lev[a], o)) = a
      <3>1. CASE o = node
        BY <1>3, <1>6, <3>1
      <3>2. CASE o # node
        BY <1>2, <2>1, <2>2, <3>2 DEF PropInv
      <3>. QED BY <3>1, <3>2
    <2>. QED BY <1>1, <1>9, <1>12, <2>2 DEF PropInv
  <1>15. ASSUME NEW c \in Contexts
         PROVE  /\ Tree(bt'[c], lev[c], rng[c]) /\ Layout(c)' /\ PropInv(lev, c)'
                /\ Nodes(c)' = DOMAIN lev[c] \cup NewNodes(thr[Init_], c)'
    <2>1. /\ Tree(bt[c], lev[c], rng[c]) /\ Layout(c) /\ PropInv(lev, c)
          /\ Nodes(c) = DOMAIN lev[c] \cup NewNodes(thr[Init_], c)
      BY DEF Core, MemInv
    <2>2. Nodes(c)' = Nodes(c)
      BY <1>5 DEF Nodes
    <2>3. Layout(c)'
      BY <1>1, <2>1, <2>2 DEF Layout
    <2>4. CASE c = a
      BY <1>9, <1>13, <1>14, <2>1, <2>2, <2>3, <2>4
    <2>5. CASE c # a
      <3>1. bt'[c] = bt[c]
        BY <1>5, <2>5
      <3>2. PropInv(lev, c)'
        BY <1>1, <1>12, <2>1, <3>1 DEF PropInv
      <3>. QED BY <1>13, <2>1, <2>2, <2>3, <3>1, <3>2
    <2>. QED BY <2>4, <2>5
  <1>16. MemInv(lev, rng)'
    BY <1>1, <1>5, <1>15 DEF Core, MemInv
  <1>17. ListInv'
    BY <1>1, <1>2, ListKept DEF Core
  <1>18. ASSUME NEW u \in Threads PROVE ThreadOK(lev, rng, u, thr[u])'
    <2>1. CASE u = Init_
      <3>1. ThreadOK(lev, rng, Init_, y)'
        BY <1>4 DEF ThreadOK, WalkOK, WalkerAts
      <3>. QED BY <1>5, <2>1, <3>1
    <2>2. CASE u # Init_
      <3>1. PICK z : z = thr'[u] /\ ThreadOK(lev, rng, u, z)
        BY <1>5, <2>2 DEF Core, ThreadInv
      <3>2. WalkOK(lev, rng, u, z)'
        BY <1>10, <1>11, <3>1, WalkKept DEF ThreadOK
      <3>. QED BY <3>1, <3>2 DEF ThreadOK
    <2>. QED BY <2>1, <2>2
  <1>19. LinkOK(lev, rng, y)'
    BY <1>4 DEF LinkOK
  <1>. QED BY <1>5, <1>10, <1>16, <1>17, <1>18, <1>19 DEF Core, ThreadInv

(* A new node is linked: the trie has one node more. *)
LEMMA LinkNode ==
  ASSUME NEW lev, NEW rng, Core(lev, rng), NEW x, x = thr[Init_], x.slot # "prop", Link
  PROVE  \E l2, r2 : Core(l2, r2)' /\ Grows(lev, rng, l2, r2)
  <1>. DEFINE a == x.area
              node == x.node
              new == x.new
              slot == x.slot
              k == x.name[x.i]
  <1>a. PICK y : y = Walker("search", a, x.name, x.i, new)
    OBVIOUS
  <1>b. PICK la : la = Put(lev[a], new, SlotLev(bt[a], lev[a], node, slot))
    OBVIOUS
  <1>c. PICK ra : ra = Put(rng[a], new, SlotRng(bt[a], rng[a], node, slot))
    OBVIOUS
  <1>d. PICK l2 : l2 = [lev EXCEPT ![a] = la]
    OBVIOUS
  <1>e. PICK r2 : r2 = [rng EXCEPT ![a] = ra]
    OBVIOUS
  <1>1. /\ x.at = "link" /\ thr' = [thr EXCEPT ![Init_] = y] /\ UNCHANGED lists
        /\ bt' = [bt EXCEPT ![a][node][slot] = new] /\ used' = used /\ info' = info
    BY <1>a DEF Link
  <1>2. /\ Init_ \in Threads /\ unread = <<>> /\ LinkOK(lev, rng, x) /\ a \in Contexts
        /\ node \in DOMAIN lev[a] /\ node \in Nodes(a)
        /\ Tree(bt[a], lev[a], rng[a]) /\ Layout(a) /\ PropInv(lev, a)
        /\ Nodes(a) = DOMAIN lev[a] \cup NewNodes(x, a)
        /\ DOMAIN bt = Contexts /\ DOMAIN lev = Contexts /\ DOMAIN rng = Contexts
        /\ DOMAIN thr = Threads
    BY <1>1, LinkFacts
  <1>3. /\ x.name \in Names /\ Legal(x.name) /\ a = get_prop_area_for_name(x.name)
        /\ x.i \in 1 .. Len(x.name) /\ slot \in Slots /\ bt[a][node][slot] = 0
        /\ SlotLev(bt[a], lev[a], node, slot) = SubSeq(x.name, 1, x.i - 1)
        /\ k \in SlotRng(bt[a], rng[a], node, slot)
        /\ new \in Nat \ {0} /\ new \notin DOMAIN lev[a] /\ bt[a][new] = NewBt(k)
    BY <1>1, <1>2 DEF LinkOK
  <1>4. /\ y.at = "search" /\ y.area = a /\ y.name = x.name /\ y.i = x.i /\ y.node = new
    BY <1>a DEF Walker
  <1>5. /\ DOMAIN bt' = Contexts /\ DOMAIN thr' = Threads /\ thr'[Init_] = y
        /\ \A u \in Threads : u # Init_ => thr'[u] = thr[u]
        /\ \A c \in Contexts : c # a => bt'[c] = bt[c]
        /\ bt'[a] = [bt[a] EXCEPT ![node][slot] = new] /\ DOMAIN bt'[a] = Nodes(a)
        /\ DOMAIN l2 = Contexts /\ DOMAIN r2 = Contexts /\ l2[a] = la /\ r2[a] = ra
        /\ \A c \in Contexts : c # a => l2[c] = lev[c] /\ r2[c] = rng[c]
    BY <1>1, <1>2, <1>d, <1>e DEF Nodes
  <1>6. Nodes(a) = DOMAIN lev[a] \cup {new}
    BY <1>1, <1>2 DEF NewNodes
  <1>7. /\ Tree(bt'[a], la, ra)
        /\ \A q \in DOMAIN lev[a] : /\ bt'[a][q].name = bt[a][q].name /\ bt'[a][q].prop = bt[a][q].prop
                                    /\ Word(bt'[a], la, q) = Word(bt[a], lev[a], q)
        /\ bt'[a][new] = bt[a][new]
    <2>1. PICK b, c : b = bt[a] /\ c = bt'[a]
      OBVIOUS
    <2>2. new \in DOMAIN b
      BY <1>6, <2>1 DEF Nodes
    <2>3. PICK lv, rg : lv = lev[a] /\ rg = rng[a]
      OBVIOUS
    <2>4. Linking(b, lv, rg, node, slot, k, new, c, la, ra)
      BY <1>2, <1>3, <1>5, <1>b, <1>c, <2>1, <2>2, <2>3 DEF Linking
    <2>5. /\ Tree(c, la, ra)
          /\ \A q \in DOMAIN lv : /\ c[q].name = b[q].name /\ c[q].prop = b[q].prop
                                  /\ Word(c, la, q) = Word(b, lv, q)
          /\ c[new] = b[new]
      BY <2>4, LinkTree
    <2>. QED BY <2>1, <2>3, <2>5
  <1>8. /\ DOMAIN la = DOMAIN lev[a] \cup {new}
        /\ la[new] = SubSeq(x.name, 1, x.i - 1) /\ k \in ra[new]
        /\ \A q \in DOMAIN lev[a] : la[q] = lev[a][q] /\ ra[q] = rng[a][q]
    <2>1. DOMAIN rng[a] = DOMAIN lev[a]
      BY <1>2 DEF Tree, Shape
    <2>. QED BY <1>3, <1>b, <1>c, <2>1 DEF Put
  <1>9. Grows(lev, rng, l2, r2)
    <2>1. ASSUME NEW c \in Contexts, NEW o \in DOMAIN lev[c]
          PROVE  /\ o \in DOMAIN l2[c] /\ l2[c][o] = lev[c][o] /\ r2[c][o] = rng[c][o]
                 /\ bt'[c][o].name = bt[c][o].name
      <3>1. CASE c = a
        BY <1>5, <1>7, <1>8, <2>1, <3>1
      <3>2. CASE c # a
        BY <1>5, <2>1, <3>2
      <3>. QED BY <3>1, <3>2
    <2>. QED BY <2>1 DEF Grows
  <1>11. prefixes' = prefixes /\ contexts' = contexts /\ unread' = unread
    BY <1>1 DEF lists
  <1>12. ASSUME NEW n PROVE get_prop_area_for_name(n)' = get_prop_area_for_name(n)
    BY <1>11 DEF get_prop_area_for_name
  <1>13. /\ \A c \in Contexts : c # a => NewNodes(thr[Init_], c) = {}
         /\ \A c \in Contexts : NewNodes(thr[Init_], c)' = {}
    <2>1. \A c : NewNodes(y, c) = {}
      BY <1>4 DEF NewNodes
    <2>2. \A c : c # a => NewNodes(x, c) = {}
      BY DEF NewNodes
    <2>. QED BY <1>5, <2>1, <2>2
  <1>14. PropInv(l2, a)'
    <2>1. bt'[a][new].prop = 0
      <3>1. bt'[a][new] = NewBt(k)
        BY <1>3, <1>7
      <3>2. NewBt(k).prop = 0
        BY DEF NewBt
      <3>. QED BY <3>1, <3>2
    <2>2. ASSUME NEW o \in DOMAIN la, bt'[a][o].prop # 0
          PROVE  o \in DOMAIN lev[a]
      BY <1>8, <2>1, <2>2
    <2>3. ASSUME NEW o \in DOMAIN la, bt'[a][o].prop # 0
          PROVE  /\ bt'[a][o].prop \in DOMAIN info[a]
                 /\ info[a][bt'[a][o].prop] = Word(bt'[a], la, o)
                 /\ Word(bt'[a], la, o) \in Names /\ Legal(Word(bt'[a], la, o))
                 /\ get_prop_area_for_name(Word(bt'[a], la, o)) = a
      <3>1. o \in DOMAIN lev[a] /\ bt[a][o].prop # 0 /\ bt'[a][o].prop = bt[a][o].prop
        BY <1>7, <2>2, <2>3
      <3>2. Word(bt'[a], la, o) = Word(bt[a], lev[a], o)
        BY <1>7, <3>1
      <3>. QED BY <1>2, <3>1, <3>2 DEF PropInv
    <2>. QED BY <1>1, <1>5, <1>12, <2>3 DEF PropInv
  <1>15. ASSUME NEW c \in Contexts
         PROVE  /\ Tree(bt'[c], l2[c], r2[c]) /\ Layout(c)' /\ PropInv(l2, c)'
                /\ Nodes(c)' = DOMAIN l2[c] \cup NewNodes(thr[Init_], c)'
    <2>1. /\ Tree(bt[c], lev[c], rng[c]) /\ Layout(c) /\ PropInv(lev, c)
          /\ Nodes(c) = DOMAIN lev[c] \cup NewNodes(thr[Init_], c)
      BY DEF Core, MemInv
    <2>2. Nodes(c)' = Nodes(c)
      BY <1>5 DEF Nodes
    <2>3. Layout(c)'
      BY <1>1, <2>1, <2>2 DEF Layout
    <2>4. CASE c = a
      <3>1. l2[c] = la /\ r2[c] = ra /\ NewNodes(thr[Init_], c)' = {}
        BY <1>5, <1>13, <2>4
      <3>2. Tree(bt'[c], l2[c], r2[c])
        BY <1>7, <2>4, <3>1
      <3>3. Nodes(c)' = DOMAIN l2[c]
        BY <1>6, <1>8, <2>2, <2>4, <3>1
      <3>4. PropInv(l2, c)'
        BY <1>14, <2>4
      <3>. QED BY <2>3, <3>1, <3>2, <3>3, <3>4
    <2>5. CASE c # a
      <3>1. bt'[c] = bt[c] /\ l2[c] = lev[c] /\ r2[c] = rng[c]
        BY <1>5, <2>5
      <3>2. PropInv(l2, c)'
        BY <1>1, <1>12, <2>1, <3>1 DEF PropInv
      <3>. QED BY <1>13, <2>1, <2>2, <2>3, <2>5, <3>1, <3>2
    <2>. QED BY <2>4, <2>5
  <1>16. MemInv(l2, r2)'
    BY <1>1, <1>5, <1>15 DEF Core, MemInv
  <1>17. ListInv'
    BY <1>1, <1>2, ListKept DEF Core
  <1>18. ASSUME NEW u \in Threads PROVE ThreadOK(l2, r2, u, thr[u])'
    <2>1. CASE u = Init_
      <3>1. Reached(l2, r2, y)'
        BY <1>3, <1>4, <1>5, <1>8 DEF Reached
      <3>2. a # NoArea
        BY <1>2, LinesAssumption
      <3>3. ThreadOK(l2, r2, Init_, y)'
        BY <1>2, <1>3, <1>4, <1>12, <3>1, <3>2 DEF ThreadOK, WalkOK, WalkerAts
      <3>. QED BY <1>5, <2>1, <3>3
    <2>2. CASE u # Init_
      <3>1. PICK z : z = thr'[u] /\ ThreadOK(lev, rng, u, z)
        BY <1>5, <2>2 DEF Core, ThreadInv
      <3>2. WalkOK(l2, r2, u, z)'
        BY <1>9, <1>11, <3>1, WalkKept DEF ThreadOK
      <3>. QED BY <3>1, <3>2 DEF ThreadOK
    <2>. QED BY <2>1, <2>2
  <1>19. LinkOK(l2, r2, y)'
    BY <1>4 DEF LinkOK
  <1>20. Core(l2, r2)'
    BY <1>5, <1>16, <1>17, <1>18, <1>19 DEF Core, ThreadInv
  <1>. QED BY <1>9, <1>20

(* What InsertAt returns *)
Inserted(s, i, e, r) ==
  /\ Len(r) = Len(s) + 1
  /\ \A j \in 1 .. Len(s) + 1 : r[j] = IF j < i THEN s[j] ELSE IF j = i THEN e ELSE s[j - 1]

(* InsertAt puts one element where it says and moves the rest up. *)
LEMMA InsertFacts ==
  ASSUME NEW S, NEW s \in Seq(S), NEW i \in 1 .. Len(s) + 1, NEW e \in S
  PROVE  InsertAt(s, i, e) \in Seq(S) /\ Inserted(s, i, e, InsertAt(s, i, e))
  <1>0. PICK r, u, v, w : /\ r = InsertAt(s, i, e) /\ u = SubSeq(s, 1, i - 1)
                          /\ v = SubSeq(s, i, Len(s)) /\ w = u \o <<e>>
    OBVIOUS
  <1>1. Len(s) \in Nat /\ i \in Nat
    BY LenProperties
  <1>2. /\ u \in Seq(S) /\ Len(u) = i - 1 /\ \A j \in 1 .. i - 1 : u[j] = s[j]
    BY <1>0, <1>1, SubSeqProperties
  <1>3. /\ v \in Seq(S) /\ Len(v) = Len(s) - i + 1
        /\ \A j \in 1 .. Len(s) - i + 1 : v[j] = s[i + j - 1]
    BY <1>0, <1>1
  <1>4. /\ w \in Seq(S) /\ Len(w) = i
        /\ \A j \in 1 .. i : w[j] = IF j < i THEN s[j] ELSE e
    <2>0. <<e>> \in Seq(S) /\ Len(<<e>>) = 1 /\ <<e>>[1] = e
      OBVIOUS
    <2>1. PICK x \in Seq(S) : x = <<e>> /\ Len(x) = 1 /\ x[1] = e
      BY <2>0, Zenon
    <2>2. /\ u \o x \in Seq(S) /\ Len(u \o x) = Len(u) + Len(x)
          /\ \A j \in 1 .. Len(u) + Len(x) :
               (u \o x)[j] = IF j <= Len(u) THEN u[j] ELSE x[j - Len(u)]
      BY <1>2, ConcatProperties
    <2>3. w = u \o x /\ Len(u) + Len(x) = i /\ Len(u) = i - 1
      BY <1>0, <1>1, <1>2, <2>1
    <2>4. ASSUME NEW j \in 1 .. i PROVE w[j] = IF j < i THEN s[j] ELSE e
      <3>1. w[j] = IF j <= i - 1 THEN u[j] ELSE x[j - (i - 1)]
        BY <2>2, <2>3
      <3>2. CASE j < i
        <4>1. j \in 1 .. i - 1
          BY <1>1, <3>2
        <4>. QED BY <1>1, <1>2, <3>1, <3>2, <4>1
      <3>3. CASE j = i
        BY <1>1, <2>1, <3>1, <3>3
      <3>. QED BY <1>1, <3>2, <3>3
    <2>. QED BY <2>2, <2>3, <2>4
  <1>5. r = w \o v
    BY <1>0 DEF InsertAt
  <1>6. /\ r \in Seq(S) /\ Len(r) = i + (Len(s) - i + 1)
        /\ \A j \in 1 .. i + (Len(s) - i + 1) : r[j] = IF j <= i THEN w[j] ELSE v[j - i]
    <2>1. /\ w \o v \in Seq(S) /\ Len(w \o v) = Len(w) + Len(v)
          /\ \A j \in 1 .. Len(w) + Len(v) :
               (w \o v)[j] = IF j <= Len(w) THEN w[j] ELSE v[j - Len(w)]
      BY <1>3, <1>4, ConcatProperties
    <2>. QED BY <1>3, <1>4, <1>5, <2>1
  <1>7. PICK m \in Nat : m = Len(s)
    BY <1>1
  <1>8. i + (m - i + 1) = m + 1
    BY <1>1
  <1>9. ASSUME NEW j \in 1 .. m + 1
        PROVE  r[j] = IF j < i THEN s[j] ELSE IF j = i THEN e ELSE s[j - 1]
    <2>1. r[j] = IF j <= i THEN w[j] ELSE v[j - i]
      BY <1>6, <1>7, <1>8
    <2>2. CASE j <= i
      <3>1. j \in 1 .. i
        BY <1>1, <2>2
      <3>2. w[j] = IF j < i THEN s[j] ELSE e
        BY <1>4, <3>1
      <3>. QED BY <1>1, <2>1, <2>2, <3>2
    <2>3. CASE j > i
      <3>1. j - i \in 1 .. m - i + 1 /\ i + (j - i) - 1 = j - 1
        BY <1>1, <2>3
      <3>2. v[j - i] = s[i + (j - i) - 1]
        BY <1>3, <1>7, <3>1
      <3>. QED BY <1>1, <2>1, <2>3, <3>1, <3>2
    <2>. QED BY <1>1, <2>2, <2>3
  <1>. QED BY <1>0, <1>6, <1>7, <1>8, <1>9 DEF Inserted

(* Where list_add_after_len puts a line *)
LEMMA AddFacts ==
  ASSUME NEW list \in Seq(LineSet), NEW p \in LineSet
  PROVE  \E at \in 1 .. Len(list) + 1 :
           /\ list_add_after_len(list, p) = InsertAt(list, at, p)
           /\ at <= Len(list) => list[at].len < p.len \/ list[at].prefix = Star
           /\ \A j \in 1 .. at - 1 : ~ (list[j].len < p.len \/ list[j].prefix = Star)
  <1>. DEFINE Before(i) == list[i].len < p.len \/ list[i].prefix = Star
              OK(i) == (i <= Len(list) => Before(i)) /\ \A j \in 1 .. i - 1 : ~ Before(j)
              at == CHOOSE i \in 1 .. Len(list) + 1 : OK(i)
  <1>1. PICK m \in Nat : m = Len(list)
    BY LenProperties
  <1>. HIDE DEF Before
  <1>2. PICK T : T = {i \in 1 .. m : Before(i)} \cup {m + 1}
    OBVIOUS
  <1>3. PICK i \in T : \A j \in T : i <= j
    <2>1. T \in SUBSET Nat /\ T # {}
      BY <1>2
    <2>. QED BY <2>1, NatMin
  <1>4. i \in 1 .. m + 1 /\ i \in Nat
    BY <1>2
  <1>5. i <= m => Before(i)
    BY <1>2, <1>4
  <1>6. \A j \in 1 .. i - 1 : ~ Before(j)
    BY <1>2, <1>3, <1>4
  <1>7. at \in 1 .. Len(list) + 1 /\ OK(at)
    BY <1>1, <1>4, <1>5, <1>6
  <1>8. list_add_after_len(list, p) = InsertAt(list, at, p)
    BY DEF list_add_after_len, Before
  <1>. QED BY <1>7, <1>8 DEF Before

(* An element in front of a sequence *)
LEMMA PushFacts ==
  ASSUME NEW S, NEW s \in Seq(S), NEW e \in S, NEW r, r = <<e>> \o s
  PROVE  /\ r \in Seq(S) /\ Len(r) = Len(s) + 1 /\ r[1] = e /\ Len(s) \in Nat
         /\ \A j \in 1 .. Len(s) + 1 : j # 1 => j - 1 \in 1 .. Len(s) /\ r[j] = s[j - 1]
         /\ \A j \in 1 .. Len(s) : j + 1 \in 1 .. Len(s) + 1 /\ j + 1 # 1 /\ r[j + 1] = s[j]
  OBVIOUS

(* A sequence without its first element *)
Popped(s, r) ==
  /\ Len(s) = Len(r) + 1 /\ Len(r) \in Nat /\ Head(s) = s[1] /\ 1 \in 1 .. Len(s)
  /\ \A j \in 1 .. Len(r) : j + 1 \in 1 .. Len(s) /\ r[j] = s[j + 1]
  /\ \A j \in 1 .. Len(s) : j # 1 => j - 1 \in 1 .. Len(r) /\ s[j] = r[j - 1]

(* Tail takes away the first element and no other. *)
LEMMA TailFacts ==
  ASSUME NEW S, NEW s \in Seq(S), s # <<>>
  PROVE  Head(s) \in S /\ Tail(s) \in Seq(S) /\ Popped(s, Tail(s))
  <1>0. PICK r : r = Tail(s)
    OBVIOUS
  <1>1. /\ Head(s) \in S /\ r \in Seq(S) /\ Len(r) = Len(s) - 1 /\ Len(s) \in Nat
        /\ \A j \in 1 .. Len(r) : r[j] = s[j + 1]
    BY <1>0, HeadTailProperties, LenProperties
  <1>2. Head(s) = s[1] /\ Len(r) \in Nat
    BY LenProperties, <1>1
  <1>3. PICK m \in Nat, n \in Nat : m = Len(r) /\ n = Len(s) /\ n = m + 1
    BY <1>1, <1>2
  <1>4. ASSUME NEW j \in 1 .. n, j # 1 PROVE j - 1 \in 1 .. m /\ s[j] = r[j - 1]
    <2>1. j - 1 \in 1 .. m /\ j - 1 + 1 = j
      BY <1>3, <1>4
    <2>2. r[j - 1] = s[j - 1 + 1]
      BY <1>1, <1>3, <2>1
    <2>. QED BY <2>1, <2>2
  <1>5. ASSUME NEW j \in 1 .. m PROVE j + 1 \in 1 .. n /\ r[j] = s[j + 1]
    <2>1. j + 1 \in 1 .. n
      BY <1>3
    <2>. QED BY <1>1, <1>3, <2>1
  <1>6. 1 \in 1 .. n
    BY <1>3
  <1>7. Popped(s, r)
    BY <1>2, <1>3, <1>4, <1>5, <1>6, Zenon DEF Popped
  <1>. QED BY <1>0, <1>1, <1>7

(* An element that a sequence without repetitions does not have is put in  *)
(* front of it.                                                            *)
LEMMA PushNew ==
  ASSUME NEW S, NEW s \in Seq(S), NEW e \in S, NoRepeats(s), ~ Contains(s, e)
  PROVE  /\ <<e>> \o s \in Seq(S) /\ NoRepeats(<<e>> \o s)
         /\ HasAll(<<e>> \o s, s) /\ Contains(<<e>> \o s, e)
  <1>0. PICK r : r = <<e>> \o s
    OBVIOUS
  <1>1. /\ r \in Seq(S) /\ Len(r) = Len(s) + 1 /\ r[1] = e /\ Len(s) \in Nat
        /\ \A j \in 1 .. Len(s) + 1 : j # 1 => j - 1 \in 1 .. Len(s) /\ r[j] = s[j - 1]
        /\ \A j \in 1 .. Len(s) : j + 1 \in 1 .. Len(s) + 1 /\ j + 1 # 1 /\ r[j + 1] = s[j]
    BY <1>0, PushFacts
  <1>2. ASSUME NEW j \in 1 .. Len(r), j # 1 PROVE j - 1 \in 1 .. Len(s) /\ r[j] = s[j - 1] /\ r[j] # e
    <2>1. j - 1 \in 1 .. Len(s) /\ r[j] = s[j - 1]
      BY <1>1, <1>2
    <2>. QED BY <2>1 DEF Contains
  <1>3. ASSUME NEW i \in 1 .. Len(r), NEW j \in 1 .. Len(r), r[i] = r[j] PROVE i = j
    <2>1. CASE i = 1
      BY <1>1, <1>2, <1>3, <2>1
    <2>2. CASE j = 1
      BY <1>1, <1>2, <1>3, <2>2
    <2>3. CASE i # 1 /\ j # 1
      <3>1. i - 1 \in 1 .. Len(s) /\ j - 1 \in 1 .. Len(s) /\ s[i - 1] = s[j - 1]
        BY <1>2, <1>3, <2>3
      <3>2. i - 1 = j - 1
        BY <3>1 DEF NoRepeats
      <3>. QED BY <3>2
    <2>. QED BY <2>1, <2>2, <2>3
  <1>4. Contains(r, e)
    BY <1>1 DEF Contains
  <1>5. HasAll(r, s)
    BY <1>1 DEF HasAll
  <1>6. NoRepeats(r)
    BY <1>3 DEF NoRepeats
  <1>. QED BY <1>0, <1>1, <1>4, <1>5, <1>6

(* One line of property_contexts *)
LEMMA ReadLineStep ==
  ASSUME NEW lev, NEW rng, Core(lev, rng), ReadLine
  PROVE  Core(lev, rng)' /\ Grows(lev, rng, lev, rng)
  <1>1. /\ unread # <<>> /\ unread' = Tail(unread) /\ used' = used /\ bt' = bt /\ info' = info
        /\ thr' = thr
    BY DEF ReadLine, memory
  <1>2. PICK l : l = Head(unread)
    OBVIOUS
  <1>3. /\ unread \in Seq(LineSet) /\ prefixes \in Seq(LineSet) /\ contexts \in Seq(Contexts)
        /\ NoRepeats(contexts)
        /\ \A i \in 1 .. Len(prefixes) : \E j \in 1 .. Len(contexts) : contexts[j] = prefixes[i].context
        /\ \A t \in Threads : thr[t].at = "idle"
        /\ \A a \in Contexts : \A o \in Nodes(a) : bt[a][o].prop = 0
    BY <1>1 DEF Core, ListInv
  <1>4. l \in LineSet /\ unread' \in Seq(LineSet)
    BY <1>1, <1>2, <1>3, TailFacts
  <1>5. l.context \in Contexts
    BY <1>4 DEF LineSet, Contexts
  <1>6. /\ \A t \in Threads : thr'[t].at = "idle"
        /\ \A a \in Contexts : \A o \in Nodes(a)' : bt'[a][o].prop = 0
    BY <1>1, <1>3 DEF Nodes
  <1>7. ASSUME prefixes' = prefixes, contexts' = contexts PROVE ListInv'
    BY <1>3, <1>4, <1>6, <1>7 DEF ListInv
  <1>8. ASSUME prefixes' = list_add_after_len(prefixes, l),
               contexts' = IF Contains(contexts, l.context) THEN contexts
                           ELSE <<l.context>> \o contexts
        PROVE  ListInv'
    <2>1. PICK at \in 1 .. Len(prefixes) + 1 : prefixes' = InsertAt(prefixes, at, l)
      BY <1>3, <1>4, <1>8, AddFacts
    <2>2. /\ prefixes' \in Seq(LineSet) /\ Len(prefixes') = Len(prefixes) + 1
          /\ Len(prefixes) \in Nat
          /\ \A j \in 1 .. Len(prefixes) + 1 :
               prefixes'[j] = IF j < at THEN prefixes[j]
                              ELSE IF j = at THEN l ELSE prefixes[j - 1]
      <3>1. PICK p \in Seq(LineSet) : p = prefixes
        BY <1>3
      <3>2. PICK r : r = prefixes'
        OBVIOUS
      <3>3. r = InsertAt(p, at, l) /\ at \in 1 .. Len(p) + 1 /\ Len(p) \in Nat
        BY <2>1, <3>1, <3>2, LenProperties
      <3>4. r \in Seq(LineSet) /\ Inserted(p, at, l, r)
        BY <1>4, <3>3, InsertFacts
      <3>. QED BY <3>1, <3>2, <3>3, <3>4 DEF Inserted
    <2>3. \A j \in 1 .. Len(prefixes') : \/ prefixes'[j] = l
                                         \/ \E i \in 1 .. Len(prefixes) : prefixes'[j] = prefixes[i]
      <3>. SUFFICES ASSUME NEW j \in 1 .. Len(prefixes')
                    PROVE  \/ prefixes'[j] = l
                           \/ \E i \in 1 .. Len(prefixes) : prefixes'[j] = prefixes[i]
        OBVIOUS
      <3>1. CASE j < at
        <4>1. j \in 1 .. Len(prefixes) /\ prefixes'[j] = prefixes[j]
          BY <2>2, <3>1
        <4>. QED BY <4>1
      <3>2. CASE j = at
        BY <2>2, <3>2
      <3>3. CASE j > at
        <4>1. j - 1 \in 1 .. Len(prefixes) /\ prefixes'[j] = prefixes[j - 1]
          BY <2>2, <3>3
        <4>. QED BY <4>1
      <3>. QED BY <2>2, <3>1, <3>2, <3>3
    <2>4. /\ contexts' \in Seq(Contexts)
          /\ NoRepeats(contexts')
          /\ HasAll(contexts', contexts)
          /\ Contains(contexts', l.context)
      <3>1. CASE Contains(contexts, l.context)
        BY <1>3, <1>8, <3>1 DEF HasAll
      <3>2. CASE ~ Contains(contexts, l.context)
        <4>1. PICK s \in Seq(Contexts), e \in Contexts : s = contexts /\ e = l.context
          BY <1>3, <1>5
        <4>2. PICK r : r = contexts' /\ r = <<e>> \o s
          BY <1>8, <3>2, <4>1
        <4>3. NoRepeats(s) /\ ~ Contains(s, e)
          BY <1>3, <3>2, <4>1
        <4>4. /\ <<e>> \o s \in Seq(Contexts) /\ NoRepeats(<<e>> \o s)
              /\ HasAll(<<e>> \o s, s) /\ Contains(<<e>> \o s, e)
          BY <4>3, PushNew
        <4>. QED BY <4>1, <4>2, <4>4
      <3>. QED BY <3>1, <3>2
    <2>5. \A i \in 1 .. Len(prefixes') : \E j \in 1 .. Len(contexts') : contexts'[j] = prefixes'[i].context
      <3>. SUFFICES ASSUME NEW i \in 1 .. Len(prefixes')
                    PROVE  \E j \in 1 .. Len(contexts') : contexts'[j] = prefixes'[i].context
        OBVIOUS
      <3>1. CASE prefixes'[i] = l
        BY <2>4, <3>1 DEF Contains
      <3>2. CASE \E h \in 1 .. Len(prefixes) : prefixes'[i] = prefixes[h]
        <4>1. PICK h \in 1 .. Len(prefixes) : prefixes'[i] = prefixes[h]
          BY <3>2
        <4>2. PICK j \in 1 .. Len(contexts) : contexts[j] = prefixes[h].context
          BY <1>3
        <4>. QED BY <2>4, <4>1, <4>2 DEF HasAll
      <3>. QED BY <2>3, <3>1, <3>2
    <2>6. prefixes' \in Seq(LineSet)
      BY <2>2
    <2>. QED BY <1>4, <1>6, <2>4, <2>5, <2>6, Zenon DEF ListInv
  <1>9. ListInv'
    BY <1>2, <1>7, <1>8 DEF ReadLine
  <1>10. Grows(lev, rng, lev, rng)
    BY <1>1 DEF Grows
  <1>11. MemInv(lev, rng)'
    <2>1. ASSUME NEW a \in Contexts
          PROVE  /\ Layout(a)' /\ PropInv(lev, a)'
                 /\ Nodes(a)' = DOMAIN lev[a] \cup NewNodes(thr[Init_], a)'
      <3>1. /\ Layout(a) /\ Nodes(a) = DOMAIN lev[a] \cup NewNodes(thr[Init_], a)
        BY DEF Core, MemInv
      <3>2. Layout(a)'
        BY <1>1, <3>1 DEF Layout, Nodes
      <3>3. PropInv(lev, a)'
        BY <1>1, <1>3, <3>1 DEF PropInv
      <3>. QED BY <1>1, <3>1, <3>2, <3>3 DEF Nodes, NewNodes
    <2>. QED BY <1>1, <2>1 DEF Core, MemInv
  <1>12. ThreadInv(lev, rng)'
    <2>1. DOMAIN thr' = Threads /\ Init_ \in Threads
      BY <1>1 DEF Core, ThreadInv, Threads
    <2>2. ASSUME NEW t \in Threads PROVE ThreadOK(lev, rng, t, thr[t])'
      BY <1>6, <2>2 DEF ThreadOK, WalkOK, WalkerAts
    <2>3. LinkOK(lev, rng, thr[Init_])'
      BY <1>6, <2>1 DEF LinkOK
    <2>. QED BY <2>1, <2>2, <2>3 DEF ThreadInv
  <1>. QED BY <1>9, <1>10, <1>11, <1>12 DEF Core

(* A foreach moves on, begins or ends: to the trie that is a thread that   *)
(* does not look anything up.                                              *)
LEMMA ForeachStep ==
  ASSUME NEW lev, NEW rng, Core(lev, rng), NEW r \in Readers,
         BeginForeach(r) \/ Visit(r) \/ EndForeach(r)
  PROVE  Core(lev, rng)' /\ Grows(lev, rng, lev, rng)
  <1>0. r \in Threads /\ r # Init_
    BY ThreadsAssumption DEF Threads
  <1>1. UNCHANGED <<lists, memory>> /\ thr[r].at # "link"
    BY DEF BeginForeach, Visit, EndForeach, lists, memory
  <1>2. unread = <<>>
    BY <1>0 DEF BeginForeach, Visit, EndForeach, Core, ListInv
  <1>3. PICK y : thr' = [thr EXCEPT ![r] = y] /\ y.at \in {"idle", "foreach"}
    <2>1. \A st : Foreach(st).at = "foreach"
      BY DEF Foreach
    <2>2. Idle.at = "idle"
      BY DEF Idle
    <2>3. CASE BeginForeach(r)
      BY <2>1, <2>3 DEF BeginForeach
    <2>4. CASE Visit(r)
      BY <2>1, <2>4 DEF Visit
    <2>5. CASE EndForeach(r)
      BY <2>2, <2>5 DEF EndForeach
    <2>. QED BY <2>3, <2>4, <2>5
  <1>4. ThreadOK(lev, rng, r, y) /\ y.at # "link"
    BY <1>0, <1>3 DEF ThreadOK, WalkOK, WalkerAts
  <1>. QED BY <1>0, <1>1, <1>2, <1>3, <1>4, Quiet

(* The attributes at the start: there are the roots. *)
LEMMA CoreInit ==
  ASSUME Init
  PROVE  \E lev, rng : Core(lev, rng)
  <1>1. PICK lev : lev = [a \in Contexts |-> [o \in {0} |-> <<>>]]
    OBVIOUS
  <1>2. PICK rng : rng = [a \in Contexts |-> [o \in {0} |-> {}]]
    OBVIOUS
  <1>3. ListInv
    <2>1. /\ unread \in Seq(LineSet) /\ prefixes = <<>> /\ contexts = <<>>
      BY LinesAssumption DEF Init
    <2>2. \A t \in Threads : thr[t].at = "idle"
      BY DEF Init, Idle
    <2>3. \A a \in Contexts : \A o \in Nodes(a) : bt[a][o].prop = 0
      BY DEF Init, Nodes, NewBt
    <2>. QED BY <2>1, <2>2, <2>3 DEF ListInv, NoRepeats
  <1>4. ASSUME NEW a \in Contexts
        PROVE  /\ Tree(bt[a], lev[a], rng[a]) /\ Layout(a) /\ PropInv(lev, a)
               /\ Nodes(a) = DOMAIN lev[a] \cup NewNodes(thr[Init_], a)
    <2>1. bt[a] = [o \in {0} |-> NewBt(Empty)] /\ info[a] = <<>> /\ used[a] = BtSize
      BY DEF Init
    <2>2. lev[a] = [o \in {0} |-> <<>>] /\ rng[a] = [o \in {0} |-> {}]
      BY <1>1, <1>2
    <2>3. Tree(bt[a], lev[a], rng[a])
      <3>1. PICK b, l, g : b = bt[a] /\ l = lev[a] /\ g = rng[a]
        OBVIOUS
      <3>. QED BY <2>1, <2>2, <3>1, RootTree
    <2>4. Layout(a)
      <3>1. Nodes(a) = {0} /\ DOMAIN info[a] = {}
        BY <2>1 DEF Nodes
      <3>. QED BY <2>1, <3>1, SizeAssumption DEF Layout
    <2>5. PropInv(lev, a)
      BY <2>1, <2>2 DEF PropInv, NewBt
    <2>6. NewNodes(thr[Init_], a) = {}
      BY DEF Init, NewNodes, Idle, Threads
    <2>. QED BY <2>1, <2>2, <2>3, <2>4, <2>5, <2>6 DEF Nodes
  <1>5. MemInv(lev, rng)
    <2>1. used \in [Contexts -> Nat] /\ DOMAIN bt = Contexts /\ DOMAIN info = Contexts
      BY SizeAssumption DEF Init
    <2>. QED BY <1>1, <1>2, <1>4, <2>1 DEF MemInv
  <1>6. ThreadInv(lev, rng)
    <2>1. DOMAIN thr = Threads /\ Init_ \in Threads /\ \A t \in Threads : thr[t].at = "idle"
      BY DEF Init, Threads, Idle
    <2>. QED BY <2>1 DEF ThreadInv, ThreadOK, WalkOK, LinkOK, WalkerAts
  <1>. QED BY <1>3, <1>5, <1>6 DEF Core

(* Every step keeps the invariant, for attributes that at most grow. *)
LEMMA CoreStep ==
  ASSUME NEW lev, NEW rng, Core(lev, rng), [Next]_vars
  PROVE  \E l2, r2 : Core(l2, r2)' /\ Grows(lev, rng, l2, r2)
  <1>1. CASE ReadLine
    BY <1>1, ReadLineStep
  <1>2. ASSUME NEW t \in Threads, Walk(t)
        PROVE  Core(lev, rng)' /\ Grows(lev, rng, lev, rng)
    BY <1>2, LevelStep, SearchStep, PropStep DEF Walk
  <1>3. CASE Link
    <2>1. PICK x : x = thr[Init_]
      OBVIOUS
    <2>. QED BY <1>3, <2>1, LinkProp, LinkNode
  <1>4. ASSUME NEW t \in Threads, NEW n \in Names, Begin(t, n)
        PROVE  Core(lev, rng)' /\ Grows(lev, rng, lev, rng)
    BY <1>4, BeginStep
  <1>5. ASSUME NEW r \in Readers, BeginForeach(r) \/ Visit(r) \/ EndForeach(r)
        PROVE  Core(lev, rng)' /\ Grows(lev, rng, lev, rng)
    BY <1>5, ForeachStep
  <1>6. CASE UNCHANGED vars
    <2>1. /\ prefixes' = prefixes /\ contexts' = contexts /\ unread' = unread
          /\ used' = used /\ bt' = bt /\ info' = info /\ thr' = thr
      BY <1>6 DEF vars, lists, memory
    <2>2. Grows(lev, rng, lev, rng)
      BY <2>1 DEF Grows
    <2>3. ListInv'
      BY <2>1 DEF Core, ListInv, Nodes
    <2>4. ASSUME NEW n PROVE get_prop_area_for_name(n)' = get_prop_area_for_name(n)
      BY <2>1 DEF get_prop_area_for_name
    <2>5. ASSUME NEW a \in Contexts
          PROVE  /\ Layout(a)' /\ PropInv(lev, a)'
                 /\ Nodes(a)' = DOMAIN lev[a] \cup NewNodes(thr[Init_], a)'
      <3>1. Layout(a) /\ PropInv(lev, a) /\ Nodes(a) = DOMAIN lev[a] \cup NewNodes(thr[Init_], a)
        BY DEF Core, MemInv
      <3>2. Layout(a)'
        BY <2>1, <3>1 DEF Layout, Nodes
      <3>3. PropInv(lev, a)'
        BY <2>1, <2>4, <3>1 DEF PropInv
      <3>. QED BY <2>1, <3>1, <3>2, <3>3 DEF Nodes, NewNodes
    <2>6. MemInv(lev, rng)'
      BY <2>1, <2>5 DEF Core, MemInv
    <2>7. ASSUME NEW t \in Threads PROVE ThreadOK(lev, rng, t, thr[t])'
      <3>1. PICK z : z = thr'[t] /\ ThreadOK(lev, rng, t, z)
        BY <2>1 DEF Core, ThreadInv
      <3>2. WalkOK(lev, rng, t, z)'
        BY <2>1, <2>2, <3>1, WalkKept DEF ThreadOK
      <3>. QED BY <3>1, <3>2 DEF ThreadOK
    <2>8. LinkOK(lev, rng, thr[Init_])'
      <3>1. PICK z : z = thr'[Init_] /\ LinkOK(lev, rng, z)
        BY <2>1 DEF Core, ThreadInv
      <3>2. LinkOK(lev, rng, z)'
        BY <2>1, <2>4, <3>1 DEF LinkOK
      <3>. QED BY <3>1, <3>2
    <2>9. Core(lev, rng)'
      BY <2>1, <2>3, <2>6, <2>7, <2>8 DEF Core, ThreadInv
    <2>. QED BY <2>2, <2>9
  <1>7. Init_ \in Threads /\ \A r \in Readers : r \in Threads
    BY DEF Threads
  <1>8. CASE InitStep
    BY <1>2, <1>3, <1>7, <1>8 DEF InitStep
  <1>9. CASE \E n \in Names : Begin(Init_, n)
    BY <1>4, <1>7, <1>9
  <1>10. ASSUME NEW r \in Readers, ReaderStep(r) \/ BeginForeach(r) \/ \E n \in Names : Begin(r, n)
         PROVE  Core(lev, rng)' /\ Grows(lev, rng, lev, rng)
    BY <1>2, <1>4, <1>5, <1>7, <1>10 DEF ReaderStep
  <1>. QED BY <1>1, <1>6, <1>8, <1>9, <1>10 DEF Next

(* The types and the layout follow. *)
LEMMA CoreType ==
  ASSUME NEW lev, NEW rng, Core(lev, rng)
  PROVE  TypeOK
  <1>1. ASSUME NEW a \in Contexts
        PROVE  /\ Linked(a) \subseteq Nodes(a)
               /\ {bt[a][o].prop : o \in Nodes(a)} \subseteq DOMAIN info[a] \cup {0}
               /\ used[a] \in 0 .. AreaSize /\ Nodes(a) \cap DOMAIN info[a] = {}
               /\ \A o, q \in Nodes(a) \cup DOMAIN info[a] \cup {used[a]} : o < q =>
                    o + (IF o \in Nodes(a) THEN BtSize ELSE InfoSize) <= q
    <2>1. /\ Tree(bt[a], lev[a], rng[a]) /\ Layout(a) /\ PropInv(lev, a)
          /\ Nodes(a) = DOMAIN lev[a] \cup NewNodes(thr[Init_], a)
      BY DEF Core, MemInv
    <2>2. ASSUME NEW o \in NewNodes(thr[Init_], a)
          PROVE  bt[a][o].prop = 0 /\ \A s \in Slots : bt[a][o][s] = 0
      <3>1. PICK x : x = thr[Init_] /\ LinkOK(lev, rng, x)
        BY DEF Core, ThreadInv
      <3>2. /\ x.at = "link" /\ x.slot # "prop" /\ x.area = a /\ o = x.new
        BY <3>1 DEF NewNodes
      <3>3. bt[a][o] = NewBt(x.name[x.i])
        BY <3>1, <3>2 DEF LinkOK
      <3>. QED BY <3>3 DEF NewBt, Slots
    <2>3. 0 \in DOMAIN lev[a] /\ \A o \in DOMAIN lev[a] : \A s \in Slots : bt[a][o][s] \in DOMAIN lev[a]
      BY <2>1 DEF Tree, Shape
    <2>4. Linked(a) \subseteq Nodes(a)
      <3>1. \A o \in Nodes(a), s \in Slots : bt[a][o][s] \in Nodes(a)
        BY <2>1, <2>2, <2>3
      <3>2. ASSUME NEW v \in Pointers(a) PROVE v \in Nodes(a)
        <4>1. PICK o \in Nodes(a), s \in Slots : v = bt[a][o][s]
          BY SMT DEF Pointers, Slots
        <4>. QED BY <3>1, <4>1
      <3>. QED BY <2>1, <2>3, <3>2 DEF Linked
    <2>5. \A o \in Nodes(a) : bt[a][o].prop \in DOMAIN info[a] \cup {0}
      BY <2>1, <2>2 DEF PropInv
    <2>6. /\ BtSize \in Nat \ {0} /\ InfoSize \in Nat \ {0} /\ AreaSize \in Nat
          /\ used[a] \in Nat /\ used[a] <= AreaSize
          /\ Nodes(a) \subseteq Nat /\ DOMAIN info[a] \subseteq Nat
          /\ \A o \in Nodes(a) : o + BtSize <= used[a]
          /\ \A p \in DOMAIN info[a] : p + InfoSize <= used[a]
          /\ \A o, q \in Nodes(a) : o < q => o + BtSize <= q
          /\ \A p, q \in DOMAIN info[a] : p < q => p + InfoSize <= q
          /\ \A o \in Nodes(a), p \in DOMAIN info[a] : o + BtSize <= p \/ p + InfoSize <= o
      BY <2>1, SizeAssumption DEF Layout
    <2>7. \A o \in Nodes(a) : o \notin DOMAIN info[a]
      BY <2>6
    <2>8. ASSUME NEW o \in Nodes(a) \cup DOMAIN info[a] \cup {used[a]},
                 NEW q \in Nodes(a) \cup DOMAIN info[a] \cup {used[a]}, o < q
          PROVE  o + (IF o \in Nodes(a) THEN BtSize ELSE InfoSize) <= q
      <3>1. CASE o \in Nodes(a)
        BY <2>6, <2>8, <3>1
      <3>2. CASE o \in DOMAIN info[a]
        BY <2>6, <2>7, <2>8, <3>2
      <3>3. CASE o = used[a]
        BY <2>6, <2>8, <3>3
      <3>. QED BY <3>1, <3>2, <3>3
    <2>. QED BY <2>4, <2>5, <2>6, <2>7, <2>8
  <1>2. \A t \in Threads : /\ thr[t].at \in WalkerAts \cup {"idle", "link", "done", "foreach"}
                           /\ thr[t].at = "link" => t = Init_
    BY DEF Core, ThreadInv, ThreadOK
  <1>3. \A r \in Readers : thr[r].at # "link"
    BY <1>2, ThreadsAssumption DEF Threads
  <1>. QED BY <1>1, <1>2, <1>3 DEF TypeOK, WalkerAts

-----------------------------------------------------------------------------
(* The names that are in the trie *)

(* A property is at the node of its name, in the area of its name. *)
Holds(lev, a, o, n) ==
  /\ o \in DOMAIN lev[a] /\ bt[a][o].prop # 0 /\ bt[a][o].prop \in DOMAIN info[a]
  /\ info[a][bt[a][o].prop] = n /\ Word(bt[a], lev[a], o) = n
  /\ n \in Names /\ Legal(n) /\ get_prop_area_for_name(n) = a

(* The names that can be found are those held in this way. *)
LEMMA InfoFacts ==
  ASSUME NEW lev, NEW rng, Core(lev, rng)
  PROVE  /\ \A n \in InfoNames : \E a \in Contexts : \E o : Holds(lev, a, o, n)
         /\ \A a \in Contexts : \A o \in DOMAIN lev[a] : bt[a][o].prop # 0 =>
              /\ Holds(lev, a, o, info[a][bt[a][o].prop])
              /\ info[a][bt[a][o].prop] \in InfoNames
         /\ InfoNames \subseteq Names
  <1>1. ASSUME NEW a \in Contexts
        PROVE  /\ PropInv(lev, a) /\ DOMAIN lev[a] \subseteq Nodes(a)
               /\ \A o \in Nodes(a) : bt[a][o].prop # 0 => o \in DOMAIN lev[a]
    <2>1. /\ PropInv(lev, a) /\ Nodes(a) = DOMAIN lev[a] \cup NewNodes(thr[Init_], a)
      BY DEF Core, MemInv
    <2>2. ASSUME NEW o \in NewNodes(thr[Init_], a) PROVE bt[a][o].prop = 0
      <3>1. PICK x : x = thr[Init_] /\ LinkOK(lev, rng, x)
        BY DEF Core, ThreadInv
      <3>2. /\ x.at = "link" /\ x.slot # "prop" /\ x.area = a /\ o = x.new
        BY <3>1 DEF NewNodes
      <3>3. bt[a][o] = NewBt(x.name[x.i])
        BY <3>1, <3>2 DEF LinkOK
      <3>. QED BY <3>3 DEF NewBt
    <2>. QED BY <2>1, <2>2
  <1>2. ASSUME NEW n \in InfoNames PROVE \E a \in Contexts : \E o : Holds(lev, a, o, n)
    <2>1. PICK a \in Contexts : n \in NamesIn(a)
      BY DEF InfoNames
    <2>2. PICK o \in Nodes(a) : bt[a][o].prop # 0 /\ n = info[a][bt[a][o].prop]
      BY <2>1 DEF NamesIn
    <2>3. Holds(lev, a, o, n)
      BY <1>1, <2>2 DEF Holds, PropInv
    <2>. QED BY <2>3
  <1>3. ASSUME NEW a \in Contexts, NEW o \in DOMAIN lev[a], bt[a][o].prop # 0
        PROVE  /\ Holds(lev, a, o, info[a][bt[a][o].prop])
               /\ info[a][bt[a][o].prop] \in InfoNames
    <2>1. Holds(lev, a, o, info[a][bt[a][o].prop])
      BY <1>1, <1>3 DEF Holds, PropInv
    <2>2. info[a][bt[a][o].prop] \in NamesIn(a)
      BY <1>1, <1>3 DEF NamesIn
    <2>. QED BY <2>1, <2>2 DEF InfoNames
  <1>. QED BY <1>2, <1>3 DEF Holds

(* Only a stored pointer to a prop_info changes the names. *)
LEMMA InfoSame ==
  ASSUME DOMAIN bt' = DOMAIN bt, Contexts \subseteq DOMAIN bt,
         \A a \in Contexts : \A o \in DOMAIN bt[a] :
           /\ o \in DOMAIN bt'[a] /\ bt'[a][o].prop = bt[a][o].prop
           /\ bt[a][o].prop # 0 => info'[a][bt[a][o].prop] = info[a][bt[a][o].prop],
         \A a \in Contexts : \A o \in DOMAIN bt'[a] : bt'[a][o].prop # 0 => o \in DOMAIN bt[a]
  PROVE  InfoNames' = InfoNames
  <1>1. ASSUME NEW a \in Contexts PROVE NamesIn(a)' = NamesIn(a)
    <2>1. ASSUME NEW n \in NamesIn(a) PROVE n \in NamesIn(a)'
      <3>1. PICK o \in DOMAIN bt[a] : bt[a][o].prop # 0 /\ n = info[a][bt[a][o].prop]
        BY DEF NamesIn, Nodes
      <3>. QED BY <3>1, ZenonT(60) DEF NamesIn, Nodes
    <2>2. ASSUME NEW n \in NamesIn(a)' PROVE n \in NamesIn(a)
      <3>1. PICK o \in DOMAIN bt'[a] : bt'[a][o].prop # 0 /\ n = info'[a][bt'[a][o].prop]
        BY DEF NamesIn, Nodes
      <3>. QED BY <3>1, SMTT(30) DEF NamesIn, Nodes
    <2>. QED BY <2>1, <2>2
  <1>. QED BY <1>1 DEF InfoNames

(* Steps that store no such pointer *)
LEMMA InfoQuiet ==
  ASSUME UNCHANGED memory
  PROVE  InfoNames' = InfoNames
  BY DEF memory, InfoNames, NamesIn, Nodes

(* Allocation alone makes no name visible: nothing points to the new object. *)
LEMMA InfoAlloc ==
  ASSUME NEW lev, NEW rng, Core(lev, rng), NEW tok, NEW slot,
         thr[Init_].area \in Contexts, Allocate(Init_, tok, slot)
  PROVE  InfoNames' = InfoNames
  <1>1. PICK x : x = thr[Init_]
    OBVIOUS
  <1>. DEFINE a == x.area
  <1>2. PICK off : off = used[a]
    OBVIOUS
  <1>3. /\ DOMAIN bt = Contexts /\ DOMAIN info = Contexts /\ a \in Contexts
    BY <1>1 DEF Core, MemInv
  <1>4. off \notin Nodes(a) /\ off \notin DOMAIN info[a]
    BY <1>2, <1>3, FreshOffset
  <1>5. \A c \in Contexts : \A o \in DOMAIN bt[c] : bt[c][o].prop # 0 => bt[c][o].prop \in DOMAIN info[c]
    BY CoreType DEF TypeOK, Nodes
  <1>6. CASE UNCHANGED memory
    BY <1>6, InfoQuiet
  <1>7. CASE info' = [info EXCEPT ![a] = Put(@, off, x.name)] /\ bt' = bt
    <2>1. ASSUME NEW c \in Contexts, NEW o \in DOMAIN bt[c], bt[c][o].prop # 0
          PROVE  info'[c][bt[c][o].prop] = info[c][bt[c][o].prop]
      <3>1. bt[c][o].prop \in DOMAIN info[c]
        BY <1>5, <2>1
      <3>2. CASE c = a
        BY <1>3, <1>4, <1>7, <3>1, <3>2 DEF Put
      <3>3. CASE c # a
        BY <1>3, <1>7, <3>3
      <3>. QED BY <3>2, <3>3
    <2>. QED BY <1>3, <1>7, <2>1, InfoSame
  <1>8. CASE bt' = [bt EXCEPT ![a] = Put(@, off, NewBt(tok))] /\ info' = info
    <2>1. DOMAIN bt' = DOMAIN bt
      BY <1>8
    <2>2. NewBt(tok).prop = 0
      BY DEF NewBt
    <2>3. ASSUME NEW c \in Contexts
          PROVE  /\ \A o \in DOMAIN bt[c] : o \in DOMAIN bt'[c] /\ bt'[c][o].prop = bt[c][o].prop
                 /\ \A o \in DOMAIN bt'[c] : bt'[c][o].prop # 0 => o \in DOMAIN bt[c]
      <3>1. CASE c = a
        <4>1. bt'[c] = Put(bt[c], off, NewBt(tok)) /\ off \notin DOMAIN bt[c]
          BY <1>3, <1>4, <1>8, <3>1 DEF Nodes
        <4>. QED BY <2>2, <4>1 DEF Put
      <3>2. CASE c # a
        BY <1>3, <1>8, <3>2
      <3>. QED BY <3>1, <3>2
    <2>. QED BY <1>3, <1>8, <2>1, <2>3, InfoSame
  <1>. QED BY <1>1, <1>2, <1>6, <1>7, <1>8 DEF Allocate

(* Link stores a pointer to a property, which adds its name, or to a node. *)
LEMMA InfoLink ==
  ASSUME NEW lev, NEW rng, Core(lev, rng), NEW x, x = thr[Init_], Link
  PROVE  /\ x.slot = "prop" => InfoNames' = InfoNames \cup {x.name} /\ x.name \in Names
         /\ x.slot # "prop" => InfoNames' = InfoNames
  <1>. DEFINE a == x.area
              node == x.node
              new == x.new
              slot == x.slot
  <1>1. /\ x.at = "link" /\ bt' = [bt EXCEPT ![a][node][slot] = new] /\ info' = info
    BY DEF Link
  <1>2. /\ LinkOK(lev, rng, x) /\ a \in Contexts /\ node \in DOMAIN lev[a] /\ node \in Nodes(a)
        /\ Tree(bt[a], lev[a], rng[a]) /\ Layout(a) /\ DOMAIN bt = Contexts
    BY <1>1, LinkFacts
  <1>3. bt[a][node] \in BtRec
    BY <1>2 DEF Tree, Shape
  <1>4. /\ DOMAIN bt' = Contexts /\ \A c \in Contexts : c # a => bt'[c] = bt[c]
        /\ DOMAIN bt'[a] = DOMAIN bt[a] /\ \A o \in DOMAIN bt[a] : o # node => bt'[a][o] = bt[a][o]
        /\ bt'[a][node] = [bt[a][node] EXCEPT ![slot] = new]
    BY <1>1, <1>2 DEF Nodes
  <1>5. ASSUME slot # "prop" PROVE InfoNames' = InfoNames
    <2>1. slot \in Slots /\ new \in Nat
      BY <1>1, <1>2, <1>5 DEF LinkOK
    <2>2. bt'[a][node].prop = bt[a][node].prop
      BY <1>3, <1>4, <2>1, SetSlot
    <2>3. \A o \in DOMAIN bt[a] : bt'[a][o].prop = bt[a][o].prop
      BY <1>4, <2>2
    <2>4. ASSUME NEW c \in Contexts
          PROVE  /\ \A o \in DOMAIN bt[c] : o \in DOMAIN bt'[c] /\ bt'[c][o].prop = bt[c][o].prop
                 /\ \A o \in DOMAIN bt'[c] : o \in DOMAIN bt[c]
      <3>1. CASE c = a
        BY <1>4, <2>3, <3>1
      <3>2. CASE c # a
        BY <1>4, <3>2
      <3>. QED BY <3>1, <3>2
    <2>5. DOMAIN bt' = DOMAIN bt /\ Contexts \subseteq DOMAIN bt
      BY <1>2, <1>4
    <2>6. \A c \in Contexts : \A o \in DOMAIN bt[c] :
            /\ o \in DOMAIN bt'[c] /\ bt'[c][o].prop = bt[c][o].prop
            /\ bt[c][o].prop # 0 => info'[c][bt[c][o].prop] = info[c][bt[c][o].prop]
      BY <1>1, <2>4
    <2>7. \A c \in Contexts : \A o \in DOMAIN bt'[c] : bt'[c][o].prop # 0 => o \in DOMAIN bt[c]
      BY <2>4
    <2>. HIDE DEF a, node, new, slot
    <2>. QED BY <2>5, <2>6, <2>7, InfoSame, Zenon
  <1>6. ASSUME slot = "prop" PROVE InfoNames' = InfoNames \cup {x.name} /\ x.name \in Names
    <2>1. /\ x.name \in Names /\ bt[a][node].prop = 0 /\ new \in Nat \ {0} /\ info[a][new] = x.name
      BY <1>1, <1>2, <1>6 DEF LinkOK, Layout
    <2>2. bt'[a][node].prop = new
      <3>1. PICK z \in BtRec : z = bt[a][node]
        BY <1>3
      <3>2. [z EXCEPT !["prop"] = new].prop = new
        BY DEF BtRec
      <3>. QED BY <1>4, <1>6, <3>1, <3>2
    <2>3. ASSUME NEW c \in Contexts, c # a PROVE NamesIn(c)' = NamesIn(c)
      BY <1>1, <1>4, <2>3 DEF NamesIn, Nodes
    <2>4. NamesIn(a)' = NamesIn(a) \cup {x.name}
      <3>1. ASSUME NEW n \in NamesIn(a) PROVE n \in NamesIn(a)'
        <4>1. PICK o \in DOMAIN bt[a] : bt[a][o].prop # 0 /\ n = info[a][bt[a][o].prop]
          BY DEF NamesIn, Nodes
        <4>2. o # node
          BY <2>1, <4>1
        <4>3. o \in DOMAIN bt'[a] /\ bt'[a][o].prop # 0 /\ n = info'[a][bt'[a][o].prop]
          BY <1>1, <1>4, <4>1, <4>2
        <4>. QED BY <4>3 DEF NamesIn, Nodes
      <3>2. x.name \in NamesIn(a)'
        <4>1. node \in DOMAIN bt'[a] /\ bt'[a][node].prop # 0 /\ x.name = info'[a][bt'[a][node].prop]
          BY <1>1, <1>2, <1>4, <2>1, <2>2 DEF Nodes
        <4>. QED BY <4>1 DEF NamesIn, Nodes
      <3>3. ASSUME NEW n \in NamesIn(a)' PROVE n \in NamesIn(a) \cup {x.name}
        <4>1. PICK o \in DOMAIN bt'[a] : bt'[a][o].prop # 0 /\ n = info'[a][bt'[a][o].prop]
          BY DEF NamesIn, Nodes
        <4>2. CASE o = node
          BY <1>1, <2>1, <2>2, <4>1, <4>2
        <4>3. CASE o # node
          <5>1. o \in DOMAIN bt[a] /\ bt[a][o].prop # 0 /\ n = info[a][bt[a][o].prop]
            BY <1>1, <1>4, <4>1, <4>3
          <5>. QED BY <5>1 DEF NamesIn, Nodes
        <4>. QED BY <4>2, <4>3
      <3>. QED BY <3>1, <3>2, <3>3
    <2>5. InfoNames' = InfoNames \cup {x.name}
      BY <1>2, <2>3, <2>4 DEF InfoNames
    <2>. QED BY <2>1, <2>5
  <1>. QED BY <1>5, <1>6

(* A step of a search changes no name. *)
LEMMA InfoWalk ==
  ASSUME NEW lev, NEW rng, Core(lev, rng), NEW t \in Threads, Walk(t)
  PROVE  InfoNames' = InfoNames
  <1>1. \/ UNCHANGED memory
        \/ t = Init_ /\ \E tok, slot : Allocate(Init_, tok, slot)
    BY DEF Walk, Level, Search, Prop, Follow
  <1>2. thr[t].at \in WalkerAts
    BY DEF Walk, Level, Search, Prop, WalkerAts
  <1>3. CASE thr[t].area # NoArea
    <2>1. thr[t].area \in Contexts
      BY <1>2, <1>3, WalkerFacts
    <2>. QED BY <1>1, <2>1, InfoQuiet, InfoAlloc
  <1>4. CASE thr[t].area = NoArea
    <2>1. thr[t].at = "level"
      BY <1>2, <1>4, WalkerFacts
    <2>2. UNCHANGED memory
      BY <1>4, <2>1 DEF Walk, Level, Search, Prop
    <2>. QED BY <2>2, InfoQuiet
  <1>. QED BY <1>3, <1>4

-----------------------------------------------------------------------------
(* A foreach: what it has seen, and what lies ahead of it *)

(* The name n will be met by the work that the entry e of the stack stands *)
(* for.                                                                    *)
Ahead(lev, rng, e, n) ==
  /\ get_prop_area_for_name(n) = e[1]
  /\ InRest(bt[e[1]], lev[e[1]], rng[e[1]], e[2], e[3], n)
InStack(lev, rng, st, n) == \E j \in 1 .. Len(st) : Ahead(lev, rng, st[j], n)

Entries == Contexts \X Nat \X (1 .. 4)
StackOK(lev, st) ==
  st \in Seq(Entries) /\ \A j \in 1 .. Len(st) : st[j][2] \in DOMAIN lev[st[j][1]]

(* No name is met twice. *)
Apart(lev, rng, st) ==
  \A i, j \in 1 .. Len(st) : \A n \in Names :
    Ahead(lev, rng, st[i], n) /\ Ahead(lev, rng, st[j], n) => i = j

ForeachOK(lev, rng, x, sn, hd) ==
  /\ sn \in Seq(Names) /\ NoRepeats(sn) /\ \A i \in 1 .. Len(sn) : sn[i] \in InfoNames
  /\ hd \subseteq InfoNames
  /\ x.at = "foreach" =>
       /\ StackOK(lev, x.stack) /\ Apart(lev, rng, x.stack)
       /\ \A i \in 1 .. Len(sn) : ~ InStack(lev, rng, x.stack, sn[i])
       /\ \A n \in hd : Contains(sn, n) \/ InStack(lev, rng, x.stack, n)
ForeachInv(lev, rng) ==
  /\ DOMAIN seen = Readers /\ DOMAIN had = Readers
  /\ \A r \in Readers : ForeachOK(lev, rng, thr[r], seen[r], had[r])

Inv(lev, rng) == Core(lev, rng) /\ ForeachInv(lev, rng)
IInv == \E lev, rng : Inv(lev, rng)

(* What lies ahead of a node does not change when the trie grows. *)
LEMMA AheadKept ==
  ASSUME NEW lev, NEW rng, NEW l2, NEW r2, Grows(lev, rng, l2, r2), prefixes' = prefixes,
         NEW e \in Entries, e[2] \in DOMAIN lev[e[1]], NEW n
  PROVE  Ahead(l2, r2, e, n)' <=> Ahead(lev, rng, e, n)
  <1>1. get_prop_area_for_name(n)' = get_prop_area_for_name(n)
    BY DEF get_prop_area_for_name
  <1>2. PICK a, o, c : a \in Contexts /\ a = e[1] /\ o = e[2] /\ c = e[3] /\ o \in DOMAIN lev[a]
    BY DEF Entries
  <1>3. /\ l2[a][o] = lev[a][o] /\ r2[a][o] = rng[a][o] /\ bt'[a][o].name = bt[a][o].name
    BY <1>2 DEF Grows
  <1>4. Word(bt'[a], l2[a], o) = Word(bt[a], lev[a], o)
    BY <1>3 DEF Word
  <1>5. \A s : /\ SlotLev(bt'[a], l2[a], o, s) = SlotLev(bt[a], lev[a], o, s)
               /\ SlotRng(bt'[a], r2[a], o, s) = SlotRng(bt[a], rng[a], o, s)
    BY <1>3, <1>4 DEF SlotLev, SlotRng
  <1>6. \A f : InField(bt'[a], l2[a], r2[a], o, f, n) <=> InField(bt[a], lev[a], rng[a], o, f, n)
    BY <1>4, <1>5 DEF InField
  <1>7. InRest(bt'[a], l2[a], r2[a], o, c, n) <=> InRest(bt[a], lev[a], rng[a], o, c, n)
    BY <1>6 DEF InRest
  <1>. QED BY <1>1, <1>2, <1>7 DEF Ahead

(* A foreach is not disturbed when the trie grows. *)
LEMMA ForeachKept ==
  ASSUME NEW lev, NEW rng, NEW l2, NEW r2, Grows(lev, rng, l2, r2), prefixes' = prefixes,
         InfoNames \subseteq InfoNames', NEW x, NEW sn, NEW hd, ForeachOK(lev, rng, x, sn, hd)
  PROVE  ForeachOK(l2, r2, x, sn, hd)'
  <1>1. /\ sn \in Seq(Names) /\ NoRepeats(sn) /\ \A i \in 1 .. Len(sn) : sn[i] \in InfoNames'
        /\ hd \subseteq InfoNames'
    BY DEF ForeachOK
  <1>2. ASSUME x.at = "foreach"
        PROVE  /\ StackOK(l2, x.stack) /\ Apart(l2, r2, x.stack)'
               /\ \A i \in 1 .. Len(sn) : ~ InStack(l2, r2, x.stack, sn[i])'
               /\ \A n \in hd : Contains(sn, n) \/ InStack(l2, r2, x.stack, n)'
    <2>1. PICK st : st = x.stack
      OBVIOUS
    <2>2. /\ StackOK(lev, st) /\ Apart(lev, rng, st)
          /\ \A i \in 1 .. Len(sn) : ~ InStack(lev, rng, st, sn[i])
          /\ \A n \in hd : Contains(sn, n) \/ InStack(lev, rng, st, n)
      BY <1>2, <2>1 DEF ForeachOK
    <2>3. \A j \in 1 .. Len(st) : st[j] \in Entries /\ st[j][2] \in DOMAIN lev[st[j][1]]
      BY <2>2, ElementOfSeq DEF StackOK
    <2>4. ASSUME NEW j \in 1 .. Len(st), NEW n
          PROVE  Ahead(l2, r2, st[j], n)' <=> Ahead(lev, rng, st[j], n)
      <3>1. PICK e \in Entries : e = st[j] /\ e[2] \in DOMAIN lev[e[1]]
        BY <2>3
      <3>2. Ahead(l2, r2, e, n)' <=> Ahead(lev, rng, e, n)
        BY <3>1, AheadKept
      <3>. QED BY <3>1, <3>2
    <2>5. \A n : InStack(l2, r2, st, n)' <=> InStack(lev, rng, st, n)
      BY <2>4 DEF InStack
    <2>6. Apart(l2, r2, st)'
      BY <2>2, <2>4 DEF Apart
    <2>7. StackOK(l2, st)
      <3>1. \A j \in 1 .. Len(st) : st[j][1] \in Contexts
        BY <2>3 DEF Entries
      <3>. QED BY <2>2, <2>3, <3>1 DEF StackOK, Grows
    <2>. QED BY <2>1, <2>2, <2>5, <2>6, <2>7
  <1>. QED BY <1>1, <1>2 DEF ForeachOK

(* The stack without its top *)
LEMMA PopStack ==
  ASSUME NEW lev, NEW rng, NEW st, StackOK(lev, st), Apart(lev, rng, st), st # <<>>,
         NEW top, top = Head(st), NEW rest, rest = Tail(st)
  PROVE  /\ top \in Entries /\ top[2] \in DOMAIN lev[top[1]]
         /\ StackOK(lev, rest) /\ Apart(lev, rng, rest)
         /\ \A n \in Names : InStack(lev, rng, st, n) <=>
              Ahead(lev, rng, top, n) \/ InStack(lev, rng, rest, n)
         /\ \A n \in Names : ~ (Ahead(lev, rng, top, n) /\ InStack(lev, rng, rest, n))
  <1>1. top \in Entries /\ rest \in Seq(Entries) /\ Popped(st, rest)
    BY TailFacts DEF StackOK
  <1>2. /\ Len(st) = Len(rest) + 1 /\ Len(rest) \in Nat /\ top = st[1] /\ 1 \in 1 .. Len(st)
        /\ \A j \in 1 .. Len(rest) : j + 1 \in 1 .. Len(st) /\ rest[j] = st[j + 1]
        /\ \A j \in 1 .. Len(st) : j # 1 => j - 1 \in 1 .. Len(rest) /\ st[j] = rest[j - 1]
    BY <1>1 DEF Popped
  <1>3. top[2] \in DOMAIN lev[top[1]] /\ StackOK(lev, rest)
    BY <1>1, <1>2 DEF StackOK
  <1>4. Apart(lev, rng, rest)
    <2>. SUFFICES ASSUME NEW i \in 1 .. Len(rest), NEW j \in 1 .. Len(rest), NEW n \in Names,
                         Ahead(lev, rng, rest[i], n), Ahead(lev, rng, rest[j], n)
                  PROVE  i = j
      BY DEF Apart
    <2>1. i + 1 = j + 1
      BY <1>2 DEF Apart
    <2>. QED BY <2>1
  <1>5. ASSUME NEW n \in Names
        PROVE  InStack(lev, rng, st, n) <=> Ahead(lev, rng, top, n) \/ InStack(lev, rng, rest, n)
    <2>1. ASSUME InStack(lev, rng, st, n)
          PROVE  Ahead(lev, rng, top, n) \/ InStack(lev, rng, rest, n)
      <3>1. PICK j \in 1 .. Len(st) : Ahead(lev, rng, st[j], n)
        BY <2>1 DEF InStack
      <3>. QED BY <1>2, <3>1 DEF InStack
    <2>2. ASSUME InStack(lev, rng, rest, n) PROVE InStack(lev, rng, st, n)
      <3>1. PICK j \in 1 .. Len(rest) : Ahead(lev, rng, rest[j], n)
        BY <2>2 DEF InStack
      <3>. QED BY <1>2, <3>1 DEF InStack
    <2>. QED BY <1>2, <2>1, <2>2 DEF InStack
  <1>6. ASSUME NEW n \in Names, Ahead(lev, rng, top, n), InStack(lev, rng, rest, n) PROVE FALSE
    <2>1. PICK j \in 1 .. Len(rest) : Ahead(lev, rng, rest[j], n)
      BY <1>6 DEF InStack
    <2>2. j + 1 \in 1 .. Len(st) /\ j + 1 # 1 /\ Ahead(lev, rng, st[j + 1], n)
      BY <1>2, <2>1
    <2>. QED BY <1>2, <1>6, <2>2 DEF Apart
  <1>. QED BY <1>1, <1>3, <1>4, <1>5, <1>6

(* The stack with a new top *)
LEMMA PushStack ==
  ASSUME NEW lev, NEW rng, NEW st, StackOK(lev, st), Apart(lev, rng, st),
         NEW e \in Entries, e[2] \in DOMAIN lev[e[1]],
         \A n \in Names : ~ (Ahead(lev, rng, e, n) /\ InStack(lev, rng, st, n)),
         NEW s2, s2 = <<e>> \o st
  PROVE  /\ StackOK(lev, s2) /\ Apart(lev, rng, s2)
         /\ \A n \in Names : InStack(lev, rng, s2, n) <=>
              Ahead(lev, rng, e, n) \/ InStack(lev, rng, st, n)
  <1>1. /\ s2 \in Seq(Entries) /\ Len(s2) = Len(st) + 1 /\ s2[1] = e /\ Len(st) \in Nat
        /\ \A j \in 1 .. Len(st) + 1 : j # 1 => j - 1 \in 1 .. Len(st) /\ s2[j] = st[j - 1]
        /\ \A j \in 1 .. Len(st) : j + 1 \in 1 .. Len(st) + 1 /\ j + 1 # 1 /\ s2[j + 1] = st[j]
    <2>1. st \in Seq(Entries)
      BY DEF StackOK
    <2>. QED BY <2>1, PushFacts
  <1>2. \A j \in 1 .. Len(s2) : j = 1 \/ (j - 1 \in 1 .. Len(st) /\ s2[j] = st[j - 1])
    BY <1>1
  <1>3. StackOK(lev, s2)
    BY <1>1, <1>2 DEF StackOK
  <1>4. ASSUME NEW j \in 1 .. Len(s2), j # 1, NEW n \in Names, Ahead(lev, rng, s2[j], n)
        PROVE  InStack(lev, rng, st, n)
    BY <1>2, <1>4 DEF InStack
  <1>5. Apart(lev, rng, s2)
    <2>. SUFFICES ASSUME NEW i \in 1 .. Len(s2), NEW j \in 1 .. Len(s2), NEW n \in Names,
                         Ahead(lev, rng, s2[i], n), Ahead(lev, rng, s2[j], n)
                  PROVE  i = j
      BY DEF Apart
    <2>1. CASE i = 1 \/ j = 1
      BY <1>1, <1>4, <2>1
    <2>2. CASE i # 1 /\ j # 1
      <3>1. i - 1 = j - 1
        BY <1>2, <2>2 DEF Apart
      <3>. QED BY <3>1
    <2>. QED BY <2>1, <2>2
  <1>6. ASSUME NEW n \in Names
        PROVE  InStack(lev, rng, s2, n) <=> Ahead(lev, rng, e, n) \/ InStack(lev, rng, st, n)
    <2>1. ASSUME InStack(lev, rng, s2, n) PROVE Ahead(lev, rng, e, n) \/ InStack(lev, rng, st, n)
      <3>1. PICK j \in 1 .. Len(s2) : Ahead(lev, rng, s2[j], n)
        BY <2>1 DEF InStack
      <3>. QED BY <1>1, <1>4, <3>1
    <2>2. ASSUME InStack(lev, rng, st, n) PROVE InStack(lev, rng, s2, n)
      <3>1. PICK j \in 1 .. Len(st) : Ahead(lev, rng, st[j], n)
        BY <2>2 DEF InStack
      <3>. QED BY <1>1, <3>1 DEF InStack
    <2>3. 1 \in 1 .. Len(s2)
      BY <1>1
    <2>. QED BY <1>1, <2>1, <2>2, <2>3 DEF InStack
  <1>. QED BY <1>3, <1>5, <1>6

(* The fields of a node from the cth on: the cth and the others *)
LEMMA RestSplit ==
  ASSUME NEW b, NEW lev, NEW rng, Shape(b, lev, rng), NEW o \in DOMAIN lev, NEW c \in 1 .. 4,
         NEW n \in Seq(Tokens)
  PROVE  /\ Fields[c] \in FieldSet
         /\ InRest(b, lev, rng, o, c, n) <=>
              InField(b, lev, rng, o, Fields[c], n) \/ InRest(b, lev, rng, o, c + 1, n)
         /\ ~ (InField(b, lev, rng, o, Fields[c], n) /\ InRest(b, lev, rng, o, c + 1, n))
         /\ c = 4 => ~ InRest(b, lev, rng, o, c + 1, n)
         /\ InRest(b, lev, rng, o, 1, n) <=> \E f \in FieldSet : InField(b, lev, rng, o, f, n)
  <1>1. /\ Fields[1] = "left" /\ Fields[2] = "prop" /\ Fields[3] = "children" /\ Fields[4] = "right"
    BY DEF Fields
  <1>2. \A d, e \in 1 .. 4 : Fields[d] \in FieldSet /\ (Fields[d] = Fields[e] => d = e)
    BY <1>1 DEF FieldSet
  <1>3. \A f \in FieldSet : \E d \in 1 .. 4 : f = Fields[d]
    BY <1>1 DEF FieldSet
  <1>4. \A d : d \in c .. 4 <=> d = c \/ d \in c + 1 .. 4
    OBVIOUS
  <1>5. \A d \in c + 1 .. 4 : d \in 1 .. 4 /\ d # c
    OBVIOUS
  <1>6. InRest(b, lev, rng, o, c, n) <=>
          InField(b, lev, rng, o, Fields[c], n) \/ InRest(b, lev, rng, o, c + 1, n)
    BY <1>4 DEF InRest
  <1>7. ASSUME InField(b, lev, rng, o, Fields[c], n), InRest(b, lev, rng, o, c + 1, n) PROVE FALSE
    <2>1. PICK d \in c + 1 .. 4 : InField(b, lev, rng, o, Fields[d], n)
      BY <1>7 DEF InRest
    <2>2. Fields[d] = Fields[c]
      BY <1>2, <1>5, <1>7, <2>1, FieldsDisjoint
    <2>. QED BY <1>2, <1>5, <2>2
  <1>8. c = 4 => ~ InRest(b, lev, rng, o, c + 1, n)
    BY DEF InRest
  <1>9. InRest(b, lev, rng, o, 1, n) <=> \E f \in FieldSet : InField(b, lev, rng, o, f, n)
    BY <1>2, <1>3 DEF InRest
  <1>. QED BY <1>2, <1>6, <1>7, <1>8, <1>9

(* The stack s2 that Visit makes of st, with the cth field f of node o,    *)
(* which is p                                                              *)
Visited(st, a, o, c, f, p, s2) ==
  LET rest == IF c = 4 THEN Tail(st) ELSE <<<<a, o, c + 1>>>> \o Tail(st)
  IN /\ st # <<>> /\ Head(st) = <<a, o, c>> /\ f = Fields[c] /\ p = bt[a][o][f]
     /\ s2 = IF p # 0 /\ f # "prop" THEN <<<<a, p, 1>>>> \o rest ELSE rest

(* Once the field of a node has been looked at, what is ahead is what was  *)
(* ahead before without what is behind that field, unless the foreach goes *)
(* down there.                                                             *)
LEMMA VisitStack ==
  ASSUME NEW lev, NEW rng, Core(lev, rng), NEW st, StackOK(lev, st), Apart(lev, rng, st),
         NEW a, NEW o, NEW c, NEW f, NEW p, NEW s2, Visited(st, a, o, c, f, p, s2)
  PROVE  /\ a \in Contexts /\ o \in DOMAIN lev[a] /\ f \in FieldSet
         /\ StackOK(lev, s2) /\ Apart(lev, rng, s2)
         /\ \A n \in Names :
              LET behind == get_prop_area_for_name(n) = a /\ InField(bt[a], lev[a], rng[a], o, f, n)
              IN /\ InStack(lev, rng, s2, n) => InStack(lev, rng, st, n)
                 /\ behind => InStack(lev, rng, st, n)
                 /\ InStack(lev, rng, st, n) => InStack(lev, rng, s2, n) \/ behind
                 /\ behind => (InStack(lev, rng, s2, n) <=> p # 0 /\ f # "prop")
  <1>a. PICK rest : rest = IF c = 4 THEN Tail(st) ELSE <<<<a, o, c + 1>>>> \o Tail(st)
    OBVIOUS
  <1>b. /\ st # <<>> /\ Head(st) = <<a, o, c>> /\ f = Fields[c] /\ p = bt[a][o][f]
        /\ s2 = IF p # 0 /\ f # "prop" THEN <<<<a, p, 1>>>> \o rest ELSE rest
    BY <1>a DEF Visited
  <1>0. PICK top, tl : top = Head(st) /\ tl = Tail(st)
    OBVIOUS
  <1>1. /\ top \in Entries /\ top[2] \in DOMAIN lev[top[1]]
        /\ StackOK(lev, tl) /\ Apart(lev, rng, tl)
        /\ \A n \in Names : InStack(lev, rng, st, n) <=>
             Ahead(lev, rng, top, n) \/ InStack(lev, rng, tl, n)
        /\ \A n \in Names : ~ (Ahead(lev, rng, top, n) /\ InStack(lev, rng, tl, n))
    BY <1>0, <1>b, PopStack
  <1>2. /\ top = <<a, o, c>> /\ top[1] = a /\ top[2] = o /\ top[3] = c
        /\ a \in Contexts /\ o \in DOMAIN lev[a] /\ o \in Nat /\ c \in 1 .. 4
    BY <1>0, <1>1, <1>b DEF Entries
  <1>. DEFINE In(g, n) == get_prop_area_for_name(n) = a /\ InField(bt[a], lev[a], rng[a], o, g, n)
              Rest(d, n) == get_prop_area_for_name(n) = a /\ InRest(bt[a], lev[a], rng[a], o, d, n)
  <1>3. Tree(bt[a], lev[a], rng[a]) /\ Shape(bt[a], lev[a], rng[a]) /\ Edges(bt[a], lev[a], rng[a])
    BY <1>2 DEF Core, MemInv, Tree
  <1>4. \A n \in Names : n \in Seq(Tokens)
    BY NamesAssumption
  <1>5. /\ f \in FieldSet
        /\ \A n \in Names : /\ Rest(c, n) <=> In(f, n) \/ Rest(c + 1, n)
                            /\ ~ (In(f, n) /\ Rest(c + 1, n))
                            /\ c = 4 => ~ Rest(c + 1, n)
    <2>1. f \in FieldSet
      BY <1>2, <1>b DEF Fields, FieldSet
    <2>2. ASSUME NEW n \in Names
          PROVE  /\ Rest(c, n) <=> In(f, n) \/ Rest(c + 1, n)
                 /\ ~ (In(f, n) /\ Rest(c + 1, n))
                 /\ c = 4 => ~ Rest(c + 1, n)
      <3>1. PICK b, lv, rg : b = bt[a] /\ lv = lev[a] /\ rg = rng[a]
        OBVIOUS
      <3>2. /\ InRest(b, lv, rg, o, c, n) <=>
                 InField(b, lv, rg, o, Fields[c], n) \/ InRest(b, lv, rg, o, c + 1, n)
            /\ ~ (InField(b, lv, rg, o, Fields[c], n) /\ InRest(b, lv, rg, o, c + 1, n))
            /\ c = 4 => ~ InRest(b, lv, rg, o, c + 1, n)
        BY <1>2, <1>3, <1>4, <3>1, RestSplit
      <3>. QED BY <1>b, <3>1, <3>2
    <2>. QED BY <2>1, <2>2
  <1>6. \A n : Ahead(lev, rng, top, n) <=> Rest(c, n)
    BY <1>2 DEF Ahead
  <1>. HIDE DEF In, Rest
  <1>7. /\ StackOK(lev, rest) /\ Apart(lev, rng, rest)
        /\ \A n \in Names : InStack(lev, rng, rest, n) <=> Rest(c + 1, n) \/ InStack(lev, rng, tl, n)
    <2>1. CASE c = 4
      <3>1. rest = tl
        BY <1>0, <1>a, <2>1
      <3>. QED BY <1>1, <1>5, <2>1, <3>1
    <2>2. CASE c # 4
      <3>1. PICK e : e = <<a, o, c + 1>>
        OBVIOUS
      <3>2. /\ e \in Entries /\ e[1] = a /\ e[2] = o /\ e[3] = c + 1
        BY <1>2, <2>2, <3>1 DEF Entries
      <3>3. \A n : Ahead(lev, rng, e, n) <=> Rest(c + 1, n)
        BY <3>2 DEF Ahead, Rest
      <3>4. rest = <<e>> \o tl
        BY <1>0, <1>a, <2>2, <3>1
      <3>5. \A n \in Names : ~ (Ahead(lev, rng, e, n) /\ InStack(lev, rng, tl, n))
        BY <1>1, <1>5, <1>6, <3>3
      <3>6. e[2] \in DOMAIN lev[e[1]]
        BY <1>2, <3>2
      <3>7. /\ StackOK(lev, rest) /\ Apart(lev, rng, rest)
            /\ \A n \in Names : InStack(lev, rng, rest, n) <=>
                 Ahead(lev, rng, e, n) \/ InStack(lev, rng, tl, n)
        BY <1>1, <3>2, <3>4, <3>5, <3>6, PushStack
      <3>. QED BY <3>3, <3>7
    <2>. QED BY <2>1, <2>2
  <1>8. /\ StackOK(lev, s2) /\ Apart(lev, rng, s2)
        /\ \A n \in Names : InStack(lev, rng, s2, n) <=>
             (p # 0 /\ f # "prop" /\ In(f, n)) \/ InStack(lev, rng, rest, n)
    <2>1. CASE ~ (p # 0 /\ f # "prop")
      BY <1>7, <1>b, <2>1
    <2>2. CASE p # 0 /\ f # "prop"
      <3>1. PICK e : e = <<a, p, 1>>
        OBVIOUS
      <3>2. PICK s \in Slots : s = f
        BY <1>5, <2>2 DEF FieldSet, Slots
      <3>3. p \in DOMAIN lev[a] /\ p \in Nat /\ p = bt[a][o][s]
        BY <1>2, <1>3, <1>b, <3>2 DEF Shape
      <3>4. /\ e \in Entries /\ e[1] = a /\ e[2] = p /\ e[3] = 1
        BY <1>2, <3>1, <3>3 DEF Entries
      <3>5. \A n \in Names : Ahead(lev, rng, e, n) <=> In(f, n)
        <4>1. ASSUME NEW n \in Names
              PROVE  InRest(bt[a], lev[a], rng[a], p, 1, n) <=>
                       InField(bt[a], lev[a], rng[a], o, f, n)
          <5>1. PICK b, lv, rg : b = bt[a] /\ lv = lev[a] /\ rg = rng[a]
            OBVIOUS
          <5>2. InField(b, lv, rg, o, s, n) <=> \E g \in FieldSet : InField(b, lv, rg, p, g, n)
            BY <1>2, <1>3, <1>4, <2>2, <3>2, <3>3, <5>1, PointerField
          <5>3. PICK d \in 1 .. 4 : d = 1
            OBVIOUS
          <5>4. InRest(b, lv, rg, p, 1, n) <=> \E g \in FieldSet : InField(b, lv, rg, p, g, n)
            BY <1>3, <1>4, <3>3, <5>1, <5>3, RestSplit
          <5>. QED BY <3>2, <5>1, <5>2, <5>4
        <4>. QED BY <3>4, <4>1 DEF Ahead, In
      <3>6. s2 = <<e>> \o rest
        BY <1>b, <2>2, <3>1
      <3>7. \A n \in Names : ~ (Ahead(lev, rng, e, n) /\ InStack(lev, rng, rest, n))
        BY <1>1, <1>5, <1>6, <1>7, <3>5
      <3>8. e[2] \in DOMAIN lev[e[1]]
        BY <3>3, <3>4
      <3>9. /\ StackOK(lev, s2) /\ Apart(lev, rng, s2)
            /\ \A n \in Names : InStack(lev, rng, s2, n) <=>
                 Ahead(lev, rng, e, n) \/ InStack(lev, rng, rest, n)
        BY <1>7, <3>4, <3>6, <3>7, <3>8, PushStack
      <3>. QED BY <2>2, <3>5, <3>9
    <2>. QED BY <2>1, <2>2
  <1>9. ASSUME NEW n \in Names
        PROVE  /\ InStack(lev, rng, s2, n) => InStack(lev, rng, st, n)
               /\ In(f, n) => InStack(lev, rng, st, n)
               /\ InStack(lev, rng, st, n) => InStack(lev, rng, s2, n) \/ In(f, n)
               /\ In(f, n) => (InStack(lev, rng, s2, n) <=> p # 0 /\ f # "prop")
    BY <1>1, <1>5, <1>6, <1>7, <1>8
  <1>. QED BY <1>2, <1>5, <1>8, <1>9 DEF In

(* A new element at the end of a sequence without repetitions *)
LEMMA AppendNew ==
  ASSUME NEW S, NEW s \in Seq(S), NEW e \in S, NoRepeats(s), \A i \in 1 .. Len(s) : s[i] # e
  PROVE  /\ Append(s, e) \in Seq(S) /\ NoRepeats(Append(s, e)) /\ Contains(Append(s, e), e)
         /\ \A n : Contains(s, n) => Contains(Append(s, e), n)
         /\ \A i \in 1 .. Len(Append(s, e)) : Append(s, e)[i] = e \/ Contains(s, Append(s, e)[i])
  <1>1. PICK r : r = Append(s, e)
    OBVIOUS
  <1>2. /\ r \in Seq(S) /\ Len(r) = Len(s) + 1 /\ Len(s) \in Nat /\ r[Len(s) + 1] = e
        /\ \A i \in 1 .. Len(s) : r[i] = s[i]
    BY <1>1, AppendProperties, LenProperties
  <1>3. PICK m \in Nat : m = Len(s)
    BY <1>2
  <1>4. \A i \in 1 .. Len(r) : (i \in 1 .. m /\ r[i] = s[i]) \/ i = m + 1
    BY <1>2, <1>3
  <1>5. NoRepeats(r)
    BY <1>2, <1>3, <1>4 DEF NoRepeats
  <1>6. m + 1 \in 1 .. Len(r) /\ \A i \in 1 .. m : i \in 1 .. Len(r)
    BY <1>2, <1>3
  <1>7. Contains(r, e) /\ \A n : Contains(s, n) => Contains(r, n)
    BY <1>2, <1>3, <1>6 DEF Contains
  <1>8. \A i \in 1 .. Len(r) : r[i] = e \/ Contains(s, r[i])
    BY <1>2, <1>3, <1>4 DEF Contains
  <1>. QED BY <1>1, <1>2, <1>5, <1>7, <1>8

(* One field of one node *)
LEMMA VisitStep ==
  ASSUME NEW lev, NEW rng, Core(lev, rng), NEW r \in Readers, DOMAIN seen = Readers,
         ForeachOK(lev, rng, thr[r], seen[r], had[r]), Visit(r)
  PROVE  ForeachOK(lev, rng, thr[r], seen[r], had[r])'
  <1>1. PICK st, sn, hd : st = thr[r].stack /\ sn = seen[r] /\ hd = had[r]
    OBVIOUS
  <1>2. /\ thr[r].at = "foreach" /\ st # <<>>
        /\ sn \in Seq(Names) /\ NoRepeats(sn) /\ \A i \in 1 .. Len(sn) : sn[i] \in InfoNames
        /\ hd \subseteq InfoNames /\ StackOK(lev, st) /\ Apart(lev, rng, st)
        /\ \A i \in 1 .. Len(sn) : ~ InStack(lev, rng, st, sn[i])
        /\ \A n \in hd : Contains(sn, n) \/ InStack(lev, rng, st, n)
    BY <1>1 DEF Visit, ForeachOK
  <1>3. PICK a, o, c : Head(st) = <<a, o, c>>
    <2>1. Head(st) \in Entries
      BY <1>2, TailFacts DEF StackOK
    <2>. QED BY <2>1 DEF Entries
  <1>4. PICK f, p : f = Fields[c] /\ p = bt[a][o][f]
    OBVIOUS
  <1>5. PICK rest : rest = IF c = 4 THEN Tail(st) ELSE <<<<a, o, c + 1>>>> \o Tail(st)
    OBVIOUS
  <1>6. PICK s2 : s2 = IF p # 0 /\ f # "prop" THEN <<<<a, p, 1>>>> \o rest ELSE rest
    OBVIOUS
  <1>7. PICK n2 : n2 = IF p # 0 /\ f = "prop" THEN Append(sn, info[a][p]) ELSE sn
    OBVIOUS
  <1>8. /\ thr' = [thr EXCEPT ![r] = Foreach(s2)] /\ seen'[r] = n2 /\ had'[r] = hd
        /\ UNCHANGED <<lists, memory>>
    <2>1. Len(Fields) = 4
      BY DEF Fields
    <2>2. Head(st)[1] = a /\ Head(st)[2] = o /\ Head(st)[3] = c
      BY <1>3
    <2>3. thr' = [thr EXCEPT ![r] = Foreach(s2)]
      BY <1>1, <1>4, <1>5, <1>6, <2>1, <2>2 DEF Visit
    <2>4. seen' = IF p # 0 /\ f = "prop" THEN [seen EXCEPT ![r] = Append(@, info[a][p])] ELSE seen
      BY <1>1, <1>4, <2>2 DEF Visit
    <2>5. had' = had /\ UNCHANGED <<lists, memory>>
      BY DEF Visit, lists, memory
    <2>. QED BY <1>1, <1>7, <2>3, <2>4, <2>5
  <1>9. /\ a \in Contexts /\ o \in DOMAIN lev[a] /\ f \in FieldSet
        /\ StackOK(lev, s2) /\ Apart(lev, rng, s2)
        /\ \A n \in Names :
             LET behind == get_prop_area_for_name(n) = a /\ InField(bt[a], lev[a], rng[a], o, f, n)
             IN /\ InStack(lev, rng, s2, n) => InStack(lev, rng, st, n)
                /\ behind => InStack(lev, rng, st, n)
                /\ InStack(lev, rng, st, n) => InStack(lev, rng, s2, n) \/ behind
                /\ behind => (InStack(lev, rng, s2, n) <=> p # 0 /\ f # "prop")
    <2>1. Visited(st, a, o, c, f, p, s2)
      BY <1>2, <1>3, <1>4, <1>5, <1>6 DEF Visited
    <2>. QED BY <1>2, <2>1, VisitStack
  <1>. DEFINE In(n) == get_prop_area_for_name(n) = a /\ InField(bt[a], lev[a], rng[a], o, f, n)
  <1>10. Tree(bt[a], lev[a], rng[a])
    BY <1>9 DEF Core, MemInv
  <1>11. ASSUME NEW n \in InfoNames, In(n)
         PROVE  p # 0 /\ (f = "prop" => n = info[a][p])
    <2>1. PICK q : Holds(lev, a, q, n)
      BY <1>11, InfoFacts DEF Holds
    <2>2. q \in DOMAIN lev[a] /\ Word(bt[a], lev[a], q) = n /\ n \in Seq(Tokens)
      BY <2>1, NamesAssumption DEF Holds
    <2>3. CASE f = "prop"
      <3>1. Word(bt[a], lev[a], o) = n
        BY <1>11, <2>3 DEF InField
      <3>2. q = o
        BY <1>9, <1>10, <2>2, <3>1 DEF Tree, Unique
      <3>. QED BY <1>4, <2>1, <2>3, <3>2 DEF Holds
    <2>4. CASE f # "prop"
      <3>1. PICK s \in Slots : s = f
        BY <1>9, <2>4 DEF FieldSet, Slots
      <3>2. PICK b, lv, rg : b = bt[a] /\ lv = lev[a] /\ rg = rng[a]
        OBVIOUS
      <3>3. b[o][s] # 0
        <4>. SUFFICES ASSUME b[o][s] = 0 PROVE FALSE
          OBVIOUS
        <4>1. Tree(b, lv, rg) /\ o \in DOMAIN lv /\ InField(b, lv, rg, o, s, n) /\ q \in DOMAIN lv
          BY <1>9, <1>10, <1>11, <2>2, <3>1, <3>2
        <4>2. Word(b, lv, q) # n
          BY <2>2, <4>1, NullField
        <4>. QED BY <2>2, <3>2, <4>2
      <3>. QED BY <1>4, <2>4, <3>1, <3>2, <3>3
    <2>. QED BY <2>3, <2>4
  <1>12. InfoNames \subseteq Names
    BY InfoFacts
  <1>. HIDE DEF In
  <1>13. \A n \in Names : /\ InStack(lev, rng, s2, n) => InStack(lev, rng, st, n)
                          /\ In(n) => InStack(lev, rng, st, n)
                          /\ InStack(lev, rng, st, n) => InStack(lev, rng, s2, n) \/ In(n)
                          /\ In(n) => (InStack(lev, rng, s2, n) <=> p # 0 /\ f # "prop")
    BY <1>9 DEF In
  <1>14. ForeachOK(lev, rng, Foreach(s2), n2, hd)
    <2>1. Foreach(s2).at = "foreach" /\ Foreach(s2).stack = s2
      BY DEF Foreach
    <2>2. CASE p # 0 /\ f = "prop"
      <3>1. PICK w : w = info[a][p] /\ n2 = Append(sn, w)
        BY <1>7, <2>2
      <3>2. w \in InfoNames /\ w \in Names /\ In(w)
        <4>1. bt[a][o].prop = p
          BY <1>4, <2>2
        <4>2. Holds(lev, a, o, w) /\ w \in InfoNames
          BY <1>9, <2>2, <3>1, <4>1, InfoFacts
        <4>. QED BY <1>12, <2>2, <4>2 DEF In, InField, Holds
      <3>3. \A i \in 1 .. Len(sn) : sn[i] # w
        BY <1>2, <1>13, <3>2
      <3>4. /\ n2 \in Seq(Names) /\ NoRepeats(n2) /\ Contains(n2, w)
            /\ \A n : Contains(sn, n) => Contains(n2, n)
            /\ \A i \in 1 .. Len(n2) : n2[i] = w \/ Contains(sn, n2[i])
        BY <1>2, <3>1, <3>2, <3>3, AppendNew
      <3>5. ASSUME NEW i \in 1 .. Len(n2)
            PROVE  n2[i] \in InfoNames /\ ~ InStack(lev, rng, s2, n2[i])
        <4>1. CASE n2[i] = w
          BY <1>13, <2>2, <3>2, <4>1
        <4>2. CASE Contains(sn, n2[i])
          <5>1. PICK j \in 1 .. Len(sn) : sn[j] = n2[i]
            BY <4>2 DEF Contains
          <5>. QED BY <1>2, <1>12, <1>13, <5>1
        <4>. QED BY <3>4, <4>1, <4>2
      <3>6. ASSUME NEW n \in hd PROVE Contains(n2, n) \/ InStack(lev, rng, s2, n)
        <4>1. n \in InfoNames /\ n \in Names
          BY <1>2, <1>12
        <4>2. CASE In(n)
          BY <1>11, <2>2, <3>1, <3>4, <4>1, <4>2
        <4>3. CASE ~ In(n)
          BY <1>2, <1>13, <3>4, <4>1, <4>3
        <4>. QED BY <4>2, <4>3
      <3>. QED BY <1>2, <1>9, <2>1, <3>4, <3>5, <3>6 DEF ForeachOK
    <2>3. CASE ~ (p # 0 /\ f = "prop")
      <3>1. n2 = sn
        BY <1>7, <2>3
      <3>2. ASSUME NEW i \in 1 .. Len(sn) PROVE ~ InStack(lev, rng, s2, sn[i])
        BY <1>2, <1>12, <1>13
      <3>3. ASSUME NEW n \in hd PROVE Contains(sn, n) \/ InStack(lev, rng, s2, n)
        <4>1. n \in InfoNames /\ n \in Names
          BY <1>2, <1>12
        <4>. QED BY <1>2, <1>11, <1>13, <2>3, <4>1
      <3>. QED BY <1>2, <1>9, <2>1, <3>1, <3>2, <3>3 DEF ForeachOK
    <2>. QED BY <2>2, <2>3
  <1>15. Grows(lev, rng, lev, rng) /\ prefixes' = prefixes /\ InfoNames' = InfoNames
    BY <1>8, InfoQuiet DEF Grows, memory, lists
  <1>16. PICK y : y = Foreach(s2)
    OBVIOUS
  <1>17. ForeachOK(lev, rng, y, n2, hd)'
    BY <1>14, <1>15, <1>16, ForeachKept
  <1>18. thr'[r] = y
    BY <1>8, <1>16 DEF Core, ThreadInv, Threads
  <1>. QED BY <1>8, <1>17, <1>18

(* A foreach begins with all areas ahead of it. *)
LEMMA BeginForeachStep ==
  ASSUME NEW lev, NEW rng, Core(lev, rng), NEW r \in Readers, DOMAIN seen = Readers,
         DOMAIN had = Readers, BeginForeach(r)
  PROVE  ForeachOK(lev, rng, thr[r], seen[r], had[r])'
  <1>1. PICK st : st = [i \in DOMAIN contexts |-> <<contexts[i], 0, 1>>]
    OBVIOUS
  <1>2. PICK y, hd : y = Foreach(st) /\ hd = InfoNames
    OBVIOUS
  <1>3. /\ thr'[r] = y /\ seen'[r] = <<>> /\ had'[r] = hd /\ UNCHANGED <<lists, memory>>
    BY <1>1, <1>2 DEF BeginForeach, Core, ThreadInv, Threads
  <1>4. /\ y.at = "foreach" /\ y.stack = st
    BY <1>2 DEF Foreach
  <1>5. contexts \in Seq(Contexts) /\ NoRepeats(contexts) /\ ListInv
    BY DEF Core, ListInv
  <1>6. /\ DOMAIN contexts = 1 .. Len(contexts) /\ Len(contexts) \in Nat
        /\ \A i \in 1 .. Len(contexts) : contexts[i] \in Contexts
    BY <1>5, LenProperties, ElementOfSeq
  <1>7. /\ st \in Seq(Entries) /\ Len(st) = Len(contexts)
        /\ \A i \in 1 .. Len(contexts) : st[i][1] = contexts[i] /\ st[i][2] = 0 /\ st[i][3] = 1
    <2>1. st = [i \in 1 .. Len(contexts) |-> <<contexts[i], 0, 1>>]
      BY <1>1, <1>6
    <2>2. \A i \in 1 .. Len(contexts) : <<contexts[i], 0, 1>> \in Entries
      BY <1>6 DEF Entries
    <2>3. st \in Seq(Entries) /\ Len(st) = Len(contexts)
      BY <1>6, <2>1, <2>2
    <2>. QED BY <2>1, <2>3
  <1>8. StackOK(lev, st)
    <2>1. \A a \in Contexts : 0 \in DOMAIN lev[a]
      BY DEF Core, MemInv, Tree, Shape
    <2>. QED BY <1>6, <1>7, <2>1 DEF StackOK
  <1>9. Apart(lev, rng, st)
    <2>1. ASSUME NEW i \in 1 .. Len(st), NEW j \in 1 .. Len(st), NEW n, i # j,
                 Ahead(lev, rng, st[i], n), Ahead(lev, rng, st[j], n)
          PROVE  FALSE
      <3>1. i \in 1 .. Len(contexts) /\ j \in 1 .. Len(contexts)
        BY <1>7
      <3>2. contexts[i] = contexts[j]
        <4>1. st[i][1] = contexts[i] /\ st[j][1] = contexts[j]
          BY <1>7, <3>1
        <4>2. st[i][1] = get_prop_area_for_name(n) /\ st[j][1] = get_prop_area_for_name(n)
          BY <2>1 DEF Ahead
        <4>. QED BY <4>1, <4>2
      <3>. QED BY <1>5, <2>1, <3>1, <3>2 DEF NoRepeats
    <2>. QED BY <2>1 DEF Apart
  <1>10. InfoNames \subseteq Names
    BY InfoFacts
  <1>11. ASSUME NEW n \in InfoNames PROVE InStack(lev, rng, st, n)
    <2>1. PICK a \in Contexts : \E o : Holds(lev, a, o, n)
      BY InfoFacts
    <2>2. a = get_prop_area_for_name(n) /\ n \in Seq(Tokens) /\ n # <<>> /\ a # NoArea
      BY <2>1, NamesAssumption, LinesAssumption DEF Holds
    <2>3. PICK j \in 1 .. Len(contexts) : contexts[j] = a
      BY <1>5, <2>2, AreaFacts
    <2>4. InRest(bt[a], lev[a], rng[a], 0, 1, n)
      <3>1. PICK b, lv, rg : b = bt[a] /\ lv = lev[a] /\ rg = rng[a]
        OBVIOUS
      <3>2. Shape(b, lv, rg)
        BY <3>1 DEF Core, MemInv, Tree
      <3>3. InField(b, lv, rg, 0, "children", n)
        BY <2>2, <3>2, RootField
      <3>4. Fields[3] = "children" /\ 3 \in 1 .. 4
        BY DEF Fields
      <3>. QED BY <3>1, <3>3, <3>4 DEF InRest
    <2>5. Ahead(lev, rng, st[j], n)
      BY <1>7, <2>2, <2>3, <2>4 DEF Ahead
    <2>. QED BY <1>7, <2>5 DEF InStack
  <1>12. ForeachOK(lev, rng, y, <<>>, hd)
    <2>1. <<>> \in Seq(Names) /\ Len(<<>>) = 0 /\ NoRepeats(<<>>)
      BY DEF NoRepeats
    <2>2. \A i \in 1 .. Len(<<>>) : FALSE
      BY <2>1
    <2>. QED BY <1>2, <1>4, <1>8, <1>9, <1>11, <2>1, <2>2 DEF ForeachOK
  <1>13. Grows(lev, rng, lev, rng) /\ prefixes' = prefixes /\ InfoNames' = InfoNames
    BY <1>3, InfoQuiet DEF Grows, memory, lists
  <1>14. PICK sn : sn = <<>>
    OBVIOUS
  <1>15. ForeachOK(lev, rng, y, sn, hd)'
    BY <1>12, <1>13, <1>14, ForeachKept
  <1>. QED BY <1>3, <1>14, <1>15

(* A thread that is not in a foreach needs no stack. *)
LEMMA ForeachIdle ==
  ASSUME NEW lev, NEW rng, NEW l2, NEW r2, InfoNames \subseteq InfoNames', NEW x, NEW sn, NEW hd,
         ForeachOK(lev, rng, x, sn, hd), NEW z, z.at # "foreach"
  PROVE  ForeachOK(l2, r2, z, sn, hd)'
  BY DEF ForeachOK

(* What a step of a search makes of the thread *)
LEMMA WalkThread ==
  ASSUME NEW t, Walk(t)
  PROVE  /\ \E y : thr' = [thr EXCEPT ![t] = y] /\ y.at \in WalkerAts \cup {"done", "link"}
         /\ UNCHANGED <<lists, seen, had>>
  <1>1. /\ \A x, f : Done(x, f).at = "done"
        /\ \A at, a, n, i, o : Walker(at, a, n, i, o).at = at
    BY DEF Done, Walker
  <1>2. ASSUME NEW tok, NEW slot, Allocate(t, tok, slot)
        PROVE  \E y : thr' = [thr EXCEPT ![t] = y] /\ y.at \in WalkerAts \cup {"done", "link"}
    <2>1. PICK y : /\ thr' = [thr EXCEPT ![t] = y]
                   /\ \/ y = Done(thr[t], FALSE)
                      \/ y = [at |-> "link", area |-> thr[t].area, name |-> thr[t].name,
                              i |-> thr[t].i, node |-> thr[t].node, slot |-> slot,
                              new |-> used[thr[t].area]]
      BY <1>2 DEF Allocate
    <2>2. y.at \in {"done", "link"}
      <3>1. CASE y = Done(thr[t], FALSE)
        BY <1>1, <3>1
      <3>2. CASE y = [at |-> "link", area |-> thr[t].area, name |-> thr[t].name,
                      i |-> thr[t].i, node |-> thr[t].node, slot |-> slot,
                      new |-> used[thr[t].area]]
        <4>1. y.at = "link"
          BY <3>2
        <4>. QED BY <4>1
      <3>. QED BY <2>1, <3>1, <3>2
    <2>. QED BY <2>1, <2>2
  <1>3. ASSUME NEW tok, NEW slot, Follow(t, tok, slot)
        PROVE  \E y : thr' = [thr EXCEPT ![t] = y] /\ y.at \in WalkerAts \cup {"done", "link"}
    <2>1. \/ Allocate(t, tok, slot)
          \/ \E y : /\ thr' = [thr EXCEPT ![t] = y]
                    /\ \/ \E f : y = Done(thr[t], f)
                       \/ \E p : y = Walker("search", thr[t].area, thr[t].name, thr[t].i, p)
      BY <1>3 DEF Follow
    <2>2. CASE Allocate(t, tok, slot)
      BY <1>2, <2>2
    <2>3. ASSUME NEW y, thr' = [thr EXCEPT ![t] = y],
                 \/ \E f : y = Done(thr[t], f)
                 \/ \E p : y = Walker("search", thr[t].area, thr[t].name, thr[t].i, p)
          PROVE  y.at \in WalkerAts \cup {"done", "link"}
      BY <1>1, <2>3 DEF WalkerAts
    <2>. QED BY <2>1, <2>2, <2>3
  <1>4. CASE Level(t)
    <2>1. ASSUME thr' = [thr EXCEPT ![t] = Done(thr[t], FALSE)]
          PROVE  \E y : thr' = [thr EXCEPT ![t] = y] /\ y.at \in WalkerAts \cup {"done", "link"}
      <3>1. PICK y : y = Done(thr[t], FALSE)
        OBVIOUS
      <3>2. thr' = [thr EXCEPT ![t] = y] /\ y.at = "done"
        BY <1>1, <2>1, <3>1
      <3>. QED BY <3>2
    <2>2. ASSUME Follow(t, thr[t].name[thr[t].i], "children")
          PROVE  \E y : thr' = [thr EXCEPT ![t] = y] /\ y.at \in WalkerAts \cup {"done", "link"}
      <3>1. PICK tok, slot : Follow(t, tok, slot)
        BY <2>2
      <3>. QED BY <1>3, <3>1
    <2>3. \E y : thr' = [thr EXCEPT ![t] = y] /\ y.at \in WalkerAts \cup {"done", "link"}
      BY <1>4, <2>1, <2>2 DEF Level
    <2>. QED BY <1>4, <2>3 DEF Level
  <1>5. CASE Search(t)
    <2>1. \/ \E tok, slot : Follow(t, tok, slot)
          \/ \E at \in {"prop", "level"} : \E a, n, i, o : thr' = [thr EXCEPT ![t] = Walker(at, a, n, i, o)]
      BY <1>5 DEF Search
    <2>2. \E y : thr' = [thr EXCEPT ![t] = y] /\ y.at \in WalkerAts \cup {"done", "link"}
      BY <1>1, <1>3, <2>1 DEF WalkerAts
    <2>. QED BY <1>5, <2>2 DEF Search
  <1>6. CASE Prop(t)
    BY <1>3, <1>6 DEF Prop
  <1>. QED BY <1>4, <1>5, <1>6 DEF Walk

(* The step of the inductive invariant *)
LEMMA InvStep ==
  ASSUME IInv, [Next]_vars
  PROVE  IInv'
  <1>1. PICK lev, rng : Core(lev, rng) /\ ForeachInv(lev, rng)
    BY DEF IInv, Inv
  <1>2. PICK l2, r2 : Core(l2, r2)' /\ Grows(lev, rng, l2, r2)
    BY <1>1, CoreStep
  <1>3. /\ DOMAIN seen = Readers /\ DOMAIN had = Readers /\ DOMAIN thr = Threads
        /\ \A r \in Readers : r \in Threads /\ ForeachOK(lev, rng, thr[r], seen[r], had[r])
    BY <1>1 DEF ForeachInv, Core, ThreadInv, Threads
  <1>4. ASSUME seen' = seen, had' = had, prefixes' = prefixes, InfoNames \subseteq InfoNames',
               \A r \in Readers : thr'[r] = thr[r] \/ thr'[r].at # "foreach"
        PROVE  IInv'
    <2>1. ASSUME NEW r \in Readers PROVE ForeachOK(l2, r2, thr[r], seen[r], had[r])'
      <3>1. PICK x, z, sn, hd : x = thr[r] /\ z = thr'[r] /\ sn = seen[r] /\ hd = had[r]
        OBVIOUS
      <3>2. ForeachOK(lev, rng, x, sn, hd)
        BY <1>3, <3>1
      <3>3. CASE z = x
        <4>1. ForeachOK(l2, r2, x, sn, hd)'
          BY <1>2, <1>4, <3>2, ForeachKept
        <4>. QED BY <1>4, <3>1, <3>3, <4>1
      <3>4. CASE z.at # "foreach"
        <4>1. ForeachOK(l2, r2, z, sn, hd)'
          BY <1>4, <3>2, <3>4, ForeachIdle
        <4>. QED BY <1>4, <3>1, <4>1
      <3>. QED BY <1>4, <3>1, <3>3, <3>4
    <2>2. ForeachInv(l2, r2)'
      BY <1>3, <1>4, <2>1 DEF ForeachInv
    <2>. QED BY <1>2, <2>2 DEF IInv, Inv
  <1>5. CASE ReadLine
    <2>1. seen' = seen /\ had' = had /\ thr' = thr /\ UNCHANGED memory /\ unread # <<>>
      BY <1>5 DEF ReadLine
    <2>2. \A r \in Readers : thr'[r].at # "foreach"
      BY <1>1, <1>3, <2>1 DEF Core, ListInv
    <2>3. InfoNames' = InfoNames
      BY <2>1, InfoQuiet
    <2>4. ASSUME NEW r \in Readers PROVE ForeachOK(l2, r2, thr[r], seen[r], had[r])'
      <3>1. PICK x, z, sn, hd : x = thr[r] /\ z = thr'[r] /\ sn = seen[r] /\ hd = had[r]
        OBVIOUS
      <3>2. ForeachOK(lev, rng, x, sn, hd)
        BY <1>3, <3>1
      <3>3. ForeachOK(l2, r2, z, sn, hd)'
        BY <2>2, <2>3, <3>1, <3>2, ForeachIdle
      <3>. QED BY <2>1, <3>1, <3>3
    <2>5. ForeachInv(l2, r2)'
      BY <1>3, <2>1, <2>4 DEF ForeachInv
    <2>. QED BY <1>2, <2>5 DEF IInv, Inv
  <1>6. ASSUME NEW t \in Threads, Walk(t) PROVE IInv'
    <2>1. PICK y : thr' = [thr EXCEPT ![t] = y] /\ y.at \in WalkerAts \cup {"done", "link"}
      BY <1>6, WalkThread
    <2>2. seen' = seen /\ had' = had /\ prefixes' = prefixes
      BY <1>6, WalkThread DEF lists
    <2>3. InfoNames' = InfoNames
      BY <1>1, <1>6, InfoWalk
    <2>4. \A r \in Readers : thr'[r] = thr[r] \/ thr'[r].at # "foreach"
      BY <1>3, <2>1 DEF WalkerAts
    <2>. QED BY <1>4, <2>2, <2>3, <2>4
  <1>7. CASE Link
    <2>1. seen' = seen /\ had' = had /\ prefixes' = prefixes
      BY <1>7 DEF Link, lists
    <2>2. \A r \in Readers : thr'[r] = thr[r]
      BY <1>3, <1>7, ThreadsAssumption DEF Link
    <2>3. InfoNames \subseteq InfoNames'
      <3>1. PICK x : x = thr[Init_]
        OBVIOUS
      <3>. QED BY <1>1, <1>7, <3>1, InfoLink
    <2>. QED BY <1>4, <2>1, <2>2, <2>3
  <1>8. ASSUME NEW t \in Threads, NEW n \in Names, Begin(t, n) PROVE IInv'
    <2>1. seen' = seen /\ had' = had /\ prefixes' = prefixes /\ UNCHANGED memory
      BY <1>8 DEF Begin, lists
    <2>2. \A a : Find(a, n).at = "level"
      BY DEF Find, Walker
    <2>3. \A r \in Readers : thr'[r] = thr[r] \/ thr'[r].at # "foreach"
      BY <1>3, <1>8, <2>2 DEF Begin
    <2>4. InfoNames' = InfoNames
      BY <2>1, InfoQuiet
    <2>. QED BY <1>4, <2>1, <2>3, <2>4
  <1>9. CASE UNCHANGED vars
    <2>1. seen' = seen /\ had' = had /\ prefixes' = prefixes /\ UNCHANGED memory /\ thr' = thr
      BY <1>9 DEF vars, lists
    <2>2. InfoNames' = InfoNames
      BY <2>1, InfoQuiet
    <2>. QED BY <1>4, <2>1, <2>2
  <1>10. ASSUME NEW r \in Readers, BeginForeach(r) \/ Visit(r) \/ EndForeach(r) PROVE IInv'
    <2>1. Core(lev, rng)' /\ Grows(lev, rng, lev, rng)
      BY <1>1, <1>10, ForeachStep
    <2>2. /\ prefixes' = prefixes /\ InfoNames' = InfoNames
          /\ DOMAIN seen' = Readers /\ DOMAIN had' = Readers
          /\ \A u \in Readers : u # r => thr'[u] = thr[u] /\ seen'[u] = seen[u] /\ had'[u] = had[u]
      <3>1. UNCHANGED memory /\ prefixes' = prefixes
        BY <1>10 DEF BeginForeach, Visit, EndForeach, lists
      <3>2. CASE BeginForeach(r)
        BY <1>3, <3>1, <3>2, InfoQuiet DEF BeginForeach
      <3>3. CASE Visit(r)
        <4>1. \A u \in Readers : u # r => thr'[u] = thr[u]
          BY <1>3, <3>3 DEF Visit
        <4>2. DOMAIN seen' = Readers /\ \A u \in Readers : u # r => seen'[u] = seen[u]
          BY <1>3, <3>3 DEF Visit
        <4>. QED BY <1>3, <3>1, <3>3, <4>1, <4>2, InfoQuiet DEF Visit
      <3>4. CASE EndForeach(r)
        BY <1>3, <3>1, <3>4, InfoQuiet DEF EndForeach
      <3>. QED BY <1>10, <3>2, <3>3, <3>4
    <2>3. ForeachOK(lev, rng, thr[r], seen[r], had[r])'
      <3>1. CASE BeginForeach(r)
        BY <1>1, <1>3, <3>1, BeginForeachStep
      <3>2. CASE Visit(r)
        BY <1>1, <1>3, <3>2, VisitStep
      <3>3. CASE EndForeach(r)
        <4>1. PICK x, z, sn, hd : x = thr[r] /\ z = thr'[r] /\ sn = seen[r] /\ hd = had[r]
          OBVIOUS
        <4>2. z.at # "foreach" /\ seen' = seen /\ had' = had
          BY <1>3, <3>3, <4>1 DEF EndForeach, Idle
        <4>3. ForeachOK(lev, rng, x, sn, hd)
          BY <1>3, <4>1
        <4>4. ForeachOK(lev, rng, z, sn, hd)'
          BY <2>2, <4>2, <4>3, ForeachIdle
        <4>. QED BY <4>1, <4>2, <4>4
      <3>. QED BY <1>10, <3>1, <3>2, <3>3
    <2>4. ASSUME NEW u \in Readers, u # r PROVE ForeachOK(lev, rng, thr[u], seen[u], had[u])'
      <3>1. PICK x, sn, hd : x = thr[u] /\ sn = seen[u] /\ hd = had[u]
        OBVIOUS
      <3>2. ForeachOK(lev, rng, x, sn, hd)
        BY <1>3, <3>1
      <3>3. ForeachOK(lev, rng, x, sn, hd)'
        BY <2>1, <2>2, <3>2, ForeachKept
      <3>. QED BY <2>2, <2>4, <3>1, <3>3
    <2>5. ForeachInv(lev, rng)'
      BY <2>2, <2>3, <2>4 DEF ForeachInv
    <2>. QED BY <2>1, <2>5 DEF IInv, Inv
  <1>11. Init_ \in Threads
    BY DEF Threads
  <1>12. CASE InitStep
    BY <1>6, <1>7, <1>11, <1>12 DEF InitStep
  <1>13. ASSUME NEW r \in Readers, ReaderStep(r) \/ BeginForeach(r) \/ \E n \in Names : Begin(r, n)
         PROVE  IInv'
    BY <1>3, <1>6, <1>8, <1>10, <1>13 DEF ReaderStep
  <1>14. CASE \E n \in Names : Begin(Init_, n)
    BY <1>8, <1>11, <1>14
  <1>. QED BY <1>5, <1>9, <1>12, <1>13, <1>14 DEF Next

(* The initial states satisfy it. *)
LEMMA InvInit ==
  ASSUME Init
  PROVE  IInv
  <1>1. PICK lev, rng : Core(lev, rng)
    BY CoreInit
  <1>2. <<>> \in Seq(Names) /\ NoRepeats(<<>>) /\ \A i \in 1 .. Len(<<>>) : FALSE
    BY DEF NoRepeats
  <1>3. ASSUME NEW r \in Readers PROVE ForeachOK(lev, rng, thr[r], seen[r], had[r])
    <2>1. thr[r].at = "idle" /\ seen[r] = <<>> /\ had[r] = {}
      BY DEF Init, Idle, Threads
    <2>. QED BY <1>2, <2>1 DEF ForeachOK
  <1>4. ForeachInv(lev, rng)
    BY <1>3 DEF ForeachInv, Init
  <1>. QED BY <1>1, <1>4 DEF IInv, Inv

(* The inductive invariant: the areas hold tries whose nodes have levels   *)
(* and ranges, every search is where its name can be, and every foreach    *)
(* has ahead of it what it has not seen.                                   *)
THEOREM Invariant == Spec => []IInv
  <1>1. Init => IInv
    BY InvInit
  <1>2. IInv /\ [Next]_vars => IInv'
    BY InvStep
  <1>. QED BY <1>1, <1>2, PTL DEF Spec

(* Pointers lead to objects of their kind, and the objects that allocate_obj *)
(* hands out neither overlap nor leave the area, whatever its size.          *)
THEOREM TypeCorrect == Spec => []TypeOK
  <1>1. IInv => TypeOK
    BY CoreType DEF IInv, Inv
  <1>. QED BY <1>1, Invariant, PTL

(* A foreach that runs while init adds properties passes every property    *)
(* that existed when it began, none twice, and nothing else.               *)
THEOREM ForeachIsComplete == Spec => []ForeachComplete
  <1>1. ASSUME IInv PROVE ForeachComplete
    <2>1. PICK lev, rng : ForeachInv(lev, rng)
      BY <1>1 DEF IInv, Inv
    <2>. SUFFICES ASSUME NEW r \in Readers
                  PROVE  /\ \A i, j \in DOMAIN seen[r] : seen[r][i] = seen[r][j] => i = j
                         /\ ToSet(seen[r]) \subseteq InfoNames
                         /\ thr[r].at = "foreach" /\ thr[r].stack = <<>> => had[r] \subseteq ToSet(seen[r])
      BY DEF ForeachComplete
    <2>2. PICK sn : sn = seen[r]
      OBVIOUS
    <2>3. ForeachOK(lev, rng, thr[r], sn, had[r])
      BY <2>1, <2>2 DEF ForeachInv
    <2>4. sn \in Seq(Names) /\ NoRepeats(sn) /\ \A i \in 1 .. Len(sn) : sn[i] \in InfoNames
      BY <2>3 DEF ForeachOK
    <2>5. DOMAIN sn = 1 .. Len(sn)
      BY <2>4, LenProperties
    <2>6. ASSUME thr[r].at = "foreach", thr[r].stack = <<>>, NEW n \in had[r] PROVE n \in ToSet(sn)
      <3>1. ~ InStack(lev, rng, thr[r].stack, n)
        BY <2>6 DEF InStack
      <3>2. Contains(sn, n)
        BY <2>3, <2>6, <3>1 DEF ForeachOK
      <3>. QED BY <2>5, <3>2 DEF Contains, ToSet
    <2>. QED BY <2>2, <2>4, <2>5, <2>6 DEF NoRepeats, ToSet
  <1>2. IInv => ForeachComplete
    BY <1>1
  <1>. QED BY <1>2, Invariant, PTL

-----------------------------------------------------------------------------
(* The trie implements a set with atomic look-ups *)

LookupMap == [r \in Readers |-> Lookup(thr[r])]

(* What a thread is to the set: it has asked, or has the answer, or neither *)
LEMMA LookupFacts ==
  ASSUME NEW x
  PROVE  /\ x.at \in WalkerAts => Lookup(x) = <<"asked", x.name>>
         /\ x.at = "done" => Lookup(x) = <<IF x.found THEN "present" ELSE "absent", x.name>>
         /\ x.at \notin WalkerAts \cup {"done"} => Lookup(x) = <<"idle">>
         /\ x.at \notin WalkerAts => Lookup(x)[1] # "asked"
  <1>1. CASE x.at \in WalkerAts
    BY <1>1 DEF Lookup, WalkerAts
  <1>2. CASE x.at = "done"
    <2>1. Lookup(x) = <<IF x.found THEN "present" ELSE "absent", x.name>>
      BY <1>2 DEF Lookup
    <2>. QED BY <1>2, <2>1 DEF WalkerAts
  <1>3. CASE x.at \notin WalkerAts \cup {"done"}
    <2>1. Lookup(x) = <<"idle">>
      BY <1>3 DEF Lookup, WalkerAts
    <2>. QED BY <1>3, <2>1 DEF WalkerAts
  <1>. QED BY <1>1, <1>2, <1>3

(* A step of one thread changes at most its own look-up. *)
LEMMA LookupStep ==
  ASSUME DOMAIN thr = Threads, NEW t \in Threads, NEW y, thr' = [thr EXCEPT ![t] = y]
  PROVE  /\ t \in Readers => LookupMap' = [LookupMap EXCEPT ![t] = Lookup(y)]
         /\ t \notin Readers => LookupMap' = LookupMap
         /\ Lookup(y) = Lookup(thr[t]) => LookupMap' = LookupMap
  BY DEF LookupMap, Threads

(* A name whose node has no property, or whose search ends at a null       *)
(* pointer, or that has no area or an empty token, does not exist.         *)
LEMMA NotHeld ==
  ASSUME NEW lev, NEW rng, Core(lev, rng), NEW a, NEW n \in Names,
         a = get_prop_area_for_name(n),
         \/ a = NoArea
         \/ ~ Legal(n)
         \/ a \in Contexts /\ \A q \in DOMAIN lev[a] : Word(bt[a], lev[a], q) # n
         \/ a \in Contexts /\ \E o \in DOMAIN lev[a] : Word(bt[a], lev[a], o) = n /\ bt[a][o].prop = 0
  PROVE  n \notin InfoNames
  <1>1. SUFFICES ASSUME n \in InfoNames PROVE FALSE
    OBVIOUS
  <1>2. PICK c \in Contexts : \E o : Holds(lev, c, o, n)
    BY <1>1, InfoFacts
  <1>3. PICK o : Holds(lev, c, o, n)
    BY <1>2
  <1>4. /\ c = a /\ o \in DOMAIN lev[a] /\ bt[a][o].prop # 0 /\ Word(bt[a], lev[a], o) = n /\ Legal(n)
    BY <1>3 DEF Holds
  <1>5. Unique(bt[a], lev[a])
    BY <1>2, <1>4 DEF Core, MemInv, Tree
  <1>. QED BY <1>2, <1>4, <1>5, LinesAssumption DEF Unique

(* A reader that has loaded a pointer of the trie goes on, or it answers,  *)
(* and what it answers is so at this moment.                               *)
Answers(x, y) ==
  \/ y.at \in WalkerAts /\ y.name = x.name
  \/ /\ y.at = "done" /\ y.name = x.name /\ y.found \in BOOLEAN
     /\ y.found <=> x.name \in InfoNames

(* Following the pointer leads to one of the two. *)
LEMMA FollowAnswers ==
  ASSUME NEW lev, NEW rng, Core(lev, rng), NEW t \in Readers, NEW x, x = thr[t],
         x.at \in WalkerAts, x.area \in Contexts, NEW slot \in Slots, NEW k, k = x.name[x.i],
         SlotLev(bt[x.area], lev[x.area], x.node, slot) = SubSeq(x.name, 1, x.i - 1),
         k \in SlotRng(bt[x.area], rng[x.area], x.node, slot),
         Follow(t, k, slot)
  PROVE  \E y : thr' = [thr EXCEPT ![t] = y] /\ Answers(x, y)
  <1>1. t \in Threads /\ t # Init_
    BY ThreadsAssumption DEF Threads
  <1>2. /\ x.name \in Names /\ x.name \in Seq(Tokens) /\ x.i \in 1 .. Len(x.name)
        /\ x.area = get_prop_area_for_name(x.name) /\ x.area # NoArea
        /\ x.node \in DOMAIN lev[x.area] /\ Tree(bt[x.area], lev[x.area], rng[x.area])
    BY <1>1, WalkerFacts, LinesAssumption
  <1>3. slot # "prop"
    BY DEF Slots
  <1>4. CASE bt[x.area][x.node][slot] = 0
    <2>1. \A q \in DOMAIN lev[x.area] : Word(bt[x.area], lev[x.area], q) # x.name
      <3>1. PICK b, lv, rg, o, n, i : /\ b = bt[x.area] /\ lv = lev[x.area] /\ rg = rng[x.area]
                                      /\ o = x.node /\ n = x.name /\ i = x.i
        OBVIOUS
      <3>2. /\ Tree(b, lv, rg) /\ o \in DOMAIN lv /\ b[o][slot] = 0
            /\ n \in Seq(Tokens) /\ i \in 1 .. Len(n)
            /\ SlotLev(b, lv, o, slot) = SubSeq(n, 1, i - 1) /\ n[i] \in SlotRng(b, rg, o, slot)
        BY <1>2, <1>4, <3>1
      <3>3. \A q \in DOMAIN lv : Word(b, lv, q) # n
        BY <3>2, NullSlot
      <3>. QED BY <3>1, <3>3
    <2>2. x.name \notin InfoNames
      BY <1>2, <2>1, NotHeld
    <2>3. PICK y : y = Done(x, FALSE)
      OBVIOUS
    <2>4. thr' = [thr EXCEPT ![t] = y]
      BY <1>1, <1>4, <2>3 DEF Follow
    <2>5. y.at = "done" /\ y.name = x.name /\ y.found = FALSE
      BY <2>3 DEF Done
    <2>6. Answers(x, y)
      BY <2>2, <2>5 DEF Answers
    <2>. QED BY <2>4, <2>6
  <1>5. CASE bt[x.area][x.node][slot] # 0
    <2>1. PICK y : y = Walker("search", x.area, x.name, x.i, bt[x.area][x.node][slot])
      OBVIOUS
    <2>2. thr' = [thr EXCEPT ![t] = y]
      BY <1>3, <1>5, <2>1 DEF Follow
    <2>3. y.at \in WalkerAts /\ y.name = x.name
      BY <2>1 DEF Walker, WalkerAts
    <2>4. Answers(x, y)
      BY <2>3 DEF Answers
    <2>. QED BY <2>2, <2>4
  <1>. QED BY <1>4, <1>5

(* The same for the children of a node, the nodes of a binary tree and the *)
(* pointer to the prop_info                                                *)
LEMMA WalkAnswers ==
  ASSUME NEW lev, NEW rng, Core(lev, rng), NEW t \in Readers, NEW x, x = thr[t], Walk(t)
  PROVE  x.at \in WalkerAts /\ \E y : thr' = [thr EXCEPT ![t] = y] /\ Answers(x, y)
  <1>1. t \in Threads /\ t # Init_
    BY ThreadsAssumption DEF Threads
  <1>2. x.at \in WalkerAts
    BY DEF Walk, Level, Search, Prop, WalkerAts
  <1>3. /\ x.name \in Names /\ x.name \in Seq(Tokens) /\ x.i \in 1 .. Len(x.name)
        /\ x.area = get_prop_area_for_name(x.name)
        /\ x.area = NoArea => x.at = "level"
        /\ x.area # NoArea => /\ x.area \in Contexts /\ x.node \in DOMAIN lev[x.area]
                              /\ Reached(lev, rng, x)
                              /\ Tree(bt[x.area], lev[x.area], rng[x.area])
    BY <1>1, <1>2, WalkerFacts
  <1>4. x.name[x.i] \in Tokens
    BY <1>3, PrefixStep
  <1>5. CASE Level(t)
    <2>1. CASE x.area = NoArea \/ x.name[x.i] = Empty
      <3>1. x.area = NoArea \/ ~ Legal(x.name)
        <4>1. DOMAIN x.name = 1 .. Len(x.name)
          BY <1>3, LenProperties
        <4>. QED BY <1>3, <2>1, <4>1 DEF Legal
      <3>2. x.name \notin InfoNames
        BY <1>3, <3>1, NotHeld
      <3>3. PICK y : y = Done(x, FALSE)
        OBVIOUS
      <3>4. thr' = [thr EXCEPT ![t] = y]
        BY <1>5, <2>1, <3>3 DEF Level
      <3>5. y.at = "done" /\ y.name = x.name /\ y.found = FALSE
        BY <3>3 DEF Done
      <3>6. Answers(x, y)
        BY <3>2, <3>5 DEF Answers
      <3>. QED BY <1>2, <3>4, <3>6
    <2>2. CASE ~ (x.area = NoArea \/ x.name[x.i] = Empty)
      <3>1. Follow(t, x.name[x.i], "children") /\ x.at = "level"
        BY <1>5, <2>2 DEF Level
      <3>2. /\ SlotLev(bt[x.area], lev[x.area], x.node, "children") = SubSeq(x.name, 1, x.i - 1)
            /\ x.name[x.i] \in SlotRng(bt[x.area], rng[x.area], x.node, "children")
        BY <1>3, <1>4, <2>2, <3>1 DEF Reached, SlotLev, SlotRng
      <3>3. "children" \in Slots
        BY DEF Slots
      <3>4. PICK slot, k : slot = "children" /\ k = x.name[x.i]
        OBVIOUS
      <3>5. /\ slot \in Slots /\ Follow(t, k, slot)
            /\ SlotLev(bt[x.area], lev[x.area], x.node, slot) = SubSeq(x.name, 1, x.i - 1)
            /\ k \in SlotRng(bt[x.area], rng[x.area], x.node, slot)
        BY <3>1, <3>2, <3>3, <3>4
      <3>6. x.area \in Contexts
        BY <1>3, <2>2
      <3>. QED BY <1>2, <3>4, <3>5, <3>6, FollowAnswers
    <2>. QED BY <2>1, <2>2
  <1>6. CASE Search(t)
    <2>1. /\ x.area # NoArea /\ x.area \in Contexts /\ x.node \in DOMAIN lev[x.area] /\ x.node # 0
          /\ lev[x.area][x.node] = SubSeq(x.name, 1, x.i - 1)
          /\ x.name[x.i] \in rng[x.area][x.node]
      BY <1>3, <1>6 DEF Search, Reached
    <2>2. CASE x.name[x.i] = bt[x.area][x.node].name
      <3>1. PICK y : y = IF x.i = Len(x.name) THEN Walker("prop", x.area, x.name, x.i, x.node)
                         ELSE Walker("level", x.area, x.name, x.i + 1, x.node)
        OBVIOUS
      <3>2. y.at \in WalkerAts /\ y.name = x.name
        BY <3>1 DEF Walker, WalkerAts
      <3>3. ~ (x.name[x.i] < bt[x.area][x.node].name) /\ ~ (x.name[x.i] > bt[x.area][x.node].name)
        <4>1. PICK k : k = x.name[x.i] /\ k = bt[x.area][x.node].name
          BY <2>2
        <4>2. k \in Nat
          BY <1>4, <4>1, TokensAssumption
        <4>3. ~ (k < k) /\ ~ (k > k)
          BY <4>2
        <4>. QED BY <4>1, <4>3
      <3>4. thr' = [thr EXCEPT ![t] = y]
        BY <1>6, <3>1, <3>3 DEF Search
      <3>5. Answers(x, y)
        BY <3>2 DEF Answers
      <3>. QED BY <1>2, <3>4, <3>5
    <2>3. CASE x.name[x.i] # bt[x.area][x.node].name
      <3>1. PICK slot \in {"left", "right"} :
              /\ Follow(t, x.name[x.i], slot)
              /\ slot = "left" => x.name[x.i] < bt[x.area][x.node].name
              /\ slot = "right" => x.name[x.i] > bt[x.area][x.node].name
        BY <1>6, <2>3 DEF Search
      <3>2. slot \in Slots
        BY <3>1 DEF Slots
      <3>3. /\ SlotLev(bt[x.area], lev[x.area], x.node, slot) = SubSeq(x.name, 1, x.i - 1)
            /\ x.name[x.i] \in SlotRng(bt[x.area], rng[x.area], x.node, slot)
        BY <2>1, <3>1 DEF SlotLev, SlotRng
      <3>4. PICK k : k = x.name[x.i]
        OBVIOUS
      <3>5. /\ Follow(t, k, slot) /\ k \in SlotRng(bt[x.area], rng[x.area], x.node, slot)
            /\ SlotLev(bt[x.area], lev[x.area], x.node, slot) = SubSeq(x.name, 1, x.i - 1)
            /\ x.area \in Contexts
        BY <2>1, <3>1, <3>3, <3>4, Zenon
      <3>. QED BY <1>2, <3>2, <3>4, <3>5, FollowAnswers, ZenonT(60)
    <2>. QED BY <2>2, <2>3
  <1>7. CASE Prop(t)
    <2>1. /\ x.area # NoArea /\ x.area \in Contexts /\ x.node \in DOMAIN lev[x.area]
          /\ Word(bt[x.area], lev[x.area], x.node) = x.name /\ Follow(t, Empty, "prop")
      BY <1>3, <1>7 DEF Prop, Reached
    <2>2. PICK f \in BOOLEAN : f <=> bt[x.area][x.node].prop # 0
      OBVIOUS
    <2>3. x.name \in InfoNames <=> f
      <3>1. CASE bt[x.area][x.node].prop = 0
        BY <1>3, <2>1, <2>2, <3>1, NotHeld
      <3>2. CASE bt[x.area][x.node].prop # 0
        <4>1. /\ Holds(lev, x.area, x.node, info[x.area][bt[x.area][x.node].prop])
              /\ info[x.area][bt[x.area][x.node].prop] \in InfoNames
          BY <2>1, <3>2, InfoFacts
        <4>2. info[x.area][bt[x.area][x.node].prop] = x.name
          BY <2>1, <4>1 DEF Holds
        <4>. QED BY <2>2, <3>2, <4>1, <4>2
      <3>. QED BY <3>1, <3>2
    <2>4. PICK y : y = Done(x, f)
      OBVIOUS
    <2>5. bt[x.area][x.node]["prop"] = bt[x.area][x.node].prop
      OBVIOUS
    <2>6. thr' = [thr EXCEPT ![t] = y]
      <3>1. CASE f
        <4>1. f = TRUE /\ bt[x.area][x.node]["prop"] # 0
          BY <2>2, <2>5, <3>1
        <4>. QED BY <2>1, <2>4, <4>1 DEF Follow
      <3>2. CASE ~ f
        <4>1. f = FALSE /\ bt[x.area][x.node]["prop"] = 0
          BY <2>2, <2>5, <3>2
        <4>. QED BY <1>1, <2>1, <2>4, <4>1 DEF Follow
      <3>. QED BY <3>1, <3>2
    <2>7. y.at = "done" /\ y.name = x.name /\ y.found = f
      BY <2>4 DEF Done
    <2>8. Answers(x, y)
      BY <2>3, <2>7 DEF Answers
    <2>. QED BY <1>2, <2>6, <2>8
  <1>. QED BY <1>5, <1>6, <1>7 DEF Walk

(* Every step of the trie is one of the set, or changes nothing there. *)
LEMMA StoreStep ==
  ASSUME IInv, [Next]_vars
  PROVE  [Store!Next]_<<InfoNames, LookupMap>>
  <1>1. PICK lev, rng : Core(lev, rng)
    BY DEF IInv, Inv
  <1>2. DOMAIN thr = Threads /\ Readers \subseteq Threads /\ Init_ \in Threads /\ Init_ \notin Readers
    BY <1>1, ThreadsAssumption DEF Core, ThreadInv, Threads
  <1>3. ASSUME InfoNames' = InfoNames, LookupMap' = LookupMap
        PROVE  [Store!Next]_<<InfoNames, LookupMap>>
    BY <1>3
  <1>4. ASSUME NEW r \in Readers, NEW y, thr' = [thr EXCEPT ![r] = y], thr[r].at \notin WalkerAts,
               y.at \notin WalkerAts \cup {"done"}, InfoNames' = InfoNames
        PROVE  [Store!Next]_<<InfoNames, LookupMap>>
    <2>1. Lookup(y) = <<"idle">> /\ Lookup(thr[r])[1] # "asked"
      BY <1>4, LookupFacts
    <2>2. LookupMap' = [LookupMap EXCEPT ![r] = <<"idle">>]
      BY <1>2, <1>4, <2>1, LookupStep
    <2>3. LookupMap[r][1] # "asked"
      BY <2>1 DEF LookupMap
    <2>4. Store!Forget(r)
      BY <1>4, <2>2, <2>3 DEF Store!Forget, LookupMap
    <2>. QED BY <2>4 DEF Store!Next
  <1>5. CASE ReadLine
    <2>1. UNCHANGED <<memory, thr>>
      BY <1>5 DEF ReadLine
    <2>. QED BY <1>3, <2>1, InfoQuiet DEF LookupMap
  <1>6. CASE Walk(Init_)
    <2>1. InfoNames' = InfoNames
      BY <1>1, <1>2, <1>6, InfoWalk
    <2>2. PICK y : thr' = [thr EXCEPT ![Init_] = y]
      BY <1>6, WalkThread
    <2>. QED BY <1>2, <1>3, <2>1, <2>2, LookupStep
  <1>7. CASE Link
    <2>1. PICK x, y : /\ x = thr[Init_]
                      /\ y = IF x.slot = "prop" THEN Done(x, TRUE)
                             ELSE Walker("search", x.area, x.name, x.i, x.new)
      OBVIOUS
    <2>2. thr' = [thr EXCEPT ![Init_] = y]
      BY <1>7, <2>1 DEF Link
    <2>3. LookupMap' = LookupMap
      BY <1>2, <2>2, LookupStep
    <2>4. /\ x.slot = "prop" => InfoNames' = InfoNames \cup {x.name} /\ x.name \in Names
          /\ x.slot # "prop" => InfoNames' = InfoNames
      BY <1>1, <1>7, <2>1, InfoLink
    <2>5. CASE x.slot = "prop"
      <3>1. Store!Add(x.name)
        BY <2>3, <2>4, <2>5 DEF Store!Add, LookupMap
      <3>. QED BY <2>4, <2>5, <3>1 DEF Store!Next
    <2>. QED BY <1>3, <2>3, <2>4, <2>5
  <1>8. ASSUME NEW t \in Threads, NEW n \in Names, Begin(t, n)
        PROVE  [Store!Next]_<<InfoNames, LookupMap>>
    <2>1. InfoNames' = InfoNames
      BY <1>8, InfoQuiet DEF Begin
    <2>2. PICK y : y = Find(get_prop_area_for_name(n), n)
      OBVIOUS
    <2>3. thr' = [thr EXCEPT ![t] = y] /\ thr[t].at \in {"idle", "done"}
      BY <1>8, <2>2 DEF Begin
    <2>4. y.at \in WalkerAts /\ y.name = n
      BY <2>2 DEF Find, Walker, WalkerAts
    <2>5. Lookup(y) = <<"asked", n>>
      BY <2>4, LookupFacts
    <2>6. Lookup(thr[t])[1] # "asked"
      <3>1. thr[t].at \notin WalkerAts
        BY <2>3 DEF WalkerAts
      <3>. QED BY <3>1, LookupFacts
    <2>7. CASE t \in Readers
      <3>1. LookupMap' = [LookupMap EXCEPT ![t] = <<"asked", n>>]
        BY <1>2, <2>3, <2>5, <2>7, LookupStep
      <3>2. LookupMap[t][1] # "asked"
        BY <2>6, <2>7 DEF LookupMap
      <3>3. Store!Ask(t, n)
        BY <2>1, <3>1, <3>2 DEF Store!Ask, LookupMap
      <3>. QED BY <1>8, <2>7, <3>3 DEF Store!Next
    <2>8. CASE t \notin Readers
      BY <1>2, <1>3, <2>1, <2>3, <2>8, LookupStep
    <2>. QED BY <2>7, <2>8
  <1>9. ASSUME NEW r \in Readers, Walk(r)
        PROVE  [Store!Next]_<<InfoNames, LookupMap>>
    <2>1. InfoNames' = InfoNames
      BY <1>1, <1>2, <1>9, InfoWalk
    <2>2. PICK x : x = thr[r]
      OBVIOUS
    <2>3. x.at \in WalkerAts /\ \E y : thr' = [thr EXCEPT ![r] = y] /\ Answers(x, y)
      BY <1>1, <1>9, <2>2, WalkAnswers
    <2>4. PICK y : thr' = [thr EXCEPT ![r] = y] /\ Answers(x, y)
      BY <2>3
    <2>5. Lookup(x) = <<"asked", x.name>>
      BY <2>3, LookupFacts
    <2>6. CASE y.at \in WalkerAts /\ y.name = x.name
      <3>1. Lookup(y) = Lookup(x)
        BY <2>5, <2>6, LookupFacts
      <3>. QED BY <1>2, <1>3, <2>1, <2>2, <2>4, <3>1, LookupStep
    <2>7. CASE /\ y.at = "done" /\ y.name = x.name /\ y.found \in BOOLEAN
               /\ y.found <=> x.name \in InfoNames
      <3>1. Lookup(y) = <<IF y.found THEN "present" ELSE "absent", y.name>>
        BY <2>7, LookupFacts
      <3>2. PICK n : n = x.name
        OBVIOUS
      <3>3. Lookup(y) = <<IF n \in InfoNames THEN "present" ELSE "absent", n>>
        BY <2>7, <3>1, <3>2
      <3>4. LookupMap' = [LookupMap EXCEPT ![r] = Lookup(y)]
        BY <1>2, <2>4, LookupStep
      <3>5. LookupMap[r] = <<"asked", n>>
        BY <2>2, <2>5, <3>2 DEF LookupMap
      <3>6. LookupMap[r][1] = "asked" /\ LookupMap[r][2] = n
        BY <3>5
      <3>7. Store!Answer(r)
        BY <2>1, <3>3, <3>4, <3>6 DEF Store!Answer, LookupMap
      <3>. QED BY <3>7 DEF Store!Next
    <2>. QED BY <2>4, <2>6, <2>7 DEF Answers
  <1>10. ASSUME NEW r \in Readers, BeginForeach(r)
         PROVE  [Store!Next]_<<InfoNames, LookupMap>>
    <2>1. InfoNames' = InfoNames /\ thr[r].at \notin WalkerAts
      BY <1>10, InfoQuiet DEF BeginForeach, WalkerAts
    <2>2. PICK y : y = Foreach([i \in DOMAIN contexts |-> <<contexts[i], 0, 1>>])
      OBVIOUS
    <2>3. thr' = [thr EXCEPT ![r] = y] /\ y.at \notin WalkerAts \cup {"done"}
      BY <1>10, <2>2 DEF BeginForeach, Foreach, WalkerAts
    <2>. QED BY <1>4, <2>1, <2>3
  <1>11. ASSUME NEW r \in Readers, Visit(r)
         PROVE  [Store!Next]_<<InfoNames, LookupMap>>
    <2>1. InfoNames' = InfoNames /\ thr[r].at \notin WalkerAts
      BY <1>11, InfoQuiet DEF Visit, WalkerAts
    <2>2. PICK y, st : y = Foreach(st) /\ thr' = [thr EXCEPT ![r] = y]
      BY <1>11 DEF Visit
    <2>3. y.at \notin WalkerAts \cup {"done"}
      BY <2>2 DEF Foreach, WalkerAts
    <2>. QED BY <1>4, <2>1, <2>2, <2>3
  <1>12. ASSUME NEW r \in Readers, EndForeach(r)
         PROVE  [Store!Next]_<<InfoNames, LookupMap>>
    <2>1. InfoNames' = InfoNames /\ thr[r].at \notin WalkerAts
      BY <1>12, InfoQuiet DEF EndForeach, WalkerAts
    <2>2. PICK y : y = Idle /\ thr' = [thr EXCEPT ![r] = y]
      BY <1>12 DEF EndForeach
    <2>3. y.at \notin WalkerAts \cup {"done"}
      BY <2>2 DEF Idle, WalkerAts
    <2>. QED BY <1>4, <2>1, <2>2, <2>3
  <1>13. CASE UNCHANGED vars
    <2>1. UNCHANGED <<memory, thr>>
      BY <1>13 DEF vars
    <2>. QED BY <1>3, <2>1, InfoQuiet DEF LookupMap
  <1>14. ASSUME NEW r \in Readers, ReaderStep(r) \/ BeginForeach(r) \/ \E n \in Names : Begin(r, n)
         PROVE  [Store!Next]_<<InfoNames, LookupMap>>
    BY <1>2, <1>8, <1>9, <1>10, <1>11, <1>12, <1>14 DEF ReaderStep
  <1>15. CASE InitStep \/ \E n \in Names : Begin(Init_, n)
    BY <1>2, <1>6, <1>7, <1>8, <1>15 DEF InitStep
  <1>. QED BY <1>5, <1>13, <1>14, <1>15 DEF Next

(* At the start the set is empty and nobody has asked. *)
LEMMA StoreInit ==
  ASSUME Init
  PROVE  Store!Init
  <1>1. InfoNames = {}
    <2>1. ASSUME NEW a \in Contexts PROVE NamesIn(a) = {}
      <3>1. bt[a] = [o \in {0} |-> NewBt(Empty)]
        BY DEF Init
      <3>2. NewBt(Empty).prop = 0
        BY DEF NewBt
      <3>. QED BY <3>1, <3>2 DEF NamesIn, Nodes
    <2>. QED BY <2>1 DEF InfoNames
  <1>2. ASSUME NEW r \in Readers PROVE Lookup(thr[r]) = <<"idle">>
    <2>1. thr[r].at = "idle"
      BY DEF Init, Idle, Threads
    <2>. QED BY <2>1, LookupFacts DEF WalkerAts
  <1>. QED BY <1>1, <1>2 DEF Store!Init

(* The trie, walked by readers without a lock while init extends it,       *)
(* implements a set with atomic look-ups, for any number of readers, any   *)
(* names and any size of the areas.                                        *)
THEOREM TrieIsLinearizable == Spec => Linearizable
  <1>1. Init => Store!Init
    BY StoreInit
  <1>2. IInv /\ [Next]_vars => [Store!Next]_<<InfoNames, [r \in Readers |-> Lookup(thr[r])]>>
    BY StoreStep DEF LookupMap
  <1>. QED BY <1>1, <1>2, Invariant, PTL DEF Spec, Linearizable, Store!Spec

-----------------------------------------------------------------------------
(* The list of prefixes is sorted, so that the first match is the longest, *)
(* and the bytes of an area are those of the nodes and properties of its   *)
(* trie                                                                    *)

(* Sorted as get_prop_area_for_name needs it: by length, * at the end *)
Sorted(s) ==
  \A i, j \in 1 .. Len(s) : i < j /\ s[j].prefix # Star =>
    s[i].prefix # Star /\ s[i].len >= s[j].len

(* A line is put where it keeps the list sorted. *)
LEMMA AddSorted ==
  ASSUME NEW s \in Seq(LineSet), Sorted(s), NEW p \in LineSet, NEW at \in 1 .. Len(s) + 1, NEW r,
         Inserted(s, at, p, r),
         at <= Len(s) => s[at].len < p.len \/ s[at].prefix = Star,
         \A j \in 1 .. at - 1 : ~ (s[j].len < p.len \/ s[j].prefix = Star)
  PROVE  Sorted(r)
  <1>1. /\ \A l \in LineSet : l.len \in Nat /\ l.len >= 1 /\ (l.prefix = Star => l.len = 1)
        /\ \A j \in 1 .. Len(s) : s[j] \in LineSet
    BY LinesAssumption, ElementOfSeq
  <1>2. PICK m \in Nat : m = Len(s) /\ Len(r) = m + 1 /\ at \in 1 .. m + 1
    BY LenProperties DEF Inserted
  <1>3. SUFFICES ASSUME NEW i \in 1 .. m + 1, NEW j \in 1 .. m + 1, i < j, r[j].prefix # Star
                 PROVE  r[i].prefix # Star /\ r[i].len >= r[j].len
    BY <1>2 DEF Sorted
  <1>4. \A k \in 1 .. m + 1 : /\ k < at => r[k] = s[k] /\ k \in 1 .. m
                              /\ k = at => r[k] = p
                              /\ k > at => r[k] = s[k - 1] /\ k - 1 \in 1 .. m /\ k - 1 >= at
    BY <1>2 DEF Inserted
  <1>5. \A k \in at .. m : s[k].prefix # Star => s[k].len < p.len /\ p.prefix # Star
    <2>1. SUFFICES ASSUME NEW k \in at .. m, s[k].prefix # Star
                   PROVE  s[k].len < p.len /\ p.prefix # Star
      OBVIOUS
    <2>2. at \in 1 .. m /\ k \in 1 .. m /\ at <= k
      BY <1>2, <2>1
    <2>3. s[at].prefix # Star /\ s[at].len >= s[k].len
      <3>1. CASE at = k
        BY <1>1, <1>2, <2>1, <2>2, <3>1
      <3>2. CASE at < k
        BY <1>2, <2>1, <2>2, <3>2 DEF Sorted
      <3>. QED BY <2>2, <3>1, <3>2
    <2>4. s[at].len < p.len
      BY <1>2, <2>2, <2>3
    <2>5. s[at] \in LineSet /\ s[k] \in LineSet
      BY <1>1, <1>2, <2>2
    <2>. QED BY <1>1, <2>3, <2>4, <2>5
  <1>6. \A k \in 1 .. at - 1 : s[k].prefix # Star /\ s[k].len >= p.len
    <2>1. ASSUME NEW k \in 1 .. at - 1 PROVE s[k].prefix # Star /\ s[k].len >= p.len
      <3>1. s[k].prefix # Star /\ ~ (s[k].len < p.len)
        OBVIOUS
      <3>2. s[k].len \in Nat /\ p.len \in Nat
        BY <1>1, <1>2
      <3>. QED BY <3>1, <3>2
    <2>. QED BY <2>1
  <1>7. CASE j < at
    <2>1. r[i] = s[i] /\ r[j] = s[j] /\ i \in 1 .. m /\ j \in 1 .. m
      BY <1>2, <1>3, <1>4, <1>7
    <2>. QED BY <1>2, <1>3, <2>1 DEF Sorted
  <1>8. CASE j = at
    <2>1. r[i] = s[i] /\ r[j] = p /\ i \in 1 .. at - 1
      BY <1>2, <1>3, <1>4, <1>8
    <2>. QED BY <1>6, <2>1
  <1>9. CASE j > at
    <2>1. r[j] = s[j - 1] /\ j - 1 \in 1 .. m /\ j - 1 \in at .. m
      BY <1>2, <1>3, <1>4, <1>9
    <2>2. PICK k \in at .. m : k = j - 1 /\ k \in 1 .. m /\ r[j] = s[k] /\ s[k].prefix # Star
      BY <1>3, <2>1
    <2>3. s[k].len < p.len /\ p.prefix # Star /\ s[k].len \in Nat /\ p.len \in Nat
      BY <1>1, <1>2, <1>5, <2>2
    <2>4. CASE i < at
      <3>1. r[i] = s[i] /\ i \in 1 .. at - 1 /\ s[i] \in LineSet
        BY <1>1, <1>2, <1>4, <2>4
      <3>2. s[i].len \in Nat /\ s[i].len >= p.len /\ s[i].prefix # Star
        BY <1>1, <1>6, <3>1
      <3>. QED BY <2>2, <2>3, <3>1, <3>2
    <2>5. CASE i = at
      <3>1. r[i] = p
        BY <1>4, <2>5
      <3>. QED BY <2>2, <2>3, <3>1
    <2>6. CASE i > at
      <3>1. r[i] = s[i - 1] /\ i - 1 \in 1 .. m /\ i - 1 < k
        BY <1>2, <1>3, <1>4, <2>2, <2>6
      <3>. QED BY <1>2, <2>2, <3>1 DEF Sorted
    <2>. QED BY <1>2, <2>4, <2>5, <2>6
  <1>. QED BY <1>2, <1>7, <1>8, <1>9

(* The lines that have been read, and the list that holds them *)
ReadSet == ToSet(SubSeq(Lines, 1, Len(Lines) - Len(unread)))
FileInv ==
  /\ unread \in Seq(LineSet) /\ Len(unread) <= Len(Lines)
  /\ \A k \in 1 .. Len(unread) : unread[k] = Lines[Len(Lines) - Len(unread) + k]
  /\ prefixes \in Seq(LineSet) /\ Sorted(prefixes)
  /\ \A l : Contains(prefixes, l) <=>
              l.prefix # "ctl." /\ \E k \in 1 .. Len(Lines) - Len(unread) : Lines[k] = l

(* One line more has been read. *)
LEMMA FileStep ==
  ASSUME FileInv, ReadLine
  PROVE  FileInv'
  <1>1. PICK l, m, u, v : /\ l = Head(unread) /\ m = Len(Lines) /\ u = Len(unread)
                          /\ v = Tail(unread)
    OBVIOUS
  <1>2. /\ unread \in Seq(LineSet) /\ unread # <<>> /\ unread' = v
        /\ prefixes \in Seq(LineSet) /\ m \in Nat /\ u \in Nat /\ u <= m
    BY <1>1, LinesAssumption, LenProperties DEF FileInv, ReadLine
  <1>3. l \in LineSet /\ v \in Seq(LineSet) /\ Popped(unread, v)
    BY <1>1, <1>2, TailFacts
  <1>4. /\ Len(v) = u - 1 /\ u >= 1 /\ l = unread[1]
        /\ \A j \in 1 .. u - 1 : j + 1 \in 1 .. u /\ v[j] = unread[j + 1]
    BY <1>1, <1>2, <1>3 DEF Popped
  <1>5. \A k \in 1 .. u : unread[k] = Lines[m - u + k]
    BY <1>1 DEF FileInv
  <1>6. l = Lines[m - u + 1]
    BY <1>2, <1>4, <1>5
  <1>7. \A k \in 1 .. Len(v) : v[k] = Lines[m - Len(v) + k]
    <2>1. ASSUME NEW k \in 1 .. u - 1 PROVE v[k] = Lines[m - (u - 1) + k]
      <3>1. k + 1 \in 1 .. u /\ v[k] = unread[k + 1]
        BY <1>4
      <3>2. unread[k + 1] = Lines[m - u + (k + 1)]
        BY <1>5, <3>1
      <3>3. m - u + (k + 1) = m - (u - 1) + k
        BY <1>2
      <3>. QED BY <3>1, <3>2, <3>3
    <2>. QED BY <1>4, <2>1
  <1>8. ASSUME NEW q
        PROVE  (\E k \in 1 .. m - Len(v) : Lines[k] = q) <=>
                 q = l \/ \E k \in 1 .. m - u : Lines[k] = q
    <2>1. 1 .. m - Len(v) = 1 .. m - u \cup {m - u + 1}
      BY <1>2, <1>4
    <2>. QED BY <1>6, <2>1
  <1>9. \A q : Contains(prefixes, q) <=>
                 q.prefix # "ctl." /\ \E k \in 1 .. m - u : Lines[k] = q
    BY <1>1 DEF FileInv
  <1>10. ASSUME NEW p2, p2 = prefixes', p2 \in Seq(LineSet), Sorted(p2),
                \A q : Contains(p2, q) <=>
                         q.prefix # "ctl." /\ (q = l \/ \E k \in 1 .. m - u : Lines[k] = q)
         PROVE  FileInv'
    <2>1. \A q : Contains(p2, q) <=>
                   q.prefix # "ctl." /\ \E k \in 1 .. m - Len(v) : Lines[k] = q
      BY <1>8, <1>10
    <2>2. Len(v) <= m
      BY <1>2, <1>4
    <2>. QED BY <1>1, <1>2, <1>3, <1>7, <1>10, <2>1, <2>2 DEF FileInv
  <1>11. CASE l.prefix = "ctl."
    <2>1. prefixes' = prefixes
      BY <1>1, <1>11 DEF ReadLine
    <2>2. Sorted(prefixes)
      BY DEF FileInv
    <2>3. \A q : Contains(prefixes, q) <=>
                   q.prefix # "ctl." /\ (q = l \/ \E k \in 1 .. m - u : Lines[k] = q)
      BY <1>9, <1>11
    <2>. QED BY <1>2, <1>10, <2>1, <2>2, <2>3
  <1>12. CASE l.prefix # "ctl."
    <2>1. prefixes' = list_add_after_len(prefixes, l)
      BY <1>1, <1>12 DEF ReadLine
    <2>2. PICK at \in 1 .. Len(prefixes) + 1 :
            /\ list_add_after_len(prefixes, l) = InsertAt(prefixes, at, l)
            /\ at <= Len(prefixes) => prefixes[at].len < l.len \/ prefixes[at].prefix = Star
            /\ \A j \in 1 .. at - 1 : ~ (prefixes[j].len < l.len \/ prefixes[j].prefix = Star)
      BY <1>2, <1>3, AddFacts
    <2>3. PICK p2 : p2 = InsertAt(prefixes, at, l) /\ p2 = prefixes'
      BY <2>1, <2>2
    <2>4. p2 \in Seq(LineSet) /\ Inserted(prefixes, at, l, p2)
      BY <1>2, <1>3, <2>3, InsertFacts
    <2>5. Sorted(p2)
      <3>1. PICK s : s = prefixes
        OBVIOUS
      <3>2. /\ s \in Seq(LineSet) /\ Sorted(s) /\ at \in 1 .. Len(s) + 1 /\ Inserted(s, at, l, p2)
            /\ at <= Len(s) => s[at].len < l.len \/ s[at].prefix = Star
            /\ \A j \in 1 .. at - 1 : ~ (s[j].len < l.len \/ s[j].prefix = Star)
        BY <1>2, <2>2, <2>4, <3>1 DEF FileInv
      <3>. QED BY <1>3, <3>2, AddSorted
    <2>6. ASSUME NEW q PROVE Contains(p2, q) <=> q = l \/ Contains(prefixes, q)
      <3>1. PICK n \in Nat : n = Len(prefixes) /\ Len(p2) = n + 1 /\ at \in 1 .. n + 1
        BY <1>2, <2>4, LenProperties DEF Inserted
      <3>2. \A j \in 1 .. n + 1 :
              p2[j] = IF j < at THEN prefixes[j] ELSE IF j = at THEN l ELSE prefixes[j - 1]
        BY <2>4, <3>1 DEF Inserted
      <3>3. Contains(p2, q) <=> \E j \in 1 .. n + 1 : p2[j] = q
        BY <3>1 DEF Contains
      <3>4. Contains(prefixes, q) <=> \E j \in 1 .. n : prefixes[j] = q
        BY <3>1 DEF Contains
      <3>5. ASSUME NEW j \in 1 .. n, prefixes[j] = q PROVE \E k \in 1 .. n + 1 : p2[k] = q
        <4>1. CASE j < at
          BY <3>2, <3>5, <4>1
        <4>2. CASE j >= at
          <5>1. j + 1 \in 1 .. n + 1 /\ ~ (j + 1 < at) /\ j + 1 # at /\ (j + 1) - 1 = j
            BY <3>1, <4>2
          <5>2. p2[j + 1] = prefixes[j]
            BY <3>2, <5>1
          <5>. QED BY <3>5, <5>1, <5>2
        <4>. QED BY <3>1, <4>1, <4>2
      <3>6. p2[at] = l
        BY <3>1, <3>2
      <3>7. ASSUME NEW j \in 1 .. n + 1, p2[j] = q, q # l PROVE \E k \in 1 .. n : prefixes[k] = q
        <4>1. CASE j < at
          <5>1. j \in 1 .. n
            BY <3>1, <4>1
          <5>. QED BY <3>2, <3>7, <4>1, <5>1
        <4>2. CASE j > at
          <5>1. j - 1 \in 1 .. n /\ ~ (j < at) /\ j # at
            BY <3>1, <4>2
          <5>. QED BY <3>2, <3>7, <5>1
        <4>. QED BY <3>1, <3>6, <3>7, <4>1, <4>2
      <3>. QED BY <3>1, <3>3, <3>4, <3>5, <3>6, <3>7
    <2>7. \A q : Contains(p2, q) <=>
                   q.prefix # "ctl." /\ (q = l \/ \E k \in 1 .. m - u : Lines[k] = q)
      BY <1>9, <1>12, <2>6
    <2>. QED BY <1>10, <2>3, <2>4, <2>5, <2>7
  <1>. QED BY <1>11, <1>12

(* Nothing has been read at the start. *)
LEMMA FileInit ==
  ASSUME Init
  PROVE  FileInv
  <1>1. prefixes = <<>> /\ unread = Lines
    BY DEF Init
  <1>2. PICK m \in Nat : m = Len(Lines)
    BY LinesAssumption, LenProperties
  <1>3. /\ Lines \in Seq(LineSet) /\ m <= m /\ \A k \in 1 .. m : m - m + k = k
        /\ \A k \in 1 .. m - m : FALSE
    BY LinesAssumption
  <1>4. <<>> \in Seq(LineSet) /\ Len(<<>>) = 0 /\ Sorted(<<>>) /\ \A l : ~ Contains(<<>>, l)
    BY DEF Sorted, Contains
  <1>5. \A k \in 1 .. Len(unread) : unread[k] = Lines[Len(Lines) - Len(unread) + k]
    BY <1>1, <1>2, <1>3
  <1>6. \A k \in 1 .. Len(Lines) - Len(unread) : FALSE
    BY <1>1, <1>2, <1>3
  <1>. QED BY <1>1, <1>2, <1>3, <1>4, <1>5, <1>6 DEF FileInv

(* Only ReadLine changes the lists. *)
LEMMA ListsSame ==
  ASSUME [Next]_vars, ~ ReadLine
  PROVE  UNCHANGED <<prefixes, unread>>
  <1>1. ASSUME NEW t, Walk(t) PROVE UNCHANGED lists
    BY <1>1 DEF Walk, Level, Search, Prop
  <1>2. ASSUME NEW t, NEW n, Begin(t, n) PROVE UNCHANGED lists
    BY <1>2 DEF Begin
  <1>3. ASSUME Link PROVE UNCHANGED lists
    BY <1>3 DEF Link
  <1>4. ASSUME NEW r, BeginForeach(r) \/ Visit(r) \/ EndForeach(r) PROVE UNCHANGED lists
    BY <1>4 DEF BeginForeach, Visit, EndForeach
  <1>5. ASSUME UNCHANGED vars PROVE UNCHANGED lists
    BY <1>5 DEF vars
  <1>6. UNCHANGED lists
    BY <1>1, <1>2, <1>3, <1>4, <1>5 DEF Next, InitStep, ReaderStep
  <1>. QED BY <1>6 DEF lists

(* In a sorted list the first match is the longest. *)
LEMMA FirstIsLongest ==
  ASSUME FileInv
  PROVE  LongestPrefixWins
  <1>1. SUFFICES ASSUME NEW n \in Names
        PROVE  LET read == {l \in ReadSet : l.prefix # "ctl." /\ n \in Matches[l.prefix]}
                   proper == {l \in read : l.prefix # Star}
                   best == {l \in proper : \A m \in proper : m.len <= l.len}
               IN get_prop_area_for_name(n) \in
                    IF read = {} THEN {NoArea}
                    ELSE {l.context : l \in IF proper = {} THEN read ELSE best}
    BY DEF LongestPrefixWins, ReadSet
  <1>. DEFINE read == {l \in ReadSet : l.prefix # "ctl." /\ n \in Matches[l.prefix]}
              proper == {l \in read : l.prefix # Star}
              best == {l \in proper : \A m \in proper : m.len <= l.len}
              hits == {i \in DOMAIN prefixes : n \in Matches[prefixes[i].prefix]}
  <1>2. /\ prefixes \in Seq(LineSet) /\ DOMAIN prefixes = 1 .. Len(prefixes)
        /\ Len(prefixes) \in Nat /\ Sorted(prefixes)
        /\ \A i \in 1 .. Len(prefixes) : prefixes[i] \in LineSet
    BY LenProperties, ElementOfSeq DEF FileInv
  <1>3. ASSUME NEW l PROVE l \in ReadSet <=> \E k \in 1 .. Len(Lines) - Len(unread) : Lines[k] = l
    <2>1. PICK m : m = Len(Lines) - Len(unread)
      OBVIOUS
    <2>2. Lines \in Seq(LineSet) /\ m \in 0 .. Len(Lines)
      BY <2>1, LinesAssumption, LenProperties DEF FileInv
    <2>3. PICK s : s = SubSeq(Lines, 1, m)
      OBVIOUS
    <2>4. s \in Seq(LineSet) /\ Len(s) = m /\ \A k \in 1 .. m : s[k] = Lines[k]
      BY <2>2, <2>3
    <2>5. DOMAIN s = 1 .. m
      BY <2>4, LenProperties
    <2>. QED BY <2>1, <2>3, <2>4, <2>5 DEF ReadSet, ToSet
  <1>4. ASSUME NEW l PROVE l \in read <=> \E i \in hits : prefixes[i] = l
    <2>1. Contains(prefixes, l) <=> l.prefix # "ctl." /\ l \in ReadSet
      BY <1>3 DEF FileInv
    <2>2. Contains(prefixes, l) <=> \E i \in 1 .. Len(prefixes) : prefixes[i] = l
      BY DEF Contains
    <2>. QED BY <1>2, <2>1, <2>2
  <1>5. \A l \in read : l.len \in Nat
    BY <1>2, <1>4, LinesAssumption
  <1>6. CASE hits = {}
    <2>1. read = {}
      BY <1>4, <1>6
    <2>2. get_prop_area_for_name(n) = NoArea
      BY <1>6 DEF get_prop_area_for_name
    <2>. QED BY <2>1, <2>2
  <1>7. CASE hits # {}
    <2>1. PICK i \in hits : \A j \in hits : i <= j
      <3>1. hits \in SUBSET Nat
        BY <1>2
      <3>. QED BY <1>7, <3>1, NatMin
    <2>. DEFINE c == CHOOSE k \in hits : \A j \in hits : k <= j
    <2>2. c \in hits /\ \A j \in hits : c <= j
      BY <2>1
    <2>3. get_prop_area_for_name(n) = prefixes[c].context
      BY <1>7 DEF get_prop_area_for_name
    <2>4. PICK k, l : k = c /\ l = prefixes[k]
      OBVIOUS
    <2>5. k \in hits /\ (\A j \in hits : k <= j) /\ get_prop_area_for_name(n) = l.context
      BY <2>2, <2>3, <2>4
    <2>6. l \in read
      BY <1>4, <2>4, <2>5
    <2>7. CASE proper = {}
      BY <2>5, <2>6, <2>7
    <2>8. CASE proper # {}
      <3>1. ASSUME NEW m \in proper PROVE l.prefix # Star /\ m.len <= l.len
        <4>1. PICK j \in hits : prefixes[j] = m
          BY <1>4
        <4>2. k <= j /\ k \in 1 .. Len(prefixes) /\ j \in 1 .. Len(prefixes) /\ m.prefix # Star
          BY <1>2, <2>5, <4>1
        <4>3. m \in read
          OBVIOUS
        <4>4. l.len \in Nat /\ m.len \in Nat
          BY <1>5, <2>6, <4>3
        <4>5. CASE k = j
          <5>1. l = m
            BY <2>4, <4>1, <4>5
          <5>. QED BY <4>2, <4>4, <5>1
        <4>6. CASE k < j
          BY <1>2, <2>4, <4>1, <4>2, <4>4, <4>6 DEF Sorted
        <4>. QED BY <1>2, <4>2, <4>5, <4>6
      <3>2. l \in best
        BY <2>6, <2>8, <3>1
      <3>. QED BY <2>5, <2>6, <2>8, <3>2
    <2>. QED BY <2>7, <2>8
  <1>. QED BY <1>6, <1>7

(* The list of prefixes, built line by line, gives every name the context  *)
(* of the longest prefix that matches it, for any property_contexts.       *)
THEOREM LongestPrefix == Spec => []LongestPrefixWins
  <1>1. Init => FileInv
    BY FileInit
  <1>2. FileInv /\ [Next]_vars => FileInv'
    <2>1. ASSUME FileInv, [Next]_vars, ~ ReadLine PROVE FileInv'
      <3>1. prefixes' = prefixes /\ unread' = unread
        BY <2>1, ListsSame
      <3>. QED BY <2>1, <3>1 DEF FileInv
    <2>. QED BY <2>1, FileStep
  <1>3. FileInv => LongestPrefixWins
    BY FirstIsLongest
  <1>. QED BY <1>1, <1>2, <1>3, PTL DEF Spec

-----------------------------------------------------------------------------
(* The space of an area *)

(* The prop_info that init, at x, has allocated in area a and not linked yet *)
NewInfos(x, a) == {p \in {x.new} : x.at = "link" /\ x.slot = "prop" /\ x.area = a}

(* u bytes are used for the nodes b and the properties inf.  A pointer     *)
(* leads to every node but the root, a node to every property that is not  *)
(* in ni, and the word of every node is the beginning of a legal name.     *)
Counted(b, inf, u) == u = BtSize * Cardinality(DOMAIN b) + InfoSize * Cardinality(DOMAIN inf)
Pointed(b, lv) == \A q \in DOMAIN lv \ {0} : \E o \in DOMAIN lv : \E s \in Slots : b[o][s] = q
Owned(b, lv, inf, ni) == \A p \in DOMAIN inf \ ni : \E o \in DOMAIN lv : b[o].prop = p
Begins(b, lv) ==
  \A o \in DOMAIN lv \ {0} :
    \E n \in Names : Legal(n) /\ \E i \in 1 .. Len(n) : Word(b, lv, o) = SubSeq(n, 1, i)
Space(b, lv, inf, u, ni) ==
  Counted(b, inf, u) /\ Pointed(b, lv) /\ Owned(b, lv, inf, ni) /\ Begins(b, lv)

SpaceInv(lev) ==
  \A a \in Contexts : Space(bt[a], lev[a], info[a], used[a], NewInfos(thr[Init_], a))
SInv == \E lev, rng : Core(lev, rng) /\ SpaceInv(lev)

(* It depends on lev only by its values. *)
LEMMA SpaceSame ==
  ASSUME NEW b, NEW lv, NEW inf, NEW u, NEW ni, Space(b, lv, inf, u, ni), NEW l2,
         DOMAIN l2 = DOMAIN lv, \A o \in DOMAIN lv : l2[o] = lv[o]
  PROVE  Space(b, l2, inf, u, ni)
  <1>1. \A o \in DOMAIN lv : Word(b, l2, o) = Word(b, lv, o)
    BY DEF Word
  <1>2. Begins(b, l2)
    BY <1>1 DEF Begins, Space
  <1>. QED BY <1>2 DEF Space, Pointed, Owned

(* What lies behind each other below a bound is finite. *)
LEMMA AreaFinite ==
  ASSUME NEW lev, NEW rng, Core(lev, rng), NEW a \in Contexts
  PROVE  /\ IsFiniteSet(DOMAIN bt[a]) /\ Cardinality(DOMAIN bt[a]) \in Nat
         /\ IsFiniteSet(DOMAIN info[a]) /\ Cardinality(DOMAIN info[a]) \in Nat
         /\ used[a] \in Nat
  <1>1. PICK N, P, u : N = DOMAIN bt[a] /\ P = DOMAIN info[a] /\ u = used[a]
    OBVIOUS
  <1>2. /\ u \in Nat /\ N \in SUBSET Nat /\ P \in SUBSET Nat
        /\ (\A o \in N : o + BtSize <= u) /\ (\A p \in P : p + InfoSize <= u)
    BY <1>1 DEF Core, MemInv, Layout, Nodes
  <1>3. (\A o \in N : o <= u) /\ (\A p \in P : p <= u)
    BY <1>2, SizeAssumption
  <1>4. IsFiniteSet(N) /\ IsFiniteSet(P)
    BY <1>2, <1>3, FS_BoundedSetOfNaturals
  <1>5. Cardinality(N) \in Nat /\ Cardinality(P) \in Nat
    BY <1>4, FS_CardinalityType
  <1>. QED BY <1>1, <1>2, <1>4, <1>5

(* One object more: its bytes are counted. *)
LEMMA PutCard ==
  ASSUME NEW f, NEW o, NEW v, o \notin DOMAIN f, IsFiniteSet(DOMAIN f)
  PROVE  /\ DOMAIN Put(f, o, v) = DOMAIN f \cup {o}
         /\ Cardinality(DOMAIN Put(f, o, v)) = Cardinality(DOMAIN f) + 1
         /\ \A q \in DOMAIN f : Put(f, o, v)[q] = f[q]
  <1>1. DOMAIN Put(f, o, v) = DOMAIN f \cup {o}
    BY DEF Put
  <1>2. Cardinality(DOMAIN f \cup {o}) = Cardinality(DOMAIN f) + 1
    BY FS_AddElement
  <1>3. \A q \in DOMAIN f : Put(f, o, v)[q] = f[q]
    BY DEF Put
  <1>. QED BY <1>1, <1>2, <1>3

(* A new node, that no pointer leads to yet *)
LEMMA SpaceNode ==
  ASSUME NEW b, NEW lv, NEW inf, NEW u \in Nat, NEW ni, Space(b, lv, inf, u, ni),
         DOMAIN lv \subseteq DOMAIN b, IsFiniteSet(DOMAIN b), Cardinality(DOMAIN b) \in Nat,
         Cardinality(DOMAIN inf) \in Nat,
         NEW off, off \notin DOMAIN b, NEW z, NEW c, c = Put(b, off, z), NEW w, w = u + BtSize
  PROVE  Space(c, lv, inf, w, ni)
  <1>1. /\ DOMAIN c = DOMAIN b \cup {off} /\ Cardinality(DOMAIN c) = Cardinality(DOMAIN b) + 1
        /\ \A q \in DOMAIN lv : c[q] = b[q]
    <2>1. /\ DOMAIN Put(b, off, z) = DOMAIN b \cup {off}
          /\ Cardinality(DOMAIN Put(b, off, z)) = Cardinality(DOMAIN b) + 1
          /\ \A q \in DOMAIN b : Put(b, off, z)[q] = b[q]
      BY PutCard
    <2>. QED BY <2>1
  <1>2. Counted(c, inf, w)
    <2>1. PICK m \in Nat, k \in Nat : m = Cardinality(DOMAIN b) /\ k = Cardinality(DOMAIN inf)
      OBVIOUS
    <2>2. u = BtSize * m + InfoSize * k
      BY <2>1 DEF Space, Counted
    <2>3. BtSize * (m + 1) = BtSize * m + BtSize
      BY SizeAssumption
    <2>4. BtSize * m \in Nat /\ InfoSize * k \in Nat /\ BtSize \in Nat
      BY SizeAssumption
    <2>5. w = BtSize * (m + 1) + InfoSize * k
      BY <2>2, <2>3, <2>4
    <2>. QED BY <1>1, <2>1, <2>5 DEF Counted
  <1>3. Pointed(c, lv) /\ Owned(c, lv, inf, ni)
    BY <1>1 DEF Space, Pointed, Owned
  <1>4. Begins(c, lv)
    <2>1. \A o \in DOMAIN lv : Word(c, lv, o) = Word(b, lv, o)
      BY <1>1 DEF Word
    <2>. QED BY <2>1 DEF Space, Begins
  <1>. QED BY <1>2, <1>3, <1>4 DEF Space

(* A new prop_info, that no node leads to yet *)
LEMMA SpaceInfo ==
  ASSUME NEW b, NEW lv, NEW inf, NEW u \in Nat, NEW ni, Space(b, lv, inf, u, ni), ni = {},
         IsFiniteSet(DOMAIN inf), Cardinality(DOMAIN b) \in Nat, Cardinality(DOMAIN inf) \in Nat,
         NEW off, off \notin DOMAIN inf, NEW z, NEW i2, i2 = Put(inf, off, z),
         NEW w, w = u + InfoSize, NEW n2, n2 = {off}
  PROVE  Space(b, lv, i2, w, n2)
  <1>1. /\ DOMAIN i2 = DOMAIN inf \cup {off} /\ Cardinality(DOMAIN i2) = Cardinality(DOMAIN inf) + 1
    BY PutCard
  <1>2. Counted(b, i2, w)
    <2>1. PICK m \in Nat, k \in Nat : m = Cardinality(DOMAIN b) /\ k = Cardinality(DOMAIN inf)
      OBVIOUS
    <2>2. u = BtSize * m + InfoSize * k
      BY <2>1 DEF Space, Counted
    <2>3. InfoSize * (k + 1) = InfoSize * k + InfoSize
      BY SizeAssumption
    <2>4. BtSize * m \in Nat /\ InfoSize * k \in Nat /\ InfoSize \in Nat
      BY SizeAssumption
    <2>5. w = BtSize * m + InfoSize * (k + 1)
      BY <2>2, <2>3, <2>4
    <2>. QED BY <1>1, <2>1, <2>5 DEF Counted
  <1>3. Owned(b, lv, i2, n2)
    BY <1>1 DEF Space, Owned
  <1>. QED BY <1>2, <1>3 DEF Space

(* A node is made to lead to the new prop_info. *)
InfoLinked(b, lv, o, new, c) ==
  /\ o \in DOMAIN lv /\ new \in Nat /\ \A q \in DOMAIN lv : b[q] \in BtRec
  /\ DOMAIN lv \subseteq DOMAIN b /\ b[o].prop = 0 /\ c = [b EXCEPT ![o]["prop"] = new]

(* Then the new prop_info is no longer loose, and no space is lost. *)
LEMMA SpaceLinkInfo ==
  ASSUME NEW b, NEW lv, NEW inf, NEW u, NEW ni, Space(b, lv, inf, u, ni), 0 \notin DOMAIN inf,
         NEW new, ni = {new}, NEW o, NEW c, InfoLinked(b, lv, o, new, c), NEW n2, n2 = {}
  PROVE  Space(c, lv, inf, u, n2)
  <1>. USE DEF InfoLinked
  <1>1. /\ DOMAIN c = DOMAIN b /\ \A q \in DOMAIN lv : q # o => c[q] = b[q]
        /\ c[o] = [b[o] EXCEPT !["prop"] = new]
    OBVIOUS
  <1>2. c[o].prop = new /\ c[o].name = b[o].name /\ \A s \in Slots : c[o][s] = b[o][s]
    <2>1. PICK z \in BtRec : z = b[o]
      OBVIOUS
    <2>2. LET y == [z EXCEPT !["prop"] = new]
          IN y.prop = new /\ y.name = z.name /\ \A s \in Slots : y[s] = z[s]
      BY DEF BtRec, Slots
    <2>. QED BY <1>1, <2>1, <2>2
  <1>3. Counted(c, inf, u)
    BY <1>1 DEF Space, Counted
  <1>4. Pointed(c, lv)
    <2>1. \A q \in DOMAIN lv : \A s \in Slots : c[q][s] = b[q][s]
      BY <1>1, <1>2
    <2>. QED BY <2>1 DEF Space, Pointed
  <1>5. Owned(c, lv, inf, n2)
    <2>1. ASSUME NEW p \in DOMAIN inf PROVE \E q \in DOMAIN lv : c[q].prop = p
      <3>1. CASE p = new
        BY <1>2, <3>1
      <3>2. CASE p # new
        <4>1. PICK q \in DOMAIN lv : b[q].prop = p
          BY <3>2 DEF Space, Owned
        <4>2. q # o
          BY <4>1
        <4>. QED BY <1>1, <4>1, <4>2
      <3>. QED BY <3>1, <3>2
    <2>. QED BY <2>1 DEF Owned
  <1>6. Begins(c, lv)
    <2>1. \A q \in DOMAIN lv : Word(c, lv, q) = Word(b, lv, q)
      BY <1>1, <1>2 DEF Word
    <2>2. Begins(b, lv)
      BY DEF Space
    <2>. QED BY <2>1, <2>2, ZenonT(60) DEF Begins
  <1>. QED BY <1>3, <1>4, <1>5, <1>6 DEF Space

(* A pointer of node o is made to lead to the new node, whose word is the  *)
(* beginning of a legal name.                                              *)
NodeLinked(b, lv, o, s, new, c, l2) ==
  /\ o \in DOMAIN lv /\ s \in Slots /\ new \in Nat /\ \A q \in DOMAIN lv : b[q] \in BtRec
  /\ DOMAIN lv \subseteq DOMAIN b /\ new \in DOMAIN b /\ new \notin DOMAIN lv /\ b[o][s] = 0
  /\ c = [b EXCEPT ![o][s] = new]
  /\ DOMAIN l2 = DOMAIN lv \cup {new} /\ \A q \in DOMAIN lv : l2[q] = lv[q]
  /\ \E n \in Names : Legal(n) /\ \E i \in 1 .. Len(n) : Word(c, l2, new) = SubSeq(n, 1, i)

(* The space is still accounted for, with the new node in the trie. *)
LEMMA SpaceLinkNode ==
  ASSUME NEW b, NEW lv, NEW inf, NEW u, NEW ni, Space(b, lv, inf, u, ni),
         NEW o, NEW s, NEW new, NEW c, NEW l2, NodeLinked(b, lv, o, s, new, c, l2)
  PROVE  Space(c, l2, inf, u, ni)
  <1>0. /\ o \in DOMAIN lv /\ s \in Slots /\ new \in Nat /\ \A q \in DOMAIN lv : b[q] \in BtRec
        /\ DOMAIN lv \subseteq DOMAIN b /\ new \in DOMAIN b /\ new \notin DOMAIN lv /\ b[o][s] = 0
        /\ c = [b EXCEPT ![o][s] = new]
        /\ DOMAIN l2 = DOMAIN lv \cup {new} /\ \A q \in DOMAIN lv : l2[q] = lv[q]
        /\ \E n \in Names : Legal(n) /\ \E i \in 1 .. Len(n) : Word(c, l2, new) = SubSeq(n, 1, i)
    BY DEF NodeLinked
  <1>1. /\ DOMAIN c = DOMAIN b /\ \A q \in DOMAIN lv : q # o => c[q] = b[q]
        /\ c[o] = [b[o] EXCEPT ![s] = new]
    BY <1>0
  <1>2. /\ c[o].prop = b[o].prop /\ c[o].name = b[o].name
        /\ \A v \in Slots : c[o][v] = IF v = s THEN new ELSE b[o][v]
    <2>1. PICK z \in BtRec : z = b[o]
      BY <1>0
    <2>. QED BY <1>0, <1>1, <2>1, SetSlot
  <1>3. Counted(c, inf, u)
    BY <1>1 DEF Space, Counted
  <1>4. Pointed(c, l2)
    <2>1. c[o][s] = new
      BY <1>0, <1>2
    <2>2. ASSUME NEW q \in DOMAIN lv \ {0} PROVE \E p \in DOMAIN l2 : \E v \in Slots : c[p][v] = q
      <3>1. PICK p \in DOMAIN lv : \E v \in Slots : b[p][v] = q
        BY DEF Space, Pointed
      <3>2. PICK v \in Slots : b[p][v] = q
        BY <3>1
      <3>3. c[p][v] = q
        <4>1. CASE p = o
          BY <1>0, <1>2, <3>2, <4>1
        <4>2. CASE p # o
          BY <1>1, <3>2, <4>2
        <4>. QED BY <4>1, <4>2
      <3>. QED BY <1>0, <3>3
    <2>. QED BY <1>0, <2>1, <2>2 DEF Pointed
  <1>5. Owned(c, l2, inf, ni)
    <2>1. \A q \in DOMAIN lv : c[q].prop = b[q].prop
      BY <1>0, <1>1, <1>2
    <2>. QED BY <1>0, <2>1 DEF Space, Owned
  <1>6. Begins(c, l2)
    <2>1. \A q \in DOMAIN lv : Word(c, l2, q) = Word(b, lv, q)
      BY <1>0, <1>1, <1>2 DEF Word
    <2>2. ASSUME NEW q \in DOMAIN l2 \ {0}
          PROVE  \E m \in Names : Legal(m) /\ \E j \in 1 .. Len(m) : Word(c, l2, q) = SubSeq(m, 1, j)
      <3>1. CASE q = new
        BY <1>0, <3>1
      <3>2. CASE q # new
        <4>1. PICK m \in Names : Legal(m) /\ \E j \in 1 .. Len(m) : Word(b, lv, q) = SubSeq(m, 1, j)
          BY <1>0, <3>2 DEF Space, Begins
        <4>. QED BY <1>0, <2>1, <3>2, <4>1
      <3>. QED BY <3>1, <3>2
    <2>. QED BY <2>2 DEF Begins
  <1>. QED BY <1>3, <1>4, <1>5, <1>6 DEF Space

(* The nodes with attributes are those that init is not about to link. *)
LEMMA LevDomain ==
  ASSUME NEW lev, NEW rng, Core(lev, rng), NEW a \in Contexts
  PROVE  DOMAIN lev[a] = Nodes(a) \ NewNodes(thr[Init_], a) /\ DOMAIN lev[a] \subseteq Nodes(a)
  <1>1. Nodes(a) = DOMAIN lev[a] \cup NewNodes(thr[Init_], a)
    BY DEF Core, MemInv
  <1>2. PICK x : x = thr[Init_] /\ LinkOK(lev, rng, x)
    BY DEF Core, ThreadInv
  <1>3. ASSUME NEW o \in NewNodes(x, a) PROVE o \notin DOMAIN lev[a]
    <2>1. x.at = "link" /\ x.slot # "prop" /\ x.area = a /\ o = x.new
      BY DEF NewNodes
    <2>. QED BY <1>2, <2>1 DEF LinkOK
  <1>. QED BY <1>1, <1>2, <1>3

(* The same of the next state *)
LEMMA LevDomainNext ==
  ASSUME NEW lev, NEW rng, Core(lev, rng)', NEW a \in Contexts
  PROVE  DOMAIN lev[a] = Nodes(a)' \ NewNodes(thr'[Init_], a)
  <1>1. Nodes(a)' = DOMAIN lev[a] \cup NewNodes(thr'[Init_], a)
    BY DEF Core, MemInv, NewNodes
  <1>2. LinkOK(lev, rng, thr[Init_])'
    BY DEF Core, ThreadInv
  <1>3. ASSUME NEW o \in NewNodes(thr'[Init_], a) PROVE o \notin DOMAIN lev[a]
    <2>1. PICK x : x = thr'[Init_]
      OBVIOUS
    <2>2. x.at = "link" /\ x.slot # "prop" /\ x.area = a /\ o = x.new
      BY <2>1 DEF NewNodes
    <2>. QED BY <1>2, <2>1, <2>2 DEF LinkOK
  <1>. QED BY <1>1, <1>3

(* A step that writes nothing *)
LEMMA SpaceQuiet ==
  ASSUME NEW lev, NEW rng, Core(lev, rng), SpaceInv(lev), NEW l2, NEW r2, Core(l2, r2)',
         Grows(lev, rng, l2, r2), UNCHANGED memory,
         \/ thr'[Init_] = thr[Init_]
         \/ thr[Init_].at # "link" /\ thr'[Init_].at # "link"
  PROVE  SpaceInv(l2)'
  <1>1. ASSUME NEW a \in Contexts
        PROVE  Space(bt[a], l2[a], info[a], used[a], NewInfos(thr'[Init_], a))
    <2>1. PICK x, y : x = thr[Init_] /\ y = thr'[Init_]
      OBVIOUS
    <2>2. NewNodes(y, a) = NewNodes(x, a) /\ NewInfos(y, a) = NewInfos(x, a)
      BY <2>1 DEF NewNodes, NewInfos
    <2>3. DOMAIN lev[a] = Nodes(a) \ NewNodes(x, a)
      BY <2>1, LevDomain
    <2>4. DOMAIN l2[a] = Nodes(a)' \ NewNodes(y, a)
      BY <2>1, LevDomainNext
    <2>5. Nodes(a)' = Nodes(a)
      BY DEF Nodes, memory
    <2>6. DOMAIN l2[a] = DOMAIN lev[a] /\ \A o \in DOMAIN lev[a] : l2[a][o] = lev[a][o]
      BY <2>2, <2>3, <2>4, <2>5 DEF Grows
    <2>7. PICK b, lv, lw, inf, u, ni :
            /\ b = bt[a] /\ lv = lev[a] /\ lw = l2[a] /\ inf = info[a] /\ u = used[a]
            /\ ni = NewInfos(x, a)
      OBVIOUS
    <2>8. Space(b, lv, inf, u, ni)
      BY <2>1, <2>7 DEF SpaceInv
    <2>9. Space(b, lw, inf, u, ni)
      BY <2>6, <2>7, <2>8, SpaceSame
    <2>. QED BY <2>1, <2>2, <2>7, <2>9
  <1>. QED BY <1>1 DEF SpaceInv, memory, NewInfos

(* allocate_obj and the constructor *)
LEMMA SpaceAlloc ==
  ASSUME NEW lev, NEW rng, Core(lev, rng), SpaceInv(lev), NEW l2, NEW r2, Core(l2, r2)',
         Grows(lev, rng, l2, r2), NEW x, x = thr[Init_], x.at # "link", x.area \in Contexts,
         NEW tok, NEW slot, Allocate(Init_, tok, slot)
  PROVE  SpaceInv(l2)'
  <1>1. PICK e, off, size : /\ e = x.area /\ off = used[e]
                            /\ size = IF slot = "prop" THEN InfoSize ELSE BtSize
    OBVIOUS
  <1>2. Init_ \in DOMAIN thr /\ DOMAIN used = Contexts /\ DOMAIN bt = Contexts /\ DOMAIN info = Contexts
    BY DEF Core, MemInv, ThreadInv, Threads
  <1>3. CASE off + size > AreaSize
    <2>1. UNCHANGED memory /\ thr'[Init_] = Done(x, FALSE)
      BY <1>1, <1>2, <1>3 DEF Allocate
    <2>2. thr'[Init_].at # "link"
      BY <2>1 DEF Done
    <2>. QED BY <2>1, <2>2, SpaceQuiet
  <1>4. CASE ~ (off + size > AreaSize)
    <2>1. PICK y : y = [at |-> "link", area |-> e, name |-> x.name, i |-> x.i, node |-> x.node,
                        slot |-> slot, new |-> off]
      OBVIOUS
    <2>2. /\ used' = [used EXCEPT ![e] = off + size]
          /\ IF slot = "prop"
               THEN info' = [info EXCEPT ![e] = Put(@, off, x.name)] /\ bt' = bt
               ELSE bt' = [bt EXCEPT ![e] = Put(@, off, NewBt(tok))] /\ info' = info
          /\ thr' = [thr EXCEPT ![Init_] = y]
      BY <1>1, <1>4, <2>1 DEF Allocate
    <2>3. thr'[Init_] = y
      BY <1>2, <2>2
    <2>4. y.at = "link" /\ y.area = e /\ y.slot = slot /\ y.new = off
      BY <2>1
    <2>5. \A a : /\ NewNodes(x, a) = {} /\ NewInfos(x, a) = {}
                 /\ a # e => NewNodes(y, a) = {} /\ NewInfos(y, a) = {}
      BY <2>4 DEF NewNodes, NewInfos
    <2>6. /\ slot = "prop" => NewNodes(y, e) = {} /\ NewInfos(y, e) = {off}
          /\ slot # "prop" => NewNodes(y, e) = {off} /\ NewInfos(y, e) = {}
      BY <2>4 DEF NewNodes, NewInfos
    <2>7. /\ off \notin DOMAIN bt[e] /\ off \notin DOMAIN info[e] /\ e \in Contexts
      BY <1>1, FreshOffset DEF Nodes
    <2>8. ASSUME NEW a \in Contexts
          PROVE  /\ DOMAIN lev[a] = DOMAIN bt[a] /\ DOMAIN l2[a] = DOMAIN bt'[a] \ NewNodes(y, a)
                 /\ Space(bt[a], lev[a], info[a], used[a], {})
      <3>1. DOMAIN lev[a] = DOMAIN bt[a]
        BY <2>5, LevDomain DEF Nodes
      <3>2. DOMAIN l2[a] = DOMAIN bt'[a] \ NewNodes(y, a)
        BY <2>3, LevDomainNext DEF Nodes
      <3>3. Space(bt[a], lev[a], info[a], used[a], {})
        BY <2>5 DEF SpaceInv
      <3>. QED BY <3>1, <3>2, <3>3
    <2>9. ASSUME NEW a \in Contexts
          PROVE  Space(bt'[a], l2[a], info'[a], used'[a], NewInfos(y, a))
      <3>1. PICK b, c, lv, lw, inf, i2, u, w :
              /\ b = bt[a] /\ c = bt'[a] /\ lv = lev[a] /\ lw = l2[a]
              /\ inf = info[a] /\ i2 = info'[a] /\ u = used[a] /\ w = used'[a]
        OBVIOUS
      <3>2. /\ DOMAIN lv = DOMAIN b /\ Space(b, lv, inf, u, {}) /\ \A o \in DOMAIN lv : lw[o] = lv[o]
        BY <2>8, <3>1 DEF Grows
      <3>3. /\ IsFiniteSet(DOMAIN b) /\ Cardinality(DOMAIN b) \in Nat
            /\ IsFiniteSet(DOMAIN inf) /\ Cardinality(DOMAIN inf) \in Nat /\ u \in Nat
        BY <3>1, AreaFinite
      <3>4. CASE a # e
        <4>1. c = b /\ i2 = inf /\ w = u
          BY <1>2, <2>2, <2>7, <3>1, <3>4
        <4>2. DOMAIN lw = DOMAIN lv
          <5>1. NewNodes(y, a) = {}
            BY <2>5, <3>4
          <5>2. DOMAIN lw = DOMAIN c
            BY <2>8, <3>1, <5>1
          <5>. QED BY <3>2, <4>1, <5>2
        <4>3. Space(b, lw, inf, u, {})
          BY <3>2, <4>2, SpaceSame
        <4>. QED BY <2>5, <3>1, <3>4, <4>1, <4>3
      <3>5. CASE a = e /\ slot = "prop"
        <4>1. c = b /\ i2 = Put(inf, off, x.name) /\ w = u + InfoSize
          BY <1>1, <1>2, <2>2, <2>7, <3>1, <3>5
        <4>2. DOMAIN lw = DOMAIN lv
          <5>1. NewNodes(y, a) = {}
            BY <2>6, <3>5
          <5>2. DOMAIN lw = DOMAIN c
            BY <2>8, <3>1, <5>1
          <5>. QED BY <3>2, <4>1, <5>2
        <4>3. PICK ni, n2, z : ni = {} /\ n2 = {off} /\ z = x.name
          OBVIOUS
        <4>4. off \notin DOMAIN inf
          BY <2>7, <3>1, <3>5
        <4>5. Space(b, lv, i2, w, n2)
          BY <3>2, <3>3, <4>1, <4>3, <4>4, SpaceInfo
        <4>6. Space(b, lw, i2, w, n2)
          BY <3>2, <4>2, <4>5, SpaceSame
        <4>. QED BY <2>6, <3>1, <3>5, <4>1, <4>3, <4>6
      <3>6. CASE a = e /\ slot # "prop"
        <4>1. i2 = inf /\ w = u + BtSize /\ off \notin DOMAIN b
          BY <1>1, <1>2, <2>2, <2>7, <3>1, <3>6
        <4>2. PICK z : z = NewBt(tok)
          OBVIOUS
        <4>3. c = Put(b, off, z)
          BY <1>2, <2>2, <2>7, <3>1, <3>6, <4>2
        <4>4. DOMAIN lw = DOMAIN lv
          <5>1. DOMAIN c = DOMAIN b \cup {off}
            BY <4>3 DEF Put
          <5>2. DOMAIN lw = DOMAIN c \ {off}
            BY <2>6, <2>8, <3>1, <3>6
          <5>. QED BY <3>2, <4>1, <5>1, <5>2
        <4>5. PICK ni : ni = {}
          OBVIOUS
        <4>6. Space(c, lv, inf, w, ni)
          BY <3>2, <3>3, <4>1, <4>3, <4>5, SpaceNode
        <4>7. Space(c, lw, inf, w, ni)
          BY <3>2, <4>4, <4>6, SpaceSame
        <4>. QED BY <2>6, <3>1, <3>6, <4>1, <4>5, <4>7
      <3>. QED BY <3>4, <3>5, <3>6
    <2>. QED BY <2>3, <2>9 DEF SpaceInv, NewInfos
  <1>. QED BY <1>3, <1>4

(* The store that makes the new object reachable *)
LEMMA SpaceLink ==
  ASSUME NEW lev, NEW rng, Core(lev, rng), SpaceInv(lev), NEW l2, NEW r2, Core(l2, r2)',
         Grows(lev, rng, l2, r2), NEW x, x = thr[Init_], Link
  PROVE  SpaceInv(l2)'
  <1>1. PICK e, node, new, slot, n, i : /\ e = x.area /\ node = x.node /\ new = x.new /\ slot = x.slot
                                        /\ n = x.name /\ i = x.i
    OBVIOUS
  <1>2. /\ x.at = "link" /\ bt' = [bt EXCEPT ![e][node][slot] = new] /\ info' = info /\ used' = used
    BY <1>1 DEF Link
  <1>3. /\ LinkOK(lev, rng, x) /\ e \in Contexts /\ node \in DOMAIN lev[e]
        /\ Tree(bt[e], lev[e], rng[e]) /\ Layout(e) /\ DOMAIN bt = Contexts /\ DOMAIN thr = Threads
        /\ Init_ \in Threads
    BY <1>1, <1>2, LinkFacts
  <1>4. PICK y : thr'[Init_] = y /\ y = IF slot = "prop" THEN Done(x, TRUE)
                                        ELSE Walker("search", e, n, i, new)
    BY <1>1, <1>3 DEF Link
  <1>5. y.at # "link"
    BY <1>4 DEF Done, Walker
  <1>6. \A a : NewNodes(y, a) = {} /\ NewInfos(y, a) = {}
    BY <1>5 DEF NewNodes, NewInfos
  <1>7. ASSUME NEW a \in Contexts
        PROVE  /\ DOMAIN lev[a] = DOMAIN bt[a] \ NewNodes(x, a) /\ DOMAIN l2[a] = DOMAIN bt'[a]
               /\ DOMAIN lev[a] \subseteq DOMAIN bt[a] /\ \A o \in DOMAIN lev[a] : l2[a][o] = lev[a][o]
               /\ Space(bt[a], lev[a], info[a], used[a], NewInfos(x, a))
    <2>1. DOMAIN lev[a] = DOMAIN bt[a] \ NewNodes(x, a) /\ DOMAIN lev[a] \subseteq DOMAIN bt[a]
      BY LevDomain DEF Nodes
    <2>2. DOMAIN l2[a] = DOMAIN bt'[a]
      BY <1>4, <1>6, LevDomainNext DEF Nodes
    <2>3. \A o \in DOMAIN lev[a] : l2[a][o] = lev[a][o]
      BY DEF Grows
    <2>4. Space(bt[a], lev[a], info[a], used[a], NewInfos(x, a))
      BY DEF SpaceInv
    <2>. QED BY <2>1, <2>2, <2>3, <2>4
  <1>8. ASSUME NEW a \in Contexts PROVE Space(bt'[a], l2[a], info[a], used[a], {})
    <2>1. PICK b, c, lv, lw, inf, u, ni :
            /\ b = bt[a] /\ c = bt'[a] /\ lv = lev[a] /\ lw = l2[a]
            /\ inf = info[a] /\ u = used[a] /\ ni = NewInfos(x, a)
      OBVIOUS
    <2>2. /\ Space(b, lv, inf, u, ni) /\ \A o \in DOMAIN lv : lw[o] = lv[o]
          /\ DOMAIN lv \subseteq DOMAIN b /\ DOMAIN lw = DOMAIN c
          /\ DOMAIN lv = DOMAIN b \ NewNodes(x, a)
      BY <1>7, <2>1
    <2>3. CASE a # e
      <3>1. c = b /\ ni = {} /\ NewNodes(x, a) = {}
        BY <1>1, <1>2, <1>3, <2>1, <2>3 DEF NewNodes, NewInfos
      <3>2. DOMAIN lw = DOMAIN lv
        BY <2>2, <3>1
      <3>3. Space(b, lw, inf, u, ni)
        BY <2>2, <3>2, SpaceSame
      <3>. QED BY <2>1, <3>1, <3>3
    <2>4. CASE a = e
      <3>1. c = [b EXCEPT ![node][slot] = new] /\ node \in DOMAIN lv
        BY <1>2, <1>3, <2>1, <2>4
      <3>2. DOMAIN c = DOMAIN b
        BY <3>1
      <3>3. \A q \in DOMAIN lv : b[q] \in BtRec
        BY <1>3, <2>1, <2>4 DEF Tree, Shape
      <3>4. CASE slot = "prop"
        <4>1. ni = {new} /\ NewNodes(x, a) = {}
          BY <1>1, <1>2, <2>1, <2>4, <3>4 DEF NewNodes, NewInfos
        <4>2. b[node].prop = 0 /\ new \in Nat /\ 0 \notin DOMAIN inf
          BY <1>1, <1>2, <1>3, <2>1, <2>4, <3>4 DEF LinkOK, Layout
        <4>3. PICK n2 : n2 = {}
          OBVIOUS
        <4>4. c = [b EXCEPT ![node]["prop"] = new]
          BY <3>1, <3>4
        <4>5. InfoLinked(b, lv, node, new, c)
          BY <2>2, <3>1, <3>3, <4>2, <4>4 DEF InfoLinked
        <4>6. Space(c, lv, inf, u, n2)
          BY <2>2, <4>1, <4>2, <4>3, <4>5, SpaceLinkInfo
        <4>7. DOMAIN lw = DOMAIN lv
          BY <2>2, <3>2, <4>1
        <4>8. Space(c, lw, inf, u, n2)
          BY <2>2, <4>6, <4>7, SpaceSame
        <4>. QED BY <2>1, <4>3, <4>8
      <3>5. CASE slot # "prop"
        <4>1. ni = {} /\ NewNodes(x, a) = {new}
          BY <1>1, <1>2, <2>1, <2>4, <3>5 DEF NewNodes, NewInfos
        <4>2. /\ b[node][slot] = 0 /\ new \in Nat /\ new \notin DOMAIN lv /\ slot \in Slots
              /\ n \in Names /\ Legal(n) /\ i \in 1 .. Len(n) /\ b[new] = NewBt(n[i]) /\ new # 0
          BY <1>1, <1>2, <1>3, <2>1, <2>4, <3>5 DEF LinkOK
        <4>3. new \in DOMAIN b
          <5>1. Nodes(e) = DOMAIN lev[e] \cup NewNodes(x, e)
            BY <1>3 DEF Core, MemInv
          <5>. QED BY <2>1, <2>4, <4>1, <5>1 DEF Nodes
        <4>4. DOMAIN lw = DOMAIN lv \cup {new}
          BY <2>2, <3>2, <4>1, <4>3
        <4>5. Word(c, lw, new) = SubSeq(n, 1, i)
          <5>1. c[new].name = n[i]
            <6>1. c[new] = b[new]
              BY <3>1, <4>2, <4>3
            <6>. QED BY <4>2, <6>1 DEF NewBt
          <5>2. lw[new] = SubSeq(n, 1, i - 1)
            <6>1. y = Walker("search", e, n, i, new)
              BY <1>4, <3>5
            <6>2. y.at = "search" /\ y.area = e /\ y.name = n /\ y.i = i /\ y.node = new
              BY <6>1 DEF Walker
            <6>3. WalkOK(l2, r2, Init_, y)'
              BY <1>3, <1>4 DEF Core, ThreadInv, ThreadOK
            <6>4. e # NoArea
              BY <1>3, LinesAssumption
            <6>5. Reached(l2, r2, y)'
              BY <6>2, <6>3, <6>4 DEF WalkOK, WalkerAts
            <6>. QED BY <2>1, <2>4, <6>2, <6>5 DEF Reached
          <5>3. Word(c, lw, new) = Append(SubSeq(n, 1, i - 1), n[i])
            BY <4>2, <5>1, <5>2 DEF Word
          <5>4. n \in Seq(Tokens)
            BY <4>2, NamesAssumption
          <5>. QED BY <4>2, <5>3, <5>4, PrefixStep
        <4>6. NodeLinked(b, lv, node, slot, new, c, lw)
          BY <2>2, <3>1, <3>3, <4>2, <4>3, <4>4, <4>5 DEF NodeLinked
        <4>7. Space(c, lw, inf, u, ni)
          BY <2>2, <4>6, SpaceLinkNode
        <4>. QED BY <2>1, <4>1, <4>7
      <3>. QED BY <3>4, <3>5
    <2>. QED BY <2>3, <2>4
  <1>. QED BY <1>2, <1>4, <1>6, <1>8 DEF SpaceInv, NewInfos

(* Every step keeps the count. *)
LEMMA SpaceStep ==
  ASSUME SInv, [Next]_vars
  PROVE  SInv'
  <1>1. PICK lev, rng : Core(lev, rng) /\ SpaceInv(lev)
    BY DEF SInv
  <1>2. PICK l2, r2 : Core(l2, r2)' /\ Grows(lev, rng, l2, r2)
    BY <1>1, CoreStep
  <1>3. DOMAIN thr = Threads /\ Init_ \in Threads /\ Init_ \notin Readers
    BY <1>1, ThreadsAssumption DEF Core, ThreadInv, Threads
  <1>4. SUFFICES SpaceInv(l2)'
    BY <1>2 DEF SInv
  <1>5. ASSUME UNCHANGED memory, thr'[Init_] = thr[Init_] PROVE SpaceInv(l2)'
    BY <1>1, <1>2, <1>5, SpaceQuiet
  <1>6. ASSUME UNCHANGED memory, thr[Init_].at # "link", thr'[Init_].at # "link" PROVE SpaceInv(l2)'
    BY <1>1, <1>2, <1>6, SpaceQuiet
  <1>7. CASE ReadLine \/ UNCHANGED vars
    BY <1>5, <1>7 DEF ReadLine, vars
  <1>8. CASE Link
    <2>1. PICK x : x = thr[Init_]
      OBVIOUS
    <2>. QED BY <1>1, <1>2, <1>8, <2>1, SpaceLink
  <1>9. ASSUME NEW n \in Names, Begin(Init_, n) PROVE SpaceInv(l2)'
    <2>1. PICK y : y = Find(get_prop_area_for_name(n), n)
      OBVIOUS
    <2>2. UNCHANGED memory /\ thr[Init_].at # "link" /\ thr'[Init_] = y
      BY <1>3, <1>9, <2>1 DEF Begin
    <2>3. y.at # "link"
      BY <2>1 DEF Find, Walker
    <2>. QED BY <1>6, <2>2, <2>3
  <1>10. CASE Walk(Init_)
    <2>1. PICK x : x = thr[Init_]
      OBVIOUS
    <2>2. x.at \in WalkerAts
      BY <1>10, <2>1 DEF Walk, Level, Search, Prop, WalkerAts
    <2>3. x.at # "link"
      BY <2>2 DEF WalkerAts
    <2>4. CASE x.area = NoArea
      <3>1. x.at = "level"
        BY <1>1, <1>3, <2>1, <2>2, <2>4, WalkerFacts
      <3>2. UNCHANGED memory /\ thr' = [thr EXCEPT ![Init_] = Done(x, FALSE)]
        BY <1>10, <2>1, <2>4, <3>1 DEF Walk, Level, Search, Prop
      <3>3. thr'[Init_].at = "done"
        BY <1>3, <3>2 DEF Done
      <3>. QED BY <1>6, <2>1, <2>3, <3>2, <3>3
    <2>5. CASE x.area # NoArea
      <3>1. x.area \in Contexts
        BY <1>1, <1>3, <2>1, <2>2, <2>5, WalkerFacts
      <3>2. ASSUME NEW tok, NEW slot, Allocate(Init_, tok, slot) PROVE SpaceInv(l2)'
        BY <1>1, <1>2, <2>1, <2>3, <3>1, <3>2, SpaceAlloc
      <3>3. ASSUME NEW y, UNCHANGED memory, thr' = [thr EXCEPT ![Init_] = y], y.at # "link"
            PROVE  SpaceInv(l2)'
        BY <1>3, <1>6, <2>1, <2>3, <3>3
      <3>4. /\ \A f : Done(x, f).at # "link"
            /\ \A at, a, n, i, o : Walker(at, a, n, i, o).at = at
        BY DEF Done, Walker
      <3>5. ASSUME NEW tok, NEW slot, Follow(Init_, tok, slot) PROVE SpaceInv(l2)'
        <4>1. \/ Allocate(Init_, tok, slot)
              \/ UNCHANGED memory /\ \E f : thr' = [thr EXCEPT ![Init_] = Done(x, f)]
              \/ /\ UNCHANGED memory
                 /\ \E p : thr' = [thr EXCEPT ![Init_] = Walker("search", x.area, x.name, x.i, p)]
          BY <2>1, <3>5 DEF Follow
        <4>2. CASE UNCHANGED memory /\ \E f : thr' = [thr EXCEPT ![Init_] = Done(x, f)]
          <5>1. PICK f : thr' = [thr EXCEPT ![Init_] = Done(x, f)]
            BY <4>2
          <5>2. PICK y : y = Done(x, f)
            OBVIOUS
          <5>. QED BY <3>3, <3>4, <4>2, <5>1, <5>2
        <4>3. CASE /\ UNCHANGED memory
                   /\ \E p : thr' = [thr EXCEPT ![Init_] = Walker("search", x.area, x.name, x.i, p)]
          <5>1. PICK p : thr' = [thr EXCEPT ![Init_] = Walker("search", x.area, x.name, x.i, p)]
            BY <4>3
          <5>2. PICK y : y = Walker("search", x.area, x.name, x.i, p)
            OBVIOUS
          <5>3. y.at # "link"
            BY <3>4, <5>2
          <5>. QED BY <3>3, <4>3, <5>1, <5>2, <5>3
        <4>. QED BY <3>2, <4>1, <4>2, <4>3
      <3>6. CASE Level(Init_)
        <4>1. \/ Follow(Init_, x.name[x.i], "children")
              \/ UNCHANGED memory /\ thr' = [thr EXCEPT ![Init_] = Done(x, FALSE)]
          BY <2>1, <3>6 DEF Level
        <4>2. ASSUME UNCHANGED memory, thr' = [thr EXCEPT ![Init_] = Done(x, FALSE)]
              PROVE  SpaceInv(l2)'
          <5>1. PICK y : y = Done(x, FALSE)
            OBVIOUS
          <5>. QED BY <3>3, <3>4, <4>2, <5>1
        <4>. QED BY <3>5, <4>1, <4>2
      <3>7. CASE Search(Init_)
        <4>1. \/ \E tok, slot : Follow(Init_, tok, slot)
              \/ /\ UNCHANGED memory
                 /\ \E at \in {"prop", "level"} : \E i :
                      thr' = [thr EXCEPT ![Init_] = Walker(at, x.area, x.name, i, x.node)]
          BY <2>1, <3>7 DEF Search
        <4>2. ASSUME UNCHANGED memory, NEW at \in {"prop", "level"}, NEW i,
                     thr' = [thr EXCEPT ![Init_] = Walker(at, x.area, x.name, i, x.node)]
              PROVE  SpaceInv(l2)'
          <5>1. PICK y : y = Walker(at, x.area, x.name, i, x.node)
            OBVIOUS
          <5>2. y.at # "link"
            BY <3>4, <4>2, <5>1
          <5>. QED BY <3>3, <4>2, <5>1, <5>2
        <4>. QED BY <3>5, <4>1, <4>2
      <3>8. CASE Prop(Init_)
        BY <3>5, <3>8 DEF Prop
      <3>. QED BY <1>10, <3>6, <3>7, <3>8 DEF Walk
    <2>. QED BY <2>4, <2>5
  <1>11. ASSUME NEW r \in Readers, ReaderStep(r) \/ BeginForeach(r) \/ \E n \in Names : Begin(r, n)
         PROVE  SpaceInv(l2)'
    <2>1. r # Init_
      BY <1>3
    <2>2. UNCHANGED memory
      BY <1>11, <2>1 DEF ReaderStep, Walk, Level, Search, Prop, Follow, Visit, EndForeach,
                         BeginForeach, Begin
    <2>3. \E y : thr' = [thr EXCEPT ![r] = y]
      <3>1. CASE Walk(r)
        BY <3>1, WalkThread
      <3>2. CASE ~ Walk(r)
        BY <1>11, <3>2 DEF ReaderStep, Visit, EndForeach, BeginForeach, Begin
      <3>. QED BY <3>1, <3>2
    <2>. QED BY <1>3, <1>5, <2>1, <2>2, <2>3
  <1>. QED BY <1>7, <1>8, <1>9, <1>10, <1>11 DEF Next, InitStep

(* The roots *)
LEMMA SpaceInit ==
  ASSUME Init
  PROVE  SInv
  <1>1. PICK lev, rng : Core(lev, rng)
    BY CoreInit
  <1>2. ASSUME NEW a \in Contexts
        PROVE  Space(bt[a], lev[a], info[a], used[a], NewInfos(thr[Init_], a))
    <2>1. /\ DOMAIN bt[a] = {0} /\ info[a] = <<>> /\ used[a] = BtSize /\ thr[Init_].at = "idle"
      BY DEF Init, Idle, Threads
    <2>2. DOMAIN lev[a] \subseteq {0}
      BY <1>1, <2>1, LevDomain DEF Nodes
    <2>3. PICK inf : inf = info[a] /\ DOMAIN inf = {}
      BY <2>1
    <2>4. Cardinality(DOMAIN bt[a]) = 1 /\ Cardinality(DOMAIN inf) = 0
      BY <2>1, <2>3, FS_Singleton, FS_EmptySet
    <2>5. BtSize = BtSize * 1 + InfoSize * 0
      BY SizeAssumption
    <2>6. Counted(bt[a], info[a], used[a])
      BY <2>1, <2>3, <2>4, <2>5 DEF Counted
    <2>7. Pointed(bt[a], lev[a]) /\ Begins(bt[a], lev[a])
      BY <2>2 DEF Pointed, Begins
    <2>8. Owned(bt[a], lev[a], info[a], NewInfos(thr[Init_], a))
      BY <2>3 DEF Owned
    <2>. QED BY <2>6, <2>7, <2>8 DEF Space
  <1>. QED BY <1>1, <1>2 DEF SInv, SpaceInv

(* The beginnings of legal names *)
LegalWords == UNION {{SubSeq(n, 1, i) : i \in DOMAIN n} : n \in {m \in Names : Legal(m)}}

(* There are finitely many. *)
LEMMA WordsFinite == IsFiniteSet(LegalWords) /\ Cardinality(LegalWords) \in Nat
  <1>. DEFINE Beg(n) == {SubSeq(n, 1, i) : i \in DOMAIN n}
              L == {m \in Names : Legal(m)}
  <1>1. IsFiniteSet(L)
    <2>1. L \in SUBSET Names /\ IsFiniteSet(Names)
      BY NamesAssumption
    <2>. QED BY <2>1, FS_Subset
  <1>2. ASSUME NEW n \in L PROVE IsFiniteSet(Beg(n))
    <2>1. n \in Seq(Tokens)
      BY NamesAssumption
    <2>2. PICK D : D = DOMAIN n /\ IsFiniteSet(D)
      <3>1. DOMAIN n = 1 .. Len(n) /\ Len(n) \in Int /\ 1 \in Int
        BY <2>1, LenProperties
      <3>2. PICK k \in Int : k = Len(n)
        BY <3>1
      <3>3. IsFiniteSet(1 .. k)
        BY FS_Interval
      <3>. QED BY <3>1, <3>2, <3>3
    <2>3. PICK f, B : f = [i \in D |-> SubSeq(n, 1, i)] /\ B = {SubSeq(n, 1, i) : i \in D}
      OBVIOUS
    <2>4. f \in Surjection(D, B)
      BY <2>3 DEF Surjection
    <2>5. IsFiniteSet(B)
      BY <2>2, <2>4, FS_Surjection
    <2>. QED BY <2>2, <2>3, <2>5
  <1>3. PICK g, G : g = [n \in L |-> Beg(n)] /\ G = {Beg(n) : n \in L}
    OBVIOUS
  <1>4. g \in Surjection(L, G)
    BY <1>3 DEF Surjection
  <1>5. IsFiniteSet(G)
    BY <1>1, <1>4, FS_Surjection
  <1>6. \A T \in G : IsFiniteSet(T)
    BY <1>2, <1>3
  <1>7. IsFiniteSet(UNION G)
    BY <1>5, <1>6, FS_UNION
  <1>8. LegalWords = UNION G
    BY <1>3 DEF LegalWords
  <1>. QED BY <1>7, <1>8, FS_CardinalityType

(* Between two adds the nodes are those that pointers lead to, and there   *)
(* is a name for each prop_info.                                           *)
LEMMA NoLeak ==
  ASSUME SInv
  PROVE  NothingLeaks
  <1>1. PICK lev, rng : Core(lev, rng) /\ SpaceInv(lev)
    BY DEF SInv
  <1>2. SUFFICES ASSUME thr[Init_].at \in {"idle", "done"}, NEW a \in Contexts
        PROVE  /\ used[a] = BtSize * Cardinality(Linked(a)) + InfoSize * Cardinality(NamesIn(a))
               /\ Cardinality(Linked(a)) - 1 <= Cardinality(LegalWords)
    BY DEF NothingLeaks, LegalWords
  <1>3. NewNodes(thr[Init_], a) = {} /\ NewInfos(thr[Init_], a) = {}
    BY <1>2 DEF NewNodes, NewInfos
  <1>4. PICK b, lv, rg, inf, u, N, P :
          /\ b = bt[a] /\ lv = lev[a] /\ rg = rng[a] /\ inf = info[a] /\ u = used[a]
          /\ N = DOMAIN b /\ P = DOMAIN inf
    OBVIOUS
  <1>5. DOMAIN lv = N
    BY <1>1, <1>3, <1>4, LevDomain DEF Nodes
  <1>6. /\ Counted(b, inf, u) /\ Pointed(b, lv) /\ Owned(b, lv, inf, {}) /\ Begins(b, lv)
    BY <1>1, <1>3, <1>4 DEF SpaceInv, Space
  <1>7. Shape(b, lv, rg) /\ Unique(b, lv)
    BY <1>1, <1>4 DEF Core, MemInv, Tree
  <1>8. /\ IsFiniteSet(N) /\ Cardinality(N) \in Nat /\ IsFiniteSet(P) /\ Cardinality(P) \in Nat
    BY <1>1, <1>4, AreaFinite
  <1>9. Linked(a) = N
    <2>1. ASSUME NEW q \in N PROVE q \in Linked(a)
      <3>1. CASE q = 0
        BY <3>1 DEF Linked
      <3>2. CASE q # 0
        <4>1. PICK o \in N : \E s \in Slots : b[o][s] = q
          BY <1>5, <1>6, <3>2 DEF Pointed
        <4>. QED BY <1>4, <4>1 DEF Linked, Pointers, Nodes, Slots
      <3>. QED BY <3>1, <3>2
    <2>2. ASSUME NEW q \in Linked(a) PROVE q \in N
      <3>1. CASE q = 0
        BY <1>5, <1>7, <3>1 DEF Shape
      <3>2. CASE q # 0
        <4>1. PICK o \in N, s \in Slots : b[o][s] = q
          BY <1>4, <3>2 DEF Linked, Pointers, Nodes, Slots
        <4>. QED BY <1>5, <1>7, <4>1 DEF Shape
      <3>. QED BY <3>1, <3>2
    <2>. QED BY <2>1, <2>2
  <1>10. \A o \in N : b[o].prop # 0 => b[o].prop \in P /\ inf[b[o].prop] = Word(b, lv, o)
    BY <1>1, <1>4, <1>5 DEF Core, MemInv, PropInv
  <1>11. 0 \notin P
    BY <1>1, <1>4 DEF Core, MemInv, Layout
  <1>12. \A p \in P : \E o \in N : b[o].prop = p /\ inf[p] = Word(b, lv, o)
    BY <1>4, <1>5, <1>6, <1>10, <1>11 DEF Owned
  <1>13. PICK M : M = NamesIn(a) /\ M = {inf[b[o].prop] : o \in {o \in N : b[o].prop # 0}}
    BY <1>4 DEF NamesIn, Nodes
  <1>14. Cardinality(M) = Cardinality(P)
    <2>1. PICK f : f = [p \in P |-> inf[p]]
      OBVIOUS
    <2>2. f \in [P -> M]
      <3>1. ASSUME NEW p \in P PROVE inf[p] \in M
        <4>1. PICK o \in N : b[o].prop = p
          BY <1>12
        <4>2. b[o].prop # 0
          BY <1>11, <4>1
        <4>. QED BY <1>13, <4>1, <4>2
      <3>. QED BY <2>1, <3>1
    <2>3. \A m \in M : \E p \in P : f[p] = m
      BY <1>10, <1>13, <2>1
    <2>4. ASSUME NEW p \in P, NEW q \in P, f[p] = f[q] PROVE p = q
      <3>1. PICK o \in N : b[o].prop = p /\ inf[p] = Word(b, lv, o)
        BY <1>12
      <3>2. PICK k \in N : b[k].prop = q /\ inf[q] = Word(b, lv, k)
        BY <1>12
      <3>3. Word(b, lv, o) = Word(b, lv, k)
        BY <2>1, <2>4, <3>1, <3>2
      <3>. QED BY <1>5, <1>7, <3>1, <3>2, <3>3 DEF Unique
    <2>5. f \in Surjection(P, M)
      BY <2>2, <2>3 DEF Surjection
    <2>6. f \in Injection(P, M)
      <3>1. DOMAIN f = P
        BY <2>1
      <3>. QED BY <2>2, <2>4, <3>1 DEF Injection, IsInjective
    <2>. QED BY <1>8, <2>5, <2>6, FS_Surjection
  <1>15. Cardinality(N) - 1 <= Cardinality(LegalWords)
    <2>1. PICK O : O = N \ {0}
      OBVIOUS
    <2>2. IsFiniteSet(O) /\ Cardinality(O) = Cardinality(N) - 1
      <3>1. 0 \in N
        BY <1>5, <1>7 DEF Shape
      <3>. QED BY <1>8, <2>1, <3>1, FS_RemoveElement
    <2>3. PICK g : g = [o \in O |-> Word(b, lv, o)]
      OBVIOUS
    <2>4. ASSUME NEW o \in O PROVE Word(b, lv, o) \in LegalWords
      <3>1. PICK n \in Names : Legal(n) /\ \E i \in 1 .. Len(n) : Word(b, lv, o) = SubSeq(n, 1, i)
        BY <1>5, <1>6, <2>1 DEF Begins
      <3>2. DOMAIN n = 1 .. Len(n)
        BY NamesAssumption, LenProperties
      <3>3. PICK i \in DOMAIN n : Word(b, lv, o) = SubSeq(n, 1, i)
        BY <3>1, <3>2
      <3>4. PICK w : w = Word(b, lv, o) /\ w = SubSeq(n, 1, i)
        BY <3>3
      <3>5. w \in {SubSeq(n, 1, j) : j \in DOMAIN n}
        BY <3>4
      <3>6. n \in {m \in Names : Legal(m)}
        BY <3>1
      <3>7. w \in LegalWords
        BY <3>5, <3>6, Zenon DEF LegalWords
      <3>. QED BY <3>4, <3>7
    <2>5. g \in [O -> LegalWords] /\ DOMAIN g = O
      BY <2>3, <2>4
    <2>6. \A o, q \in O : g[o] = g[q] => o = q
      BY <1>5, <1>7, <2>1, <2>3 DEF Unique
    <2>7. g \in Injection(O, LegalWords)
      BY <2>5, <2>6 DEF Injection, IsInjective
    <2>. QED BY <2>2, <2>7, WordsFinite, FS_Injection
  <1>. QED BY <1>4, <1>6, <1>9, <1>13, <1>14, <1>15 DEF Counted

(* However often adds run out of space and are repeated, between two adds  *)
(* every byte that was allocated belongs to a node or a property of the    *)
(* trie, and there are at most as many nodes as beginnings of legal names. *)
THEOREM SpaceIsAccounted == Spec => []NothingLeaks
  <1>1. Init => SInv
    BY SpaceInit
  <1>2. SInv /\ [Next]_vars => SInv'
    BY SpaceStep
  <1>3. SInv => NothingLeaks
    BY NoLeak
  <1>. QED BY <1>1, <1>2, <1>3, PTL DEF Spec

=============================================================================
