--------------------------- MODULE CJsonTree_proofs ---------------------------
(***************************************************************************)
(* Who owns what in cJSON, for any number of cells, strings and names,      *)
(* whatever calls come in whatever order and whichever allocation fails:    *)
(* every string block belongs to one item, by its key or its value; an item *)
(* that next or an owner's child leads to is alive, and led to once; a list *)
(* is a chain from its first item to the tail its first item names, and all *)
(* its items are reached from what the caller holds.  It follows that the   *)
(* calls of CJsonTree and CJsonCopy implement CJsonLists, and that a copy   *)
(* shows what its source shows.                                             *)
(***************************************************************************)
EXTENDS CJsonCopy, FiniteSetTheorems, SequenceTheorems, WellFoundedInduction,
        TLAPS

\* A heap is a record of the fields that CJsonHeap gives it.
Fields == {"live", "refs", "consts", "next", "prev", "child", "home", "key",
           "vstr", "strings"}

Shaped(h) == h = [f \in Fields |-> h[f]]

\* Nothing but links differs.
SameStrings(h, g) ==
  /\ g.live = h.live /\ g.refs = h.refs /\ g.consts = h.consts
  /\ g.key = h.key /\ g.vstr = h.vstr /\ g.strings = h.strings

KeyOwners(h) == {x \in h.live : OwnsKey(h, x)}
ValueOwners(h) == {x \in h.live : OwnsValue(h, x)}

\* A free cell is blank, so that a new item owns nothing yet.
StringTypes(h) ==
  /\ Shaped(h)
  /\ h.live \subseteq Items /\ h.refs \subseteq h.live
  /\ h.consts \subseteq h.live
  /\ h.key \in [Items -> Names \cup {Null}]
  /\ h.vstr \in [Items -> Pointers \cup {Lent}]
  /\ h.strings \in Int
  /\ \A x \in Items \ h.live : h.key[x] = Null /\ h.vstr[x] = Null

Counted(h) ==
  h.strings = Cardinality(KeyOwners(h)) + Cardinality(ValueOwners(h))

StringInv(h) == StringTypes(h) /\ Counted(h)

-----------------------------------------------------------------------------
(* Links do not matter.                                                     *)

LEMMA AddLastLinks ==
  ASSUME NEW h, Shaped(h), NEW a, NEW x
  PROVE  Shaped(AddLast(h, a, x)) /\ SameStrings(h, AddLast(h, a, x))
BY DEF Fields, Shaped, SameStrings, AddLast

LEMMA DetachLinks ==
  ASSUME NEW h, Shaped(h), NEW c, NEW x
  PROVE  Shaped(Detach(h, c, x)) /\ SameStrings(h, Detach(h, c, x))
BY DEF Fields, Shaped, SameStrings, Detach

LEMMA InsertLinks ==
  ASSUME NEW h, Shaped(h), NEW c, NEW y, NEW x
  PROVE  /\ Shaped(InsertBefore(h, c, y, x))
         /\ SameStrings(h, InsertBefore(h, c, y, x))
BY DEF Fields, Shaped, SameStrings, InsertBefore

\* Two heaps that differ in their links own the same strings.
LEMMA LinksOnly ==
  ASSUME NEW h, NEW g, StringInv(h), Shaped(g), SameStrings(h, g)
  PROVE  StringInv(g)
<1>1. KeyOwners(g) = KeyOwners(h) /\ ValueOwners(g) = ValueOwners(h)
  BY DEF SameStrings, KeyOwners, ValueOwners, OwnsKey, OwnsValue
<1>2. Counted(g)
  BY <1>1 DEF SameStrings, StringInv, Counted
<1>3. StringTypes(g)
  BY DEF SameStrings, StringInv, StringTypes
<1> QED BY <1>2, <1>3 DEF StringInv

-----------------------------------------------------------------------------
(* Each owner counts once.                                                  *)

LEMMA OwnersFinite ==
  ASSUME NEW h, StringTypes(h)
  PROVE  /\ IsFiniteSet(KeyOwners(h)) /\ Cardinality(KeyOwners(h)) \in Nat
         /\ IsFiniteSet(ValueOwners(h)) /\ Cardinality(ValueOwners(h)) \in Nat
<1>1. KeyOwners(h) \in SUBSET Items /\ ValueOwners(h) \in SUBSET Items
  BY DEF StringTypes, KeyOwners, ValueOwners
<1>2. IsFiniteSet(KeyOwners(h)) /\ IsFiniteSet(ValueOwners(h))
  BY <1>1, CellsAssumption, FS_Subset
<1> QED BY <1>2, FS_CardinalityType

LEMMA NewItemOwns ==
  ASSUME NEW h, StringInv(h), NEW x \in Items \ h.live
  PROVE  StringInv(NewItem(h, x))
<1> DEFINE g == NewItem(h, x)
<1>1. /\ Shaped(g) /\ g.live = h.live \cup {x}
      /\ g.refs = h.refs /\ g.consts = h.consts
      /\ g.key = h.key /\ g.vstr = h.vstr /\ g.strings = h.strings
  BY DEF StringInv, StringTypes, Fields, Shaped, NewItem
<1> HIDE DEF g
<1>2. KeyOwners(g) = KeyOwners(h) /\ ValueOwners(g) = ValueOwners(h)
  BY <1>1 DEF StringInv, StringTypes, KeyOwners, ValueOwners, OwnsKey, OwnsValue
<1>3. Counted(g)
  BY <1>1, <1>2 DEF StringInv, Counted
<1>4. StringTypes(g)
  BY <1>1 DEF StringInv, StringTypes
<1> QED BY <1>3, <1>4 DEF StringInv, g

LEMMA NewValuedOwns ==
  ASSUME NEW h, StringInv(h), NEW x \in Items \ h.live
  PROVE  StringInv(NewValued(h, x)) /\ x \in NewValued(h, x).live
<1> DEFINE g == NewValued(h, x)
<1>1. /\ Shaped(g) /\ g.live = h.live \cup {x}
      /\ g.refs = h.refs /\ g.consts = h.consts
      /\ g.key = h.key /\ g.vstr = [h.vstr EXCEPT ![x] = x]
      /\ g.strings = h.strings + 1
  BY DEF StringInv, StringTypes, Fields, Shaped, NewItem, NewValued
<1> HIDE DEF g
<1>2. KeyOwners(g) = KeyOwners(h)
  BY <1>1 DEF StringInv, StringTypes, KeyOwners, OwnsKey
<1>a. /\ x # Null /\ x \notin h.refs /\ g.vstr[x] = x
      /\ \A y \in Items \ {x} : g.vstr[y] = h.vstr[y]
  BY <1>1, CellsAssumption DEF StringInv, StringTypes
<1>3. ValueOwners(g) = ValueOwners(h) \cup {x} /\ x \notin ValueOwners(h)
  BY <1>1, <1>a DEF StringInv, StringTypes, ValueOwners, OwnsValue
<1>4. Cardinality(ValueOwners(g)) = Cardinality(ValueOwners(h)) + 1
  BY <1>3, OwnersFinite, FS_AddElement DEF StringInv
<1>5. Counted(g)
  BY <1>1, <1>2, <1>4, OwnersFinite DEF StringInv, Counted
<1>6. StringTypes(g)
  BY <1>1 DEF StringInv, StringTypes, Pointers
<1> QED BY <1>1, <1>5, <1>6 DEF StringInv, g

\* What is freed takes just its own strings along.
LEMMA FreeOwns ==
  ASSUME NEW h, StringInv(h), NEW D \in SUBSET Items
  PROVE  StringInv(Free(h, D))
<1> DEFINE g == Free(h, D)
           blank(f) == [x \in Items |-> IF x \in D THEN Null ELSE f[x]]
<1>1. /\ Shaped(g)
      /\ g.live = h.live \ D
      /\ g.refs = h.refs \ D /\ g.consts = h.consts \ D
      /\ g.key = blank(h.key) /\ g.vstr = blank(h.vstr)
      /\ g.strings = h.strings - Blocks(h, D)
  BY DEF StringInv, StringTypes, Fields, Shaped, Free
<1> HIDE DEF g
<1>2. /\ KeyOwners(g) = KeyOwners(h) \ D
      /\ ValueOwners(g) = ValueOwners(h) \ D
  BY <1>1 DEF StringInv, StringTypes, KeyOwners, ValueOwners, OwnsKey, OwnsValue
<1>3. /\ {x \in D : OwnsKey(h, x)} = KeyOwners(h) \cap D
      /\ {x \in D : OwnsValue(h, x)} = ValueOwners(h) \cap D
  BY DEF StringInv, StringTypes, KeyOwners, ValueOwners, OwnsKey, OwnsValue
<1>4. /\ Cardinality(KeyOwners(h) \ D)
           = Cardinality(KeyOwners(h)) - Cardinality(KeyOwners(h) \cap D)
      /\ Cardinality(ValueOwners(h) \ D)
           = Cardinality(ValueOwners(h)) - Cardinality(ValueOwners(h) \cap D)
  BY OwnersFinite, FS_Difference DEF StringInv
<1>5. /\ Cardinality(KeyOwners(h) \cap D) \in Nat
      /\ Cardinality(ValueOwners(h) \cap D) \in Nat
  BY OwnersFinite, FS_Intersection, FS_CardinalityType DEF StringInv
<1>6. Blocks(h, D) = Cardinality(ValueOwners(h) \cap D)
                     + Cardinality(KeyOwners(h) \cap D)
  BY <1>3 DEF Blocks
<1>7. Counted(g)
  BY <1>1, <1>2, <1>4, <1>5, <1>6, OwnersFinite DEF StringInv, Counted
<1>8. StringTypes(g)
  BY <1>1, <1>5, <1>6 DEF StringInv, StringTypes, Pointers
<1> QED BY <1>7, <1>8 DEF StringInv, g

\* cJSON_Delete, wherever it walks.
LEMMA DeleteOwns ==
  ASSUME NEW h, StringInv(h), NEW x
  PROVE  StringInv(DeleteItems(h, x)) /\ StringInv(Discard(h, x))
BY FreeOwns DEF DeleteItems, Discard, Visited

\* A key is counted once, whether there was one before or not.
LEMMA RenameOwns ==
  ASSUME NEW h, StringInv(h), NEW x \in h.live, NEW k \in Names,
         NEW const \in BOOLEAN
  PROVE  StringInv(Rename(h, x, k, const))
<1> DEFINE g == Rename(h, x, k, const)
<1>1. /\ Shaped(g) /\ g.live = h.live /\ g.refs = h.refs
      /\ g.consts = (IF const THEN h.consts \cup {x} ELSE h.consts \ {x})
      /\ g.key = [h.key EXCEPT ![x] = k] /\ g.vstr = h.vstr
      /\ g.strings = h.strings + One(~const) - One(OwnsKey(h, x))
  BY DEF StringInv, StringTypes, Fields, Shaped, Rename
<1> HIDE DEF g
<1>2. ValueOwners(g) = ValueOwners(h)
  BY <1>1 DEF ValueOwners, OwnsValue
<1>a. /\ x \in Items /\ k # Null /\ g.key[x] = k
      /\ \A y \in Items \ {x} : g.key[y] = h.key[y]
  BY <1>1, CellsAssumption DEF StringInv, StringTypes
<1>3. ASSUME const PROVE Counted(g)
  <2>1. KeyOwners(g) = KeyOwners(h) \ {x}
    BY <1>1, <1>3, <1>a DEF StringInv, StringTypes, KeyOwners, OwnsKey
  <2>2. OwnsKey(h, x) <=> x \in KeyOwners(h)
    BY DEF KeyOwners
  <2>3. Cardinality(KeyOwners(g))
          = IF x \in KeyOwners(h) THEN Cardinality(KeyOwners(h)) - 1
            ELSE Cardinality(KeyOwners(h))
    BY <2>1, OwnersFinite, FS_RemoveElement DEF StringInv
  <2>4. Counted(g)
    BY <1>1, <1>2, <1>3, <2>2, <2>3, OwnersFinite
       DEF StringInv, StringTypes, Counted, One
  <2> QED BY <2>4
<1>4. ASSUME ~ const PROVE Counted(g)
  <2>1. KeyOwners(g) = KeyOwners(h) \cup {x}
    BY <1>1, <1>4, <1>a DEF StringInv, StringTypes, KeyOwners, OwnsKey
  <2>2. OwnsKey(h, x) <=> x \in KeyOwners(h)
    BY DEF KeyOwners
  <2>3. Cardinality(KeyOwners(g))
          = IF x \in KeyOwners(h) THEN Cardinality(KeyOwners(h))
            ELSE Cardinality(KeyOwners(h)) + 1
    BY <2>1, OwnersFinite, FS_AddElement DEF StringInv
  <2>4. Counted(g)
    BY <1>1, <1>2, <1>4, <2>2, <2>3, OwnersFinite
       DEF StringInv, StringTypes, Counted, One
  <2> QED BY <2>4
<1>5. StringTypes(g)
  BY <1>1, <1>a DEF StringInv, StringTypes, One
<1> QED BY <1>3, <1>4, <1>5 DEF StringInv, g

\* replace_item_in_object frees the old key before it copies the new one.
Unnamed(h, x) ==
  [h EXCEPT !.key[x] = Null, !.strings = @ - One(OwnsKey(h, x))]

LEMMA UnnamedOwns ==
  ASSUME NEW h, StringInv(h), NEW x \in h.live
  PROVE  StringInv(Unnamed(h, x))
<1> DEFINE g == Unnamed(h, x)
<1>1. /\ Shaped(g) /\ g.live = h.live /\ g.refs = h.refs
      /\ g.consts = h.consts
      /\ g.key = [h.key EXCEPT ![x] = Null] /\ g.vstr = h.vstr
      /\ g.strings = h.strings - One(OwnsKey(h, x))
  BY DEF StringInv, StringTypes, Fields, Shaped, Unnamed
<1> HIDE DEF g
<1>2. ValueOwners(g) = ValueOwners(h)
  BY <1>1 DEF ValueOwners, OwnsValue
<1>3. /\ x \in Items /\ g.key[x] = Null
      /\ \A y \in Items \ {x} : g.key[y] = h.key[y]
  BY <1>1 DEF StringInv, StringTypes
<1>4. KeyOwners(g) = KeyOwners(h) \ {x}
  BY <1>1, <1>3 DEF StringInv, StringTypes, KeyOwners, OwnsKey
<1>5. OwnsKey(h, x) <=> x \in KeyOwners(h)
  BY DEF KeyOwners
<1>6. Cardinality(KeyOwners(g))
        = IF x \in KeyOwners(h) THEN Cardinality(KeyOwners(h)) - 1
          ELSE Cardinality(KeyOwners(h))
  BY <1>4, OwnersFinite, FS_RemoveElement DEF StringInv
<1>7. Counted(g)
  BY <1>1, <1>2, <1>5, <1>6, OwnersFinite
     DEF StringInv, StringTypes, Counted, One
<1>8. StringTypes(g)
  BY <1>1, <1>3 DEF StringInv, StringTypes, One
<1> QED BY <1>7, <1>8 DEF StringInv, g

\* A reference shows a value that somebody else owns, and has no key.
LEMMA ReferenceOwns ==
  ASSUME NEW h, StringInv(h), NEW x \in Items, NEW r \in Items \ h.live
  PROVE  StringInv(Reference(h, x, r)) /\ r \in Reference(h, x, r).live
<1> DEFINE n == NewItem(h, r)
           g == Reference(h, x, r)
<1>1. StringInv(n) /\ n.live = h.live \cup {r} /\ n.strings = h.strings
  BY NewItemOwns DEF StringInv, StringTypes, Fields, Shaped, NewItem
<1> HIDE DEF n
<1>2. /\ Shaped(g) /\ g.live = n.live /\ g.refs = n.refs \cup {r}
      /\ g.consts = (IF x \in h.consts THEN n.consts \cup {r} ELSE n.consts)
      /\ g.key = n.key /\ g.vstr = [n.vstr EXCEPT ![r] = h.vstr[x]]
      /\ g.strings = n.strings
  BY <1>1 DEF StringInv, StringTypes, Fields, Shaped, Reference, n
<1> HIDE DEF g
<1>3. n.key[r] = Null /\ n.vstr[r] = Null /\ n.refs = h.refs
  BY DEF StringInv, StringTypes, Fields, Shaped, NewItem, n
<1>4. KeyOwners(g) = KeyOwners(n)
  BY <1>1, <1>2, <1>3 DEF KeyOwners, OwnsKey
<1>5. ValueOwners(g) = ValueOwners(n)
  BY <1>1, <1>2, <1>3 DEF StringInv, StringTypes, ValueOwners, OwnsValue
<1>6. Counted(g)
  BY <1>1, <1>2, <1>4, <1>5 DEF StringInv, Counted
<1>7. StringTypes(g)
  BY <1>1, <1>2 DEF StringInv, StringTypes
<1> QED BY <1>1, <1>2, <1>6, <1>7 DEF StringInv, g

LEMMA LinkingOwns ==
  ASSUME NEW h, StringInv(h), NEW c, NEW y, NEW x
  PROVE  /\ StringInv(AddLast(h, c, x))
         /\ StringInv(Detach(h, c, x))
         /\ StringInv(InsertBefore(h, c, y, x))
<1>1. Shaped(h)
  BY DEF StringInv, StringTypes
<1> QED BY <1>1, AddLastLinks, DetachLinks, InsertLinks, LinksOnly

-----------------------------------------------------------------------------
(* Where pointers lead.                                                     *)

\* R are items nobody points to.  What next and the child of an owner point to
\* is a live item, which they alone point to, and prev knows whose next it is.
Forest(h, R) ==
  /\ h.next \in [Items -> Pointers] /\ h.prev \in [Items -> Pointers]
  /\ h.child \in [Items -> Pointers]
  /\ R \subseteq h.live
  /\ \A z \in Items : h.next[z] \in (h.live \ R) \cup {Null}
  /\ \A z \in Items \ h.refs : h.child[z] \in (h.live \ R) \cup {Null}
  /\ \A w, z \in Items \ h.refs :
       h.child[w] = h.child[z] /\ h.child[w] # Null => w = z
  /\ \A w \in Items, z \in Items \ h.refs :
       h.next[w] = h.child[z] => h.next[w] = Null
  /\ \A w \in Items : h.next[w] # Null => h.prev[h.next[w]] = w

\* Fewer items of interest, and a heap with the same links.
LEMMA ForestLess ==
  ASSUME NEW h, NEW R, NEW Q \in SUBSET R, Forest(h, R)
  PROVE  Forest(h, Q)
BY DEF Forest

LEMMA ForestSame ==
  ASSUME NEW h, NEW g, NEW R, Forest(h, R),
         g.live = h.live, g.refs = h.refs,
         g.next = h.next, g.prev = h.prev, g.child = h.child
  PROVE  Forest(g, R)
BY DEF Forest

\* Nobody points to a cell that is free.
LEMMA ForestMore ==
  ASSUME NEW h, NEW g, NEW R, Forest(h, R), h.live \subseteq Items,
         NEW x \in Items \ h.live,
         g.live = h.live \cup {x}, g.refs \in {h.refs, h.refs \cup {x}},
         g.next = h.next, g.prev = h.prev,
         \A z \in Items \ {x} : g.child[z] = h.child[z],
         g.child \in [Items -> Pointers],
         g.child[x] = h.child[x] \/ x \in g.refs
  PROVE  Forest(g, R \cup {x})
<1>1. x # Null /\ Null \notin Items
  BY CellsAssumption
<1>2. \A z \in Items \ g.refs : z \in Items \ h.refs /\ g.child[z] = h.child[z]
  OBVIOUS
<1> QED BY <1>1, <1>2 DEF Forest

\* An item of a list is its head or the next of another item, which its prev
\* then is; and it is alive.
LEMMA ListedHas ==
  ASSUME NEW h, NEW R, Forest(h, R), NEW c \in Items \ h.refs,
         NEW y \in Listed(h, c)
  PROVE  /\ y \in Items /\ y \in h.live \ R /\ h.child[c] # Null
         /\ y # h.child[c] => /\ h.prev[y] \in Items \ {y}
                              /\ h.next[h.prev[y]] = y
<1> DEFINE head == h.child[c]
<1>1. head # Null /\ head \in Items /\ y \in From(h, head)
  BY DEF Listed, Forest, Pointers
<1>2. y \in Items /\ \A S \in SUBSET Items :
                       head \in S /\ NextClosed(h, S) => y \in S
  BY <1>1 DEF From
<1>3. CASE y = head
  BY <1>1, <1>3 DEF Forest
<1>4. CASE y # head
  <2> DEFINE S == Items \ {y}
  <2>1. ~ NextClosed(h, S)
    BY <1>1, <1>2, <1>4
  <2>2. PICK w \in S : h.next[w] # Null /\ h.next[w] \notin S
    BY <2>1 DEF NextClosed
  <2>3. h.next[w] = y
    BY <2>2 DEF Forest, Pointers
  <2>4. h.prev[y] = w /\ y \in h.live \ R
    BY <2>2, <2>3 DEF Forest
  <2> QED BY <1>1, <1>2, <2>2, <2>3, <2>4
<1> QED BY <1>3, <1>4

\* What is deleted is what nobody else points to.
LEMMA ForestDelete ==
  ASSUME NEW h, NEW R, Shaped(h), Forest(h, R), h.live \subseteq Items,
         NEW x \in R
  PROVE  Forest(DeleteItems(h, x), R \ {x})
<1> DEFINE D == Visited(h, {x})
           g == DeleteItems(h, x)
           blank(f) == [z \in Items |-> IF z \in D THEN Null ELSE f[z]]
<1>1. /\ g.live = h.live \ D /\ g.refs = h.refs \ D
      /\ g.next = blank(h.next) /\ g.prev = blank(h.prev)
      /\ g.child = blank(h.child)
  BY DEF Shaped, Fields, DeleteItems, Free
<1>2. x \in Items /\ x \in D /\ D \subseteq Items
  BY DEF Forest, Visited
<1>3. /\ \A z \in D : h.next[z] # Null => h.next[z] \in D
      /\ \A z \in D \ h.refs : h.child[z] # Null => h.child[z] \in D
  <2>1. ASSUME NEW z \in D, h.next[z] # Null PROVE h.next[z] \in D
    <3>1. h.next[z] \in Items
      BY <1>2, <2>1 DEF Forest, Pointers
    <3>2. ASSUME NEW S \in SUBSET Items, {x} \subseteq S, Owned(h, S)
          PROVE  h.next[z] \in S
      BY <2>1, <3>2 DEF Visited, Owned, NextClosed
    <3> QED BY <3>1, <3>2 DEF Visited
  <2>2. ASSUME NEW z \in D \ h.refs, h.child[z] # Null PROVE h.child[z] \in D
    <3>1. h.child[z] \in Items
      BY <1>2, <2>2 DEF Forest, Pointers
    <3>2. ASSUME NEW S \in SUBSET Items, {x} \subseteq S, Owned(h, S)
          PROVE  h.child[z] \in S
      BY <2>2, <3>2 DEF Visited, Owned
    <3> QED BY <3>1, <3>2 DEF Visited
  <2> QED BY <2>1, <2>2
<1>4. \A S \in SUBSET Items : x \in S /\ Owned(h, S) => D \subseteq S
  BY DEF Visited
<1> HIDE DEF D, g
<1>5. D \cap R \subseteq {x}
  <2> DEFINE S == (Items \ R) \cup {x}
  <2>1. Owned(h, S)
    BY DEF Owned, NextClosed, Forest, Pointers
  <2> QED BY <1>2, <1>4, <2>1
<1>6. ASSUME NEW z \in Items \ D
      PROVE  /\ h.next[z] \notin D
             /\ z \notin h.refs => h.child[z] \notin D
  <2>1. ASSUME NEW y \in D,
               h.next[z] = y \/ (z \notin h.refs /\ h.child[z] = y)
        PROVE  FALSE
    <3> DEFINE S == D \ {y}
    <3>1. y # Null /\ y # x
      BY <1>2, <2>1, CellsAssumption DEF Forest
    <3>2. \A w \in S : h.next[w] # y /\ (w \notin h.refs => h.child[w] # y)
      BY <1>2, <2>1, <3>1 DEF Forest
    <3>3. Owned(h, S)
      BY <1>3, <3>2 DEF Owned, NextClosed
    <3> QED BY <1>2, <1>4, <3>1, <3>3
  <2> QED BY <2>1
<1>7. ASSUME NEW z \in Items \ D
      PROVE  /\ g.next[z] = h.next[z] /\ g.prev[z] = h.prev[z]
             /\ g.child[z] = h.child[z]
  BY <1>1
<1>8. ASSUME NEW z \in D
      PROVE  g.next[z] = Null /\ g.prev[z] = Null /\ g.child[z] = Null
  BY <1>1, <1>2
<1>9. /\ g.next \in [Items -> Pointers] /\ g.prev \in [Items -> Pointers]
      /\ g.child \in [Items -> Pointers]
  BY <1>1 DEF Forest, Pointers
<1>10. Forest(g, R \ {x})
  BY <1>1, <1>2, <1>5, <1>6, <1>7, <1>8, <1>9 DEF Forest
<1> QED BY <1>10 DEF g

-----------------------------------------------------------------------------
(* Links change hands.                                                      *)

LEMMA ForestAddLast ==
  ASSUME NEW h, NEW R, StringTypes(h), Forest(h, R),
         NEW a \in h.live \ h.refs, NEW x \in R, a # x
  PROVE  Forest(AddLast(h, a, x), R \ {x})
<1> DEFINE g == AddLast(h, a, x)
           head == h.child[a]
           t == h.prev[head]
<1>1. /\ g.live = h.live /\ g.refs = h.refs
      /\ a \in Items \ h.refs /\ x \in Items /\ x # Null
  BY AddLastLinks, CellsAssumption DEF StringTypes, SameStrings, Forest
<1>2. CASE head = Null
  <2>1. /\ g.next = [h.next EXCEPT ![x] = Null]
        /\ g.prev = [h.prev EXCEPT ![x] = x]
        /\ g.child = [h.child EXCEPT ![a] = x]
    BY <1>2 DEF AddLast, StringTypes, Shaped, Fields
  <2> HIDE DEF g
  <2>2. Forest(g, R \ {x})
    BY <1>1, <1>2, <2>1 DEF Forest, Pointers
  <2> QED BY <2>2 DEF g
<1>3. CASE head # Null /\ t = Null
  <2>1. AddLast(h, a, x) = h
    BY <1>3 DEF AddLast
  <2> QED BY <2>1, ForestLess
<1>4. CASE head # Null /\ t # Null
  <2>1. head \in Items /\ t \in Items /\ head # x /\ a # x
    BY <1>1, <1>4 DEF Forest, Pointers
  <2>2. /\ g.next = [h.next EXCEPT ![t] = x]
        /\ g.prev = [h.prev EXCEPT ![x] = t, ![head] = x]
        /\ g.child = h.child
    BY <1>4 DEF AddLast, StringTypes, Shaped, Fields
  <2> HIDE DEF g
  <2>3. \A z \in Items : h.next[z] # head /\ h.next[z] # x
    BY <1>1, <1>4 DEF Forest
  <2>4. /\ g.next[t] = x /\ \A z \in Items \ {t} : g.next[z] = h.next[z]
        /\ g.prev[x] = t /\ \A z \in Items \ {x, head} : g.prev[z] = h.prev[z]
    BY <1>1, <2>1, <2>2 DEF Forest
  <2>5. /\ g.next \in [Items -> Pointers] /\ g.prev \in [Items -> Pointers]
        /\ g.child \in [Items -> Pointers]
    BY <1>1, <2>1, <2>2 DEF Forest, Pointers
  <2> HIDE DEF t, head
  <2>6. \A w \in Items : g.next[w] # Null => g.prev[g.next[w]] = w
    <3>1. ASSUME NEW w \in Items, g.next[w] # Null, w # t
          PROVE  g.prev[g.next[w]] = w
      <4>1. g.next[w] = h.next[w] /\ h.next[w] \in Items \ {x, head}
        BY <2>3, <2>4, <3>1 DEF Forest, Pointers
      <4> QED BY <2>4, <3>1, <4>1 DEF Forest
    <3> QED BY <2>4, <3>1
  <2>7. Forest(g, R \ {x})
    BY <1>1, <2>1, <2>2, <2>3, <2>4, <2>5, <2>6 DEF Forest
  <2> QED BY <2>7 DEF g
<1> QED BY <1>2, <1>3, <1>4

LEMMA ForestDetach ==
  ASSUME NEW h, NEW R, StringTypes(h), Forest(h, R),
         NEW c \in h.live \ h.refs, NEW x, x \in Listed(h, c) \cup R
  PROVE  Forest(Detach(h, c, x), R \cup {x})
<1> DEFINE g == Detach(h, c, x)
           head == h.child[c]
           n == h.next[x]
           p == h.prev[x]
<1>1. /\ g.live = h.live /\ g.refs = h.refs /\ c \in Items \ h.refs
      /\ Null \notin Items
  BY DetachLinks, CellsAssumption DEF StringTypes, SameStrings
<1>2. /\ x \in Items /\ x \in h.live
      /\ x \notin R => /\ x \in Listed(h, c) /\ head # Null
                       /\ x # head => p \in Items \ {x} /\ h.next[p] = x
  BY <1>1, ListedHas DEF Forest, StringTypes
<1>3. n \in Pointers /\ p \in Pointers /\ head \in Pointers
  BY <1>1, <1>2 DEF Forest
<1>4. CASE x # head /\ p = Null
  <2>1. Detach(h, c, x) = h
    BY <1>4 DEF Detach
  <2>2. x \in R
    BY <1>1, <1>2, <1>4
  <2> QED BY <2>1, <2>2, ForestLess
<1>5. CASE x = head
  <2>1. /\ g.next = [y \in Items |-> IF y = x THEN Null ELSE h.next[y]]
        /\ g.prev = [y \in Items |-> IF y = x THEN Null
                                     ELSE IF y = n THEN p ELSE h.prev[y]]
        /\ g.child = [h.child EXCEPT ![c] = n]
    BY <1>5 DEF Detach, TailLeaves, StringTypes, Shaped, Fields
  <2> HIDE DEF g
  <2>2. \A z \in Items : h.next[z] # x /\ (h.next[z] = n /\ n # Null => z = x)
    BY <1>1, <1>2, <1>5 DEF Forest
  <2>3. /\ g.next[x] = Null /\ \A z \in Items \ {x} : g.next[z] = h.next[z]
        /\ \A z \in Items \ {x, n} : g.prev[z] = h.prev[z]
        /\ g.child[c] = n /\ \A z \in Items \ {c} : g.child[z] = h.child[z]
        /\ g.next \in [Items -> Pointers] /\ g.prev \in [Items -> Pointers]
        /\ g.child \in [Items -> Pointers]
    BY <1>1, <1>2, <1>3, <2>1 DEF Forest, Pointers
  <2>4. \A z \in Items \ h.refs : z # c => h.child[z] # x
    BY <1>1, <1>2, <1>5 DEF Forest
  <2> HIDE DEF n, p
  <2>5. \A w \in Items : g.next[w] # Null => g.prev[g.next[w]] = w
    BY <1>1, <1>2, <2>2, <2>3 DEF Forest, Pointers
  <2>6. \A z \in Items : g.next[z] \in (g.live \ (R \cup {x})) \cup {Null}
    BY <1>1, <1>2, <2>2, <2>3 DEF Forest
  <2>7. n \in (g.live \ (R \cup {x})) \cup {Null}
    BY <1>1, <1>2, <2>2 DEF Forest, n
  <2>8. \A z \in Items \ h.refs : h.child[z] = n => n = Null
    BY <1>1, <1>2 DEF Forest, n
  <2>9. Forest(g, R \cup {x})
    BY <1>1, <1>2, <2>2, <2>3, <2>4, <2>5, <2>6, <2>7, <2>8 DEF Forest
  <2> QED BY <2>9 DEF g
<1>6. CASE x # head /\ p # Null
  <2>1. /\ g.next = [y \in Items |-> IF y = x THEN Null
                                     ELSE IF y = p THEN n ELSE h.next[y]]
        /\ g.prev = [y \in Items |-> IF y = x THEN Null
                                     ELSE IF y = n THEN p
                                     ELSE IF TailLeaves(h, c, x) /\ y = head
                                          THEN p ELSE h.prev[y]]
        /\ g.child = [h.child EXCEPT ![c] = @]
    BY <1>6 DEF Detach, StringTypes, Shaped, Fields
  <2>2. g.child = h.child
    BY <1>1, <2>1 DEF Forest
  <2> HIDE DEF g
  <2>3. /\ p \in Items
        /\ \A z \in Items : /\ h.next[z] = x => z = p
                            /\ h.next[z] = n /\ n # Null => z = x
                            /\ h.next[z] = head => head = Null
    BY <1>1, <1>2, <1>3, <1>6 DEF Forest, Pointers
  <2>4. n = x => p = x
    BY <1>2, <2>3
  <2>5. n \in (h.live \ R) \cup {Null} /\ h.child[c] = head
        /\ \A z \in Items \ h.refs : h.child[z] = n => n = Null
    BY <1>1, <1>2 DEF Forest
  <2>6. \A z \in Items \ h.refs : h.child[z] # x
    <3>1. CASE x \in R
      BY <1>1, <1>2, <3>1 DEF Forest
    <3>2. CASE x \notin R
      BY <1>1, <1>2, <1>6, <3>2 DEF Forest
    <3> QED BY <3>1, <3>2
  <2>7. /\ g.next[x] = Null /\ (p # x => g.next[p] = n)
        /\ \A z \in Items \ {x, p} : g.next[z] = h.next[z]
        /\ (n # x /\ n # Null => g.prev[n] = p)
        /\ \A z \in Items \ {x, n, head} : g.prev[z] = h.prev[z]
        /\ g.next \in [Items -> Pointers] /\ g.prev \in [Items -> Pointers]
        /\ g.child \in [Items -> Pointers]
    BY <1>1, <1>2, <1>3, <2>1, <2>2, <2>3 DEF Forest, Pointers
  <2> HIDE DEF n, p, head
  <2>8. \A z \in Items : g.next[z] \in (g.live \ (R \cup {x})) \cup {Null}
    BY <1>1, <1>2, <2>3, <2>4, <2>5, <2>7 DEF Forest
  <2>9. ASSUME NEW w \in Items, g.next[w] # Null
        PROVE  g.prev[g.next[w]] = w
    <3>1. CASE w = p
      BY <1>1, <1>2, <2>4, <2>7, <2>9, <3>1
    <3>2. CASE w # p
      <4>1. w # x /\ g.next[w] = h.next[w]
        BY <2>7, <2>9, <3>2
      <4>2. h.next[w] \in Items \ {x, n, head} /\ h.prev[h.next[w]] = w
        BY <2>3, <2>9, <3>2, <4>1 DEF Forest, Pointers
      <4> QED BY <2>7, <4>1, <4>2
    <3> QED BY <3>1, <3>2
  <2>10. \A w \in Items, z \in Items \ g.refs :
           g.next[w] = g.child[z] => g.next[w] = Null
    BY <1>1, <2>2, <2>5, <2>7 DEF Forest
  <2>11. Forest(g, R \cup {x})
    BY <1>1, <1>2, <2>2, <2>6, <2>7, <2>8, <2>9, <2>10 DEF Forest
  <2> QED BY <2>11 DEF g
<1> QED BY <1>4, <1>5, <1>6

LEMMA ForestInsert ==
  ASSUME NEW h, NEW R, StringTypes(h), Forest(h, R),
         NEW c \in h.live \ h.refs, NEW y \in Listed(h, c), NEW x \in R
  PROVE  Forest(InsertBefore(h, c, y, x), R \ {x})
<1> DEFINE g == InsertBefore(h, c, y, x)
           head == h.child[c]
           p == h.prev[y]
<1>1. /\ g.live = h.live /\ g.refs = h.refs /\ c \in Items \ h.refs
      /\ Null \notin Items /\ x \in Items
  BY InsertLinks, CellsAssumption DEF StringTypes, SameStrings, Forest
<1>2. /\ y \in Items /\ y \in h.live \ R /\ head # Null /\ x # y
      /\ y # head => p \in Items \ {y} /\ h.next[p] = y
  BY <1>1, ListedHas
<1>3. /\ p \in Pointers /\ head \in Items
      /\ \A z \in Items : h.next[z] # x
      /\ \A z \in Items \ h.refs : h.child[z] # x
  BY <1>1, <1>2 DEF Forest, Pointers
<1>4. CASE y # head /\ p = Null
  BY <1>1, <1>2, <1>4
<1>5. CASE y = head
  <2>1. /\ g.next = [z \in Items |-> IF z = x THEN y ELSE h.next[z]]
        /\ g.prev = [h.prev EXCEPT ![x] = p, ![y] = x]
        /\ g.child = [h.child EXCEPT ![c] = x]
    BY <1>5 DEF InsertBefore, StringTypes, Shaped, Fields
  <2> HIDE DEF g
  <2>2. /\ g.next[x] = y /\ \A z \in Items \ {x} : g.next[z] = h.next[z]
        /\ g.prev[y] = x /\ \A z \in Items \ {x, y} : g.prev[z] = h.prev[z]
        /\ g.child[c] = x /\ \A z \in Items \ {c} : g.child[z] = h.child[z]
        /\ g.next \in [Items -> Pointers] /\ g.prev \in [Items -> Pointers]
        /\ g.child \in [Items -> Pointers]
    BY <1>1, <1>2, <1>3, <2>1 DEF Forest, Pointers
  <2>3. /\ \A z \in Items : h.next[z] # y
        /\ \A z \in Items \ h.refs : z # c => h.child[z] # y
    BY <1>1, <1>2, <1>5 DEF Forest
  <2> HIDE DEF p, head
  <2>4. \A w \in Items : g.next[w] # Null => g.prev[g.next[w]] = w
    BY <1>1, <1>2, <1>3, <2>2, <2>3 DEF Forest, Pointers
  <2>5. Forest(g, R \ {x})
    BY <1>1, <1>2, <1>3, <2>2, <2>3, <2>4 DEF Forest
  <2> QED BY <2>5 DEF g
<1>6. CASE y # head /\ p # Null
  <2>1. /\ g.next = [z \in Items |-> IF z = x THEN y
                                     ELSE IF z = p THEN x ELSE h.next[z]]
        /\ g.prev = [h.prev EXCEPT ![x] = p, ![y] = x]
        /\ g.child = [h.child EXCEPT ![c] = @]
    BY <1>6 DEF InsertBefore, StringTypes, Shaped, Fields
  <2>2. g.child = h.child
    BY <1>1, <2>1 DEF Forest
  <2> HIDE DEF g
  <2>3. /\ g.next[x] = y /\ (p # x => g.next[p] = x)
        /\ \A z \in Items \ {x, p} : g.next[z] = h.next[z]
        /\ g.prev[x] = p /\ g.prev[y] = x
        /\ \A z \in Items \ {x, y} : g.prev[z] = h.prev[z]
        /\ g.next \in [Items -> Pointers] /\ g.prev \in [Items -> Pointers]
        /\ g.child \in [Items -> Pointers]
    BY <1>1, <1>2, <1>3, <1>6, <2>1, <2>2 DEF Forest, Pointers
  <2>4. /\ p \in Items /\ \A z \in Items : h.next[z] = y => z = p
        /\ \A z \in Items \ h.refs : h.child[z] # y
    BY <1>1, <1>2, <1>6 DEF Forest
  <2> HIDE DEF p, head
  <2>5. \A w \in Items : g.next[w] # Null => g.prev[g.next[w]] = w
    BY <1>1, <1>2, <1>3, <2>3, <2>4 DEF Forest, Pointers
  <2>6. Forest(g, R \ {x})
    BY <1>1, <1>2, <1>3, <2>2, <2>3, <2>4, <2>5 DEF Forest
  <2> QED BY <2>6 DEF g
<1> QED BY <1>4, <1>5, <1>6

\* cJSON_ReplaceItemViaPointer before the replaced item is deleted
Swapped(h, c, y, x) ==
  LET n == h.next[y]
      p == h.prev[y]
      first == h.child[c] = y
  IN [h EXCEPT
       !.next = [z \in Items |-> IF z = x THEN n
                                 ELSE IF z = y THEN Null
                                 ELSE IF ~first /\ z = p THEN x
                                 ELSE @[z]],
       !.prev = [z \in Items |-> IF z = x
                                 THEN IF first /\ p = y THEN x ELSE p
                                 ELSE IF z = y THEN Null
                                 ELSE IF z = n THEN x
                                 ELSE IF TailLeaves(h, c, y)
                                         /\ z = h.child[c] THEN x
                                 ELSE @[z]],
       !.child[c] = IF first THEN x ELSE @,
       !.home = [@ EXCEPT ![x] = c, ![y] = Null]]

LEMMA SwappedLinks ==
  ASSUME NEW h, Shaped(h), NEW c, NEW y, NEW x
  PROVE  /\ Shaped(Swapped(h, c, y, x)) /\ SameStrings(h, Swapped(h, c, y, x))
         /\ Replace(h, c, y, x)
              = IF x = y THEN h ELSE DeleteItems(Swapped(h, c, y, x), y)
<1>1. Shaped(Swapped(h, c, y, x)) /\ SameStrings(h, Swapped(h, c, y, x))
  BY DEF Swapped, Shaped, Fields, SameStrings
<1>2. Replace(h, c, y, x)
        = IF x = y THEN h ELSE DeleteItems(Swapped(h, c, y, x), y)
  BY Zenon DEF Replace, Swapped
<1> QED BY <1>1, <1>2

LEMMA ForestSwap ==
  ASSUME NEW h, NEW R, StringTypes(h), Forest(h, R),
         NEW c \in h.live \ h.refs, NEW y \in Listed(h, c), NEW x \in R
  PROVE  x # y /\ Forest(Swapped(h, c, y, x), (R \ {x}) \cup {y})
<1> DEFINE g == Swapped(h, c, y, x)
           head == h.child[c]
           n == h.next[y]
           p == h.prev[y]
           Q == (R \ {x}) \cup {y}
<1>1. /\ g.live = h.live /\ g.refs = h.refs /\ c \in Items \ h.refs
      /\ Null \notin Items /\ x \in Items
  BY SwappedLinks, CellsAssumption DEF StringTypes, SameStrings, Forest
<1>2. /\ y \in Items /\ y \in h.live \ R /\ head # Null /\ x # y
      /\ y # head => p \in Items \ {y} /\ h.next[p] = y
  BY <1>1, ListedHas
<1>3. /\ p \in Pointers /\ n \in Pointers /\ head \in Items
      /\ n \in (h.live \ R) \cup {Null}
      /\ \A z \in Items : /\ h.next[z] # x
                          /\ h.next[z] = n /\ n # Null => z = y
                          /\ h.next[z] # head
      /\ \A z \in Items \ h.refs : /\ h.child[z] # x
                                   /\ h.child[z] = n => n = Null
                                   /\ h.child[z] = head => z = c
  BY <1>1, <1>2 DEF Forest, Pointers
<1>a. n # y
  BY <1>1, <1>2, <1>3 DEF Forest
<1>b. n # x /\ n # head /\ x # head
  BY <1>1, <1>2, <1>3
<1>4. CASE y = head
  <2>1. /\ g.next = [z \in Items |-> IF z = x THEN n
                                     ELSE IF z = y THEN Null ELSE h.next[z]]
        /\ g.prev = [z \in Items |-> IF z = x THEN IF p = y THEN x ELSE p
                                     ELSE IF z = y THEN Null
                                     ELSE IF z = n THEN x ELSE h.prev[z]]
        /\ g.child = [h.child EXCEPT ![c] = x]
    BY <1>4 DEF Swapped, TailLeaves, StringTypes, Shaped, Fields
  <2> HIDE DEF g
  <2>2. /\ g.next[x] = n /\ g.next[y] = Null
        /\ \A z \in Items \ {x, y} : g.next[z] = h.next[z]
        /\ n # Null => g.prev[n] = x
        /\ \A z \in Items \ {x, y, n} : g.prev[z] = h.prev[z]
        /\ g.child[c] = x /\ \A z \in Items \ {c} : g.child[z] = h.child[z]
        /\ g.next \in [Items -> Pointers] /\ g.prev \in [Items -> Pointers]
        /\ g.child \in [Items -> Pointers]
    BY <1>1, <1>2, <1>3, <1>a, <1>b, <2>1 DEF Forest, Pointers
  <2>3. /\ \A z \in Items : h.next[z] # y
        /\ \A z \in Items \ h.refs : z # c => h.child[z] # y
    BY <1>3, <1>4
  <2> HIDE DEF p, head, n, Q
  <2>4. \A w \in Items : g.next[w] # Null => g.prev[g.next[w]] = w
    BY <1>1, <1>2, <1>3, <1>a, <2>2, <2>3 DEF Forest, Pointers
  <2>5. \A z \in Items : g.next[z] \in (h.live \ Q) \cup {Null}
    BY <1>1, <1>2, <1>3, <1>a, <2>2, <2>3 DEF Forest, Q
  <2>6. \A z \in Items \ h.refs : g.child[z] \in (h.live \ Q) \cup {Null}
    BY <1>1, <1>2, <1>3, <2>2, <2>3 DEF Forest, Q
  <2>7. Forest(g, Q)
    BY <1>1, <1>2, <1>3, <1>b, <2>2, <2>3, <2>4, <2>5, <2>6 DEF Forest, Q
  <2> QED BY <1>2, <2>7 DEF g, Q
<1>5. CASE y # head
  <2>1. /\ g.next = [z \in Items |-> IF z = x THEN n
                                     ELSE IF z = y THEN Null
                                     ELSE IF z = p THEN x ELSE h.next[z]]
        /\ g.prev = [z \in Items |-> IF z = x THEN p
                                     ELSE IF z = y THEN Null
                                     ELSE IF z = n THEN x
                                     ELSE IF TailLeaves(h, c, y) /\ z = head
                                          THEN x ELSE h.prev[z]]
        /\ g.child = [h.child EXCEPT ![c] = @]
    BY <1>5 DEF Swapped, StringTypes, Shaped, Fields
  <2>2. g.child = h.child
    BY <1>1, <2>1 DEF Forest
  <2> HIDE DEF g
  <2>3. /\ p \in Items \ {y} /\ \A z \in Items : h.next[z] = y => z = p
        /\ \A z \in Items \ h.refs : h.child[z] # y
    BY <1>1, <1>2, <1>5 DEF Forest
  <2>4. /\ g.next[x] = n /\ g.next[y] = Null /\ (p # x => g.next[p] = x)
        /\ \A z \in Items \ {x, y, p} : g.next[z] = h.next[z]
        /\ g.prev[x] = p /\ (n # Null => g.prev[n] = x)
        /\ \A z \in Items \ {x, y, n, head} : g.prev[z] = h.prev[z]
        /\ g.next \in [Items -> Pointers] /\ g.prev \in [Items -> Pointers]
        /\ g.child \in [Items -> Pointers]
    BY <1>1, <1>2, <1>3, <1>a, <1>b, <2>1, <2>2, <2>3 DEF Forest, Pointers
  <2> HIDE DEF p, head, n, Q
  <2>5. ASSUME NEW w \in Items, g.next[w] # Null
        PROVE  g.prev[g.next[w]] = w
    <3>1. CASE w \in {x, y, p}
      BY <1>1, <1>2, <1>3, <2>3, <2>4, <2>5, <3>1
    <3>2. CASE w \notin {x, y, p}
      <4>1. g.next[w] = h.next[w]
        BY <2>4, <3>2
      <4>2. h.next[w] \in Items \ {x, y, n, head} /\ h.prev[h.next[w]] = w
        BY <1>3, <2>3, <2>5, <3>2, <4>1 DEF Forest, Pointers
      <4> QED BY <2>4, <4>1, <4>2
    <3> QED BY <3>1, <3>2
  <2>6. \A z \in Items : g.next[z] \in (h.live \ Q) \cup {Null}
    BY <1>1, <1>2, <1>3, <1>a, <2>3, <2>4 DEF Forest, Q
  <2>7. \A z \in Items \ h.refs : g.child[z] \in (h.live \ Q) \cup {Null}
    BY <1>1, <1>2, <1>3, <2>2, <2>3 DEF Forest, Q
  <2>8. \A w \in Items, z \in Items \ h.refs :
          g.next[w] = h.child[z] => g.next[w] = Null
    BY <1>1, <1>2, <1>3, <2>3, <2>4 DEF Forest
  <2>9. Forest(g, Q)
    BY <1>1, <1>2, <2>2, <2>4, <2>5, <2>6, <2>7, <2>8 DEF Forest, Q
  <2> QED BY <1>2, <2>9 DEF g, Q
<1> QED BY <1>4, <1>5

-----------------------------------------------------------------------------
(* What can be reached.                                                     *)

\* Where cJSON_Delete goes from y.
Led(h, y) ==
  ({h.next[y]} \cup (IF y \in h.refs THEN {} ELSE {h.child[y]})) \ {Null}

LEMMA OwnedLed ==
  ASSUME NEW h, NEW S
  PROVE  Owned(h, S) <=> \A y \in S : Led(h, y) \subseteq S
BY DEF Owned, NextClosed, Led

LEMMA LedTo ==
  ASSUME NEW h, NEW R, Forest(h, R), NEW y \in Items
  PROVE  Led(h, y) \subseteq h.live \ R
BY DEF Forest, Led

\* An item is led to from one place.
LEMMA LedOnce ==
  ASSUME NEW h, NEW R, Forest(h, R), NEW w \in Items, NEW z \in Items,
         NEW u \in Led(h, w), u \in Led(h, z)
  PROVE  w = z
<1>1. u # Null /\ (h.next[w] = u \/ (w \notin h.refs /\ h.child[w] = u))
      /\ (h.next[z] = u \/ (z \notin h.refs /\ h.child[z] = u))
  BY DEF Led
<1>2. CASE h.next[w] = u /\ h.next[z] = u
  BY <1>1, <1>2 DEF Forest
<1>3. CASE h.next[w] = u /\ h.next[z] # u
  BY <1>1, <1>3 DEF Forest
<1>4. CASE h.next[w] # u /\ h.next[z] = u
  BY <1>1, <1>4 DEF Forest
<1>5. CASE h.next[w] # u /\ h.next[z] # u
  BY <1>1, <1>5 DEF Forest
<1> QED BY <1>2, <1>3, <1>4, <1>5

\* The walk is the least set that is closed.
LEMMA VisitedIs ==
  ASSUME NEW h, NEW R, Forest(h, R), h.live \subseteq Items,
         NEW X \in SUBSET Items
  PROVE  /\ X \subseteq Visited(h, X) /\ Visited(h, X) \subseteq Items
         /\ Owned(h, Visited(h, X))
         /\ \A S \in SUBSET Items :
              X \subseteq S /\ Owned(h, S) => Visited(h, X) \subseteq S
<1> DEFINE V == Visited(h, X)
<1>1. X \subseteq V /\ V \subseteq Items
  BY DEF Visited
<1>2. \A S \in SUBSET Items : X \subseteq S /\ Owned(h, S) => V \subseteq S
  BY DEF Visited
<1>3. ASSUME NEW y \in V, NEW u \in Led(h, y)
      PROVE  u \in V
  <2>1. u \in Items
    BY <1>1, LedTo
  <2>2. ASSUME NEW S \in SUBSET Items, X \subseteq S, Owned(h, S)
        PROVE  u \in S
    BY <1>2, <2>2, OwnedLed
  <2> QED BY <2>1, <2>2 DEF Visited
<1>4. Owned(h, V)
  BY <1>3, OwnedLed
<1> QED BY <1>1, <1>2, <1>4

\* Everything allocated is reached from R.
Reached(h, R) ==
  \A S \in SUBSET Items : R \subseteq S /\ Owned(h, S) => h.live \subseteq S

\* A walk that starts elsewhere does not meet what nobody points to.
LEMMA RootsApart ==
  ASSUME NEW h, NEW R, Forest(h, R), h.live \subseteq Items,
         NEW X \in SUBSET Items, X \cap R = {}
  PROVE  Visited(h, X) \cap R = {}
<1>1. Owned(h, Items \ R)
  BY LedTo, OwnedLed
<1> QED BY <1>1, VisitedIs

\* The owner of an item, or its neighbour, is not below it.
LEMMA Acyclic ==
  ASSUME NEW h, NEW R, Forest(h, R), h.live \subseteq Items, Reached(h, R),
         NEW w \in Items, NEW x \in Led(h, w)
  PROVE  w \notin Visited(h, {x})
<1> DEFINE V == Visited(h, {x})
           U == Items \ V
<1>1. SUFFICES ASSUME w \in V PROVE FALSE
  OBVIOUS
<1>2. x \in h.live /\ x \in Items /\ x \notin R
  BY LedTo
<1>3. x \in V /\ V \subseteq Items
      /\ \A S \in SUBSET Items : x \in S /\ Owned(h, S) => V \subseteq S
  BY <1>2, VisitedIs
<1>4. V \cap R = {}
  BY <1>2, RootsApart
<1> HIDE DEF V
<1>5. ASSUME NEW u \in V
      PROVE  \E v \in V : u \in Led(h, v)
  <2>1. CASE u = x
    BY <1>1, <2>1
  <2>2. CASE u # x
    <3>1. ~ Owned(h, V \ {u})
      BY <1>3, <2>2
    <3>2. PICK v \in V \ {u} : ~ (Led(h, v) \subseteq V \ {u})
      BY <3>1, OwnedLed
    <3>3. Owned(h, V)
      BY <1>2, VisitedIs DEF V
    <3>4. Led(h, v) \subseteq V
      BY <3>3, OwnedLed
    <3> QED BY <3>2, <3>4
  <2> QED BY <2>1, <2>2
<1>6. ASSUME NEW z \in U
      PROVE  Led(h, z) \subseteq U
  <2>1. SUFFICES ASSUME NEW u \in Led(h, z), u \in V PROVE FALSE
    BY LedTo
  <2>2. PICK v \in V : u \in Led(h, v)
    BY <1>5, <2>1
  <2>3. v = z
    BY <1>3, <2>1, <2>2, LedOnce
  <2> QED BY <2>3
<1>7. Owned(h, U) /\ R \subseteq U
  BY <1>4, <1>6, OwnedLed DEF Forest
<1>8. h.live \subseteq U
  BY <1>7 DEF Reached
<1> QED BY <1>2, <1>3, <1>8

\* The items W change their place, to one that is led to from p, outside B.
Move(h, g, R, Q, W, B, p) ==
  /\ g.live = h.live
  /\ B \subseteq Items /\ W \subseteq B /\ Owned(h, B)
  /\ p \in h.live /\ p \notin B
  /\ R \subseteq Q \cup W
  /\ \A z \in Items : Led(h, z) \subseteq Led(g, z) \cup W
  /\ \A S \in SUBSET Items :
       Q \subseteq S /\ p \in S /\ Owned(g, S) => W \subseteq S

LEMMA Moved ==
  ASSUME NEW h, NEW g, NEW R, NEW Q, Reached(h, R), NEW W, NEW B, NEW p,
         Move(h, g, R, Q, W, B, p)
  PROVE  Reached(g, Q)
<1> USE DEF Move
<1>1. SUFFICES ASSUME NEW S \in SUBSET Items, Q \subseteq S, Owned(g, S)
               PROVE  g.live \subseteq S
  BY DEF Reached
<1>2. /\ \A z \in S : Led(g, z) \subseteq S
      /\ \A z \in B : Led(h, z) \subseteq B
  BY <1>1, OwnedLed
<1>3. Owned(h, S \cup B)
  <2>1. \A z \in S \cup B : Led(h, z) \subseteq S \cup B
    BY <1>2
  <2> QED BY <2>1, OwnedLed
<1>4. p \in S
  BY <1>1, <1>3 DEF Reached
<1>5. W \subseteq S
  BY <1>1, <1>4
<1>6. Owned(h, S)
  <2>1. \A z \in S : Led(h, z) \subseteq S
    BY <1>2, <1>5
  <2> QED BY <2>1, OwnedLed
<1> QED BY <1>1, <1>5, <1>6 DEF Reached

\* What an item owns, once nothing follows it.
LEMMA SubtreeStays ==
  ASSUME NEW h, NEW g, NEW R, NEW Q, Forest(h, R), Forest(g, Q),
         h.live \subseteq Items, g.live \subseteq Items, g.refs = h.refs,
         NEW y \in Items, g.next[y] = Null,
         y \notin h.refs => g.child[y] = h.child[y],
         \A z \in Subtree(h, y) \ {y} : Led(g, z) = Led(h, z)
  PROVE  Visited(g, {y}) = Subtree(h, y)
<1>1. CASE y \in h.refs \/ h.child[y] = Null
  <2>1. Led(g, y) = {} /\ Subtree(h, y) = {y}
    BY <1>1 DEF Led, Subtree
  <2>2. Owned(g, {y})
    BY <2>1, OwnedLed
  <2> QED BY <2>1, <2>2, VisitedIs
<1>2. CASE ~ (y \in h.refs \/ h.child[y] = Null)
  <2> DEFINE c == h.child[y]
             K == Visited(h, {c})
  <2>1. /\ Subtree(h, y) = {y} \cup K
        /\ Led(g, y) = {c} /\ c \in Items
    BY <1>2 DEF Led, Subtree, Forest
  <2>2. /\ c \in K /\ K \subseteq Items /\ Owned(h, K)
        /\ \A S \in SUBSET Items : c \in S /\ Owned(h, S) => K \subseteq S
    BY <2>1, VisitedIs
  <2> HIDE DEF K, c
  <2>3. \A z \in K \ {y} : Led(g, z) = Led(h, z) /\ Led(h, z) \subseteq K
    BY <2>1, <2>2, OwnedLed
  <2>4. Owned(g, {y} \cup K)
    <3>1. \A z \in {y} \cup K : Led(g, z) \subseteq {y} \cup K
      BY <2>1, <2>2, <2>3
    <3> QED BY <3>1, OwnedLed
  <2>5. ASSUME NEW S \in SUBSET Items, y \in S, Owned(g, S)
        PROVE  K \subseteq S
    <3>1. c \in S
      BY <2>1, <2>5, OwnedLed
    <3>2. \A z \in S \cap K : Led(h, z) \subseteq S \cap K
      BY <2>2, <2>3, <2>5, OwnedLed
    <3>3. Owned(h, S \cap K)
      BY <3>2, OwnedLed
    <3> QED BY <2>2, <3>1, <3>3
  <2>6. Owned(g, Visited(g, {y})) /\ Visited(g, {y}) \subseteq Items
        /\ y \in Visited(g, {y})
        /\ \A S \in SUBSET Items :
             {y} \subseteq S /\ Owned(g, S) => Visited(g, {y}) \subseteq S
    BY VisitedIs
  <2>7. K \subseteq Visited(g, {y})
    BY <2>5, <2>6
  <2>8. Visited(g, {y}) \subseteq {y} \cup K
    BY <2>2, <2>4, <2>6
  <2> QED BY <2>1, <2>6, <2>7, <2>8
<1> QED BY <1>1, <1>2

\* Nothing is below an item that nothing follows and that owns nothing.
LEMMA Alone ==
  ASSUME NEW h, NEW R, Forest(h, R), h.live \subseteq Items, NEW x \in Items,
         h.next[x] = Null, x \in h.refs \/ h.child[x] = Null
  PROVE  Visited(h, {x}) = {x}
<1>1. Led(h, x) = {}
  BY DEF Led
<1>2. Owned(h, {x})
  BY <1>1, OwnedLed
<1> QED BY <1>2, VisitedIs

-----------------------------------------------------------------------------
(* Lists.                                                                   *)

\* The list of an owner, from its head to the tail that the head's prev is.
EndsWell(h, c) ==
  LET head == h.child[c]
  IN head # Null =>
       /\ h.home[head] = c
       /\ h.prev[head] \in Items /\ h.home[h.prev[head]] = c
       /\ h.next[h.prev[head]] = Null

\* Who is in a list is in the one of its home, and in no other.
ListInv(h) ==
  /\ h.home \in [Items -> Pointers]
  /\ \A c \in Items \ h.refs : EndsWell(h, c)
  /\ \A z \in Items : h.next[z] # Null => h.home[h.next[z]] = h.home[z]
  /\ \A z \in Items : h.home[z] = Null => h.next[z] = Null /\ h.prev[z] = Null
  /\ \A z \in Items : h.home[z] # Null =>
       /\ h.home[z] \in h.live \ h.refs
       /\ z \in Listed(h, h.home[z])
       /\ h.next[z] = Null => h.prev[h.child[h.home[z]]] = z

ListsHold(h, R) == StringTypes(h) /\ Forest(h, R) /\ ListInv(h)

\* A list is a walk from its head.
LEMMA ListedFrom ==
  ASSUME NEW h, NEW R, Forest(h, R), NEW c \in Items \ h.refs,
         NEW z \in Items
  PROVE  z \in Listed(h, c) <=>
           /\ h.child[c] # Null
           /\ \A S \in SUBSET Items :
                h.child[c] \in S /\ NextClosed(h, S) => z \in S
BY DEF Listed, From, Forest, Pointers

\* The items of a list are those at home there.
LEMMA ListedHome ==
  ASSUME NEW h, NEW R, ListsHold(h, R), NEW c \in Items \ h.refs,
         NEW z \in Items
  PROVE  z \in Listed(h, c) <=> h.home[z] = c
<1>1. Forest(h, R) /\ ListInv(h) /\ c # Null /\ EndsWell(h, c)
  BY CellsAssumption DEF ListsHold, ListInv
<1>2. h.home[z] = c => z \in Listed(h, c)
  BY <1>1 DEF ListInv
<1>3. ASSUME z \in Listed(h, c)
      PROVE  h.home[z] = c
  <2> DEFINE S == {w \in Items : h.home[w] = c}
  <2>1. h.child[c] # Null /\ h.child[c] \in Items
    BY <1>1, <1>3 DEF Listed, Forest, Pointers
  <2>2. h.child[c] \in S
    BY <1>1, <2>1 DEF EndsWell
  <2>3. NextClosed(h, S)
    BY <1>1 DEF NextClosed, ListInv, Forest, Pointers
  <2>4. z \in S
    BY <1>1, <1>3, <2>2, <2>3, ListedFrom
  <2> QED BY <2>4
<1> QED BY <1>2, <1>3

\* What the caller holds is in no list, and has no neighbours.
LEMMA RootsAlone ==
  ASSUME NEW h, NEW R, ListsHold(h, R), NEW x \in R
  PROVE  h.home[x] = Null /\ h.next[x] = Null /\ h.prev[x] = Null
<1>1. x \in Items /\ Forest(h, R) /\ ListInv(h) /\ h.refs \subseteq h.live
      /\ h.live \subseteq Items
  BY DEF ListsHold, StringTypes, Forest
<1>2. ASSUME h.home[x] # Null PROVE FALSE
  BY <1>1, <1>2, ListedHas DEF ListInv
<1> QED BY <1>1, <1>2 DEF ListInv

\* A free cell is at home nowhere, and leads nowhere.
LEMMA FreeAlone ==
  ASSUME NEW h, NEW R, ListsHold(h, R), NEW x \in Items \ h.live
  PROVE  /\ h.home[x] = Null /\ h.next[x] = Null /\ h.prev[x] = Null
         /\ h.child[x] = Null
<1>1. /\ Forest(h, R) /\ ListInv(h) /\ h.refs \subseteq h.live
      /\ h.live \subseteq Items
  BY DEF ListsHold, StringTypes
<1>2. ASSUME h.home[x] # Null PROVE FALSE
  BY <1>1, <1>2, ListedHas DEF ListInv
<1>3. ASSUME h.child[x] # Null PROVE FALSE
  <2>1. h.child[x] \in Items /\ h.home[h.child[x]] = x /\ x # Null
    BY <1>1, <1>3, CellsAssumption DEF ListInv, EndsWell, Forest, Pointers
  <2> QED BY <1>1, <2>1 DEF ListInv
<1> QED BY <1>1, <1>2, <1>3 DEF ListInv

\* A list is wholly below an item or wholly not.
LEMMA Whole ==
  ASSUME NEW h, NEW R, ListsHold(h, R), NEW x \in R,
         NEW z \in Items, h.home[z] # Null
  PROVE  z \in Visited(h, {x}) <=> h.home[z] \in Visited(h, {x})
<1> DEFINE D == Visited(h, {x})
<1>1. /\ Forest(h, R) /\ ListInv(h) /\ h.live \subseteq Items
      /\ h.refs \subseteq h.live /\ x \in Items
      /\ h.home[x] = Null
  <2>1. h.home[x] = Null
    BY RootsAlone
  <2> QED BY <2>1 DEF ListsHold, StringTypes, Forest
<1>2. /\ x \in D /\ D \subseteq Items /\ Owned(h, D)
      /\ \A S \in SUBSET Items : x \in S /\ Owned(h, S) => D \subseteq S
  BY <1>1, VisitedIs
<1> HIDE DEF D
<1>3. ASSUME h.home[z] \in D PROVE z \in D
  <2> DEFINE c == h.home[z]
  <2>1. c \in Items \ h.refs /\ z \in Listed(h, c)
    BY <1>1 DEF ListInv
  <2> HIDE DEF c
  <2>2. h.child[c] # Null
    BY <1>1, <2>1 DEF Listed
  <2>3. h.child[c] \in D /\ NextClosed(h, D)
    BY <1>2, <1>3, <2>1, <2>2 DEF Owned, c
  <2> QED BY <1>1, <1>2, <2>1, <2>3, ListedFrom
<1>4. ASSUME z \in D PROVE h.home[z] \in D
  <2> DEFINE T == {w \in D : h.home[w] = Null \/ h.home[w] \in D}
  <2>1. ASSUME NEW w \in T, h.next[w] # Null PROVE h.next[w] \in T
    <3>1. h.next[w] \in D /\ h.home[h.next[w]] = h.home[w]
      BY <1>1, <1>2, <2>1 DEF Owned, NextClosed, ListInv
    <3> QED BY <3>1
  <2>2. ASSUME NEW w \in T \ h.refs, h.child[w] # Null PROVE h.child[w] \in T
    <3>1. h.child[w] \in D /\ h.home[h.child[w]] = w
      BY <1>1, <1>2, <2>2 DEF Owned, ListInv, EndsWell
    <3> QED BY <3>1
  <2>3. Owned(h, T)
    BY <2>1, <2>2 DEF Owned, NextClosed
  <2>4. x \in T /\ T \subseteq Items
    BY <1>1, <1>2
  <2> HIDE DEF T
  <2>5. z \in T
    BY <1>2, <1>4, <2>3, <2>4
  <2> QED BY <2>5 DEF T
<1> QED BY <1>3, <1>4 DEF D

\* The same links make the same lists.
LEMMA ListsSame ==
  ASSUME NEW h, NEW g, ListInv(h), g.live = h.live, g.refs = h.refs,
         g.next = h.next, g.prev = h.prev, g.child = h.child, g.home = h.home
  PROVE  ListInv(g)
BY DEF ListInv, EndsWell, Listed, From, NextClosed

\* A cell that is handed out is in no list yet.
LEMMA ListsMore ==
  ASSUME NEW h, NEW g, NEW R, ListsHold(h, R), NEW x \in Items \ h.live,
         g.live = h.live \cup {x}, g.refs \in {h.refs, h.refs \cup {x}},
         g.next = h.next, g.prev = h.prev, g.home = h.home,
         \A z \in Items \ {x} : g.child[z] = h.child[z],
         g.child[x] = h.child[x] \/ x \in g.refs
  PROVE  ListInv(g)
<1>1. /\ Forest(h, R) /\ ListInv(h) /\ h.refs \subseteq h.live
      /\ h.live \subseteq Items
  BY DEF ListsHold, StringTypes
<1>2. \A c \in Items \ g.refs : c \in Items \ h.refs /\ g.child[c] = h.child[c]
  OBVIOUS
<1>3. \A c \in Items \ g.refs : EndsWell(g, c)
  BY <1>1, <1>2 DEF ListInv, EndsWell
<1>4. ASSUME NEW z \in Items, g.home[z] # Null
      PROVE  /\ g.home[z] \in g.live \ g.refs
             /\ z \in Listed(g, g.home[z])
             /\ g.next[z] = Null => g.prev[g.child[g.home[z]]] = z
  <2>1. h.home[z] \in h.live \ h.refs /\ h.home[z] # x
        /\ g.home[z] = h.home[z]
    BY <1>1, <1>4 DEF ListInv
  <2>2. Listed(g, g.home[z]) = Listed(h, h.home[z])
    BY <1>1, <2>1 DEF Listed, From, NextClosed
  <2> QED BY <1>1, <1>4, <2>1, <2>2 DEF ListInv
<1> QED BY <1>1, <1>3, <1>4 DEF ListInv

\* cJSON_Delete takes whole lists.
LEMMA ListsDelete ==
  ASSUME NEW h, NEW R, ListsHold(h, R), NEW x \in R
  PROVE  ListInv(DeleteItems(h, x))
<1> DEFINE D == Visited(h, {x})
           g == DeleteItems(h, x)
           blank(f) == [z \in Items |-> IF z \in D THEN Null ELSE f[z]]
<1>1. /\ Forest(h, R) /\ ListInv(h) /\ h.live \subseteq Items
      /\ h.refs \subseteq h.live /\ x \in Items /\ Shaped(h)
  BY DEF ListsHold, StringTypes, Forest
<1>2. /\ g.live = h.live \ D /\ g.refs = h.refs \ D
      /\ g.next = blank(h.next) /\ g.prev = blank(h.prev)
      /\ g.child = blank(h.child) /\ g.home = blank(h.home)
  BY <1>1 DEF Shaped, Fields, DeleteItems, Free
<1>3. /\ x \in D /\ D \subseteq Items /\ Owned(h, D)
  BY <1>1, VisitedIs
<1>4. \A z \in Items : h.home[z] # Null => (z \in D <=> h.home[z] \in D)
  BY Whole
<1>5. /\ \A z \in Items \ D : /\ g.next[z] = h.next[z] /\ g.prev[z] = h.prev[z]
                              /\ g.child[z] = h.child[z]
                              /\ g.home[z] = h.home[z]
      /\ \A z \in D : /\ g.next[z] = Null /\ g.prev[z] = Null
                      /\ g.child[z] = Null /\ g.home[z] = Null
      /\ g.home \in [Items -> Pointers]
  <2> HIDE DEF D, g
  <2>1. \A z \in Items : h.home[z] \in Pointers
    BY <1>1 DEF ListInv
  <2> QED BY <1>2, <1>3, <2>1 DEF Pointers
<1> HIDE DEF D, g
<1>6. ASSUME NEW z \in Items \ D, h.next[z] # Null
      PROVE  /\ h.next[z] \in Items \ D /\ h.home[h.next[z]] = h.home[z]
  BY <1>1, <1>4, <1>6 DEF ListInv, Forest, Pointers
<1>7. ASSUME NEW c \in Items \ g.refs
      PROVE  EndsWell(g, c)
  <2>1. CASE c \in D
    BY <1>5, <2>1 DEF EndsWell
  <2>2. CASE c \notin D /\ h.child[c] # Null
    <3>1. c \in Items \ h.refs /\ EndsWell(h, c) /\ h.child[c] \in Items
          /\ c # Null
      BY <1>1, <1>2, <2>2, CellsAssumption DEF ListInv, Forest, Pointers
    <3>2. h.child[c] \notin D /\ h.prev[h.child[c]] \in Items \ D
      BY <1>4, <2>2, <3>1 DEF EndsWell
    <3> QED BY <1>5, <2>2, <3>1, <3>2 DEF EndsWell
  <2>3. CASE c \notin D /\ h.child[c] = Null
    BY <1>5, <2>3 DEF EndsWell
  <2> QED BY <2>1, <2>2, <2>3
<1>8. ASSUME NEW z \in Items, g.home[z] # Null
      PROVE  /\ g.home[z] \in g.live \ g.refs
             /\ z \in Listed(g, g.home[z])
             /\ g.next[z] = Null => g.prev[g.child[g.home[z]]] = z
  <2> DEFINE c == h.home[z]
  <2>1. /\ z \in Items \ D /\ g.home[z] = c /\ c \in h.live \ h.refs
        /\ c \notin D /\ z \in Listed(h, c) /\ g.next[z] = h.next[z]
        /\ h.next[z] = Null => h.prev[h.child[c]] = z
    BY <1>1, <1>4, <1>5, <1>8 DEF ListInv
  <2> HIDE DEF c
  <2>2. /\ c \in Items \ h.refs /\ c # Null /\ g.child[c] = h.child[c]
        /\ h.child[c] # Null /\ h.child[c] \in Items
        /\ h.home[h.child[c]] = c
    BY <1>1, <1>5, <2>1, CellsAssumption
       DEF Listed, ListInv, EndsWell, Forest, Pointers
  <2>3. h.child[c] \notin D /\ g.prev[h.child[c]] = h.prev[h.child[c]]
    BY <1>4, <1>5, <2>1, <2>2
  <2>4. ASSUME NEW S \in SUBSET Items, h.child[c] \in S, NextClosed(g, S)
        PROVE  z \in S
    <3>1. NextClosed(h, S \ D)
      BY <1>5, <1>6, <2>4 DEF NextClosed
    <3> QED BY <1>1, <2>1, <2>2, <2>3, <2>4, <3>1, ListedFrom
  <2>5. z \in Listed(g, c)
    BY <2>1, <2>2, <2>4 DEF Listed, From
  <2> QED BY <1>2, <2>1, <2>2, <2>3, <2>5
<1>9. /\ \A z \in Items : g.next[z] # Null => g.home[g.next[z]] = g.home[z]
      /\ \A z \in Items :
           g.home[z] = Null => g.next[z] = Null /\ g.prev[z] = Null
  BY <1>1, <1>5, <1>6 DEF ListInv
<1> QED BY <1>5, <1>7, <1>8, <1>9 DEF ListInv, g

-----------------------------------------------------------------------------
(* Where links go.                                                          *)

\* add_item_to_array
LEMMA AddLastGoes ==
  ASSUME NEW h, NEW R, ListsHold(h, R), NEW a \in h.live \ h.refs, NEW x \in R,
         a # x
  PROVE  LET g == AddLast(h, a, x)
             head == h.child[a]
             t == h.prev[head]
         IN /\ g.live = h.live /\ g.refs = h.refs
            /\ a \in Items \ h.refs /\ a # Null /\ x \in Items
            /\ h.home[x] = Null /\ h.next[x] = Null
            /\ \A z \in Items :
                 h.next[z] # x /\ (z \notin h.refs => h.child[z] # x)
            /\ g.home[x] = a /\ \A z \in Items \ {x} : g.home[z] = h.home[z]
            /\ g.home \in [Items -> Pointers]
            /\ head = Null =>
                 /\ g.next = h.next
                 /\ g.prev[x] = x
                 /\ \A z \in Items \ {x} : g.prev[z] = h.prev[z]
                 /\ g.child[a] = x
                 /\ \A z \in Items \ {a} : g.child[z] = h.child[z]
            /\ head # Null =>
                 /\ head \in Items /\ t \in Items \ {x} /\ h.home[head] = a
                 /\ h.home[t] = a /\ h.next[t] = Null
                 /\ g.next[t] = x
                 /\ \A z \in Items \ {t} : g.next[z] = h.next[z]
                 /\ g.prev[x] = t /\ g.prev[head] = x
                 /\ \A z \in Items \ {x, head} : g.prev[z] = h.prev[z]
                 /\ g.child = h.child
<1> DEFINE g == AddLast(h, a, x)
           head == h.child[a]
           t == h.prev[head]
<1>1. /\ Forest(h, R) /\ ListInv(h) /\ StringTypes(h) /\ Shaped(h)
      /\ a \in Items \ h.refs /\ a # Null /\ x \in Items /\ x # Null
      /\ h.home[x] = Null /\ h.next[x] = Null
  <2>1. /\ Forest(h, R) /\ ListInv(h) /\ StringTypes(h)
        /\ h.home[x] = Null /\ h.next[x] = Null
    BY RootsAlone DEF ListsHold
  <2> QED BY <2>1, CellsAssumption DEF StringTypes, Forest
<1>2. g.live = h.live /\ g.refs = h.refs
  BY <1>1, AddLastLinks DEF SameStrings
<1>3. \A z \in Items : h.next[z] # x /\ (z \notin h.refs => h.child[z] # x)
  BY <1>1 DEF Forest
<1>4. /\ h.home \in [Items -> Pointers] /\ h.next \in [Items -> Pointers]
      /\ h.prev \in [Items -> Pointers] /\ h.child \in [Items -> Pointers]
  BY <1>1 DEF Forest, ListInv
<1>5. CASE head = Null
  <2>1. /\ g.next = [h.next EXCEPT ![x] = Null]
        /\ g.prev = [h.prev EXCEPT ![x] = x]
        /\ g.child = [h.child EXCEPT ![a] = x]
        /\ g.home = [h.home EXCEPT ![x] = a]
    BY <1>1, <1>5 DEF AddLast, Shaped, Fields
  <2> HIDE DEF g
  <2> QED BY <1>1, <1>2, <1>3, <1>4, <1>5, <2>1 DEF Pointers, g
<1>6. CASE head # Null
  <2>1. /\ head \in Items /\ t \in Items \ {x} /\ h.home[head] = a
        /\ h.home[t] = a /\ h.next[t] = Null /\ t # Null
    BY <1>1, <1>4, <1>6, CellsAssumption DEF ListInv, EndsWell, Pointers
  <2>2. /\ g.next = [h.next EXCEPT ![t] = x]
        /\ g.prev = [h.prev EXCEPT ![x] = t, ![head] = x]
        /\ g.child = h.child
        /\ g.home = [h.home EXCEPT ![x] = a]
    BY <1>1, <1>6, <2>1 DEF AddLast, Shaped, Fields
  <2>3. head # x
    BY <1>1, <1>3
  <2> HIDE DEF g, t, head
  <2> QED BY <1>1, <1>2, <1>3, <1>4, <1>6, <2>1, <2>2, <2>3
          DEF Pointers, g, t, head
<1> QED BY <1>5, <1>6

\* An item of a list: its place, and what leads to it.
LEMMA PlaceIs ==
  ASSUME NEW h, NEW R, ListsHold(h, R), NEW c \in h.live \ h.refs,
         NEW y \in Listed(h, c)
  PROVE  LET head == h.child[c]
             n == h.next[y]
             p == h.prev[y]
         IN /\ c \in Items \ h.refs /\ c # Null /\ y \in Items
            /\ y \notin R /\ y \in h.live
            /\ h.home[y] = c
            /\ head \in Items /\ head # Null /\ h.home[head] = c
            /\ n \in (h.live \ R) \cup {Null} /\ n # head /\ n # y
            /\ n # Null => n \in Items /\ h.home[n] = c
            /\ p \in Items /\ h.home[p] = c
            /\ y # head => p # y /\ h.next[p] = y
            /\ y = head => h.next[p] = Null
            /\ \A z \in Items :
                 /\ h.next[z] = y => y # head /\ z = p
                 /\ h.next[z] = n /\ n # Null => z = y
                 /\ z \notin h.refs =>
                      /\ h.child[z] = y => z = c /\ y = head
                      /\ h.child[z] # n \/ n = Null
                      /\ h.child[z] = head => z = c
            /\ \A z \in Items : h.home[z] = c /\ h.next[z] = Null =>
                                  h.prev[head] = z
<1> DEFINE head == h.child[c]
           n == h.next[y]
           p == h.prev[y]
<1>1. /\ Forest(h, R) /\ ListInv(h) /\ h.live \subseteq Items
      /\ c \in Items \ h.refs /\ c # Null /\ Null \notin Items
  BY CellsAssumption DEF ListsHold, StringTypes
<1>2. /\ y \in Items /\ y \notin R /\ y \in h.live /\ head # Null
      /\ y # head => p \in Items /\ p # y /\ h.next[p] = y
  BY <1>1, ListedHas
<1>3. h.home[y] = c
  BY <1>1, <1>2, ListedHome
<1>4. head \in Items /\ n \in (h.live \ R) \cup {Null} /\ n \in Pointers
  BY <1>1, <1>2 DEF Forest, Pointers
<1>5. /\ h.home[head] = c /\ h.prev[head] \in Items
      /\ h.home[h.prev[head]] = c /\ h.next[h.prev[head]] = Null
  BY <1>1, <1>2 DEF ListInv, EndsWell
<1>6. n # head /\ (n # Null => n \in Items /\ h.home[n] = c)
  BY <1>1, <1>2, <1>3, <1>4 DEF Forest, ListInv, Pointers
<1>7. p \in Items /\ h.home[p] = c /\ (y = head => h.next[p] = Null)
  BY <1>1, <1>2, <1>3, <1>5 DEF ListInv
<1>8. \A z \in Items : h.home[z] = c /\ h.next[z] = Null => h.prev[head] = z
  BY <1>1 DEF ListInv
<1> HIDE DEF n, head
<1>9. ASSUME NEW z \in Items
      PROVE  /\ h.next[z] = y => y # head /\ z = p
             /\ h.next[z] = n /\ n # Null => z = y
             /\ z \notin h.refs =>
                  /\ h.child[z] = y => z = c /\ y = head
                  /\ h.child[z] # n \/ n = Null
                  /\ h.child[z] = head => z = c
  <2>1. h.next[z] = y => y # head /\ z = p
    BY <1>1, <1>2 DEF Forest, head
  <2>2. h.next[z] = n /\ n # Null => z = y
    BY <1>1, <1>2 DEF Forest, n
  <2>3. z \notin h.refs => h.child[z] # n \/ n = Null
    BY <1>1, <1>2 DEF Forest, n
  <2>4. z \notin h.refs => (h.child[z] = head => z = c)
    BY <1>1, <1>2 DEF Forest, head
  <2>5. z \notin h.refs => (h.child[z] = y => z = c /\ y = head)
    <3>1. CASE y = head
      BY <2>4, <3>1
    <3>2. CASE y # head
      BY <1>1, <1>2, <3>2 DEF Forest
    <3> QED BY <3>1, <3>2
  <2> QED BY <2>1, <2>2, <2>3, <2>4, <2>5
<1>10. n # y
  BY <1>2, <1>5, <1>7, <1>9 DEF n
<1> QED BY <1>1, <1>2, <1>3, <1>4, <1>5, <1>6, <1>7, <1>8, <1>9, <1>10
        DEF n, head

\* cJSON_DetachItemViaPointer
LEMMA DetachGoes ==
  ASSUME NEW h, NEW R, ListsHold(h, R), NEW c \in h.live \ h.refs,
         NEW x \in Listed(h, c)
  PROVE  LET g == Detach(h, c, x)
             head == h.child[c]
             n == h.next[x]
             p == h.prev[x]
         IN /\ g.live = h.live /\ g.refs = h.refs
            /\ g.vstr = h.vstr
            /\ g.home[x] = Null /\ \A z \in Items \ {x} : g.home[z] = h.home[z]
            /\ g.home \in [Items -> Pointers]
            /\ g.next[x] = Null /\ g.prev[x] = Null
            /\ n # Null => g.prev[n] = p
            /\ x = head =>
                 /\ \A z \in Items \ {x} : g.next[z] = h.next[z]
                 /\ \A z \in Items \ {x, n} : g.prev[z] = h.prev[z]
                 /\ g.child[c] = n
                 /\ \A z \in Items \ {c} : g.child[z] = h.child[z]
            /\ x # head =>
                 /\ g.next[p] = n
                 /\ \A z \in Items \ {x, p} : g.next[z] = h.next[z]
                 /\ g.child = h.child
                 /\ n = Null => g.prev[head] = p
                 /\ n # Null => g.prev[head] = h.prev[head]
                 /\ \A z \in Items \ {x, n, head} : g.prev[z] = h.prev[z]
<1> DEFINE g == Detach(h, c, x)
           head == h.child[c]
           n == h.next[x]
           p == h.prev[x]
<1>1. /\ Forest(h, R) /\ ListInv(h) /\ Shaped(h) /\ Null \notin Items
      /\ c \in Items /\ x \in Items /\ head \in Items
      /\ p \in Items /\ n \in Pointers /\ n # head /\ n # x
      /\ x # head => p # x
  BY PlaceIs, CellsAssumption DEF ListsHold, StringTypes, Pointers
<1>2. g.live = h.live /\ g.refs = h.refs /\ g.vstr = h.vstr
  BY <1>1, DetachLinks DEF SameStrings
<1>3. /\ h.home \in [Items -> Pointers] /\ h.next \in [Items -> Pointers]
      /\ h.prev \in [Items -> Pointers] /\ h.child \in [Items -> Pointers]
  BY <1>1 DEF Forest, ListInv
<1>4. CASE x = head
  <2>1. /\ g.next = [y \in Items |-> IF y = x THEN Null ELSE h.next[y]]
        /\ g.prev = [y \in Items |-> IF y = x THEN Null
                                     ELSE IF y = n THEN p ELSE h.prev[y]]
        /\ g.child = [h.child EXCEPT ![c] = n]
        /\ g.home = [h.home EXCEPT ![x] = Null]
    BY <1>1, <1>4 DEF Detach, TailLeaves, Shaped, Fields
  <2> HIDE DEF g, n, p
  <2> QED BY <1>1, <1>2, <1>3, <1>4, <2>1 DEF Pointers, g, n, p
<1>5. CASE x # head
  <2>1. /\ g.next = [y \in Items |-> IF y = x THEN Null
                                     ELSE IF y = p THEN n ELSE h.next[y]]
        /\ g.prev = [y \in Items |-> IF y = x THEN Null
                                     ELSE IF y = n THEN p
                                     ELSE IF TailLeaves(h, c, x) /\ y = head
                                          THEN p ELSE h.prev[y]]
        /\ g.child = [h.child EXCEPT ![c] = @]
        /\ g.home = [h.home EXCEPT ![x] = Null]
    BY <1>1, <1>5 DEF Detach, Shaped, Fields
  <2>2. g.child = h.child /\ (TailLeaves(h, c, x) <=> n = Null)
    BY <1>3, <1>5, <2>1 DEF TailLeaves
  <2> HIDE DEF g, n, p, head
  <2> QED BY <1>1, <1>2, <1>3, <1>5, <2>1, <2>2 DEF Pointers, g, n, p, head
<1> QED BY <1>4, <1>5

\* cJSON_InsertItemInArray
LEMMA InsertGoes ==
  ASSUME NEW h, NEW R, ListsHold(h, R), NEW c \in h.live \ h.refs,
         NEW y \in Listed(h, c), NEW x \in R
  PROVE  LET g == InsertBefore(h, c, y, x)
             head == h.child[c]
             p == h.prev[y]
         IN /\ g.live = h.live /\ g.refs = h.refs
            /\ x \in Items /\ h.home[x] = Null /\ h.next[x] = Null
            /\ x # y /\ x # head /\ x # p
            /\ \A z \in Items :
                 h.next[z] # x /\ (z \notin h.refs => h.child[z] # x)
            /\ g.home[x] = c /\ \A z \in Items \ {x} : g.home[z] = h.home[z]
            /\ g.home \in [Items -> Pointers]
            /\ g.next[x] = y /\ g.prev[x] = p /\ g.prev[y] = x
            /\ \A z \in Items \ {x, y} : g.prev[z] = h.prev[z]
            /\ y = head => /\ \A z \in Items \ {x} : g.next[z] = h.next[z]
                           /\ g.child[c] = x
                           /\ \A z \in Items \ {c} : g.child[z] = h.child[z]
            /\ y # head => /\ g.next[p] = x
                           /\ \A z \in Items \ {x, p} : g.next[z] = h.next[z]
                           /\ g.child = h.child
<1> DEFINE g == InsertBefore(h, c, y, x)
           head == h.child[c]
           p == h.prev[y]
<1>1. /\ Forest(h, R) /\ ListInv(h) /\ Shaped(h) /\ Null \notin Items
      /\ c \in Items /\ y \in Items /\ head \in Items /\ p \in Items
      /\ h.home[y] = c /\ h.home[head] = c /\ h.home[p] = c /\ c # Null
      /\ x \in Items /\ h.home[x] = Null /\ h.next[x] = Null
  <2>1. /\ Forest(h, R) /\ ListInv(h) /\ StringTypes(h)
        /\ h.home[x] = Null /\ h.next[x] = Null
    BY RootsAlone DEF ListsHold
  <2>2. x \in Items
    BY <2>1 DEF StringTypes, Forest
  <2> QED BY <2>1, <2>2, PlaceIs, CellsAssumption DEF StringTypes
<1>2. g.live = h.live /\ g.refs = h.refs
  BY <1>1, InsertLinks DEF SameStrings
<1>3. /\ h.home \in [Items -> Pointers] /\ h.next \in [Items -> Pointers]
      /\ h.prev \in [Items -> Pointers] /\ h.child \in [Items -> Pointers]
      /\ \A z \in Items : h.next[z] # x /\ (z \notin h.refs => h.child[z] # x)
  BY <1>1 DEF Forest, ListInv
<1>4. g.prev = [h.prev EXCEPT ![x] = p, ![y] = x]
      /\ g.home = [h.home EXCEPT ![x] = c]
  BY <1>1 DEF InsertBefore, Shaped, Fields
<1>5. CASE y = head
  <2>1. /\ g.next = [z \in Items |-> IF z = x THEN y ELSE h.next[z]]
        /\ g.child = [h.child EXCEPT ![c] = x]
    BY <1>1, <1>5 DEF InsertBefore, Shaped, Fields
  <2> HIDE DEF g, p
  <2> QED BY <1>1, <1>2, <1>3, <1>4, <1>5, <2>1 DEF Pointers, g, p
<1>6. CASE y # head
  <2>1. /\ g.next = [z \in Items |-> IF z = x THEN y
                                     ELSE IF z = p THEN x ELSE h.next[z]]
        /\ g.child = [h.child EXCEPT ![c] = @]
    BY <1>1, <1>6 DEF InsertBefore, Shaped, Fields
  <2>2. g.child = h.child
    BY <1>3, <2>1
  <2> HIDE DEF g, p, head
  <2> QED BY <1>1, <1>2, <1>3, <1>4, <1>6, <2>1, <2>2 DEF Pointers, g, p, head
<1> QED BY <1>5, <1>6

\* cJSON_ReplaceItemViaPointer, until the replaced item is deleted
LEMMA SwapGoes ==
  ASSUME NEW h, NEW R, ListsHold(h, R), NEW c \in h.live \ h.refs,
         NEW y \in Listed(h, c), NEW x \in R
  PROVE  LET g == Swapped(h, c, y, x)
             head == h.child[c]
             n == h.next[y]
             p == h.prev[y]
         IN /\ g.live = h.live /\ g.refs = h.refs /\ g.vstr = h.vstr
            /\ x \in Items /\ h.home[x] = Null /\ h.next[x] = Null
            /\ x # y /\ x # head /\ x # p /\ x # n
            /\ \A z \in Items :
                 h.next[z] # x /\ (z \notin h.refs => h.child[z] # x)
            /\ g.home[x] = c /\ g.home[y] = Null
            /\ \A z \in Items \ {x, y} : g.home[z] = h.home[z]
            /\ g.home \in [Items -> Pointers]
            /\ g.next[x] = n /\ g.next[y] = Null /\ g.prev[y] = Null
            /\ n # Null => g.prev[n] = x
            /\ y = head =>
                 /\ \A z \in Items \ {x, y} : g.next[z] = h.next[z]
                 /\ g.prev[x] = IF p = y THEN x ELSE p
                 /\ \A z \in Items \ {x, y, n} : g.prev[z] = h.prev[z]
                 /\ g.child[c] = x
                 /\ \A z \in Items \ {c} : g.child[z] = h.child[z]
            /\ y # head =>
                 /\ g.next[p] = x
                 /\ \A z \in Items \ {x, y, p} : g.next[z] = h.next[z]
                 /\ g.prev[x] = p
                 /\ n = Null => g.prev[head] = x
                 /\ n # Null => g.prev[head] = h.prev[head]
                 /\ \A z \in Items \ {x, y, n, head} : g.prev[z] = h.prev[z]
                 /\ g.child = h.child
<1> DEFINE g == Swapped(h, c, y, x)
           head == h.child[c]
           n == h.next[y]
           p == h.prev[y]
<1>1. /\ Forest(h, R) /\ ListInv(h) /\ Shaped(h) /\ Null \notin Items
      /\ c \in Items /\ y \in Items /\ head \in Items /\ p \in Items
      /\ y # head => p # y
      /\ n \in Pointers /\ n # head /\ n # y /\ n \notin R
      /\ h.home[y] = c /\ h.home[head] = c /\ h.home[p] = c /\ c # Null
      /\ x \in Items /\ h.home[x] = Null /\ h.next[x] = Null
  <2>1. /\ Forest(h, R) /\ ListInv(h) /\ StringTypes(h)
        /\ h.home[x] = Null /\ h.next[x] = Null
    BY RootsAlone DEF ListsHold
  <2>2. /\ x \in Items /\ h.live \subseteq Items
        /\ Null \notin Items /\ Null \notin R
    BY <2>1, CellsAssumption DEF StringTypes, Forest
  <2>3. n \in Pointers /\ n # h.child[c] /\ n # y /\ n \notin R
    BY <2>2, PlaceIs DEF Pointers
  <2> QED BY <2>1, <2>2, <2>3, PlaceIs DEF StringTypes
<1>2. g.live = h.live /\ g.refs = h.refs /\ g.vstr = h.vstr
  BY <1>1, SwappedLinks DEF SameStrings
<1>3. /\ h.home \in [Items -> Pointers] /\ h.next \in [Items -> Pointers]
      /\ h.prev \in [Items -> Pointers] /\ h.child \in [Items -> Pointers]
      /\ \A z \in Items : h.next[z] # x /\ (z \notin h.refs => h.child[z] # x)
  BY <1>1 DEF Forest, ListInv
<1>4. g.home = [h.home EXCEPT ![x] = c, ![y] = Null]
  BY <1>1 DEF Swapped, Shaped, Fields
<1>5. CASE y = head
  <2>1. /\ g.next = [z \in Items |-> IF z = x THEN n
                                     ELSE IF z = y THEN Null ELSE h.next[z]]
        /\ g.prev = [z \in Items |-> IF z = x THEN IF p = y THEN x ELSE p
                                     ELSE IF z = y THEN Null
                                     ELSE IF z = n THEN x ELSE h.prev[z]]
        /\ g.child = [h.child EXCEPT ![c] = x]
    BY <1>1, <1>5 DEF Swapped, TailLeaves, Shaped, Fields
  <2> HIDE DEF g, p, n
  <2> QED BY <1>1, <1>2, <1>3, <1>4, <1>5, <2>1 DEF Pointers, g, p, n
<1>6. CASE y # head
  <2>1. /\ g.next = [z \in Items |-> IF z = x THEN n
                                     ELSE IF z = y THEN Null
                                     ELSE IF z = p THEN x ELSE h.next[z]]
        /\ g.prev = [z \in Items |-> IF z = x THEN p
                                     ELSE IF z = y THEN Null
                                     ELSE IF z = n THEN x
                                     ELSE IF TailLeaves(h, c, y) /\ z = head
                                          THEN x ELSE h.prev[z]]
        /\ g.child = [h.child EXCEPT ![c] = @]
    BY <1>1, <1>6 DEF Swapped, Shaped, Fields
  <2>2. g.child = h.child /\ (TailLeaves(h, c, y) <=> n = Null)
    BY <1>3, <1>6, <2>1 DEF TailLeaves
  <2> HIDE DEF g, p, n, head
  <2> QED BY <1>1, <1>2, <1>3, <1>4, <1>6, <2>1, <2>2
          DEF Pointers, g, p, n, head
<1> QED BY <1>5, <1>6

-----------------------------------------------------------------------------
(* Lists stay lists.                                                        *)

LEMMA ListsAddLast ==
  ASSUME NEW h, NEW R, ListsHold(h, R), NEW a \in h.live \ h.refs, NEW x \in R,
         a # x
  PROVE  ListInv(AddLast(h, a, x))
<1> DEFINE g == AddLast(h, a, x)
           head == h.child[a]
           t == h.prev[head]
<1>1. /\ Forest(h, R) /\ ListInv(h) /\ StringTypes(h)
      /\ h.home \in [Items -> Pointers] /\ Null \notin Items
  BY CellsAssumption DEF ListsHold, ListInv
<1>2. /\ g.live = h.live /\ g.refs = h.refs
      /\ a \in Items \ h.refs /\ a # Null /\ x \in Items
      /\ h.home[x] = Null /\ h.next[x] = Null
      /\ \A z \in Items : h.next[z] # x /\ (z \notin h.refs => h.child[z] # x)
      /\ g.home[x] = a /\ \A z \in Items \ {x} : g.home[z] = h.home[z]
      /\ g.home \in [Items -> Pointers]
  BY AddLastGoes
<1>3. Forest(g, R \ {x})
  BY <1>1, ForestAddLast
<1>4. CASE head = Null
  <2>1. /\ g.next = h.next
        /\ g.prev[x] = x /\ \A z \in Items \ {x} : g.prev[z] = h.prev[z]
        /\ g.child[a] = x /\ \A z \in Items \ {a} : g.child[z] = h.child[z]
    BY <1>4, AddLastGoes
  <2> HIDE DEF g
  <2>2. \A z \in Items : h.home[z] # a
    BY <1>1, <1>2, <1>4 DEF ListInv, Listed
  <2>3. ASSUME NEW c \in Items \ g.refs PROVE EndsWell(g, c)
    BY <1>1, <1>2, <2>1, <2>3, CellsAssumption
       DEF EndsWell, ListInv, Forest, Pointers
  <2>4. ASSUME NEW z \in Items, g.next[z] # Null
        PROVE  g.home[g.next[z]] = g.home[z]
    BY <1>1, <1>2, <2>1, <2>4 DEF ListInv, Forest, Pointers
  <2>5. ASSUME NEW z \in Items, g.home[z] = Null
        PROVE  g.next[z] = Null /\ g.prev[z] = Null
    BY <1>1, <1>2, <2>1, <2>5 DEF ListInv
  <2>6. ASSUME NEW z \in Items, g.home[z] # Null
        PROVE  /\ g.home[z] \in g.live \ g.refs
               /\ z \in Listed(g, g.home[z])
               /\ g.next[z] = Null => g.prev[g.child[g.home[z]]] = z
    <3>1. CASE z = x
      BY <1>2, <2>1, <3>1 DEF Listed, From
    <3>2. CASE z # x
      <4> DEFINE c == h.home[z]
      <4>1. /\ g.home[z] = c /\ c # a /\ c \in h.live \ h.refs /\ c \in Items
            /\ z \in Listed(h, c)
            /\ h.next[z] = Null => h.prev[h.child[c]] = z
        BY <1>1, <1>2, <2>2, <2>6, <3>2 DEF ListInv, Pointers
      <4> HIDE DEF c
      <4>2. /\ g.child[c] = h.child[c] /\ h.child[c] \in Items
            /\ h.child[c] # x
        BY <1>1, <1>2, <2>1, <4>1 DEF Listed, Forest, Pointers
      <4>3. Listed(g, c) = Listed(h, c)
        BY <2>1, <4>2 DEF Listed, From, NextClosed
      <4> QED BY <1>2, <2>1, <4>1, <4>2, <4>3
    <3> QED BY <3>1, <3>2
  <2>7. ListInv(g)
    BY <1>2, <2>3, <2>4, <2>5, <2>6 DEF ListInv
  <2> QED BY <2>7 DEF g
<1>5. CASE head # Null
  <2>1. /\ head \in Items /\ t \in Items \ {x} /\ h.home[head] = a
        /\ h.home[t] = a /\ h.next[t] = Null
        /\ g.next[t] = x /\ \A z \in Items \ {t} : g.next[z] = h.next[z]
        /\ g.prev[x] = t /\ g.prev[head] = x
        /\ \A z \in Items \ {x, head} : g.prev[z] = h.prev[z]
        /\ g.child = h.child
    BY <1>5, AddLastGoes
  <2>a. h.prev[head] = t /\ h.child[a] = head
    OBVIOUS
  <2> HIDE DEF g, head, t
  <2>3. ASSUME NEW c \in Items \ g.refs PROVE EndsWell(g, c)
    <3>1. CASE c = a
      BY <1>2, <2>1, <2>a, <3>1 DEF EndsWell
    <3>2. CASE c # a /\ h.child[c] # Null
      <4>1. /\ h.child[c] \in Items \ {x} /\ h.home[h.child[c]] = c
            /\ h.prev[h.child[c]] \in Items /\ h.home[h.prev[h.child[c]]] = c
            /\ h.next[h.prev[h.child[c]]] = Null
        BY <1>1, <1>2, <3>2 DEF EndsWell, ListInv, Forest, Pointers
      <4>2. h.child[c] # head /\ h.prev[h.child[c]] \notin {x, t}
        BY <1>1, <1>2, <2>1, <3>2, <4>1
      <4> QED BY <1>1, <1>2, <2>1, <4>1, <4>2 DEF EndsWell
    <3>3. CASE c # a /\ h.child[c] = Null
      BY <2>1, <3>3 DEF EndsWell
    <3> QED BY <3>1, <3>2, <3>3
  <2>4. ASSUME NEW z \in Items, g.next[z] # Null
        PROVE  g.home[g.next[z]] = g.home[z]
    <3>1. CASE z = t
      BY <1>2, <2>1, <3>1
    <3>2. CASE z # t
      BY <1>1, <1>2, <2>1, <2>4, <3>2 DEF ListInv, Forest, Pointers
    <3> QED BY <3>1, <3>2
  <2>5. ASSUME NEW z \in Items, g.home[z] = Null
        PROVE  g.next[z] = Null /\ g.prev[z] = Null
    BY <1>1, <1>2, <2>1, <2>5 DEF ListInv
  <2>6. ASSUME NEW z \in Items, g.home[z] # Null
        PROVE  /\ g.home[z] \in g.live \ g.refs
               /\ z \in Listed(g, g.home[z])
               /\ g.next[z] = Null => g.prev[g.child[g.home[z]]] = z
    <3> DEFINE c == g.home[z]
    <3>1. /\ c \in h.live \ h.refs /\ c \in Items \ h.refs
          /\ c = IF z = x THEN a ELSE h.home[z]
      BY <1>1, <1>2, <2>6 DEF ListInv, Pointers
    <3> HIDE DEF c
    <3>2. h.child[c] # Null /\ (z # x => z \in Listed(h, c))
      BY <1>1, <1>2, <1>5, <2>a, <2>6, <3>1 DEF ListInv, Listed, c
    <3>3. ASSUME NEW S \in SUBSET Items, g.child[c] \in S, NextClosed(g, S)
          PROVE  z \in S
      <4>1. NextClosed(h, S) /\ h.child[c] \in S
        BY <2>1, <3>3 DEF NextClosed
      <4>2. CASE z # x
        BY <1>1, <3>1, <3>2, <4>1, <4>2, ListedFrom
      <4>3. CASE z = x
        <5>1. t \in Listed(h, a)
          BY <1>1, <1>2, <2>1 DEF ListInv
        <5>2. t \in S
          BY <1>1, <1>2, <2>1, <3>1, <4>1, <4>3, <5>1, ListedFrom
        <5> QED BY <1>2, <2>1, <3>3, <4>3, <5>2, CellsAssumption DEF NextClosed
      <4> QED BY <4>2, <4>3
    <3>4. z \in Listed(g, c)
      BY <1>2, <1>3, <2>1, <3>1, <3>2, <3>3, ListedFrom
    <3>5. ASSUME g.next[z] = Null PROVE g.prev[g.child[c]] = z
      <4>1. CASE z = x
        BY <2>1, <2>a, <3>1, <4>1
      <4>2. CASE z # x
        <5>1. z # t /\ h.next[z] = Null
          BY <1>1, <1>2, <2>1, <3>5
        <5>2. h.prev[h.child[c]] = z
          BY <1>1, <1>2, <2>6, <3>1, <4>2, <5>1 DEF ListInv
        <5>3. h.child[c] \notin {x, head} /\ h.child[c] \in Items
          BY <1>1, <1>2, <2>a, <3>1, <3>2, <5>1, <5>2 DEF Forest, Pointers
        <5> QED BY <2>1, <5>2, <5>3
      <4> QED BY <4>1, <4>2
    <3> QED BY <1>2, <3>1, <3>4, <3>5 DEF c
  <2>7. ListInv(g)
    BY <1>2, <2>3, <2>4, <2>5, <2>6 DEF ListInv
  <2> QED BY <2>7 DEF g
<1> QED BY <1>4, <1>5

\* The list is closed up around what is taken out.
LEMMA ListsDetach ==
  ASSUME NEW h, NEW R, ListsHold(h, R), NEW c \in h.live \ h.refs,
         NEW x \in Listed(h, c)
  PROVE  ListInv(Detach(h, c, x))
<1> DEFINE g == Detach(h, c, x)
           head == h.child[c]
           n == h.next[x]
           p == h.prev[x]
<1>1. /\ Forest(h, R) /\ ListInv(h) /\ StringTypes(h)
      /\ h.home \in [Items -> Pointers] /\ Null \notin Items
  BY CellsAssumption DEF ListsHold, ListInv
<1>2. /\ c \in Items \ h.refs /\ c # Null /\ x \in Items
      /\ h.home[x] = c /\ head \in Items /\ head # Null /\ h.home[head] = c
      /\ n # head /\ n # x
      /\ n # Null => n \in Items /\ h.home[n] = c
      /\ p \in Items /\ h.home[p] = c
      /\ x # head => p # x /\ h.next[p] = x
      /\ x = head => h.next[p] = Null
      /\ \A z \in Items :
           /\ h.next[z] = x => x # head /\ z = p
           /\ z \notin h.refs =>
                /\ h.child[z] = x => z = c /\ x = head
                /\ h.child[z] # n \/ n = Null
                /\ h.child[z] = head => z = c
      /\ \A z \in Items : h.home[z] = c /\ h.next[z] = Null => h.prev[head] = z
  BY PlaceIs
<1>3. Forest(g, R \cup {x})
  BY <1>1, ForestDetach
<1>4. /\ g.live = h.live /\ g.refs = h.refs
      /\ g.home[x] = Null /\ \A z \in Items \ {x} : g.home[z] = h.home[z]
      /\ g.home \in [Items -> Pointers]
      /\ g.next[x] = Null /\ g.prev[x] = Null
      /\ n # Null => g.prev[n] = p
      /\ x = head =>
           /\ \A z \in Items \ {x} : g.next[z] = h.next[z]
           /\ \A z \in Items \ {x, n} : g.prev[z] = h.prev[z]
           /\ g.child[c] = n
           /\ \A z \in Items \ {c} : g.child[z] = h.child[z]
      /\ x # head =>
           /\ g.next[p] = n
           /\ \A z \in Items \ {x, p} : g.next[z] = h.next[z]
           /\ g.child = h.child
           /\ n = Null => g.prev[head] = p
           /\ n # Null => g.prev[head] = h.prev[head]
           /\ \A z \in Items \ {x, n, head} : g.prev[z] = h.prev[z]
  BY DetachGoes
<1>5. h.child[c] = head /\ h.next[x] = n /\ h.prev[x] = p
  OBVIOUS
<1> HIDE DEF g, head, n, p
<1>6. ASSUME NEW d \in Items \ g.refs PROVE EndsWell(g, d)
  <2>1. CASE d # c /\ h.child[d] # Null
    <3>1. /\ h.child[d] \in Items /\ h.home[h.child[d]] = d
          /\ h.prev[h.child[d]] \in Items /\ h.home[h.prev[h.child[d]]] = d
          /\ h.next[h.prev[h.child[d]]] = Null
      BY <1>1, <1>4, <2>1 DEF EndsWell, ListInv, Forest, Pointers
    <3>2. h.child[d] \notin {x, n, head} /\ h.prev[h.child[d]] \notin {x, p}
      BY <1>1, <1>2, <2>1, <3>1
    <3> QED BY <1>2, <1>4, <2>1, <3>1, <3>2 DEF EndsWell
  <2>2. CASE d # c /\ h.child[d] = Null
    BY <1>4, <2>2 DEF EndsWell
  <2>3. CASE d = c /\ x = head
    <3>1. CASE n = Null
      BY <1>4, <2>3, <3>1 DEF EndsWell
    <3>2. CASE n # Null
      <4>1. p # x
        BY <1>2, <1>5, <2>3, <3>2
      <4> QED BY <1>2, <1>4, <2>3, <3>2, <4>1 DEF EndsWell
    <3> QED BY <3>1, <3>2
  <2>4. CASE d = c /\ x # head
    <3>1. EndsWell(h, c)
      BY <1>1, <1>2 DEF ListInv
    <3>2. CASE n = Null
      BY <1>2, <1>4, <1>5, <2>4, <3>2 DEF EndsWell
    <3>3. CASE n # Null
      <4>1. /\ h.prev[head] \in Items \ {x, p} /\ h.home[h.prev[head]] = c
            /\ h.next[h.prev[head]] = Null
        BY <1>2, <1>5, <2>4, <3>1, <3>3, <1>1 DEF EndsWell
      <4> QED BY <1>2, <1>4, <1>5, <2>4, <3>3, <4>1 DEF EndsWell
    <3> QED BY <3>2, <3>3
  <2> QED BY <2>1, <2>2, <2>3, <2>4
<1>7. ASSUME NEW z \in Items, g.next[z] # Null
      PROVE  g.home[g.next[z]] = g.home[z]
  <2>1. CASE x # head /\ z = p
    BY <1>2, <1>4, <1>7, <2>1
  <2>2. CASE ~ (x # head /\ z = p)
    <3>1. z # x /\ g.next[z] = h.next[z] /\ h.next[z] # x
      BY <1>2, <1>4, <1>7, <2>2
    <3>2. h.next[z] \in Items /\ h.home[h.next[z]] = h.home[z]
      BY <1>1, <1>7, <3>1 DEF ListInv, Forest, Pointers
    <3> QED BY <1>4, <3>1, <3>2
  <2> QED BY <2>1, <2>2
<1>8. ASSUME NEW z \in Items, g.home[z] = Null
      PROVE  g.next[z] = Null /\ g.prev[z] = Null
  <2>1. CASE z = x
    BY <1>4, <2>1
  <2>2. CASE z # x
    <3>1. h.home[z] = Null /\ h.next[z] = Null /\ h.prev[z] = Null
      BY <1>1, <1>4, <1>8, <2>2 DEF ListInv
    <3>2. z \notin {n, p, head}
      BY <1>1, <1>2, <3>1
    <3> QED BY <1>4, <2>2, <3>1, <3>2
  <2> QED BY <2>1, <2>2
<1>9. ASSUME NEW S \in SUBSET Items, NextClosed(g, S)
      PROVE  NextClosed(h, IF (IF x = head THEN n \in S ELSE p \in S)
                           THEN S \cup {x} ELSE S \ {x})
  <2> DEFINE T == IF (IF x = head THEN n \in S ELSE p \in S)
                  THEN S \cup {x} ELSE S \ {x}
  <2>1. ASSUME NEW w \in T, h.next[w] # Null PROVE h.next[w] \in T
    <3>1. CASE w = x
      BY <1>2, <1>4, <1>5, <1>9, <2>1, <3>1 DEF NextClosed
    <3>2. CASE w # x /\ x # head /\ w = p
      BY <1>2, <2>1, <3>2
    <3>3. CASE w # x /\ ~ (x # head /\ w = p)
      <4>1. g.next[w] = h.next[w] /\ h.next[w] # x /\ w \in S
        BY <1>2, <1>4, <2>1, <3>3
      <4> QED BY <1>9, <2>1, <4>1 DEF NextClosed
    <3> QED BY <3>1, <3>2, <3>3
  <2> QED BY <2>1 DEF NextClosed
<1>10. ASSUME NEW z \in Items, g.home[z] # Null
       PROVE  /\ g.home[z] \in g.live \ g.refs
              /\ z \in Listed(g, g.home[z])
              /\ g.next[z] = Null => g.prev[g.child[g.home[z]]] = z
  <2> DEFINE d == h.home[z]
  <2>1. /\ z # x /\ g.home[z] = d
        /\ d \in h.live \ h.refs /\ d \in Items \ h.refs
        /\ z \in Listed(h, d)
        /\ h.next[z] = Null => h.prev[h.child[d]] = z
    BY <1>1, <1>4, <1>10 DEF ListInv, Pointers
  <2>d. h.home[z] = d
    OBVIOUS
  <2> HIDE DEF d
  <2>2. /\ h.child[d] # Null /\ h.child[d] \in Items
        /\ d # c => h.child[d] \notin {x, n, head}
    BY <1>1, <1>2, <2>1 DEF Listed, Forest, Pointers
  <2>3. ASSUME d = c, x = head PROVE n # Null
    <3>1. SUFFICES ASSUME n = Null PROVE FALSE
      OBVIOUS
    <3>2. NextClosed(h, {x})
      BY <1>5, <3>1 DEF NextClosed
    <3> QED BY <1>1, <1>2, <1>5, <2>1, <2>3, <3>2, ListedFrom
  <2>4. g.child[d] # Null
    BY <1>2, <1>4, <2>1, <2>2, <2>3
  <2>5. ASSUME NEW S \in SUBSET Items, g.child[d] \in S, NextClosed(g, S)
        PROVE  z \in S
    <3> DEFINE T == IF (IF x = head THEN n \in S ELSE p \in S)
                    THEN S \cup {x} ELSE S \ {x}
    <3>1. NextClosed(h, T) /\ T \in SUBSET Items
      BY <1>2, <1>9, <2>5
    <3>2. h.child[d] \in T
      BY <1>2, <1>4, <1>5, <2>1, <2>2, <2>3, <2>5
    <3> HIDE DEF T
    <3>3. z \in T
      BY <1>1, <2>1, <3>1, <3>2, ListedFrom
    <3> QED BY <2>1, <3>3 DEF T
  <2>6. z \in Listed(g, d)
    BY <1>3, <1>4, <2>1, <2>4, <2>5, ListedFrom
  <2>7. ASSUME g.next[z] = Null PROVE g.prev[g.child[d]] = z
    <3>1. CASE d # c
      <4>1. z # p
        BY <1>2, <2>d, <3>1
      <4>2. h.next[z] = Null
        BY <1>4, <2>1, <2>7, <4>1
      <4> QED BY <1>4, <2>1, <2>2, <3>1, <4>2
    <3>2. CASE d = c /\ x = head
      <4>1. h.next[z] = Null /\ h.prev[head] = z
        BY <1>4, <1>5, <2>1, <2>7, <3>2
      <4>2. z = p /\ n # Null
        BY <1>5, <2>3, <3>2, <4>1
      <4> QED BY <1>4, <3>2, <4>2
    <3>3. CASE d = c /\ x # head
      <4>1. CASE z = p
        BY <1>4, <1>5, <2>7, <3>3, <4>1
      <4>2. CASE z # p
        <5>1. h.next[z] = Null /\ h.prev[head] = z
          BY <1>4, <1>5, <2>1, <2>7, <3>3, <4>2
        <5>2. n # Null
          BY <1>2, <1>5, <2>1, <5>1
        <5> QED BY <1>4, <1>5, <3>3, <5>1, <5>2
      <4> QED BY <4>1, <4>2
    <3> QED BY <3>1, <3>2, <3>3
  <2> QED BY <1>4, <2>1, <2>6, <2>7
<1>11. ListInv(g)
  BY <1>4, <1>6, <1>7, <1>8, <1>10 DEF ListInv
<1> QED BY <1>11 DEF g

\* The list is opened for what is put in.
LEMMA ListsInsert ==
  ASSUME NEW h, NEW R, ListsHold(h, R), NEW c \in h.live \ h.refs,
         NEW y \in Listed(h, c), NEW x \in R
  PROVE  ListInv(InsertBefore(h, c, y, x))
<1> DEFINE g == InsertBefore(h, c, y, x)
           head == h.child[c]
           p == h.prev[y]
<1>1. /\ Forest(h, R) /\ ListInv(h) /\ StringTypes(h)
      /\ h.home \in [Items -> Pointers] /\ Null \notin Items
  BY CellsAssumption DEF ListsHold, ListInv
<1>2. /\ c \in Items \ h.refs /\ c # Null /\ y \in Items
      /\ h.home[y] = c /\ head \in Items /\ head # Null /\ h.home[head] = c
      /\ p \in Items /\ h.home[p] = c
      /\ y # head => p # y /\ h.next[p] = y
      /\ y = head => h.next[p] = Null
      /\ \A z \in Items :
           /\ h.next[z] = y => y # head /\ z = p
           /\ z \notin h.refs =>
                /\ h.child[z] = y => z = c /\ y = head
                /\ h.child[z] = head => z = c
      /\ \A z \in Items : h.home[z] = c /\ h.next[z] = Null => h.prev[head] = z
  BY PlaceIs
<1>3. Forest(g, R \ {x})
  BY <1>1, ForestInsert
<1>4. /\ g.live = h.live /\ g.refs = h.refs
      /\ x \in Items /\ h.home[x] = Null /\ h.next[x] = Null
      /\ x # y /\ x # head /\ x # p
      /\ \A z \in Items : h.next[z] # x /\ (z \notin h.refs => h.child[z] # x)
      /\ g.home[x] = c /\ \A z \in Items \ {x} : g.home[z] = h.home[z]
      /\ g.home \in [Items -> Pointers]
      /\ g.next[x] = y /\ g.prev[x] = p /\ g.prev[y] = x
      /\ \A z \in Items \ {x, y} : g.prev[z] = h.prev[z]
      /\ y = head => /\ \A z \in Items \ {x} : g.next[z] = h.next[z]
                     /\ g.child[c] = x
                     /\ \A z \in Items \ {c} : g.child[z] = h.child[z]
      /\ y # head => /\ g.next[p] = x
                     /\ \A z \in Items \ {x, p} : g.next[z] = h.next[z]
                     /\ g.child = h.child
  BY InsertGoes
<1>5. h.child[c] = head /\ h.prev[y] = p
  OBVIOUS
<1> HIDE DEF g, head, p
<1>6. ASSUME NEW d \in Items \ g.refs PROVE EndsWell(g, d)
  <2>1. EndsWell(h, d) /\ h.child[d] \in Pointers
    BY <1>1, <1>4 DEF ListInv, Forest
  <2>2. CASE d # c /\ h.child[d] # Null
    <3>1. /\ h.child[d] \in Items /\ h.home[h.child[d]] = d
          /\ h.prev[h.child[d]] \in Items /\ h.home[h.prev[h.child[d]]] = d
          /\ h.next[h.prev[h.child[d]]] = Null
      BY <2>1, <2>2 DEF EndsWell, Pointers
    <3>2. h.child[d] \notin {x, y} /\ h.prev[h.child[d]] \notin {x, p}
      BY <1>1, <1>2, <1>4, <2>2, <3>1
    <3> QED BY <1>2, <1>4, <2>2, <3>1, <3>2 DEF EndsWell
  <2>3. CASE d # c /\ h.child[d] = Null
    BY <1>4, <2>3 DEF EndsWell
  <2>4. CASE d = c /\ y = head
    BY <1>2, <1>4, <2>4 DEF EndsWell
  <2>5. CASE d = c /\ y # head
    <3>1. /\ h.prev[head] \in Items /\ h.home[h.prev[head]] = c
          /\ h.next[h.prev[head]] = Null
      BY <1>2, <1>5, <2>1, <2>5 DEF EndsWell
    <3>2. h.prev[head] \notin {x, p}
      BY <1>1, <1>2, <1>4, <2>5, <3>1
    <3> QED BY <1>2, <1>4, <1>5, <2>5, <3>1, <3>2 DEF EndsWell
  <2> QED BY <2>2, <2>3, <2>4, <2>5
<1>7. ASSUME NEW z \in Items, g.next[z] # Null
      PROVE  g.home[g.next[z]] = g.home[z]
  <2>1. CASE z = x
    BY <1>2, <1>4, <2>1
  <2>2. CASE z # x /\ y # head /\ z = p
    BY <1>2, <1>4, <2>2
  <2>3. CASE z # x /\ ~ (y # head /\ z = p)
    <3>1. g.next[z] = h.next[z] /\ h.next[z] # x
      BY <1>4, <2>3
    <3>2. h.next[z] \in Items /\ h.home[h.next[z]] = h.home[z]
      BY <1>1, <1>7, <3>1 DEF ListInv, Forest, Pointers
    <3> QED BY <1>4, <2>3, <3>1, <3>2
  <2> QED BY <2>1, <2>2, <2>3
<1>8. ASSUME NEW z \in Items, g.home[z] = Null
      PROVE  g.next[z] = Null /\ g.prev[z] = Null
  <2>1. /\ z # x /\ h.home[z] = Null /\ h.next[z] = Null /\ h.prev[z] = Null
    BY <1>1, <1>2, <1>4, <1>8 DEF ListInv
  <2>2. z \notin {y, p}
    BY <1>2, <2>1
  <2> QED BY <1>4, <2>1, <2>2
<1>9. ASSUME NEW S \in SUBSET Items, NextClosed(g, S)
      PROVE  NextClosed(h, S)
  <2>1. ASSUME NEW w \in S, h.next[w] # Null PROVE h.next[w] \in S
    <3>1. CASE y # head /\ w = p
      <4>1. x \in S
        BY <1>1, <1>4, <1>9, <3>1 DEF NextClosed
      <4>2. y \in S
        BY <1>1, <1>2, <1>4, <1>9, <4>1 DEF NextClosed
      <4> QED BY <1>2, <3>1, <4>2
    <3>2. CASE ~ (y # head /\ w = p)
      BY <1>4, <1>9, <2>1, <3>2 DEF NextClosed
    <3> QED BY <3>1, <3>2
  <2> QED BY <2>1 DEF NextClosed
<1>10. ASSUME NEW z \in Items, g.home[z] # Null
       PROVE  /\ g.home[z] \in g.live \ g.refs
              /\ z \in Listed(g, g.home[z])
              /\ g.next[z] = Null => g.prev[g.child[g.home[z]]] = z
  <2> DEFINE d == g.home[z]
  <2>1. /\ d \in h.live \ h.refs /\ d \in Items \ h.refs
        /\ d = IF z = x THEN c ELSE h.home[z]
    BY <1>1, <1>2, <1>4, <1>10 DEF ListInv, Pointers
  <2>2. d # Null
    BY <1>10
  <2> HIDE DEF d
  <2>3. /\ h.child[d] # Null /\ h.child[d] \in Items
        /\ d # c => h.child[d] \notin {x, y, head}
        /\ z # x => z \in Listed(h, d)
    <3>1. z # x => z \in Listed(h, d)
      BY <1>1, <2>1, <2>2 DEF ListInv
    <3>2. h.child[d] # Null
      BY <1>2, <1>5, <2>1, <3>1 DEF Listed
    <3> QED BY <1>1, <1>2, <1>4, <2>1, <3>1, <3>2 DEF Forest, Pointers
  <2>4. g.child[d] # Null
    BY <1>1, <1>4, <2>1, <2>3
  <2>5. ASSUME NEW S \in SUBSET Items, g.child[d] \in S, NextClosed(g, S)
        PROVE  z \in S
    <3>1. NextClosed(h, S)
      BY <1>9, <2>5
    <3>2. h.child[d] \in S
      <4>1. CASE d = c /\ y = head
        <5>1. x \in S
          BY <1>4, <2>5, <4>1
        <5>2. y \in S
          BY <1>1, <1>2, <1>4, <2>5, <5>1 DEF NextClosed
        <5> QED BY <1>5, <4>1, <5>2
      <4>2. CASE ~ (d = c /\ y = head)
        BY <1>4, <2>1, <2>5, <4>2
      <4> QED BY <4>1, <4>2
    <3>3. CASE z # x
      BY <1>1, <2>1, <2>3, <3>1, <3>2, <3>3, ListedFrom
    <3>4. CASE z = x /\ y = head
      BY <1>4, <2>1, <2>5, <3>4
    <3>5. CASE z = x /\ y # head
      <4>1. p \in Listed(h, c)
        BY <1>1, <1>2 DEF ListInv
      <4>2. p \in S
        BY <1>1, <1>2, <2>1, <3>1, <3>2, <3>5, <4>1, ListedFrom
      <4> QED BY <1>1, <1>4, <2>5, <3>5, <4>2 DEF NextClosed
    <3> QED BY <3>3, <3>4, <3>5
  <2>6. z \in Listed(g, d)
    BY <1>3, <1>4, <2>1, <2>4, <2>5, ListedFrom
  <2>7. ASSUME g.next[z] = Null PROVE g.prev[g.child[d]] = z
    <3>1. z # x /\ ~ (y # head /\ z = p)
      BY <1>1, <1>2, <1>4, <2>7
    <3>2. h.next[z] = Null /\ h.prev[h.child[d]] = z
      <4>1. h.next[z] = Null
        BY <1>4, <2>7, <3>1
      <4> QED BY <1>1, <2>1, <2>2, <3>1, <4>1 DEF ListInv
    <3>3. CASE d # c
      BY <1>4, <2>1, <2>3, <3>2, <3>3
    <3>4. CASE d = c /\ y = head
      BY <1>4, <1>5, <3>2, <3>4
    <3>5. CASE d = c /\ y # head
      BY <1>2, <1>4, <1>5, <3>2, <3>5
    <3> QED BY <3>3, <3>4, <3>5
  <2>8. d \in g.live \ g.refs
    BY <1>4, <2>1
  <2> QED BY <2>6, <2>7, <2>8 DEF d
<1>11. ListInv(g)
  BY <1>4, <1>6, <1>7, <1>8, <1>10 DEF ListInv
<1> QED BY <1>11 DEF g

\* What is put in takes the place of what is taken out.
LEMMA ListsSwap ==
  ASSUME NEW h, NEW R, ListsHold(h, R), NEW c \in h.live \ h.refs,
         NEW y \in Listed(h, c), NEW x \in R
  PROVE  ListInv(Swapped(h, c, y, x))
<1> DEFINE g == Swapped(h, c, y, x)
           head == h.child[c]
           n == h.next[y]
           p == h.prev[y]
<1>1. /\ Forest(h, R) /\ ListInv(h) /\ StringTypes(h)
      /\ h.home \in [Items -> Pointers] /\ Null \notin Items
  BY CellsAssumption DEF ListsHold, ListInv
<1>2. /\ c \in Items \ h.refs /\ c # Null /\ y \in Items
      /\ h.home[y] = c /\ head \in Items /\ head # Null /\ h.home[head] = c
      /\ n # head /\ n # y
      /\ n # Null => n \in Items /\ h.home[n] = c
      /\ p \in Items /\ h.home[p] = c
      /\ y # head => p # y /\ h.next[p] = y
      /\ y = head => h.next[p] = Null
      /\ \A z \in Items :
           /\ h.next[z] = y => y # head /\ z = p
           /\ z \notin h.refs =>
                /\ h.child[z] = y => z = c /\ y = head
                /\ h.child[z] # n \/ n = Null
                /\ h.child[z] = head => z = c
      /\ \A z \in Items : h.home[z] = c /\ h.next[z] = Null => h.prev[head] = z
  BY PlaceIs
<1>3. Forest(g, (R \ {x}) \cup {y})
  BY <1>1, ForestSwap
<1>4. /\ g.live = h.live /\ g.refs = h.refs
      /\ x \in Items /\ h.home[x] = Null /\ h.next[x] = Null
      /\ x # y /\ x # head /\ x # p /\ x # n
      /\ \A z \in Items : h.next[z] # x /\ (z \notin h.refs => h.child[z] # x)
      /\ g.home[x] = c /\ g.home[y] = Null
      /\ \A z \in Items \ {x, y} : g.home[z] = h.home[z]
      /\ g.home \in [Items -> Pointers]
      /\ g.next[x] = n /\ g.next[y] = Null /\ g.prev[y] = Null
      /\ n # Null => g.prev[n] = x
      /\ y = head =>
           /\ \A z \in Items \ {x, y} : g.next[z] = h.next[z]
           /\ g.prev[x] = IF p = y THEN x ELSE p
           /\ \A z \in Items \ {x, y, n} : g.prev[z] = h.prev[z]
           /\ g.child[c] = x
           /\ \A z \in Items \ {c} : g.child[z] = h.child[z]
      /\ y # head =>
           /\ g.next[p] = x
           /\ \A z \in Items \ {x, y, p} : g.next[z] = h.next[z]
           /\ g.prev[x] = p
           /\ n = Null => g.prev[head] = x
           /\ n # Null => g.prev[head] = h.prev[head]
           /\ \A z \in Items \ {x, y, n, head} : g.prev[z] = h.prev[z]
           /\ g.child = h.child
  BY SwapGoes
<1>5. h.child[c] = head /\ h.next[y] = n /\ h.prev[y] = p
  OBVIOUS
<1> HIDE DEF g, head, n, p
<1>6. ASSUME NEW d \in Items \ g.refs PROVE EndsWell(g, d)
  <2>1. EndsWell(h, d) /\ h.child[d] \in Pointers
    BY <1>1, <1>4 DEF ListInv, Forest
  <2>2. CASE d # c /\ h.child[d] # Null
    <3>1. /\ h.child[d] \in Items /\ h.home[h.child[d]] = d
          /\ h.prev[h.child[d]] \in Items /\ h.home[h.prev[h.child[d]]] = d
          /\ h.next[h.prev[h.child[d]]] = Null
      BY <2>1, <2>2 DEF EndsWell, Pointers
    <3>2. /\ h.child[d] \notin {x, y, n, head}
          /\ h.prev[h.child[d]] \notin {x, y, p}
      BY <1>1, <1>2, <1>4, <2>2, <3>1
    <3> QED BY <1>2, <1>4, <2>2, <3>1, <3>2 DEF EndsWell
  <2>3. CASE d # c /\ h.child[d] = Null
    BY <1>4, <2>3 DEF EndsWell
  <2>4. CASE d = c /\ y = head
    <3>1. CASE p = y
      BY <1>2, <1>4, <1>5, <2>4, <3>1 DEF EndsWell
    <3>2. CASE p # y
      BY <1>2, <1>4, <2>4, <3>2 DEF EndsWell
    <3> QED BY <3>1, <3>2
  <2>5. CASE d = c /\ y # head
    <3>1. CASE n = Null
      BY <1>2, <1>4, <1>5, <2>5, <3>1 DEF EndsWell
    <3>2. CASE n # Null
      <4>1. /\ h.prev[head] \in Items /\ h.home[h.prev[head]] = c
            /\ h.next[h.prev[head]] = Null
        BY <1>2, <1>5, <2>1, <2>5 DEF EndsWell
      <4>2. h.prev[head] \notin {x, y, p}
        BY <1>1, <1>2, <1>4, <1>5, <2>5, <3>2, <4>1
      <4> QED BY <1>2, <1>4, <1>5, <2>5, <3>2, <4>1, <4>2 DEF EndsWell
    <3> QED BY <3>1, <3>2
  <2> QED BY <2>2, <2>3, <2>4, <2>5
<1>7. ASSUME NEW z \in Items, g.next[z] # Null
      PROVE  g.home[g.next[z]] = g.home[z]
  <2>1. CASE z = x
    BY <1>2, <1>4, <1>7, <2>1
  <2>2. CASE z # x /\ y # head /\ z = p
    BY <1>2, <1>4, <2>2
  <2>3. CASE z # x /\ ~ (y # head /\ z = p)
    <3>1. z # y /\ g.next[z] = h.next[z] /\ h.next[z] \notin {x, y}
      BY <1>2, <1>4, <1>7, <2>3
    <3>2. h.next[z] \in Items /\ h.home[h.next[z]] = h.home[z]
      BY <1>1, <1>7, <3>1 DEF ListInv, Forest, Pointers
    <3> QED BY <1>4, <2>3, <3>1, <3>2
  <2> QED BY <2>1, <2>2, <2>3
<1>8. ASSUME NEW z \in Items, g.home[z] = Null
      PROVE  g.next[z] = Null /\ g.prev[z] = Null
  <2>1. CASE z = y
    BY <1>4, <2>1
  <2>2. CASE z # y
    <3>1. z # x /\ h.home[z] = Null /\ h.next[z] = Null /\ h.prev[z] = Null
      BY <1>1, <1>2, <1>4, <1>8, <2>2 DEF ListInv
    <3>2. z \notin {n, p, head}
      BY <1>1, <1>2, <3>1
    <3> QED BY <1>4, <2>2, <3>1, <3>2
  <2> QED BY <2>1, <2>2
<1>9. ASSUME NEW S \in SUBSET Items, NextClosed(g, S)
      PROVE  NextClosed(h, IF x \in S THEN S \cup {y} ELSE S \ {y})
  <2> DEFINE T == IF x \in S THEN S \cup {y} ELSE S \ {y}
  <2>1. ASSUME NEW w \in T, h.next[w] # Null PROVE h.next[w] \in T
    <3>1. CASE w = y
      BY <1>4, <1>5, <1>9, <2>1, <3>1 DEF NextClosed
    <3>2. CASE w = x
      BY <1>4, <2>1, <3>2
    <3>3. CASE w \notin {x, y} /\ y # head /\ w = p
      <4>1. x \in S
        BY <1>1, <1>4, <1>9, <2>1, <3>3 DEF NextClosed
      <4> QED BY <1>2, <3>3, <4>1
    <3>4. CASE w \notin {x, y} /\ ~ (y # head /\ w = p)
      <4>1. w \in S /\ w \in Items
        BY <3>4
      <4>2. g.next[w] = h.next[w] /\ h.next[w] # y
        BY <1>2, <1>4, <3>4, <4>1
      <4> QED BY <1>9, <2>1, <4>1, <4>2 DEF NextClosed
    <3> QED BY <3>1, <3>2, <3>3, <3>4
  <2> QED BY <2>1 DEF NextClosed
<1>10. ASSUME NEW z \in Items, g.home[z] # Null
       PROVE  /\ g.home[z] \in g.live \ g.refs
              /\ z \in Listed(g, g.home[z])
              /\ g.next[z] = Null => g.prev[g.child[g.home[z]]] = z
  <2> DEFINE d == g.home[z]
  <2>1. /\ z # y /\ d \in h.live \ h.refs /\ d \in Items \ h.refs
        /\ d = IF z = x THEN c ELSE h.home[z]
    BY <1>1, <1>2, <1>4, <1>10 DEF ListInv, Pointers
  <2>2. d # Null
    BY <1>10
  <2> HIDE DEF d
  <2>3. /\ h.child[d] # Null /\ h.child[d] \in Items
        /\ d # c => h.child[d] \notin {x, y, n, head}
        /\ z # x => z \in Listed(h, d)
    <3>1. z # x => z \in Listed(h, d)
      BY <1>1, <2>1, <2>2 DEF ListInv
    <3>2. h.child[d] # Null
      BY <1>2, <1>5, <2>1, <3>1 DEF Listed
    <3> QED BY <1>1, <1>2, <1>4, <2>1, <3>1, <3>2 DEF Forest, Pointers
  <2>4. g.child[d] # Null
    BY <1>1, <1>4, <2>1, <2>3
  <2>5. ASSUME NEW S \in SUBSET Items, g.child[d] \in S, NextClosed(g, S)
        PROVE  z \in S
    <3> DEFINE T == IF x \in S THEN S \cup {y} ELSE S \ {y}
    <3>1. NextClosed(h, T) /\ T \in SUBSET Items
      BY <1>2, <1>9, <2>5
    <3>2. h.child[d] \in T
      BY <1>2, <1>4, <1>5, <2>1, <2>3, <2>5
    <3>d. \A w \in Items \ {y} : w \in T <=> w \in S
      OBVIOUS
    <3> HIDE DEF T
    <3>3. CASE z # x
      BY <1>1, <2>1, <2>3, <3>1, <3>2, <3>3, <3>d, ListedFrom
    <3>4. CASE z = x /\ y = head
      BY <1>4, <2>1, <2>5, <3>4
    <3>5. CASE z = x /\ y # head
      <4>1. p \in Listed(h, c)
        BY <1>1, <1>2 DEF ListInv
      <4>2. p \in T
        BY <1>1, <1>2, <2>1, <3>1, <3>2, <3>5, <4>1, ListedFrom
      <4>3. p \in S
        BY <1>2, <3>5, <3>d, <4>2
      <4> QED BY <1>1, <1>4, <2>5, <3>5, <4>3 DEF NextClosed
    <3> QED BY <3>3, <3>4, <3>5
  <2>6. z \in Listed(g, d)
    BY <1>3, <1>4, <2>1, <2>4, <2>5, ListedFrom
  <2>7. ASSUME g.next[z] = Null PROVE g.prev[g.child[d]] = z
    <3>1. ASSUME z # x
          PROVE  ~ (y # head /\ z = p) /\ h.next[z] = Null
                 /\ h.prev[h.child[d]] = z
      <4>1. ~ (y # head /\ z = p)
        BY <1>1, <1>4, <2>7
      <4>2. h.next[z] = Null
        BY <1>4, <2>1, <2>7, <3>1, <4>1
      <4> QED BY <1>1, <2>1, <2>2, <3>1, <4>1, <4>2 DEF ListInv
    <3>2. CASE d # c
      BY <1>4, <2>1, <2>3, <3>1, <3>2
    <3>3. CASE d = c /\ y = head /\ z # x
      BY <1>4, <1>5, <2>1, <3>1, <3>3
    <3>4. CASE d = c /\ y = head /\ z = x
      <4>1. n = Null
        BY <1>4, <2>7, <3>4
      <4>2. p = y
        BY <1>2, <1>5, <3>4, <4>1
      <4> QED BY <1>4, <3>4, <4>2
    <3>5. CASE d = c /\ y # head /\ z # x
      <4>1. n # Null
        BY <1>2, <1>5, <2>1, <3>1, <3>5
      <4> QED BY <1>4, <1>5, <3>1, <3>5, <4>1
    <3>6. CASE d = c /\ y # head /\ z = x
      BY <1>4, <1>5, <2>7, <3>6
    <3> QED BY <2>1, <3>2, <3>3, <3>4, <3>5, <3>6
  <2>8. d \in g.live \ g.refs
    BY <1>4, <2>1
  <2> QED BY <2>6, <2>7, <2>8 DEF d
<1>11. ListInv(g)
  BY <1>4, <1>6, <1>7, <1>8, <1>10 DEF ListInv
<1> QED BY <1>11 DEF g

-----------------------------------------------------------------------------
(* What was reached still is.                                               *)

LEMMA ReachedMore ==
  ASSUME NEW h, NEW g, NEW R, ListsHold(h, R), Reached(h, R),
         NEW x \in Items \ h.live,
         g.live = h.live \cup {x}, g.refs \in {h.refs, h.refs \cup {x}},
         g.next = h.next, \A z \in Items \ {x} : g.child[z] = h.child[z]
  PROVE  Reached(g, R \cup {x})
<1>1. h.child[x] = Null /\ h.next[x] = Null
  BY FreeAlone
<1>2. \A z \in Items : Led(h, z) \subseteq Led(g, z)
  BY <1>1 DEF Led
<1>3. ASSUME NEW S \in SUBSET Items, R \cup {x} \subseteq S, Owned(g, S)
      PROVE  g.live \subseteq S
  <2>1. \A z \in S : Led(h, z) \subseteq S
    BY <1>2, <1>3, OwnedLed
  <2>2. Owned(h, S)
    BY <2>1, OwnedLed
  <2> QED BY <1>3, <2>2 DEF Reached
<1> QED BY <1>3 DEF Reached

LEMMA ReachedSame ==
  ASSUME NEW h, NEW g, NEW R, Reached(h, R), g.live = h.live,
         g.refs = h.refs, g.next = h.next, g.child = h.child
  PROVE  Reached(g, R)
BY DEF Reached, Owned, NextClosed

LEMMA ReachedDelete ==
  ASSUME NEW h, NEW R, ListsHold(h, R), Reached(h, R), NEW x \in R
  PROVE  Reached(DeleteItems(h, x), R \ {x})
<1> DEFINE D == Visited(h, {x})
           g == DeleteItems(h, x)
           blank(f) == [z \in Items |-> IF z \in D THEN Null ELSE f[z]]
<1>1. /\ Forest(h, R) /\ h.live \subseteq Items /\ x \in Items /\ Shaped(h)
  BY DEF ListsHold, StringTypes, Forest
<1>2. /\ g.live = h.live \ D /\ g.refs = h.refs \ D
      /\ g.next = blank(h.next) /\ g.child = blank(h.child)
  BY <1>1 DEF Shaped, Fields, DeleteItems, Free
<1>3. x \in D /\ D \subseteq Items /\ Owned(h, D)
  BY <1>1, VisitedIs
<1>4. \A z \in Items \ D : Led(g, z) = Led(h, z)
  BY <1>2 DEF Led
<1> HIDE DEF D, g
<1>5. ASSUME NEW S \in SUBSET Items, R \ {x} \subseteq S, Owned(g, S)
      PROVE  g.live \subseteq S
  <2>1. \A z \in S \cup D : Led(h, z) \subseteq S \cup D
    <3>1. \A z \in D : Led(h, z) \subseteq D
      BY <1>3, OwnedLed
    <3>2. \A z \in S : Led(g, z) \subseteq S
      BY <1>5, OwnedLed
    <3> QED BY <1>4, <3>1, <3>2
  <2>2. Owned(h, S \cup D)
    BY <2>1, OwnedLed
  <2>3. h.live \subseteq S \cup D
    BY <1>3, <1>5, <2>2 DEF Reached
  <2> QED BY <1>2, <2>3
<1> QED BY <1>5 DEF Reached, g

LEMMA ReachedAddLast ==
  ASSUME NEW h, NEW R, ListsHold(h, R), Reached(h, R),
         NEW a \in h.live \ h.refs, NEW x \in R, a \notin Visited(h, {x})
  PROVE  Reached(AddLast(h, a, x), R \ {x})
<1> DEFINE g == AddLast(h, a, x)
           head == h.child[a]
           t == h.prev[head]
           B == Visited(h, {x})
           p == IF head = Null THEN a ELSE t
<1>1. /\ Forest(h, R) /\ ListInv(h) /\ h.live \subseteq Items
      /\ h.refs \subseteq h.live /\ x \in Items /\ x # Null
      /\ a \in Items /\ a # Null
  BY CellsAssumption DEF ListsHold, StringTypes, Forest
<1>2. x \in B /\ B \subseteq Items /\ Owned(h, B) /\ a # x
  BY <1>1, VisitedIs
<1>3. /\ g.live = h.live /\ g.refs = h.refs
      /\ head = Null =>
           /\ g.next = h.next /\ g.child[a] = x
           /\ \A z \in Items \ {a} : g.child[z] = h.child[z]
      /\ head # Null =>
           /\ t \in Items \ {x} /\ h.home[t] = a /\ h.next[t] = Null
           /\ g.next[t] = x /\ \A z \in Items \ {t} : g.next[z] = h.next[z]
           /\ g.child = h.child
  BY <1>2, AddLastGoes
<1>4. ASSUME head # Null PROVE t \in h.live /\ t \notin B
  <2>1. t \in Items /\ h.home[t] = a /\ a # Null
    BY <1>1, <1>3, <1>4
  <2>2. t \in B <=> a \in B
    BY <2>1, Whole
  <2> QED BY <2>1, <2>2, FreeAlone
<1>5. h.child[a] = head
  OBVIOUS
<1> HIDE DEF g, head, t, B
<1>6. p \in h.live /\ p \notin B
  BY <1>4 DEF B
<1>7. \A z \in Items : Led(h, z) \subseteq Led(g, z)
  BY <1>3, <1>5 DEF Led
<1>8. x \in Led(g, p)
  BY <1>1, <1>3, <1>5 DEF Led
<1>9. ASSUME NEW S \in SUBSET Items, R \ {x} \subseteq S, p \in S, Owned(g, S)
      PROVE  {x} \subseteq S
  BY <1>8, <1>9, OwnedLed
<1> HIDE DEF p
<1>10. Reached(g, R \ {x})
  <2>1. /\ {x} \subseteq B /\ R \subseteq (R \ {x}) \cup {x}
        /\ \A z \in Items : Led(h, z) \subseteq Led(g, z) \cup {x}
    BY <1>2, <1>7
  <2>2. Move(h, g, R, R \ {x}, {x}, B, p)
    BY <1>2, <1>3, <1>6, <1>9, <2>1 DEF Move
  <2> QED BY <2>2, Moved
<1> QED BY <1>10 DEF g

\* What leads to an item of a list is its owner or the item before.
LEMMA PlaceLeads ==
  ASSUME NEW h, NEW R, ListsHold(h, R), Reached(h, R),
         NEW c \in h.live \ h.refs, NEW y \in Listed(h, c)
  PROVE  LET p == IF y = h.child[c] THEN c ELSE h.prev[y]
         IN p \in h.live /\ p \in Items /\ y \in Led(h, p)
              /\ p \notin Visited(h, {y})
<1> DEFINE p == IF y = h.child[c] THEN c ELSE h.prev[y]
<1>1. /\ Forest(h, R) /\ h.live \subseteq Items /\ Null \notin Items
      /\ c \in Items /\ c # Null
      /\ y \in Items /\ h.prev[y] \in Items /\ h.home[h.prev[y]] = c
      /\ y # h.child[c] => h.next[h.prev[y]] = y
  BY PlaceIs, CellsAssumption DEF ListsHold, StringTypes
<1>2. p \in h.live /\ p \in Items
  BY <1>1, FreeAlone
<1>3. y \in Led(h, p)
  BY <1>1 DEF Led
<1> HIDE DEF p
<1>4. p \notin Visited(h, {y})
  BY <1>1, <1>2, <1>3, Acyclic
<1> QED BY <1>2, <1>3, <1>4 DEF p

LEMMA ReachedDetach ==
  ASSUME NEW h, NEW R, ListsHold(h, R), Reached(h, R),
         NEW c \in h.live \ h.refs, NEW x \in Listed(h, c)
  PROVE  /\ Reached(Detach(h, c, x), R \cup {x})
         /\ Visited(Detach(h, c, x), {x}) = Subtree(h, x)
<1> DEFINE g == Detach(h, c, x)
           head == h.child[c]
           n == h.next[x]
           p == IF x = head THEN c ELSE h.prev[x]
           B == Visited(h, {x})
           W == {x, n} \ {Null}
<1>1. /\ Forest(h, R) /\ h.live \subseteq Items /\ Null \notin Items
      /\ c \in Items \ h.refs /\ x \in Items
      /\ x # head => h.prev[x] # x
      /\ n # x /\ n # Null => n \in Items
      /\ StringTypes(h)
  BY PlaceIs, CellsAssumption DEF ListsHold, StringTypes
<1>2. p \in h.live /\ p \in Items /\ x \in Led(h, p) /\ p \notin B
  BY PlaceLeads
<1>3. /\ g.live = h.live /\ g.refs = h.refs
      /\ g.next[x] = Null
      /\ x = head =>
           /\ \A z \in Items \ {x} : g.next[z] = h.next[z]
           /\ g.child[c] = n
           /\ \A z \in Items \ {c} : g.child[z] = h.child[z]
      /\ x # head =>
           /\ g.next[h.prev[x]] = n
           /\ \A z \in Items \ {x, h.prev[x]} : g.next[z] = h.next[z]
           /\ g.child = h.child
  BY DetachGoes
<1>4. x \in B /\ B \subseteq Items /\ Owned(h, B)
  BY <1>1, VisitedIs
<1>5. h.child[c] = head /\ h.next[x] = n
  OBVIOUS
<1> HIDE DEF g, head, n, B
<1>6. W \subseteq B
  <2>1. n # Null => n \in Led(h, x)
    BY <1>5 DEF Led
  <2> QED BY <1>4, <2>1, OwnedLed
<1>7. /\ Led(g, p) = (Led(h, p) \ {x}) \cup ({n} \ {Null})
      /\ \A z \in Items \ {x, p} : Led(g, z) = Led(h, z)
      /\ Led(h, x) \subseteq Led(g, x) \cup W
  <2>a. p # x
    BY <1>2, <1>4
  <2>1. CASE x = head
    <3>1. p = c /\ c # x
      BY <2>1, <2>a
    <3>2. h.next[c] # x
      BY <1>1, <1>5, <2>1 DEF Forest
    <3> QED BY <1>1, <1>3, <1>5, <2>1, <3>1, <3>2 DEF Led
  <2>2. CASE x # head
    <3>1. p = h.prev[x]
      BY <2>2
    <3>2. h.next[p] = x
      BY <2>2, PlaceIs DEF head
    <3>3. p \notin h.refs => h.child[p] # x
      BY <1>1, <1>2, <3>2 DEF Forest
    <3> HIDE DEF p
    <3> QED BY <1>1, <1>2, <1>3, <1>5, <2>2, <2>a, <3>1, <3>2, <3>3 DEF Led
  <2> QED BY <2>1, <2>2
<1>8. ASSUME NEW S \in SUBSET Items, R \cup {x} \subseteq S, p \in S,
             Owned(g, S)
      PROVE  W \subseteq S
  BY <1>7, <1>8, OwnedLed
<1>9. Reached(g, R \cup {x})
  <2>1. /\ R \subseteq (R \cup {x}) \cup W
        /\ \A z \in Items : Led(h, z) \subseteq Led(g, z) \cup W
    BY <1>1, <1>7
  <2> HIDE DEF W, p
  <2>2. Move(h, g, R, R \cup {x}, W, B, p)
    BY <1>2, <1>3, <1>4, <1>6, <1>8, <2>1 DEF Move
  <2> QED BY <2>2, Moved
<1>10. Visited(g, {x}) = Subtree(h, x)
  <2>1. Forest(g, R \cup {x})
    BY <1>1, ForestDetach DEF g
  <2>2. x \notin h.refs => g.child[x] = h.child[x]
    BY <1>1, <1>2, <1>3, <1>4
  <2>3. ASSUME NEW z \in Subtree(h, x) \ {x} PROVE Led(g, z) = Led(h, z)
    <3>1. z \in Visited(h, {h.child[x]}) /\ x \notin h.refs /\ h.child[x] # Null
      BY <2>3 DEF Subtree
    <3>2. h.child[x] \in Led(h, x) /\ h.child[x] \in Items
      BY <1>1, <3>1 DEF Led, Forest, Pointers
    <3>3. h.child[x] \in B
      BY <1>4, <3>2, OwnedLed
    <3>4. z \in B /\ z \in Items
      BY <1>1, <1>4, <3>1, <3>2, <3>3, VisitedIs
    <3> QED BY <1>2, <1>7, <2>3, <3>4
  <2> QED BY <1>1, <1>3, <2>1, <2>2, <2>3, SubtreeStays
<1> QED BY <1>9, <1>10 DEF g

LEMMA ReachedInsert ==
  ASSUME NEW h, NEW R, ListsHold(h, R), Reached(h, R),
         NEW c \in h.live \ h.refs, NEW y \in Listed(h, c), NEW x \in R,
         c \notin Visited(h, {x})
  PROVE  Reached(InsertBefore(h, c, y, x), R \ {x})
<1> DEFINE g == InsertBefore(h, c, y, x)
           head == h.child[c]
           p == IF y = head THEN c ELSE h.prev[y]
           B == Visited(h, {x}) \cup Visited(h, {y})
           W == {x, y}
<1>1. /\ Forest(h, R) /\ h.live \subseteq Items /\ Null \notin Items
      /\ c \in Items \ h.refs /\ y \in Items /\ x \in Items /\ c # Null
      /\ h.home[h.prev[y]] = c
  <2>1. /\ Forest(h, R) /\ h.live \subseteq Items /\ x \in Items
    BY DEF ListsHold, StringTypes, Forest
  <2> QED BY <2>1, PlaceIs, CellsAssumption
<1>2. p \in h.live /\ p \in Items /\ y \in Led(h, p) /\ p \notin Visited(h, {y})
  BY PlaceLeads
<1>3. /\ g.live = h.live /\ g.refs = h.refs /\ h.next[x] = Null /\ x # y
      /\ g.next[x] = y
      /\ y = head => /\ \A z \in Items \ {x} : g.next[z] = h.next[z]
                     /\ g.child[c] = x
                     /\ \A z \in Items \ {c} : g.child[z] = h.child[z]
      /\ y # head => /\ g.next[h.prev[y]] = x
                     /\ \A z \in Items \ {x, h.prev[y]} : g.next[z] = h.next[z]
                     /\ g.child = h.child
  BY InsertGoes
<1>4. /\ x \in Visited(h, {x}) /\ y \in Visited(h, {y})
      /\ Visited(h, {x}) \subseteq Items /\ Visited(h, {y}) \subseteq Items
      /\ Owned(h, Visited(h, {x})) /\ Owned(h, Visited(h, {y}))
  <2>1. ASSUME NEW z \in Items
        PROVE  /\ z \in Visited(h, {z}) /\ Visited(h, {z}) \subseteq Items
               /\ Owned(h, Visited(h, {z}))
    <3>1. {z} \in SUBSET Items
      OBVIOUS
    <3> QED BY <1>1, <3>1, VisitedIs
  <2> QED BY <1>1, <2>1
<1>5. p \notin Visited(h, {x})
  <2>1. CASE y = head
    BY <2>1
  <2>2. CASE y # head
    BY <1>1, <1>2, <2>2, Whole
  <2> QED BY <2>1, <2>2
<1>6. Owned(h, B)
  BY <1>4 DEF Owned, NextClosed
<1>7. h.child[c] = head /\ W \subseteq B /\ B \subseteq Items /\ p \notin B
  BY <1>2, <1>4, <1>5
<1> HIDE DEF g, head, B
<1>8. /\ x \in Led(g, p) /\ y \in Led(g, x)
      /\ \A z \in Items : Led(h, z) \subseteq Led(g, z) \cup W
  <2>a. p # x
    BY <1>4, <1>5
  <2>1. CASE y = head
    <3>1. p = c
      BY <2>1
    <3> QED BY <1>1, <1>3, <1>7, <2>1, <2>a, <3>1 DEF Led
  <2>2. CASE y # head
    <3>1. p = h.prev[y]
      BY <2>2
    <3>2. h.next[p] = y
      BY <2>2, PlaceIs DEF head
    <3> HIDE DEF p
    <3> QED BY <1>1, <1>2, <1>3, <1>7, <2>2, <2>a, <3>1, <3>2 DEF Led
  <2> QED BY <2>1, <2>2
<1> HIDE DEF p
<1>9. ASSUME NEW S \in SUBSET Items, R \ {x} \subseteq S, p \in S, Owned(g, S)
      PROVE  W \subseteq S
  BY <1>8, <1>9, OwnedLed
<1>10. Reached(g, R \ {x})
  <2>1. R \subseteq (R \ {x}) \cup W
    OBVIOUS
  <2> HIDE DEF W
  <2>2. Move(h, g, R, R \ {x}, W, B, p)
    BY <1>2, <1>3, <1>6, <1>7, <1>8, <1>9, <2>1 DEF Move
  <2> QED BY <2>2, Moved
<1> QED BY <1>10 DEF g

\* What was reached is, and below y is what was below it.
SwapReaches(h, R, c, y, x) ==
  /\ Reached(Swapped(h, c, y, x), (R \ {x}) \cup {y})
  /\ Visited(Swapped(h, c, y, x), {y}) = Subtree(h, y)

LEMMA ReachedSwap ==
  ASSUME NEW h, NEW R, ListsHold(h, R), Reached(h, R),
         NEW c \in h.live \ h.refs, NEW y \in Listed(h, c), NEW x \in R,
         c \notin Visited(h, {x})
  PROVE  SwapReaches(h, R, c, y, x)
<1> DEFINE g == Swapped(h, c, y, x)
           head == h.child[c]
           n == h.next[y]
           p == IF y = head THEN c ELSE h.prev[y]
           B == Visited(h, {x}) \cup Visited(h, {y})
           W == {x, y, n} \ {Null}
           Q == (R \ {x}) \cup {y}
<1>1. /\ Forest(h, R) /\ h.live \subseteq Items /\ Null \notin Items
      /\ c \in Items \ h.refs /\ y \in Items /\ x \in Items /\ c # Null
      /\ h.home[h.prev[y]] = c /\ y \notin R /\ StringTypes(h)
      /\ n # y /\ (n # Null => n \in Items)
  <2>1. /\ Forest(h, R) /\ h.live \subseteq Items /\ x \in Items
        /\ StringTypes(h)
    BY DEF ListsHold, StringTypes, Forest
  <2> QED BY <2>1, PlaceIs, CellsAssumption
<1>2. p \in h.live /\ p \in Items /\ y \in Led(h, p) /\ p \notin Visited(h, {y})
  BY PlaceLeads
<1>3. /\ g.live = h.live /\ g.refs = h.refs /\ h.next[x] = Null /\ x # y
      /\ g.next[x] = n /\ g.next[y] = Null
      /\ y = head => /\ \A z \in Items \ {x, y} : g.next[z] = h.next[z]
                     /\ g.child[c] = x
                     /\ \A z \in Items \ {c} : g.child[z] = h.child[z]
      /\ y # head =>
           /\ g.next[h.prev[y]] = x
           /\ \A z \in Items \ {x, y, h.prev[y]} : g.next[z] = h.next[z]
           /\ g.child = h.child
  BY SwapGoes
<1>4. /\ x \in Visited(h, {x}) /\ y \in Visited(h, {y})
      /\ Visited(h, {x}) \subseteq Items /\ Visited(h, {y}) \subseteq Items
      /\ Owned(h, Visited(h, {x})) /\ Owned(h, Visited(h, {y}))
  <2>1. ASSUME NEW z \in Items
        PROVE  /\ z \in Visited(h, {z}) /\ Visited(h, {z}) \subseteq Items
               /\ Owned(h, Visited(h, {z}))
    <3>1. {z} \in SUBSET Items
      OBVIOUS
    <3> QED BY <1>1, <3>1, VisitedIs
  <2> QED BY <1>1, <2>1
<1>5. p \notin Visited(h, {x})
  <2>1. CASE y = head
    BY <2>1
  <2>2. CASE y # head
    BY <1>1, <1>2, <2>2, Whole
  <2> QED BY <2>1, <2>2
<1>6. Owned(h, B)
  BY <1>4 DEF Owned, NextClosed
<1>7. h.child[c] = head /\ h.next[y] = n /\ B \subseteq Items /\ p \notin B
  BY <1>2, <1>4, <1>5
<1> HIDE DEF head, n, g
<1>8. W \subseteq B
  <2>1. n # Null => n \in Led(h, y)
    BY <1>7 DEF Led
  <2> QED BY <1>4, <2>1, OwnedLed
<1> HIDE DEF B
<1>9. /\ x \in Led(g, p)
      /\ n # Null => n \in Led(g, x)
      /\ \A z \in Items : Led(h, z) \subseteq Led(g, z) \cup W
      /\ \A z \in Items \ {x, y, p} : Led(g, z) = Led(h, z)
  <2>a. p # x /\ p # y
    BY <1>2, <1>4, <1>5
  <2>1. CASE y = head
    <3>1. p = c
      BY <2>1
    <3> QED BY <1>1, <1>3, <1>7, <2>1, <2>a, <3>1 DEF Led
  <2>2. CASE y # head
    <3>1. p = h.prev[y]
      BY <2>2
    <3>2. h.next[p] = y
      BY <2>2, PlaceIs DEF head
    <3> HIDE DEF p
    <3> QED BY <1>1, <1>2, <1>3, <1>7, <2>2, <2>a, <3>1, <3>2 DEF Led
  <2> QED BY <2>1, <2>2
<1>10. ASSUME NEW S \in SUBSET Items, Q \subseteq S, p \in S, Owned(g, S)
       PROVE  W \subseteq S
  BY <1>9, <1>10, OwnedLed
<1>11. Reached(g, Q)
  <2>1. R \subseteq Q \cup W
    BY <1>1
  <2> HIDE DEF W, Q, p
  <2>2. Move(h, g, R, Q, W, B, p)
    BY <1>2, <1>3, <1>6, <1>7, <1>8, <1>9, <1>10, <2>1 DEF Move
  <2> QED BY <2>2, Moved
<1>12. Visited(g, {y}) = Subtree(h, y)
  <2>1. Forest(g, Q)
    BY <1>1, ForestSwap DEF g
  <2>2. y \notin h.refs => g.child[y] = h.child[y]
    BY <1>1, <1>2, <1>3, <1>4
  <2>3. ASSUME NEW z \in Subtree(h, y) \ {y} PROVE Led(g, z) = Led(h, z)
    <3>1. z \in Visited(h, {h.child[y]}) /\ y \notin h.refs /\ h.child[y] # Null
      BY <2>3 DEF Subtree
    <3>2. /\ h.child[y] \in Led(h, y)
          /\ h.child[y] \in Items /\ h.child[y] \notin R
      BY <1>1, <3>1, LedTo DEF Led, Forest, Pointers
    <3>3. h.child[y] \in Visited(h, {y})
      BY <1>4, <3>2, OwnedLed
    <3>4. z \in Visited(h, {y}) /\ z \in Items
      BY <1>1, <1>4, <3>1, <3>2, <3>3, VisitedIs
    <3>5. z \notin R
      <4>1. {h.child[y]} \cap R = {} /\ {h.child[y]} \in SUBSET Items
        BY <3>2
      <4>2. Visited(h, {h.child[y]}) \cap R = {}
        BY <1>1, <4>1, RootsApart
      <4> QED BY <3>1, <4>2
    <3> QED BY <1>2, <1>9, <2>3, <3>4, <3>5
  <2> QED BY <1>1, <1>3, <2>1, <2>2, <2>3, SubtreeStays
<1> QED BY <1>11, <1>12 DEF g, SwapReaches

-----------------------------------------------------------------------------
(* Everything together, operation by operation.                             *)

\* What a reference shows is alive or belongs to the caller.
Shares(h) ==
  /\ \A r \in h.refs : h.child[r] \in h.live \cup {Null}
  /\ \A z \in Items : h.vstr[z] \in h.live \cup {Null, Lent}
  /\ \A z \in Items \ h.refs : h.vstr[z] \in {z, Null}

\* No live reference shows an item of D.
Unshared(h, D) ==
  \A r \in (h.live \cap h.refs) \ D : h.child[r] \notin D /\ h.vstr[r] \notin D

HeapInv(h, R) ==
  StringInv(h) /\ Forest(h, R) /\ ListInv(h) /\ Shares(h) /\ Reached(h, R)

LEMMA HeapParts ==
  ASSUME NEW h, NEW R, HeapInv(h, R)
  PROVE  /\ ListsHold(h, R) /\ Forest(h, R) /\ ListInv(h) /\ Reached(h, R)
         /\ Shares(h) /\ StringInv(h) /\ StringTypes(h) /\ Shaped(h)
         /\ h.live \subseteq Items /\ h.refs \subseteq h.live
         /\ R \subseteq h.live
BY DEF HeapInv, ListsHold, StringInv, StringTypes, Forest

\* The walks follow next and child.
LEMMA WalksSame ==
  ASSUME NEW h, NEW g, g.refs = h.refs, g.next = h.next, g.child = h.child
  PROVE  /\ \A X : Visited(g, X) = Visited(h, X)
         /\ \A c : Listed(g, c) = Listed(h, c)
         /\ \A x : Subtree(g, x) = Subtree(h, x)
<1>1. \A X : Visited(g, X) = Visited(h, X)
  BY DEF Visited, Owned, NextClosed
<1>2. \A c : Listed(g, c) = Listed(h, c)
  BY DEF Listed, From, NextClosed
<1> QED BY <1>1, <1>2 DEF Subtree

LEMMA SharesSame ==
  ASSUME NEW h, NEW g, Shares(h), h.refs \subseteq Items,
         g.live = h.live, g.refs = h.refs, g.vstr = h.vstr,
         \A z \in h.refs : g.child[z] = h.child[z]
  PROVE  Shares(g)
BY DEF Shares

LEMMA HeapTake ==
  ASSUME NEW h, NEW R, HeapInv(h, R), NEW x \in Items \ h.live,
         NEW g, g = NewItem(h, x) \/ g = NewValued(h, x)
  PROVE  HeapInv(g, R \cup {x}) /\ Visited(g, {x}) = {x} /\ Unshared(g, {x})
<1>1. /\ ListsHold(h, R) /\ Forest(h, R) /\ ListInv(h) /\ Reached(h, R)
      /\ Shares(h) /\ StringInv(h) /\ StringTypes(h) /\ Shaped(h)
      /\ h.live \subseteq Items /\ h.refs \subseteq h.live
  BY HeapParts
<1>2. /\ g.live = h.live \cup {x} /\ g.refs = h.refs
      /\ g.next = h.next /\ g.prev = h.prev /\ g.child = h.child
      /\ g.home = h.home
      /\ g.vstr \in {h.vstr, [h.vstr EXCEPT ![x] = x]}
  BY <1>1 DEF NewItem, NewValued, Shaped, Fields
<1>3. Forest(g, R \cup {x})
  <2>1. g.child \in [Items -> Pointers]
    BY <1>1, <1>2 DEF Forest
  <2> QED BY <1>1, <1>2, <2>1, ForestMore
<1>4. StringInv(g)
  BY <1>1, NewItemOwns, NewValuedOwns
<1>5. ListInv(g)
  BY <1>1, <1>2, ListsMore
<1>6. Reached(g, R \cup {x})
  BY <1>1, <1>2, ReachedMore
<1>7. h.vstr \in [Items -> Pointers \cup {Lent}] /\ h.vstr[x] = Null
      /\ x # Null /\ x # Lent
  BY <1>1, CellsAssumption DEF StringTypes
<1>8. Shares(g)
  <2>1. g.vstr[x] \in {x, Null} /\ \A z \in Items \ {x} : g.vstr[z] = h.vstr[z]
    BY <1>2, <1>7
  <2> QED BY <1>1, <1>2, <2>1 DEF Shares
<1>9. Unshared(g, {x})
  <2>1. \A z \in h.refs : z # x /\ g.vstr[z] = h.vstr[z]
    BY <1>1, <1>2, <1>7
  <2> QED BY <1>1, <1>2, <1>7, <2>1 DEF Shares, Unshared
<1>10. Visited(g, {x}) = {x}
  <2>1. g.next[x] = Null /\ g.child[x] = Null
    BY <1>1, <1>2, FreeAlone
  <2>2. g.live \subseteq Items
    BY <1>1, <1>2
  <2> QED BY <1>3, <2>1, <2>2, Alone
<1> QED BY <1>2, <1>3, <1>4, <1>5, <1>6, <1>8, <1>9, <1>10 DEF HeapInv

LEMMA HeapDelete ==
  ASSUME NEW h, NEW R, HeapInv(h, R), NEW x \in R,
         Unshared(h, Visited(h, {x}))
  PROVE  /\ HeapInv(DeleteItems(h, x), R \ {x})
         /\ HeapInv(Discard(h, x), R \ {x})
<1> DEFINE D == Visited(h, {x})
           g == DeleteItems(h, x)
           blank(f) == [z \in Items |-> IF z \in D THEN Null ELSE f[z]]
<1>1. /\ ListsHold(h, R) /\ Forest(h, R) /\ ListInv(h) /\ Reached(h, R)
      /\ Shares(h) /\ StringInv(h) /\ Shaped(h)
      /\ h.live \subseteq Items /\ h.refs \subseteq h.live
  BY HeapParts
<1>2. /\ g.live = h.live \ D /\ g.refs = h.refs \ D
      /\ g.child = blank(h.child) /\ g.vstr = blank(h.vstr)
  BY <1>1 DEF Shaped, Fields, DeleteItems, Free
<1>3. /\ StringInv(g) /\ Forest(g, R \ {x}) /\ ListInv(g)
      /\ Reached(g, R \ {x})
  BY <1>1, DeleteOwns, ForestDelete, ListsDelete, ReachedDelete
<1>4. Unshared(h, D)
  OBVIOUS
<1> HIDE DEF D, g
<1>5. Shares(g)
  BY <1>1, <1>2, <1>4 DEF Shares, Unshared
<1> QED BY <1>3, <1>5 DEF HeapInv, Discard, g

LEMMA HeapAdd ==
  ASSUME NEW h, NEW R, HeapInv(h, R), NEW a \in h.live \ h.refs, NEW x \in R,
         a \notin Visited(h, {x})
  PROVE  HeapInv(AddLast(h, a, x), R \ {x})
<1> DEFINE g == AddLast(h, a, x)
<1>1. /\ ListsHold(h, R) /\ Forest(h, R) /\ Reached(h, R)
      /\ Shares(h) /\ StringInv(h) /\ StringTypes(h) /\ Shaped(h)
      /\ h.live \subseteq Items /\ h.refs \subseteq h.live /\ R \subseteq h.live
  BY HeapParts
<1>2. a # x
  BY <1>1, VisitedIs
<1>3. /\ StringInv(g) /\ Forest(g, R \ {x}) /\ ListInv(g)
      /\ Reached(g, R \ {x})
  BY <1>1, <1>2, LinkingOwns, ForestAddLast, ListsAddLast, ReachedAddLast
<1>4. /\ g.live = h.live /\ g.refs = h.refs /\ g.vstr = h.vstr
      /\ \A z \in Items \ {a} : g.child[z] = h.child[z]
  BY <1>1, <1>2, AddLastGoes, AddLastLinks DEF SameStrings
<1>5. Shares(g)
  BY <1>1, <1>4, SharesSame
<1> QED BY <1>3, <1>5 DEF HeapInv

LEMMA HeapDetach ==
  ASSUME NEW h, NEW R, HeapInv(h, R), NEW c \in h.live \ h.refs,
         NEW x, x \in Listed(h, c) \cup R
  PROVE  HeapInv(Detach(h, c, x), R \cup {x})
<1> DEFINE g == Detach(h, c, x)
<1>1. /\ ListsHold(h, R) /\ Forest(h, R) /\ Reached(h, R)
      /\ Shares(h) /\ StringInv(h) /\ StringTypes(h)
      /\ h.live \subseteq Items /\ h.refs \subseteq h.live /\ R \subseteq h.live
  BY HeapParts
<1>2. CASE x \in R
  <2>1. x # h.child[c] /\ h.prev[x] = Null
    BY <1>1, <1>2, RootsAlone, CellsAssumption DEF Forest
  <2>2. g = h /\ R \cup {x} = R
    BY <1>2, <2>1 DEF Detach
  <2> QED BY <2>2
<1>3. CASE x \in Listed(h, c)
  <2>1. /\ StringInv(g) /\ Forest(g, R \cup {x}) /\ ListInv(g)
        /\ Reached(g, R \cup {x})
    BY <1>1, <1>3, LinkingOwns, ForestDetach, ListsDetach, ReachedDetach
  <2>2. /\ g.live = h.live /\ g.refs = h.refs /\ g.vstr = h.vstr
        /\ \A z \in Items \ {c} : g.child[z] = h.child[z]
    BY <1>1, <1>3, DetachGoes
  <2>3. Shares(g)
    BY <1>1, <2>2, SharesSame
  <2> QED BY <2>1, <2>3 DEF HeapInv
<1> QED BY <1>2, <1>3

\* What is detached and deleted is the item and what it owns.
LEMMA HeapTakeOut ==
  ASSUME NEW h, NEW R, HeapInv(h, R), NEW c \in h.live \ h.refs,
         NEW x \in Listed(h, c), Unshared(h, Subtree(h, x))
  PROVE  HeapInv(DeleteItems(Detach(h, c, x), x), R)
<1> DEFINE g == Detach(h, c, x)
<1>1. /\ ListsHold(h, R) /\ Reached(h, R) /\ h.live \subseteq Items
      /\ h.refs \subseteq h.live
  BY HeapParts
<1>2. HeapInv(g, R \cup {x})
  BY HeapDetach
<1>3. /\ g.live = h.live /\ g.refs = h.refs /\ g.vstr = h.vstr
      /\ \A z \in Items \ {c} : g.child[z] = h.child[z]
  BY <1>1, DetachGoes
<1>4. Visited(g, {x}) = Subtree(h, x) /\ x \notin R
  <2>1. x \notin R
    BY <1>1, PlaceIs
  <2> QED BY <1>1, <2>1, ReachedDetach
<1> HIDE DEF g
<1>5. Unshared(g, Visited(g, {x}))
  BY <1>1, <1>3, <1>4 DEF Unshared
<1>6. HeapInv(DeleteItems(g, x), (R \cup {x}) \ {x}) /\ (R \cup {x}) \ {x} = R
  BY <1>2, <1>4, <1>5, HeapDelete
<1> QED BY <1>6 DEF g

LEMMA HeapInsert ==
  ASSUME NEW h, NEW R, HeapInv(h, R), NEW c \in h.live \ h.refs,
         NEW y \in Listed(h, c), NEW x \in R, c \notin Visited(h, {x})
  PROVE  HeapInv(InsertBefore(h, c, y, x), R \ {x})
<1> DEFINE g == InsertBefore(h, c, y, x)
<1>1. /\ ListsHold(h, R) /\ Forest(h, R) /\ Reached(h, R)
      /\ Shares(h) /\ StringInv(h) /\ StringTypes(h) /\ Shaped(h)
      /\ h.live \subseteq Items /\ h.refs \subseteq h.live
  BY HeapParts
<1>2. /\ StringInv(g) /\ Forest(g, R \ {x}) /\ ListInv(g)
      /\ Reached(g, R \ {x})
  BY <1>1, LinkingOwns, ForestInsert, ListsInsert, ReachedInsert
<1>3. /\ g.live = h.live /\ g.refs = h.refs /\ g.vstr = h.vstr
      /\ \A z \in Items \ {c} : g.child[z] = h.child[z]
  BY <1>1, InsertGoes, InsertLinks DEF SameStrings
<1>4. Shares(g)
  BY <1>1, <1>3, SharesSame
<1> QED BY <1>2, <1>4 DEF HeapInv

\* What is replaced hangs alone, before it is deleted.
MaySwap(h, R, c, y, x) ==
  /\ HeapInv(h, R)
  /\ c \in h.live \ h.refs /\ y \in Listed(h, c) /\ x \in R
  /\ c \notin Visited(h, {x})

SwapGives(h, R, c, y, x) ==
  LET g == Swapped(h, c, y, x)
  IN /\ HeapInv(g, (R \ {x}) \cup {y}) /\ Visited(g, {y}) = Subtree(h, y)
     /\ x # y /\ y \notin R /\ Replace(h, c, y, x) = DeleteItems(g, y)
     /\ SameStrings(h, g)
     /\ \A z \in Items \ {c} : g.child[z] = h.child[z]

LEMMA HeapSwap ==
  ASSUME NEW h, NEW R, NEW c, NEW y, NEW x, MaySwap(h, R, c, y, x)
  PROVE  SwapGives(h, R, c, y, x)
<1> DEFINE g == Swapped(h, c, y, x)
           Q == (R \ {x}) \cup {y}
<1>1. /\ ListsHold(h, R) /\ Forest(h, R) /\ Reached(h, R)
      /\ Shares(h) /\ StringInv(h) /\ StringTypes(h) /\ Shaped(h)
      /\ h.live \subseteq Items /\ h.refs \subseteq h.live
      /\ c \in h.live \ h.refs /\ y \in Listed(h, c) /\ x \in R
      /\ c \notin Visited(h, {x})
  BY HeapParts DEF MaySwap
<1>2. /\ x # y /\ Forest(g, Q) /\ ListInv(g) /\ Reached(g, Q)
      /\ Visited(g, {y}) = Subtree(h, y) /\ y \notin R
  <2>1. x # y /\ Forest(g, Q)
    BY <1>1, ForestSwap
  <2>2. ListInv(g)
    BY <1>1, ListsSwap
  <2>3. Reached(g, Q) /\ Visited(g, {y}) = Subtree(h, y)
    <3>1. /\ ListsHold(h, R) /\ Reached(h, R) /\ c \in h.live \ h.refs
          /\ y \in Listed(h, c) /\ x \in R /\ c \notin Visited(h, {x})
      BY <1>1
    <3>2. SwapReaches(h, R, c, y, x)
      BY <3>1, ReachedSwap
    <3> QED BY <3>2 DEF SwapReaches
  <2>4. y \notin R
    BY <1>1, PlaceIs
  <2> QED BY <2>1, <2>2, <2>3, <2>4
<1>3. /\ Shaped(g) /\ SameStrings(h, g)
      /\ Replace(h, c, y, x) = DeleteItems(g, y)
  BY <1>1, <1>2, SwappedLinks
<1>4. /\ g.live = h.live /\ g.refs = h.refs /\ g.vstr = h.vstr
      /\ \A z \in Items \ {c} : g.child[z] = h.child[z]
  BY <1>1, SwapGoes
<1> HIDE DEF g
<1>5. StringInv(g)
  BY <1>1, <1>3, LinksOnly
<1>6. Shares(g)
  BY <1>1, <1>4, SharesSame
<1>7. HeapInv(g, Q)
  BY <1>2, <1>5, <1>6 DEF HeapInv
<1> QED BY <1>2, <1>3, <1>4, <1>7 DEF g, SwapGives

LEMMA HeapReplace ==
  ASSUME NEW h, NEW R, HeapInv(h, R), NEW c \in h.live \ h.refs,
         NEW y \in Listed(h, c), NEW x \in R, c \notin Visited(h, {x}),
         Unshared(h, Subtree(h, y))
  PROVE  HeapInv(Replace(h, c, y, x), R \ {x})
<1> DEFINE g == Swapped(h, c, y, x)
           Q == (R \ {x}) \cup {y}
<1>1. h.live \subseteq Items /\ h.refs \subseteq h.live
  BY HeapParts
<1>2. /\ HeapInv(g, Q) /\ Visited(g, {y}) = Subtree(h, y) /\ y \notin R
      /\ x # y /\ Replace(h, c, y, x) = DeleteItems(g, y)
      /\ g.live = h.live /\ g.refs = h.refs /\ g.vstr = h.vstr
      /\ \A z \in Items \ {c} : g.child[z] = h.child[z]
  <2>1. SwapGives(h, R, c, y, x)
    BY HeapSwap DEF MaySwap
  <2> QED BY <2>1 DEF SwapGives, SameStrings
<1> HIDE DEF g
<1>3. Unshared(g, Visited(g, {y}))
  BY <1>1, <1>2 DEF Unshared
<1>4. HeapInv(DeleteItems(g, y), Q \ {y}) /\ Q \ {y} = R \ {x}
  BY <1>2, <1>3, HeapDelete
<1> QED BY <1>2, <1>4

\* Nothing but names differs.
SameTree(h, g) ==
  /\ g.live = h.live /\ g.refs = h.refs /\ g.vstr = h.vstr
  /\ g.next = h.next /\ g.prev = h.prev
  /\ g.child = h.child /\ g.home = h.home

LEMMA HeapSame ==
  ASSUME NEW h, NEW R, HeapInv(h, R), NEW g, SameTree(h, g), StringInv(g)
  PROVE  HeapInv(g, R)
<1>1. /\ Forest(h, R) /\ ListInv(h) /\ Reached(h, R) /\ Shares(h)
      /\ h.refs \subseteq Items
  BY HeapParts
<1>2. Forest(g, R) /\ ListInv(g) /\ Reached(g, R) /\ Shares(g)
  BY <1>1, ForestSame, ListsSame, ReachedSame, SharesSame DEF SameTree
<1> QED BY <1>2 DEF HeapInv

LEMMA HeapRename ==
  ASSUME NEW h, NEW R, HeapInv(h, R), NEW x \in h.live, NEW k \in Names,
         NEW const \in BOOLEAN
  PROVE  LET g == Rename(h, x, k, const)
         IN HeapInv(g, R) /\ SameTree(h, g)
<1>1. SameTree(h, Rename(h, x, k, const))
  BY HeapParts DEF Shaped, Fields, Rename, SameTree
<1> QED BY <1>1, HeapParts, RenameOwns, HeapSame

LEMMA HeapUnname ==
  ASSUME NEW h, NEW R, HeapInv(h, R), NEW x \in h.live
  PROVE  HeapInv(Unnamed(h, x), R)
<1>1. SameTree(h, Unnamed(h, x))
  BY HeapParts DEF Shaped, Fields, Unnamed, SameTree
<1> QED BY <1>1, HeapParts, UnnamedOwns, HeapSame

\* A reference that create_reference makes, or the caller.
LEMMA HeapShow ==
  ASSUME NEW h, NEW R, HeapInv(h, R), NEW r \in Items \ h.live, NEW g,
         StringInv(g), g.live = h.live \cup {r}, g.refs = h.refs \cup {r},
         g.next = h.next, g.prev = h.prev, g.home = h.home,
         NEW y \in h.live \cup {Null}, g.child = [h.child EXCEPT ![r] = y],
         NEW s \in h.live \cup {Null, Lent}, g.vstr = [h.vstr EXCEPT ![r] = s]
  PROVE  HeapInv(g, R \cup {r}) /\ Visited(g, {r}) = {r}
<1>1. /\ ListsHold(h, R) /\ Forest(h, R) /\ Reached(h, R) /\ Shares(h)
      /\ StringTypes(h) /\ h.live \subseteq Items /\ h.refs \subseteq h.live
  BY HeapParts
<1>2. /\ \A z \in Items \ {r} : g.child[z] = h.child[z]
      /\ g.child[r] = y /\ g.child \in [Items -> Pointers] /\ r \in g.refs
  BY <1>1 DEF Forest, Pointers
<1>3. Forest(g, R \cup {r})
  BY <1>1, <1>2, ForestMore
<1>4. ListInv(g) /\ Reached(g, R \cup {r})
  BY <1>1, <1>2, ListsMore, ReachedMore
<1>5. Shares(g)
  <2>1. g.vstr[r] = s /\ \A z \in Items \ {r} : g.vstr[z] = h.vstr[z]
    BY <1>1 DEF StringTypes
  <2> QED BY <1>1, <1>2, <2>1 DEF Shares
<1>6. g.next[r] = Null /\ g.live \subseteq Items
  BY <1>1, FreeAlone
<1>7. Visited(g, {r}) = {r}
  BY <1>2, <1>3, <1>6, Alone
<1> QED BY <1>3, <1>4, <1>5, <1>7 DEF HeapInv

LEMMA HeapRefer ==
  ASSUME NEW h, NEW R, HeapInv(h, R), NEW x \in h.live, NEW r \in Items \ h.live
  PROVE  LET g == Reference(h, x, r)
         IN HeapInv(g, R \cup {r}) /\ Visited(g, {r}) = {r}
<1> DEFINE g == Reference(h, x, r)
<1>1. /\ Forest(h, R) /\ Shares(h) /\ StringInv(h) /\ Shaped(h)
      /\ h.live \subseteq Items /\ x \in Items
  BY HeapParts
<1>2. /\ g.live = h.live \cup {r} /\ g.refs = h.refs \cup {r}
      /\ g.next = h.next /\ g.prev = h.prev /\ g.home = h.home
      /\ g.child = [h.child EXCEPT ![r] = h.child[x]]
      /\ g.vstr = [h.vstr EXCEPT ![r] = h.vstr[x]]
  BY <1>1 DEF Reference, NewItem, Shaped, Fields
<1>3. StringInv(g)
  BY <1>1, ReferenceOwns
<1>4. /\ h.child[x] \in h.live \cup {Null}
      /\ h.vstr[x] \in h.live \cup {Null, Lent}
  BY <1>1 DEF Shares, Forest
<1> HIDE DEF g
<1>5. HeapInv(g, R \cup {r}) /\ Visited(g, {r}) = {r}
  BY <1>2, <1>3, <1>4, HeapShow
<1> QED BY <1>2, <1>5 DEF g

-----------------------------------------------------------------------------
(* The calls.                                                               *)

\* What nobody points to: what the caller holds, and what got lost.
Mine == roots \cup lost

TreeInv == HeapInv(heap, Mine) /\ roots \cap lost = {}

LEMMA Held ==
  ASSUME TreeInv
  PROVE  /\ roots \subseteq Mine /\ Mine \subseteq heap.live
         /\ heap.live \subseteq Items
         /\ \A x \in roots : (roots \ {x}) \cup lost = Mine \ {x}
         /\ \A x \in Spare : x \in Items \ heap.live /\ x \notin Mine
                             /\ (Mine \cup {x}) \ {x} = Mine
BY HeapParts DEF TreeInv, Mine, Spare

\* What MayDelete and MayLink say of the heap.
LEMMA Allowed ==
  ASSUME TreeInv
  PROVE  /\ \A x : MayDelete(x) => Unshared(heap, Subtree(heap, x))
         /\ \A x \in roots : Visited(heap, {x}) = Subtree(heap, x)
         /\ \A c, x : MayLink(c, x) /\ c # x =>
              c \in heap.live \ heap.refs /\ c \notin Visited(heap, {x})
<1>1. \A x : MayDelete(x) => Unshared(heap, Subtree(heap, x))
  BY DEF MayDelete, Unshared
<1>2. ASSUME NEW x \in roots
      PROVE  Visited(heap, {x}) = Subtree(heap, x)
  <2>1. /\ Forest(heap, Mine) /\ heap.live \subseteq Items /\ x \in Items
        /\ heap.next[x] = Null
    BY Held, HeapParts, RootsAlone DEF TreeInv
  <2> QED BY <2>1, SubtreeStays
<1>3. \A c, x : MayLink(c, x) /\ c # x =>
        c \in heap.live \ heap.refs /\ c \notin Visited(heap, {x})
  BY DEF MayLink, IsPlace
<1> QED BY <1>1, <1>2, <1>3

\* Nothing is left of an item that could not be completed.
LEMMA HeapUndo ==
  ASSUME TreeInv, NEW x \in Spare,
         NEW g, g = NewItem(heap, x) \/ g = NewValued(heap, x)
  PROVE  HeapInv(Discard(g, x), Mine)
<1>1. x \in Items \ heap.live /\ HeapInv(heap, Mine)
  BY Held DEF TreeInv
<1>2. /\ HeapInv(g, Mine \cup {x}) /\ Visited(g, {x}) = {x}
      /\ Unshared(g, {x})
  BY <1>1, HeapTake
<1>3. HeapInv(Discard(g, x), (Mine \cup {x}) \ {x})
  BY <1>2, HeapDelete
<1>4. (Mine \cup {x}) \ {x} = Mine
  BY Held
<1> QED BY <1>3, <1>4

\* A reference that CreateStringReference or CreateListReference makes.
LEMMA HeapCite ==
  ASSUME TreeInv, NEW x \in Spare,
         NEW y \in heap.live \cup {Null}, NEW s \in {Null, Lent}
  PROVE  HeapInv([NewItem(heap, x) EXCEPT !.refs = @ \cup {x}, !.child[x] = y,
                                          !.vstr[x] = s], Mine \cup {x})
<1> DEFINE n == NewItem(heap, x)
           g == [n EXCEPT !.refs = @ \cup {x}, !.child[x] = y, !.vstr[x] = s]
<1>1. /\ x \in Items \ heap.live /\ heap.live \subseteq Items
      /\ HeapInv(heap, Mine) /\ StringInv(heap) /\ Shaped(heap)
      /\ StringInv(n) /\ StringTypes(n) /\ Shaped(n)
  BY Held, HeapParts, NewItemOwns DEF TreeInv, StringInv, StringTypes
<1>2. /\ n.live = heap.live \cup {x} /\ n.refs = heap.refs
      /\ n.next = heap.next /\ n.prev = heap.prev /\ n.child = heap.child
      /\ n.home = heap.home /\ n.vstr = heap.vstr
      /\ n.key[x] = Null /\ n.vstr[x] = Null
  BY <1>1 DEF StringInv, StringTypes, NewItem, Shaped, Fields
<1> HIDE DEF n
<1>3. /\ Shaped(g) /\ g.live = n.live /\ g.refs = n.refs \cup {x}
      /\ g.consts = n.consts /\ g.key = n.key
      /\ g.vstr = [n.vstr EXCEPT ![x] = s] /\ g.strings = n.strings
      /\ g.next = n.next /\ g.prev = n.prev /\ g.home = n.home
      /\ g.child = [n.child EXCEPT ![x] = y]
  BY <1>1 DEF Shaped, Fields
<1> HIDE DEF g
<1>4. KeyOwners(g) = KeyOwners(n) /\ ValueOwners(g) = ValueOwners(n)
  BY <1>1, <1>2, <1>3
     DEF StringTypes, KeyOwners, OwnsKey, ValueOwners, OwnsValue
<1>5. StringInv(g)
  BY <1>1, <1>2, <1>3, <1>4 DEF StringInv, StringTypes, Counted, Pointers
<1>6. HeapInv(g, Mine \cup {x})
  <2>1. /\ g.live = heap.live \cup {x} /\ g.refs = heap.refs \cup {x}
        /\ g.next = heap.next /\ g.prev = heap.prev /\ g.home = heap.home
        /\ g.child = [heap.child EXCEPT ![x] = y]
        /\ g.vstr = [heap.vstr EXCEPT ![x] = s]
    BY <1>2, <1>3
  <2>2. s \in heap.live \cup {Null, Lent}
    OBVIOUS
  <2> QED BY <1>1, <1>5, <2>1, <2>2, HeapShow
<1> QED BY <1>6 DEF g, n

LEMMA CreateHolds ==
  ASSUME TreeInv, Create
  PROVE  TreeInv'
<1>1. PICK x \in Spare, b \in Budgets :
        \/ CreateItem(x, b)
        \/ CreateString(x, b)
        \/ CreateStringReference(x, b)
        \/ \E y \in heap.live : CreateListReference(x, y, b)
  BY Zenon DEF Create
<1>2. /\ x \in Items \ heap.live /\ x \notin Mine /\ HeapInv(heap, Mine)
      /\ roots \cap lost = {}
  BY Held DEF TreeInv
<1>3. ASSUME NEW g, HeapInv(g, Mine \cup {x}), Hold(g, x)
      PROVE  TreeInv'
  <2>1. heap' = g /\ Mine' = Mine \cup {x} /\ roots' \cap lost' = {}
    BY <1>2, <1>3 DEF Hold, Mine
  <2> QED BY <1>3, <2>1 DEF TreeInv
<1>4. CASE CreateItem(x, b)
  BY <1>2, <1>3, <1>4, HeapTake DEF CreateItem
<1>5. CASE CreateString(x, b)
  <2>1. CASE Hold(NewValued(heap, x), x)
    BY <1>2, <1>3, <2>1, HeapTake
  <2>2. CASE heap' = Discard(NewItem(heap, x), x) /\ UNCHANGED <<roots, lost>>
    <3>1. Mine' = Mine /\ roots' \cap lost' = {}
      BY <1>2, <2>2 DEF Mine
    <3> QED BY <2>2, <3>1, HeapUndo DEF TreeInv
  <2> QED BY <1>5, <2>1, <2>2 DEF CreateString
<1> DEFINE n == NewItem(heap, x)
<1>6. /\ Shaped(n) /\ n.child \in [Items -> Pointers]
      /\ n.vstr \in [Items -> Pointers \cup {Lent}]
      /\ n.child[x] = Null /\ n.vstr[x] = Null
  <2>1. ListsHold(heap, Mine) /\ StringTypes(heap) /\ Forest(heap, Mine)
        /\ heap.child[x] = Null
    BY <1>2, HeapParts, FreeAlone
  <2> QED BY <1>2, <2>1 DEF StringTypes, Forest, NewItem, Shaped, Fields
<1>7. CASE CreateStringReference(x, b)
  <2>1. Hold([n EXCEPT !.refs = @ \cup {x}, !.vstr[x] = Lent], x)
    BY <1>7 DEF CreateStringReference
  <2>2. [n EXCEPT !.refs = @ \cup {x}, !.vstr[x] = Lent]
          = [n EXCEPT !.refs = @ \cup {x}, !.child[x] = Null, !.vstr[x] = Lent]
    <3> HIDE DEF n
    <3> QED BY <1>6 DEF Shaped, Fields
  <2> QED BY <1>3, <2>1, <2>2, HeapCite
<1>8. ASSUME NEW y \in heap.live, CreateListReference(x, y, b)
      PROVE  TreeInv'
  <2>1. Hold([n EXCEPT !.refs = @ \cup {x}, !.child[x] = y], x)
    BY <1>8 DEF CreateListReference
  <2>2. [n EXCEPT !.refs = @ \cup {x}, !.child[x] = y]
          = [n EXCEPT !.refs = @ \cup {x}, !.child[x] = y, !.vstr[x] = Null]
    <3> HIDE DEF n
    <3> QED BY <1>6 DEF Shaped, Fields
  <2> QED BY <1>3, <2>1, <2>2, HeapCite
<1> QED BY <1>1, <1>4, <1>5, <1>7, <1>8

\* What a call that takes x from the caller leaves.
LEMMA Given ==
  ASSUME TreeInv, NEW x \in roots, HeapInv(heap', Mine \ {x}),
         roots' = roots \ {x}, lost' = lost
  PROVE  TreeInv'
<1>1. Mine' = Mine \ {x} /\ roots' \cap lost' = {}
  BY Held DEF TreeInv, Mine
<1> QED BY <1>1 DEF TreeInv

\* What a call that takes nothing leaves.
LEMMA Stays ==
  ASSUME TreeInv, HeapInv(heap', Mine), roots' = roots, lost' = lost
  PROVE  TreeInv'
BY DEF TreeInv, Mine

LEMMA AddHolds ==
  ASSUME TreeInv, Add
  PROVE  TreeInv'
<1>1. PICK c \in heap.live, b \in Budgets :
        \/ \E x \in roots : AddItemToArray(c, x)
        \/ \E x \in roots, k \in Names, const \in BOOLEAN :
             AddItemToObject(c, k, x, const, b)
        \/ \E x \in Spare, k \in Names, valued \in BOOLEAN :
             AddXToObject(c, k, x, valued, b)
        \/ \E x \in heap.live, r \in Spare : AddItemReferenceToArray(c, x, r, b)
        \/ \E x \in heap.live, r \in Spare, k \in Names :
             AddItemReferenceToObject(c, k, x, r, b)
  BY Zenon DEF Add
<1>2. /\ HeapInv(heap, Mine) /\ roots \subseteq Mine /\ Mine \subseteq heap.live
      /\ heap.live \subseteq Items
      /\ FALSE \in BOOLEAN /\ TRUE \in BOOLEAN
  BY Held DEF TreeInv
<1>3. ASSUME NEW x \in roots, AddItemToArray(c, x)
      PROVE  TreeInv'
  <2>1. /\ MayLink(c, x) /\ heap' = AddLast(heap, c, x)
        /\ roots' = IF c = x THEN roots ELSE roots \ {x}
        /\ lost' = lost
    BY <1>3 DEF AddItemToArray
  <2>2. CASE c = x
    BY <1>2, <2>1, <2>2, Stays DEF AddLast
  <2>3. CASE c # x
    <3>1. HeapInv(heap', Mine \ {x})
      BY <1>2, <2>1, <2>3, Allowed, HeapAdd
    <3> QED BY <2>1, <2>3, <3>1, Given
  <2> QED BY <2>2, <2>3
<1>4. ASSUME NEW x \in roots, NEW k \in Names, NEW const \in BOOLEAN,
             AddItemToObject(c, k, x, const, b)
      PROVE  TreeInv'
  <2> DEFINE m == Rename(heap, x, k, const)
  <2>1. /\ MayLink(c, x) /\ c # x /\ heap' = AddLast(m, c, x)
        /\ roots' = roots \ {x} /\ lost' = lost
    BY <1>4 DEF AddItemToObject
  <2>2. HeapInv(m, Mine) /\ SameTree(heap, m)
    BY <1>2, HeapRename
  <2> HIDE DEF m
  <2>3. c \in heap.live \ heap.refs /\ c \notin Visited(heap, {x})
    BY <2>1, Allowed
  <2>4. c \in m.live \ m.refs /\ c \notin Visited(m, {x})
    BY <2>2, <2>3, WalksSame DEF SameTree
  <2>5. HeapInv(heap', Mine \ {x})
    BY <1>2, <2>1, <2>2, <2>4, HeapAdd
  <2> QED BY <2>1, <2>5, Given
<1>5. ASSUME NEW x \in Spare, NEW k \in Names, NEW valued \in BOOLEAN,
             AddXToObject(c, k, x, valued, b)
      PROVE  TreeInv'
  <2> DEFINE n == IF valued THEN NewValued(heap, x) ELSE NewItem(heap, x)
             m == Rename(n, x, k, FALSE)
  <2>1. /\ c \in heap.live \ heap.refs /\ roots' = roots /\ lost' = lost
        /\ heap' \in {AddLast(m, c, x), Discard(n, x)}
    BY <1>5 DEF AddXToObject, IsPlace
  <2>2. x \in Items \ heap.live /\ c # x
    BY Held
  <2>m. Mine = (Mine \cup {x}) \ {x}
    BY Held
  <2>3. n = NewItem(heap, x) \/ n = NewValued(heap, x)
    OBVIOUS
  <2> HIDE DEF n
  <2>4. /\ HeapInv(n, Mine \cup {x}) /\ n.live = heap.live \cup {x}
        /\ n.refs = heap.refs /\ Visited(n, {x}) = {x}
    <3>1. HeapInv(heap, Mine) /\ x \in Items \ heap.live /\ Shaped(heap)
      BY <1>2, <2>2, HeapParts
    <3>2. HeapInv(n, Mine \cup {x}) /\ Visited(n, {x}) = {x}
      BY <2>3, <3>1, HeapTake
    <3>3. n.live = heap.live \cup {x} /\ n.refs = heap.refs
      BY <2>3, <3>1 DEF NewItem, NewValued, Shaped, Fields
    <3> QED BY <3>2, <3>3
  <2>5. HeapInv(Discard(n, x), Mine)
    BY <2>3, HeapUndo
  <2>6. HeapInv(m, Mine \cup {x}) /\ SameTree(n, m)
    BY <1>2, <2>4, HeapRename
  <2> HIDE DEF m
  <2>7. c \in m.live \ m.refs /\ c \notin Visited(m, {x})
    BY <2>1, <2>2, <2>4, <2>6, WalksSame DEF SameTree
  <2>8. HeapInv(AddLast(m, c, x), (Mine \cup {x}) \ {x})
    BY <2>6, <2>7, HeapAdd
  <2> QED BY <2>1, <2>m, <2>5, <2>8, Stays
<1>6. ASSUME NEW x \in heap.live, NEW r \in Spare
      PROVE  LET g == Reference(heap, x, r)
             IN /\ HeapInv(g, Mine \cup {r})
                /\ g.live = heap.live \cup {r} /\ g.refs = heap.refs \cup {r}
                /\ Visited(g, {r}) = {r}
                /\ r \notin heap.live /\ Mine = (Mine \cup {r}) \ {r}
  <2>1. r \in Items \ heap.live
    BY Held
  <2>2. Mine = (Mine \cup {r}) \ {r}
    BY Held
  <2>3. LET g == Reference(heap, x, r)
        IN /\ HeapInv(g, Mine \cup {r})
           /\ g.live = heap.live \cup {r} /\ g.refs = heap.refs \cup {r}
           /\ Visited(g, {r}) = {r}
    <3> DEFINE g == Reference(heap, x, r)
    <3>1. HeapInv(heap, Mine) /\ Shaped(heap)
      BY <1>2, HeapParts
    <3>2. HeapInv(g, Mine \cup {r}) /\ Visited(g, {r}) = {r}
      BY <2>1, <3>1, HeapRefer
    <3>3. g.live = heap.live \cup {r} /\ g.refs = heap.refs \cup {r}
      BY <3>1 DEF Reference, NewItem, Shaped, Fields
    <3> QED BY <3>2, <3>3
  <2> QED BY <2>1, <2>2, <2>3
<1>7. ASSUME NEW x \in heap.live, NEW r \in Spare,
             AddItemReferenceToArray(c, x, r, b)
      PROVE  TreeInv'
  <2> DEFINE g == Reference(heap, x, r)
  <2>1. /\ c \in heap.live \ heap.refs /\ roots' = roots /\ lost' = lost
        /\ heap' = AddLast(g, c, r)
    BY <1>7 DEF AddItemReferenceToArray, IsPlace
  <2>2. /\ HeapInv(g, Mine \cup {r}) /\ g.live = heap.live \cup {r}
        /\ g.refs = heap.refs \cup {r} /\ r \notin heap.live
        /\ Visited(g, {r}) = {r} /\ Mine = (Mine \cup {r}) \ {r}
    BY <1>6
  <2> HIDE DEF g
  <2>3. c \in g.live \ g.refs /\ c \notin Visited(g, {r})
    BY <2>1, <2>2
  <2>4. HeapInv(AddLast(g, c, r), (Mine \cup {r}) \ {r})
    BY <2>2, <2>3, HeapAdd
  <2> QED BY <2>1, <2>2, <2>4, Stays
<1>8. ASSUME NEW x \in heap.live, NEW r \in Spare, NEW k \in Names,
             AddItemReferenceToObject(c, k, x, r, b)
      PROVE  TreeInv'
  <2> DEFINE g == Reference(heap, x, r)
             m == Rename(g, r, k, FALSE)
  <2>1. /\ c \in heap.live \ heap.refs /\ roots' = roots
        /\ \/ heap' = AddLast(m, c, r) /\ lost' = lost
           \/ heap' = g /\ lost' = lost \cup {r}
    BY <1>8 DEF AddItemReferenceToObject, IsPlace
  <2>2. /\ HeapInv(g, Mine \cup {r}) /\ g.live = heap.live \cup {r}
        /\ g.refs = heap.refs \cup {r} /\ r \notin heap.live
        /\ Visited(g, {r}) = {r} /\ Mine = (Mine \cup {r}) \ {r}
    BY <1>6
  <2> HIDE DEF g
  <2>3. HeapInv(m, Mine \cup {r}) /\ SameTree(g, m)
    BY <1>2, <2>2, HeapRename
  <2> HIDE DEF m
  <2>4. CASE heap' = AddLast(m, c, r) /\ lost' = lost
    <3>1. c \in m.live \ m.refs /\ c \notin Visited(m, {r})
      BY <2>1, <2>2, <2>3, WalksSame DEF SameTree
    <3>2. HeapInv(AddLast(m, c, r), (Mine \cup {r}) \ {r})
      BY <2>3, <3>1, HeapAdd
    <3> QED BY <2>1, <2>2, <2>4, <3>2, Stays
  <2>5. CASE heap' = g /\ lost' = lost \cup {r}
    <3>1. Mine' = Mine \cup {r} /\ roots' \cap lost' = {}
      BY <1>2, <2>1, <2>2, <2>5 DEF Mine, TreeInv
    <3> QED BY <2>2, <2>5, <3>1 DEF TreeInv
  <2> QED BY <2>1, <2>4, <2>5
<1> QED BY <1>1, <1>3, <1>4, <1>5, <1>7, <1>8

LEMMA TakeOutHolds ==
  ASSUME TreeInv, TakeOut
  PROVE  TreeInv'
<1>1. PICK c \in heap.live, x \in heap.live :
        \/ DetachItem(c, x)
        \/ DeleteItemFrom(c, x)
        \/ Delete(x)
  BY Zenon DEF TakeOut
<1>2. HeapInv(heap, Mine) /\ roots \subseteq Mine /\ roots \cap lost = {}
  BY Held DEF TreeInv
<1>3. CASE DetachItem(c, x)
  <2>1. /\ c \in heap.live \ heap.refs /\ x \in Listed(heap, c) \cup roots
        /\ heap' = Detach(heap, c, x) /\ roots' = roots \cup {x} /\ lost' = lost
    BY <1>3 DEF DetachItem, IsPlace, Hold
  <2>2. HeapInv(heap', Mine \cup {x})
    BY <1>2, <2>1, HeapDetach
  <2>3. x \notin lost
    <3>1. x \in Listed(heap, c) => x \notin Mine
      BY <1>2, <2>1, HeapParts, PlaceIs
    <3> QED BY <1>2, <2>1, <3>1 DEF Mine
  <2>4. Mine' = Mine \cup {x} /\ roots' \cap lost' = {}
    BY <1>2, <2>1, <2>3 DEF Mine
  <2> QED BY <2>2, <2>4 DEF TreeInv
<1>4. CASE DeleteItemFrom(c, x)
  <2>1. /\ c \in heap.live \ heap.refs /\ x \in Listed(heap, c) /\ MayDelete(x)
        /\ heap' = DeleteItems(Detach(heap, c, x), x)
        /\ roots' = roots /\ lost' = lost
    BY <1>4 DEF DeleteItemFrom, IsPlace
  <2>2. HeapInv(heap', Mine)
    BY <1>2, <2>1, Allowed, HeapTakeOut
  <2> QED BY <2>1, <2>2, Stays
<1>5. CASE Delete(x)
  <2>1. /\ x \in roots /\ MayDelete(x) /\ heap' = DeleteItems(heap, x)
        /\ roots' = roots \ {x} /\ lost' = lost
    BY <1>5 DEF Delete
  <2>2. Unshared(heap, Visited(heap, {x}))
    BY <2>1, Allowed
  <2>3. HeapInv(heap', Mine \ {x})
    BY <1>2, <2>1, <2>2, HeapDelete
  <2> QED BY <2>1, <2>3, Given
<1> QED BY <1>1, <1>3, <1>4, <1>5

LEMMA PlaceHolds ==
  ASSUME TreeInv, Place
  PROVE  TreeInv'
<1>1. PICK c \in heap.live, x \in roots :
        \/ \E y \in Listed(heap, c) : InsertItemInArray(c, y, x)
        \/ \E y \in Listed(heap, c) : ReplaceItem(c, y, x)
        \/ \E k \in Names, sensitive \in BOOLEAN, b \in Budgets :
             ReplaceItemInObject(c, k, x, sensitive, b)
  BY Zenon DEF Place
<1>2. /\ HeapInv(heap, Mine) /\ x \in Mine /\ x \in heap.live
      /\ FALSE \in BOOLEAN
  BY Held DEF TreeInv
<1>3. ASSUME NEW y \in Listed(heap, c), InsertItemInArray(c, y, x)
      PROVE  TreeInv'
  <2>1. /\ MayLink(c, x) /\ c # x /\ heap' = InsertBefore(heap, c, y, x)
        /\ roots' = roots \ {x} /\ lost' = lost
    BY <1>3 DEF InsertItemInArray
  <2>2. HeapInv(heap', Mine \ {x})
    BY <1>2, <2>1, Allowed, HeapInsert
  <2> QED BY <2>1, <2>2, Given
<1>4. ASSUME NEW y \in Listed(heap, c), ReplaceItem(c, y, x)
      PROVE  TreeInv'
  <2>1. /\ MayLink(c, x) /\ c # x /\ MayDelete(y)
        /\ heap' = Replace(heap, c, y, x)
        /\ roots' = roots \ {x} /\ lost' = lost
    BY <1>4 DEF ReplaceItem
  <2>2. HeapInv(heap', Mine \ {x})
    BY <1>2, <2>1, Allowed, HeapReplace
  <2> QED BY <2>1, <2>2, Given
<1>5. ASSUME NEW k \in Names, NEW sensitive \in BOOLEAN, NEW b \in Budgets,
             ReplaceItemInObject(c, k, x, sensitive, b)
      PROVE  TreeInv'
  <2> DEFINE f == Unnamed(heap, x)
             m == Rename(heap, x, k, FALSE)
             n == IF CanCopy(f, b) THEN m ELSE f
  <2>1. /\ MayLink(c, x) /\ c # x /\ lost' = lost
        /\ \/ heap' = n /\ roots' = roots
           \/ \E y \in Found(heap, c, k, sensitive) :
                /\ CanCopy(f, b)
                /\ MayDelete(y)
                /\ heap' = Replace(n, c, y, x)
                /\ roots' = roots \ {x}
    BY <1>5, Zenon DEF ReplaceItemInObject, Unnamed
  <2>2. HeapInv(f, Mine)
    BY <1>2, HeapUnname
  <2>3. HeapInv(m, Mine) /\ SameTree(heap, m)
    BY <1>2, HeapRename
  <2> HIDE DEF f, m
  <2>4. CASE heap' = n /\ roots' = roots
    BY <2>1, <2>2, <2>3, <2>4, Stays
  <2>5. ASSUME NEW y \in Found(heap, c, k, sensitive), CanCopy(f, b),
               MayDelete(y), heap' = Replace(n, c, y, x), roots' = roots \ {x}
        PROVE  TreeInv'
    <3>1. /\ c \in heap.live \ heap.refs /\ c \notin Visited(heap, {x})
          /\ y \in Listed(heap, c) /\ Unshared(heap, Subtree(heap, y))
      BY <2>1, <2>5, Allowed DEF Found
    <3>2. /\ m.live = heap.live /\ m.refs = heap.refs /\ m.vstr = heap.vstr
          /\ m.child = heap.child
          /\ Visited(m, {x}) = Visited(heap, {x})
          /\ Listed(m, c) = Listed(heap, c)
          /\ Subtree(m, y) = Subtree(heap, y)
      BY <2>3, WalksSame DEF SameTree
    <3>3. Unshared(m, Subtree(m, y))
      BY <3>1, <3>2 DEF Unshared
    <3>4. HeapInv(Replace(m, c, y, x), Mine \ {x})
      BY <1>2, <2>3, <3>1, <3>2, <3>3, HeapReplace
    <3> QED BY <2>1, <2>5, <3>4, Given
  <2> QED BY <2>1, <2>4, <2>5
<1> QED BY <1>1, <1>3, <1>4, <1>5

\* Nothing is allocated before the first call.
LEMMA FirstHeap ==
  ASSUME Init
  PROVE  TreeInv
<1>1. /\ Shaped(heap) /\ heap.live = {} /\ heap.refs = {} /\ heap.consts = {}
      /\ heap.key = Blank /\ heap.vstr = Blank /\ heap.strings = 0
      /\ heap.next = Blank /\ heap.prev = Blank /\ heap.child = Blank
      /\ heap.home = Blank
      /\ Mine = {} /\ roots \cap lost = {}
  BY DEF Init, Shaped, Fields, Mine
<1>2. KeyOwners(heap) = {} /\ ValueOwners(heap) = {}
  BY <1>1 DEF KeyOwners, ValueOwners
<1>3. Counted(heap)
  BY <1>1, <1>2, FS_EmptySet DEF Counted
<1>4. StringTypes(heap)
  BY <1>1 DEF StringTypes, Blank, Pointers
<1>5. Forest(heap, Mine)
  BY <1>1 DEF Forest, Blank, Pointers
<1>6. ListInv(heap)
  BY <1>1 DEF ListInv, EndsWell, Blank, Pointers
<1>7. Shares(heap) /\ Reached(heap, Mine)
  BY <1>1 DEF Shares, Reached, Blank
<1> QED BY <1>1, <1>3, <1>4, <1>5, <1>6, <1>7 DEF TreeInv, HeapInv, StringInv

\* Whatever is called: next and an owner's child lead to live items, to each
\* from one place; every list is one chain with its tail known; everything
\* allocated is reached from what the caller holds or what got lost; and every
\* string block has one owner.
THEOREM HeapInvariant == Spec => []TreeInv
<1>1. Init => TreeInv
  BY FirstHeap
<1>2. ASSUME TreeInv, [Next]_vars
      PROVE  TreeInv'
  <2>1. CASE Next
    BY <1>2, <2>1, CreateHolds, AddHolds, TakeOutHolds, PlaceHolds DEF Next
  <2>2. CASE UNCHANGED vars
    BY <1>2, <2>2 DEF vars, TreeInv, Mine
  <2> QED BY <1>2, <2>1, <2>2
<1> QED BY <1>1, <1>2, PTL DEF Spec

\* What the invariant says of the lists.
LEMMA HeapShape ==
  ASSUME NEW h, NEW R, HeapInv(h, R)
  PROVE  ListShapeOf(h)
<1>1. /\ ListsHold(h, R) /\ Forest(h, R) /\ ListInv(h)
      /\ h.live \subseteq Items /\ h.refs \subseteq h.live
      /\ Null \notin Items
  BY HeapParts, CellsAssumption
<1>2. \A c \in h.live \ h.refs : EndsWell(h, c)
  BY <1>1 DEF ListInv
<1>3. ASSUME NEW x \in h.live, h.next[x] # Null
      PROVE  /\ h.home[h.next[x]] = h.home[x]
             /\ h.prev[h.next[x]] = x
             /\ h.next[x] \notin Heads(h)
  BY <1>1, <1>3 DEF ListInv, Forest, Heads
<1>4. ASSUME NEW x \in h.live
      PROVE  IF h.home[x] = Null
             THEN h.next[x] = Null /\ h.prev[x] = Null
             ELSE h.home[x] \in h.live \ h.refs /\ x \in Listed(h, h.home[x])
  BY <1>1 DEF ListInv
<1> QED BY <1>1, <1>2, <1>3, <1>4 DEF ListShapeOf, EndsWell

LEMMA TreeShape ==
  ASSUME TreeInv
  PROVE  ListShape
BY HeapShape DEF TreeInv, ListShape

\* Every list is one chain from its head to its tail, the head knows the tail,
\* and an item is in at most one list, for any number of cells: what the next
\* append (cJSON.c:2028-2038) relies on.
THEOREM ListsAreChains == Spec => []ListShape
BY HeapInvariant, TreeShape, PTL

\* What it says of what can be reached.
LEMMA TreeReached ==
  ASSUME TreeInv
  PROVE  NothingLost
<1>1. /\ Forest(heap, Mine) /\ Reached(heap, Mine)
      /\ heap.live \subseteq Items /\ Mine \subseteq heap.live
  BY HeapParts DEF TreeInv
<1>2. /\ Mine \subseteq Visited(heap, Mine)
      /\ Visited(heap, Mine) \subseteq Items
      /\ Owned(heap, Visited(heap, Mine))
  BY <1>1, VisitedIs
<1>3. heap.live \subseteq Visited(heap, Mine)
  BY <1>1, <1>2 DEF Reached
<1>4. Owned(heap, heap.live)
  BY <1>1, LedTo, OwnedLed
<1>5. Visited(heap, Mine) \subseteq heap.live
  BY <1>1, <1>4, VisitedIs
<1> QED BY <1>3, <1>5 DEF NothingLost, Mine

\* What is allocated is what can be reached from what the caller holds and
\* from what AddItemReferenceToObject dropped, whichever allocation failed.
THEOREM AllIsReached == Spec => []NothingLost
BY HeapInvariant, TreeReached, PTL

\* What it says of where pointers lead.
LEMMA TreePoints ==
  ASSUME TreeInv
  PROVE  NoDangling
<1>1. ASSUME NEW x \in heap.live
      PROVE  {heap.next[x], heap.prev[x], heap.child[x], heap.vstr[x]}
               \subseteq heap.live \cup {Null, Lent}
  <2>1. /\ ListsHold(heap, Mine) /\ Forest(heap, Mine) /\ ListInv(heap)
        /\ Shares(heap) /\ x \in Items
    BY HeapParts DEF TreeInv
  <2>2. heap.next[x] \in heap.live \cup {Null}
    BY <2>1 DEF Forest
  <2>3. heap.child[x] \in heap.live \cup {Null}
    BY <2>1 DEF Forest, Shares
  <2>4. heap.vstr[x] \in heap.live \cup {Null, Lent}
    BY <2>1 DEF Shares
  <2>5. heap.prev[x] \in heap.live \cup {Null}
    <3>1. CASE heap.home[x] = Null
      BY <2>1, <3>1 DEF ListInv
    <3>2. CASE heap.home[x] # Null
      <4>1. /\ heap.home[x] \in heap.live \ heap.refs
            /\ x \in Listed(heap, heap.home[x])
        BY <2>1, <3>2 DEF ListInv
      <4>2. /\ heap.prev[x] \in Items
            /\ heap.home[heap.prev[x]] = heap.home[x]
        BY <2>1, <4>1, PlaceIs
      <4> QED BY <2>1, <3>2, <4>2, FreeAlone
    <3> QED BY <3>1, <3>2
  <2> QED BY <2>2, <2>3, <2>4, <2>5
<1> QED BY <1>1 DEF NoDangling

\* No next, prev, child or value of a live item leads to a freed one, for any
\* number of cells and any sequence of calls that MayDelete allows.
THEOREM NothingDangles == Spec => []NoDangling
BY HeapInvariant, TreePoints, PTL

\* What it says of the strings.
LEMMA TreeStrings ==
  ASSUME TreeInv
  PROVE  StringsOwned
BY DEF TreeInv, HeapInv, StringInv, Counted, StringsOwned, KeyOwners,
       ValueOwners

\* The string blocks that are allocated are those some item owns, for any
\* number of cells, strings and names.
THEOREM StringsBelong == Spec => []StringsOwned
BY HeapInvariant, TreeStrings, PTL

-----------------------------------------------------------------------------
(* Lists in order.                                                          *)

\* The naturals are well founded.
LEMMA LeastOne ==
  ASSUME NEW S \in SUBSET Nat, S # {}
  PROVE  \E m \in S : \A k \in S : m <= k
<1>1. PICK m \in S : \A k \in S : <<k, m>> \notin OpToRel(<, Nat)
  BY WFMin, NatLessThanWellFounded, Zenon
<1>2. \A k \in S : ~ (k < m)
  BY <1>1, Zenon DEF OpToRel
<1> QED BY <1>2

\* s has the items at home in c, each once, in the order of next.
Lined(h, c, s) ==
  /\ s \in Seq(Items)
  /\ \A i, j \in 1..Len(s) : s[i] = s[j] => i = j
  /\ \A z \in Items : h.home[z] = c <=> \E i \in 1..Len(s) : s[i] = z
  /\ h.child[c] = IF Len(s) = 0 THEN Null ELSE s[1]
  /\ \A i \in 1..Len(s) : h.next[s[i]] = IF i = Len(s) THEN Null ELSE s[i + 1]

\* The recursion of Chain.
Walks(h, c, n, f) ==
  f = [i \in 1..n |-> IF i = 1 THEN h.child[c] ELSE h.next[f[i - 1]]]

\* There is one walk of n steps.
LEMMA SameWalk ==
  ASSUME NEW h, NEW c, NEW n \in Nat, NEW s, NEW t,
         Walks(h, c, n, s), Walks(h, c, n, t)
  PROVE  s = t
<1> DEFINE Bad == {i \in 1..n : s[i] # t[i]}
<1>1. /\ s = [i \in 1..n |-> s[i]]
      /\ \A i \in 1..n : s[i] = IF i = 1 THEN h.child[c] ELSE h.next[s[i - 1]]
  BY Zenon DEF Walks
<1>2. /\ t = [i \in 1..n |-> t[i]]
      /\ \A i \in 1..n : t[i] = IF i = 1 THEN h.child[c] ELSE h.next[t[i - 1]]
  BY Zenon DEF Walks
<1>3. CASE Bad = {}
  <2>1. \A i \in 1..n : s[i] = t[i]
    BY <1>3
  <2>2. [i \in 1..n |-> s[i]] = [i \in 1..n |-> t[i]]
    BY <2>1
  <2> QED BY <1>1, <1>2, <2>2, Zenon
<1>4. CASE Bad # {}
  <2>1. Bad \in SUBSET Nat
    OBVIOUS
  <2>2. PICK m \in Bad : \A k \in Bad : m <= k
    BY <1>4, <2>1, LeastOne
  <2>3. m \in 1..n /\ s[m] # t[m]
    BY <2>2
  <2>4. m # 1
    BY <1>1, <1>2, <2>3
  <2>5. m - 1 \in 1..n /\ ~(m <= m - 1)
    BY <2>3, <2>4
  <2>6. s[m - 1] = t[m - 1]
    BY <2>2, <2>5
  <2>7. s[m] = h.next[s[m - 1]]
    BY <1>1, <2>3, <2>4
  <2>8. t[m] = h.next[t[m - 1]]
    BY <1>2, <2>3, <2>4
  <2> QED BY <2>3, <2>6, <2>7, <2>8
<1> QED BY <1>3, <1>4

\* s is the list that hangs from c, in the order of next; c may be its owner,
\* or a reference into it.
Listing(h, c, s) ==
  /\ s \in Seq(Items)
  /\ \A i, j \in 1..Len(s) : s[i] = s[j] => i = j
  /\ h.child[c] = IF Len(s) = 0 THEN Null ELSE s[1]
  /\ \A i \in 1..Len(s) : h.next[s[i]] = IF i = Len(s) THEN Null ELSE s[i + 1]

\* What next leads to from the first of s is s.
LEMMA ListingFrom ==
  ASSUME NEW h, NEW c, NEW s, Listing(h, c, s)
  PROVE  Listed(h, c) = ToSet(s)
<1>1. s \in Seq(Items) /\ Len(s) \in Nat /\ DOMAIN s = 1..Len(s)
      /\ \A i \in 1..Len(s) : s[i] \in Items
  BY DEF Listing
<1>2. \A z : z \in ToSet(s) <=> \E i \in 1..Len(s) : s[i] = z
  BY <1>1 DEF ToSet
<1>3. h.child[c] = (IF Len(s) = 0 THEN Null ELSE s[1])
  BY DEF Listing
<1>4. CASE Len(s) = 0
  <2>1. ToSet(s) = {}
    BY <1>2, <1>4
  <2> QED BY <1>3, <1>4, <2>1 DEF Listed
<1>5. CASE Len(s) # 0
  <2>1. 1 \in 1..Len(s)
    BY <1>1, <1>5
  <2>2. h.child[c] = s[1] /\ s[1] # Null
    BY <1>1, <1>3, <1>5, <2>1, CellsAssumption
  <2>3. /\ NextClosed(h, ToSet(s)) /\ ToSet(s) \in SUBSET Items
        /\ s[1] \in ToSet(s)
    <3>1. ASSUME NEW i \in 1..Len(s), h.next[s[i]] # Null
          PROVE  \E j \in 1..Len(s) : s[j] = h.next[s[i]]
      <4>1. h.next[s[i]] = IF i = Len(s) THEN Null ELSE s[i + 1]
        BY DEF Listing
      <4>2. i # Len(s) /\ h.next[s[i]] = s[i + 1]
        BY <3>1, <4>1
      <4>3. i + 1 \in 1..Len(s)
        <5>1. Len(s) \in Nat
          BY <1>1
        <5> QED BY <4>2, <5>1
      <4> QED BY <4>2, <4>3
    <3> QED BY <1>1, <1>2, <2>1, <3>1 DEF NextClosed
  <2>4. From(h, s[1]) \subseteq ToSet(s)
    BY <2>3 DEF From
  <2>5. ASSUME NEW S \in SUBSET Items, s[1] \in S, NextClosed(h, S)
        PROVE  \A i \in 1..Len(s) : s[i] \in S
    <3> DEFINE Bad == {i \in 1..Len(s) : s[i] \notin S}
    <3>1. SUFFICES ASSUME Bad # {} PROVE FALSE
      BY <1>1
    <3>2. Bad \in SUBSET Nat
      BY <1>1
    <3>3. PICK m \in Bad : \A i \in Bad : m <= i
      BY <3>1, <3>2, LeastOne
    <3>4. m \in 1..Len(s) /\ s[m] \notin S
      OBVIOUS
    <3>5. m # 1
      BY <2>5, <3>4
    <3>6. m - 1 \in 1..Len(s) /\ m - 1 # Len(s) /\ (m - 1) + 1 = m
          /\ ~(m <= m - 1)
      BY <1>1, <3>4, <3>5
    <3>7. s[m - 1] \in S
      BY <3>3, <3>6
    <3>8. h.next[s[m - 1]] = s[m]
      BY <3>6 DEF Listing
    <3>9. s[m] # Null
      BY <1>1, <3>4, CellsAssumption
    <3> QED BY <2>5, <3>4, <3>7, <3>8, <3>9 DEF NextClosed
  <2>6. ToSet(s) \subseteq From(h, s[1])
    BY <1>1, <1>2, <2>5 DEF From
  <2>7. Listed(h, c) = From(h, s[1])
    BY <2>2 DEF Listed
  <2> QED BY <2>4, <2>6, <2>7
<1> QED BY <1>1, <1>4, <1>5

\* Chain is that list.
LEMMA ListingIs ==
  ASSUME NEW h, NEW c, NEW s, Listing(h, c, s)
  PROVE  Listed(h, c) = ToSet(s) /\ Chain(h, c) = s
<1>1. s \in Seq(Items) /\ Len(s) \in Nat /\ DOMAIN s = 1..Len(s)
  BY DEF Listing
<1>4. Listed(h, c) = ToSet(s)
  BY ListingFrom
<1>5. s \in Bijection(1..Len(s), Listed(h, c))
  <2>1. s \in [1..Len(s) -> Listed(h, c)]
    BY <1>1, <1>4 DEF ToSet
  <2>2. s \in Injection(1..Len(s), Listed(h, c))
    BY <1>1, <2>1 DEF Injection, IsInjective, Listing
  <2>3. s \in Surjection(1..Len(s), Listed(h, c))
    BY <1>1, <1>4, <2>1 DEF Surjection, ToSet
  <2> QED BY <2>2, <2>3 DEF Bijection
<1>6. Cardinality(Listed(h, c)) = Len(s)
  <2>1. IsFiniteSet(1..Len(s)) /\ Cardinality(1..Len(s)) = Len(s)
    BY <1>1, FS_Interval
  <2>2. ExistsBijection(1..Len(s), Listed(h, c))
    BY <1>5 DEF ExistsBijection
  <2> QED BY <2>1, <2>2, FS_Bijection
<1>7. Walks(h, c, Len(s), s)
  <2>1. s \in [1..Len(s) -> Items]
    BY <1>1
  <2>2. s = [i \in 1..Len(s) |-> s[i]]
    BY <2>1, Zenon
  <2>3. ASSUME NEW i \in 1..Len(s)
        PROVE  s[i] = IF i = 1 THEN h.child[c] ELSE h.next[s[i - 1]]
    <3>1. CASE i = 1
      <4>1. h.child[c] = IF Len(s) = 0 THEN Null ELSE s[1]
        BY DEF Listing
      <4>2. Len(s) # 0
        BY <1>1
      <4> QED BY <3>1, <4>1, <4>2
    <3>2. CASE i # 1
      <4>1. i - 1 \in 1..Len(s) /\ i - 1 # Len(s) /\ (i - 1) + 1 = i
        BY <1>1, <3>2
      <4>2. h.next[s[i - 1]] = s[(i - 1) + 1]
        BY <4>1 DEF Listing
      <4> QED BY <3>2, <4>1, <4>2
    <3> QED BY <3>1, <3>2
  <2>4. [i \in 1..Len(s) |-> s[i]]
          = [i \in 1..Len(s) |-> IF i = 1 THEN h.child[c] ELSE h.next[s[i - 1]]]
    BY <2>3
  <2> QED BY <2>2, <2>4 DEF Walks
<1>8. Chain(h, c) = CHOOSE f : Walks(h, c, Len(s), f)
  BY <1>6 DEF Chain, Walks
<1>9. Walks(h, c, Len(s), Chain(h, c))
  BY <1>7, <1>8, Zenon
<1>10. Chain(h, c) = s
  BY <1>1, <1>7, <1>9, SameWalk
<1> QED BY <1>4, <1>10

\* Chain is the list in order.
LEMMA ChainIs ==
  ASSUME NEW h, NEW R, ListsHold(h, R), NEW c \in Items \ h.refs, NEW s,
         Lined(h, c, s)
  PROVE  Listed(h, c) = ToSet(s) /\ Chain(h, c) = s
<1>1. Listing(h, c, s)
  BY DEF Lined, Listing
<1> QED BY <1>1, ListingIs

\* The lists of all items.
KidsAre(h, k) ==
  /\ k \in [Items -> Seq(Items)]
  /\ \A c \in Items \ h.refs : Lined(h, c, k[c])
  /\ \A c \in Items \cap h.refs : k[c] = <<>>

KidsOf(h) == [c \in Items |-> IF c \in h.refs THEN <<>> ELSE Chain(h, c)]

\* Chain gives the lists of all items.
LEMMA KidsIs ==
  ASSUME NEW h, NEW R, ListsHold(h, R), NEW k, KidsAre(h, k)
  PROVE  k = KidsOf(h)
BY ChainIs DEF KidsAre, KidsOf

\* What the operators on sequences give, place by place.
LEMMA InsertedIs ==
  ASSUME NEW S, NEW s \in Seq(S), NEW i \in 1..(Len(s) + 1), NEW x \in S
  PROVE  LET t == InsertAt(s, i, x)
         IN /\ t \in Seq(S) /\ Len(t) = Len(s) + 1
            /\ \A j \in 1..Len(t) : t[j] = IF j < i THEN s[j]
                                           ELSE IF j = i THEN x ELSE s[j - 1]
<1> DEFINE a == SubSeq(s, 1, i - 1)
           b == SubSeq(s, i, Len(s))
<1>1. Len(s) \in Nat /\ \A j \in 1..Len(s) : s[j] \in S
  BY ElementOfSeq, LenProperties
<1>2. /\ a \in Seq(S) /\ Len(a) = i - 1
      /\ \A j \in 1..(i - 1) : a[j] = s[j]
  <2>1. \A j \in 1..(i - 1) : s[j] \in S
    BY <1>1
  <2> QED BY <1>1, <2>1, SubSeqProperties
<1>3. /\ b \in Seq(S) /\ Len(b) = Len(s) - i + 1
      /\ \A j \in 1..(Len(s) - i + 1) : b[j] = s[i + j - 1]
  <2>1. \A j \in i..Len(s) : s[j] \in S
    BY <1>1
  <2> QED BY <1>1, <2>1, SubSeqProperties
<1> HIDE DEF a, b
<1> DEFINE d == a \o <<x>>
<1>4. /\ d \in Seq(S) /\ Len(d) = i
      /\ \A j \in 1..i : d[j] = IF j < i THEN s[j] ELSE x
  <2>1. <<x>> \in Seq(S) /\ Len(<<x>>) = 1 /\ <<x>>[1] = x
    OBVIOUS
  <2>2. /\ d \in Seq(S) /\ Len(d) = Len(a) + Len(<<x>>)
        /\ \A j \in 1..(Len(a) + Len(<<x>>)) :
             d[j] = IF j <= Len(a) THEN a[j] ELSE <<x>>[j - Len(a)]
    BY <1>2, <2>1, ConcatProperties
  <2> QED BY <1>1, <1>2, <2>1, <2>2
<1> HIDE DEF d
<1> DEFINE t == d \o b
<1>5. /\ t \in Seq(S) /\ Len(t) = Len(d) + Len(b)
      /\ \A j \in 1..(Len(d) + Len(b)) :
           t[j] = IF j <= Len(d) THEN d[j] ELSE b[j - Len(d)]
  BY <1>3, <1>4, ConcatProperties
<1>6. InsertAt(s, i, x) = t
  BY DEF InsertAt, a, b, d
<1> HIDE DEF t
<1>7. ASSUME NEW j \in 1..Len(t)
      PROVE  t[j] = IF j < i THEN s[j] ELSE IF j = i THEN x ELSE s[j - 1]
  <2>1. CASE j <= i
    BY <1>1, <1>3, <1>4, <1>5, <2>1
  <2>2. CASE j > i
    <3>1. j - i \in 1..(Len(s) - i + 1) /\ i + (j - i) - 1 = j - 1
      BY <1>1, <1>3, <1>4, <1>5, <2>2
    <3>2. b[j - i] = s[j - 1]
      BY <1>3, <3>1
    <3> QED BY <1>1, <1>3, <1>4, <1>5, <2>2, <3>2
  <2> QED BY <1>1, <1>3, <1>4, <1>5, <2>1, <2>2
<1>8. Len(t) = Len(s) + 1
  BY <1>1, <1>3, <1>4, <1>5
<1> QED BY <1>5, <1>6, <1>7, <1>8

LEMMA RemovedIs ==
  ASSUME NEW S, NEW s \in Seq(S), NEW i \in 1..Len(s)
  PROVE  LET t == RemoveAt(s, i)
         IN /\ t \in Seq(S) /\ Len(t) = Len(s) - 1
            /\ \A j \in 1..Len(t) : t[j] = IF j < i THEN s[j] ELSE s[j + 1]
<1> DEFINE a == SubSeq(s, 1, i - 1)
           b == SubSeq(s, i + 1, Len(s))
           t == a \o b
<1>1. Len(s) \in Nat /\ \A j \in 1..Len(s) : s[j] \in S
  BY ElementOfSeq, LenProperties
<1>2. /\ a \in Seq(S) /\ Len(a) = i - 1
      /\ \A j \in 1..(i - 1) : a[j] = s[j]
  <2>1. \A j \in 1..(i - 1) : s[j] \in S
    BY <1>1
  <2> QED BY <1>1, <2>1, SubSeqProperties
<1>3. /\ b \in Seq(S) /\ Len(b) = Len(s) - i
      /\ \A j \in 1..(Len(s) - i) : b[j] = s[i + 1 + j - 1]
  <2>1. \A j \in (i + 1)..Len(s) : s[j] \in S
    BY <1>1
  <2>2. /\ b \in Seq(S)
        /\ Len(b) = IF i + 1 <= Len(s) THEN Len(s) - (i + 1) + 1 ELSE 0
        /\ \A j \in 1..(Len(s) - (i + 1) + 1) : b[j] = s[i + 1 + j - 1]
    BY <1>1, <2>1, SubSeqProperties
  <2> QED BY <1>1, <2>2
<1>4. RemoveAt(s, i) = t
  BY DEF RemoveAt
<1> HIDE DEF a, b
<1>5. /\ t \in Seq(S) /\ Len(t) = Len(a) + Len(b)
      /\ \A j \in 1..(Len(a) + Len(b)) :
           t[j] = IF j <= Len(a) THEN a[j] ELSE b[j - Len(a)]
  BY <1>2, <1>3, ConcatProperties
<1> HIDE DEF t
<1>6. ASSUME NEW j \in 1..Len(t)
      PROVE  t[j] = IF j < i THEN s[j] ELSE s[j + 1]
  <2>1. CASE j < i
    <3>1. j \in 1..(i - 1) /\ j <= Len(a) /\ j \in 1..(Len(a) + Len(b))
      BY <1>1, <1>2, <1>3, <1>5, <2>1
    <3>2. t[j] = a[j] /\ a[j] = s[j]
      BY <1>2, <1>5, <3>1
    <3> QED BY <2>1, <3>2
  <2>2. CASE j >= i
    <3>1. /\ j - (i - 1) \in 1..(Len(s) - i)
          /\ i + 1 + (j - (i - 1)) - 1 = j + 1
      BY <1>1, <1>2, <1>3, <1>5, <2>2, Z3
    <3>2. b[j - (i - 1)] = s[j + 1]
      BY <1>3, <3>1
    <3>3. ~(j <= Len(a)) /\ Len(a) = i - 1 /\ ~(j < i)
      BY <1>1, <1>2, <2>2
    <3>4. t[j] = b[j - Len(a)]
      BY <1>5, <3>3
    <3> QED BY <3>2, <3>3, <3>4
  <2> QED BY <1>1, <1>2, <1>3, <1>5, <2>1, <2>2
<1>7. Len(t) = Len(s) - 1
  BY <1>1, <1>2, <1>3, <1>5
<1> QED BY <1>4, <1>5, <1>6, <1>7

LEMMA ReplacedIs ==
  ASSUME NEW S, NEW s \in Seq(S), NEW i \in 1..Len(s), NEW x \in S
  PROVE  LET t == ReplaceAt(s, i, x)
         IN /\ t \in Seq(S) /\ Len(t) = Len(s)
            /\ \A j \in 1..Len(t) : t[j] = IF j = i THEN x ELSE s[j]
BY DEF ReplaceAt

\* A list that a call does not touch.
LEMMA LinedKept ==
  ASSUME NEW h, NEW g, NEW c, NEW s, Lined(h, c, s),
         g.child[c] = h.child[c],
         \A z \in Items : g.home[z] = c <=> h.home[z] = c,
         \A z \in Items : h.home[z] = c => g.next[z] = h.next[z]
  PROVE  Lined(g, c, s)
<1>1. s \in Seq(Items) /\ \A i \in 1..Len(s) : s[i] \in Items
  BY DEF Lined
<1>2. \A i \in 1..Len(s) : h.home[s[i]] = c
  BY <1>1 DEF Lined
<1>3. \A i \in 1..Len(s) : g.next[s[i]] = h.next[s[i]]
  BY <1>1, <1>2
<1> QED BY <1>1, <1>3 DEF Lined

\* x comes in at place i.
LEMMA LinedInsert ==
  ASSUME NEW h, NEW g, NEW c, NEW s, Lined(h, c, s),
         NEW i \in 1..(Len(s) + 1), NEW x \in Items, h.home[x] # c,
         \A z \in Items : g.home[z] = c <=> h.home[z] = c \/ z = x,
         g.child[c] = IF i = 1 THEN x ELSE h.child[c],
         g.next[x] = IF i = Len(s) + 1 THEN Null ELSE s[i],
         i > 1 => g.next[s[i - 1]] = x,
         \A j \in 1..Len(s) : j # i - 1 => g.next[s[j]] = h.next[s[j]]
  PROVE  Lined(g, c, InsertAt(s, i, x))
<1> DEFINE t == InsertAt(s, i, x)
<1>1. s \in Seq(Items) /\ \A j \in 1..Len(s) : s[j] \in Items
  BY DEF Lined
<1>2. /\ t \in Seq(Items) /\ Len(t) = Len(s) + 1
      /\ \A j \in 1..Len(t) : t[j] = IF j < i THEN s[j]
                                     ELSE IF j = i THEN x ELSE s[j - 1]
  BY <1>1, InsertedIs
<1> HIDE DEF t
<1>3. \A j \in 1..Len(s) : s[j] # x
  BY <1>1 DEF Lined
<1>4. \A j, k \in 1..Len(t) : t[j] = t[k] => j = k
  <2> SUFFICES ASSUME NEW j \in 1..Len(t), NEW k \in 1..Len(t), t[j] = t[k]
               PROVE  j = k
    OBVIOUS
  <2>1. \A m, n \in 1..Len(s) : s[m] = s[n] => m = n
    BY DEF Lined
  <2>2. \A m \in 1..Len(t) : m # i =>
          \E n \in 1..Len(s) :
            t[m] = s[n] /\ n = IF m < i THEN m ELSE m - 1
    BY <1>1, <1>2
  <2>3. j = i <=> k = i
    BY <1>2, <1>3, <2>2
  <2>4. CASE j # i
    <3>1. PICK m \in 1..Len(s) : t[j] = s[m] /\ m = IF j < i THEN j ELSE j - 1
      BY <2>2, <2>4
    <3>2. PICK n \in 1..Len(s) : t[k] = s[n] /\ n = IF k < i THEN k ELSE k - 1
      BY <2>2, <2>3, <2>4
    <3>3. m = n
      <4>1. s[m] = s[n]
        BY <3>1, <3>2
      <4> QED BY <2>1, <4>1
    <3> QED BY <2>3, <2>4, <3>1, <3>2, <3>3
  <2> QED BY <2>3, <2>4
<1>5. \A z \in Items : g.home[z] = c <=> \E j \in 1..Len(t) : t[j] = z
  <2> SUFFICES ASSUME NEW z \in Items
               PROVE  g.home[z] = c <=> \E j \in 1..Len(t) : t[j] = z
    OBVIOUS
  <2>1. ASSUME NEW j \in 1..Len(s) PROVE \E m \in 1..Len(t) : t[m] = s[j]
    <3>1. CASE j < i
      BY <1>1, <1>2, <3>1
    <3>2. CASE ~(j < i)
      <4>1. /\ j + 1 \in 1..Len(t) /\ ~(j + 1 < i) /\ j + 1 # i
            /\ (j + 1) - 1 = j
        BY <1>1, <1>2, <3>2
      <4> QED BY <1>2, <4>1
    <3> QED BY <3>1, <3>2
  <2>2. \E m \in 1..Len(t) : t[m] = x
    BY <1>1, <1>2
  <2>3. ASSUME NEW j \in 1..Len(t)
        PROVE  t[j] = x \/ \E m \in 1..Len(s) : s[m] = t[j]
    BY <1>1, <1>2
  <2>4. h.home[z] = c <=> \E j \in 1..Len(s) : s[j] = z
    BY DEF Lined
  <2>5. h.home[z] = c \/ z = x => \E j \in 1..Len(t) : t[j] = z
    BY <2>1, <2>2, <2>4
  <2>6. (\E j \in 1..Len(t) : t[j] = z) => h.home[z] = c \/ z = x
    BY <2>3, <2>4
  <2> QED BY <2>5, <2>6
<1>6. g.child[c] = IF Len(t) = 0 THEN Null ELSE t[1]
  <2>1. h.child[c] = IF Len(s) = 0 THEN Null ELSE s[1]
    BY DEF Lined
  <2> QED BY <1>1, <1>2, <2>1
<1>7. ASSUME NEW j \in 1..Len(t)
      PROVE  g.next[t[j]] = IF j = Len(t) THEN Null ELSE t[j + 1]
  <2>1. \A m \in 1..Len(s) :
          h.next[s[m]] = IF m = Len(s) THEN Null ELSE s[m + 1]
    BY DEF Lined
  <2>2. CASE j < i - 1
    BY <1>1, <1>2, <2>1, <2>2
  <2>3. CASE j = i - 1
    <3>1. i > 1 /\ t[j] = s[i - 1] /\ j # Len(t) /\ t[j + 1] = x
      BY <1>1, <1>2, <2>3
    <3> QED BY <3>1
  <2>4. CASE j = i
    BY <1>1, <1>2, <2>4
  <2>5. CASE j > i
    <3>1. j - 1 \in 1..Len(s) /\ j - 1 # i - 1 /\ t[j] = s[j - 1]
      BY <1>1, <1>2, <2>5
    <3>2. g.next[s[j - 1]] = h.next[s[j - 1]]
      BY <3>1
    <3>3. h.next[s[j - 1]] = IF j - 1 = Len(s) THEN Null ELSE s[(j - 1) + 1]
      BY <2>1, <3>1
    <3>4. j # Len(t) => t[j + 1] = s[j]
      BY <1>1, <1>2, <2>5
    <3> QED BY <1>1, <1>2, <3>1, <3>2, <3>3, <3>4
  <2> QED BY <1>1, <1>2, <2>2, <2>3, <2>4, <2>5
<1> QED BY <1>2, <1>4, <1>5, <1>6, <1>7 DEF Lined, t

\* The i-th item goes out.
LEMMA LinedRemove ==
  ASSUME NEW h, NEW g, NEW c, NEW s, Lined(h, c, s), NEW i \in 1..Len(s),
         \A z \in Items : g.home[z] = c <=> h.home[z] = c /\ z # s[i],
         g.child[c] = IF i = 1 THEN h.next[s[1]] ELSE h.child[c],
         i > 1 => g.next[s[i - 1]] = h.next[s[i]],
         \A j \in 1..Len(s) : j # i /\ j # i - 1 => g.next[s[j]] = h.next[s[j]]
  PROVE  Lined(g, c, RemoveAt(s, i))
<1> DEFINE t == RemoveAt(s, i)
<1>1. s \in Seq(Items) /\ \A j \in 1..Len(s) : s[j] \in Items
  BY DEF Lined
<1>2. /\ t \in Seq(Items) /\ Len(t) = Len(s) - 1
      /\ \A j \in 1..Len(t) : t[j] = IF j < i THEN s[j] ELSE s[j + 1]
  BY <1>1, RemovedIs
<1> HIDE DEF t
<1>3. \A j, k \in 1..Len(s) : s[j] = s[k] => j = k
  BY DEF Lined
<1>4. \A j, k \in 1..Len(t) : t[j] = t[k] => j = k
  <2> SUFFICES ASSUME NEW j \in 1..Len(t), NEW k \in 1..Len(t), t[j] = t[k]
               PROVE  j = k
    OBVIOUS
  <2> DEFINE p(m) == IF m < i THEN m ELSE m + 1
  <2>1. \A m \in 1..Len(t) : p(m) \in 1..Len(s) /\ t[m] = s[p(m)]
    BY <1>1, <1>2
  <2>2. p(j) = p(k)
    <3> HIDE DEF p
    <3> QED BY <1>3, <2>1
  <2> QED BY <1>1, <1>2, <2>2
<1>5. \A z \in Items : g.home[z] = c <=> \E j \in 1..Len(t) : t[j] = z
  <2> SUFFICES ASSUME NEW z \in Items
               PROVE  g.home[z] = c <=> \E j \in 1..Len(t) : t[j] = z
    OBVIOUS
  <2>1. ASSUME NEW j \in 1..Len(s), j # i
        PROVE \E m \in 1..Len(t) : t[m] = s[j]
    <3>1. CASE j < i
      BY <1>1, <1>2, <3>1
    <3>2. CASE ~(j < i)
      <4>1. j - 1 \in 1..Len(t) /\ ~(j - 1 < i) /\ (j - 1) + 1 = j
        BY <1>1, <1>2, <2>1, <3>2
      <4> QED BY <1>2, <4>1
    <3> QED BY <3>1, <3>2
  <2>2. ASSUME NEW j \in 1..Len(t)
        PROVE  \E m \in 1..Len(s) : m # i /\ s[m] = t[j]
    BY <1>1, <1>2
  <2>3. h.home[z] = c <=> \E j \in 1..Len(s) : s[j] = z
    BY DEF Lined
  <2>4. \A j \in 1..Len(s) : s[j] = s[i] <=> j = i
    BY <1>3
  <2>5. g.home[z] = c <=> \E j \in 1..Len(s) : j # i /\ s[j] = z
    BY <2>3, <2>4
  <2> QED BY <2>1, <2>2, <2>5
<1>6. \A m \in 1..Len(s) : h.next[s[m]] = IF m = Len(s) THEN Null ELSE s[m + 1]
  BY DEF Lined
<1>7. g.child[c] = IF Len(t) = 0 THEN Null ELSE t[1]
  <2>1. h.child[c] = s[1]
    BY <1>1 DEF Lined
  <2> QED BY <1>1, <1>2, <1>6, <2>1
<1>8. ASSUME NEW j \in 1..Len(t)
      PROVE  g.next[t[j]] = IF j = Len(t) THEN Null ELSE t[j + 1]
  <2>1. CASE j < i - 1
    BY <1>1, <1>2, <1>6, <2>1
  <2>2. CASE j = i - 1
    BY <1>1, <1>2, <1>6, <2>2
  <2>3. CASE j >= i
    <3>1. /\ j + 1 \in 1..Len(s) /\ j + 1 # i /\ j + 1 # i - 1
          /\ t[j] = s[j + 1]
      BY <1>1, <1>2, <2>3
    <3>2. g.next[s[j + 1]] = h.next[s[j + 1]]
      BY <3>1
    <3>3. h.next[s[j + 1]] = IF j + 1 = Len(s) THEN Null ELSE s[(j + 1) + 1]
      BY <1>6, <3>1
    <3>4. j # Len(t) => t[j + 1] = s[(j + 1) + 1]
      BY <1>1, <1>2, <2>3
    <3> QED BY <1>1, <1>2, <3>1, <3>2, <3>3, <3>4
  <2> QED BY <1>1, <1>2, <2>1, <2>2, <2>3
<1> QED BY <1>2, <1>4, <1>5, <1>7, <1>8 DEF Lined, t

\* x takes the place of the i-th item.
TakesPlace(h, g, c, s, i, x) ==
  /\ h.home[x] # c
  /\ \A z \in Items : g.home[z] = c <=> (h.home[z] = c /\ z # s[i]) \/ z = x
  /\ g.child[c] = IF i = 1 THEN x ELSE h.child[c]
  /\ g.next[x] = h.next[s[i]]
  /\ i > 1 => g.next[s[i - 1]] = x
  /\ \A j \in 1..Len(s) : j # i /\ j # i - 1 => g.next[s[j]] = h.next[s[j]]

LEMMA LinedReplace ==
  ASSUME NEW h, NEW g, NEW c, NEW s, Lined(h, c, s), NEW i \in 1..Len(s),
         NEW x \in Items, TakesPlace(h, g, c, s, i, x)
  PROVE  Lined(g, c, ReplaceAt(s, i, x))
<1> USE DEF TakesPlace
<1> DEFINE t == ReplaceAt(s, i, x)
<1>1. s \in Seq(Items) /\ \A j \in 1..Len(s) : s[j] \in Items
  BY DEF Lined
<1>2. /\ t \in Seq(Items) /\ Len(t) = Len(s)
      /\ \A j \in 1..Len(t) : t[j] = IF j = i THEN x ELSE s[j]
  BY <1>1, ReplacedIs
<1> HIDE DEF t
<1>3. /\ \A j, k \in 1..Len(s) : s[j] = s[k] => j = k
      /\ \A j \in 1..Len(s) : s[j] # x
  BY <1>1 DEF Lined
<1>4. \A j, k \in 1..Len(t) : t[j] = t[k] => j = k
  BY <1>1, <1>2, <1>3
<1>5. \A z \in Items : g.home[z] = c <=> \E j \in 1..Len(t) : t[j] = z
  <2> SUFFICES ASSUME NEW z \in Items
               PROVE  g.home[z] = c <=> \E j \in 1..Len(t) : t[j] = z
    OBVIOUS
  <2>1. h.home[z] = c <=> \E j \in 1..Len(s) : s[j] = z
    BY DEF Lined
  <2> QED BY <1>1, <1>2, <1>3, <2>1
<1>6. \A m \in 1..Len(s) : h.next[s[m]] = IF m = Len(s) THEN Null ELSE s[m + 1]
  BY DEF Lined
<1>7. g.child[c] = IF Len(t) = 0 THEN Null ELSE t[1]
  <2>1. h.child[c] = s[1]
    BY <1>1 DEF Lined
  <2> QED BY <1>1, <1>2, <2>1
<1>8. ASSUME NEW j \in 1..Len(t)
      PROVE  g.next[t[j]] = IF j = Len(t) THEN Null ELSE t[j + 1]
  <2>1. CASE j = i
    BY <1>1, <1>2, <1>6, <2>1
  <2>2. CASE j = i - 1
    BY <1>1, <1>2, <1>6, <2>2
  <2>3. CASE j # i /\ j # i - 1
    BY <1>1, <1>2, <1>6, <2>3
  <2> QED BY <2>1, <2>2, <2>3
<1> QED BY <1>2, <1>4, <1>5, <1>7, <1>8 DEF Lined, t

\* Where an item is in its list.
LEMMA PlaceOf ==
  ASSUME NEW h, NEW R, ListsHold(h, R), NEW k, KidsAre(h, k),
         NEW c \in Items \ h.refs, NEW y \in Listed(h, c)
  PROVE  \E i \in 1..Len(k[c]) : k[c][i] = y
<1>1. Lined(h, c, k[c])
  BY DEF KidsAre
<1>2. ToSet(k[c]) = Listed(h, c) /\ k[c] \in Seq(Items)
  BY <1>1, ChainIs DEF Lined
<1> QED BY <1>2 DEF ToSet

\* Who is not in the list of c has another home.
Elsewhere(h, g, c, X) ==
  /\ g.refs = h.refs
  /\ \A z \in X : h.home[z] \in {c, Null} /\ g.home[z] \in {c, Null}
  /\ \A z \in Items \ X :
       /\ g.home[z] = h.home[z]
       /\ h.home[z] # c => g.next[z] = h.next[z]
  /\ \A z \in Items \ {c} : g.child[z] = h.child[z]

LEMMA OtherLists ==
  ASSUME NEW h, NEW g, NEW k, KidsAre(h, k), NEW c \in Items \ h.refs, NEW t,
         Lined(g, c, t), NEW X \in SUBSET Items, Elsewhere(h, g, c, X)
  PROVE  KidsAre(g, [k EXCEPT ![c] = t])
<1> USE DEF Elsewhere
<1>1. t \in Seq(Items) /\ Null \notin Items
  BY CellsAssumption DEF Lined
<1> DEFINE m == [k EXCEPT ![c] = t]
<1>2. /\ m \in [Items -> Seq(Items)] /\ m[c] = t
      /\ \A d \in Items \ {c} : m[d] = k[d]
  BY <1>1 DEF KidsAre
<1> HIDE DEF m
<1>3. ASSUME NEW d \in Items \ g.refs, d # c PROVE Lined(g, d, m[d])
  <2>1. Lined(h, d, k[d]) /\ m[d] = k[d] /\ d # Null
    BY <1>1, <1>2, <1>3 DEF KidsAre
  <2>2. \A z \in Items : g.home[z] = d <=> h.home[z] = d
    BY <1>1, <1>3, <2>1
  <2>3. \A z \in Items : h.home[z] = d => g.next[z] = h.next[z]
    BY <1>1, <1>3, <2>1
  <2> QED BY <1>3, <2>1, <2>2, <2>3, LinedKept
<1> QED BY <1>2, <1>3 DEF KidsAre, m

\* add_item_to_array puts x last.
LEMMA KidsAdd ==
  ASSUME NEW h, NEW R, ListsHold(h, R), NEW k, KidsAre(h, k),
         NEW a \in h.live \ h.refs, NEW x \in R, a # x
  PROVE  KidsAre(AddLast(h, a, x),
                 [k EXCEPT ![a] = InsertAt(k[a], Len(k[a]) + 1, x)])
<1> DEFINE g == AddLast(h, a, x)
           head == h.child[a]
           p == h.prev[head]
           s == k[a]
           n == Len(s)
<1>1. /\ g.live = h.live /\ g.refs = h.refs
      /\ a \in Items \ h.refs /\ x \in Items
      /\ h.home[x] = Null /\ h.next[x] = Null
      /\ g.home[x] = a /\ \A z \in Items \ {x} : g.home[z] = h.home[z]
      /\ head = Null =>
           /\ g.next = h.next
           /\ g.child[a] = x
           /\ \A z \in Items \ {a} : g.child[z] = h.child[z]
      /\ head # Null =>
           /\ p \in Items \ {x} /\ h.home[p] = a /\ h.next[p] = Null
           /\ g.next[p] = x
           /\ \A z \in Items \ {p} : g.next[z] = h.next[z]
           /\ g.child = h.child
  BY AddLastGoes
<1> HIDE DEF g
<1>2. Lined(h, a, s) /\ Null \notin Items /\ a # Null
  BY <1>1, CellsAssumption DEF KidsAre
<1>3. /\ s \in Seq(Items) /\ n \in Nat /\ n + 1 \in 1..(n + 1)
      /\ \A i \in 1..n : s[i] \in Items
  BY <1>2 DEF Lined
<1>4. \A i \in 1..n : h.next[s[i]] = IF i = n THEN Null ELSE s[i + 1]
  BY <1>2 DEF Lined
<1>5. head = IF n = 0 THEN Null ELSE s[1]
  BY <1>2 DEF Lined
<1>6. n # 0 => head # Null
  BY <1>2, <1>3, <1>5
<1>7. n # 0 => p = s[n]
  <2> SUFFICES ASSUME n # 0 PROVE p = s[n]
    OBVIOUS
  <2>1. PICK i \in 1..n : s[i] = p
    BY <1>1, <1>2, <1>6 DEF Lined
  <2>2. i # n => i + 1 \in 1..n /\ h.next[p] = s[i + 1]
    BY <1>3, <1>4, <2>1
  <2>3. i = n
    BY <1>1, <1>2, <1>3, <1>6, <2>2
  <2> QED BY <2>1, <2>3
<1>8. \A i, j \in 1..n : s[i] = s[j] => i = j
  BY <1>2 DEF Lined
<1>9. Lined(g, a, InsertAt(s, n + 1, x))
  <2>1. \A z \in Items : g.home[z] = a <=> h.home[z] = a \/ z = x
    BY <1>1
  <2>2. g.child[a] = IF n + 1 = 1 THEN x ELSE head
    BY <1>1, <1>3, <1>5, <1>6
  <2>3. g.next[x] = IF n + 1 = n + 1 THEN Null ELSE s[n + 1]
    BY <1>1
  <2>4. n + 1 > 1 => g.next[s[(n + 1) - 1]] = x
    BY <1>1, <1>3, <1>6, <1>7
  <2>5. \A j \in 1..n : j # (n + 1) - 1 => g.next[s[j]] = h.next[s[j]]
    BY <1>1, <1>3, <1>6, <1>7, <1>8
  <2>6. h.home[x] # a
    BY <1>1, <1>2
  <2> HIDE DEF n, s, head
  <2> QED BY <1>1, <1>2, <1>3, <2>1, <2>2, <2>3, <2>4, <2>5, <2>6, LinedInsert
             DEF n, head
<1>10. Elsewhere(h, g, a, {x})
  BY <1>1 DEF Elsewhere
<1> DEFINE t == InsertAt(s, n + 1, x)
<1> HIDE DEF t
<1>11. KidsAre(g, [k EXCEPT ![a] = t])
  <2>1. Lined(g, a, t)
    BY <1>9 DEF t
  <2>2. {x} \in SUBSET Items
    BY <1>1
  <2> QED BY <1>1, <1>10, <2>1, <2>2, OtherLists
<1> QED BY <1>11 DEF g, s, n, t

\* cJSON_DetachItemViaPointer takes out the i-th item.
LEMMA KidsDetach ==
  ASSUME NEW h, NEW R, ListsHold(h, R), NEW k, KidsAre(h, k),
         NEW c \in h.live \ h.refs, NEW i \in 1..Len(k[c])
  PROVE  KidsAre(Detach(h, c, k[c][i]), [k EXCEPT ![c] = RemoveAt(k[c], i)])
<1> DEFINE s == k[c]
           x == s[i]
           g == Detach(h, c, x)
           head == h.child[c]
           n == h.next[x]
           p == h.prev[x]
<1>1. c \in Items \ h.refs /\ Null \notin Items /\ c # Null
  BY CellsAssumption DEF ListsHold, StringTypes
<1>2. Lined(h, c, s) /\ Listed(h, c) = ToSet(s) /\ s \in Seq(Items)
  BY <1>1, ChainIs DEF KidsAre
<1>3. /\ x \in Listed(h, c)
      /\ Len(s) \in Nat /\ \A j \in 1..Len(s) : s[j] \in Items
  BY <1>2 DEF ToSet
<1> HIDE DEF x, g
<1>4. /\ g.live = h.live /\ g.refs = h.refs
      /\ g.home[x] = Null /\ \A z \in Items \ {x} : g.home[z] = h.home[z]
      /\ g.next[x] = Null
      /\ x = head => /\ \A z \in Items \ {x} : g.next[z] = h.next[z]
                     /\ g.child[c] = n
                     /\ \A z \in Items \ {c} : g.child[z] = h.child[z]
      /\ x # head => /\ g.next[p] = n
                     /\ \A z \in Items \ {x, p} : g.next[z] = h.next[z]
                     /\ g.child = h.child
  BY <1>3, DetachGoes DEF g
<1>5. /\ x \in Items /\ h.home[x] = c /\ p \in Items
      /\ x # head => h.home[p] = c /\ h.next[p] = x
      /\ \A z \in Items : h.next[z] = x => z = p
  BY <1>3, PlaceIs
<1>6. \A j, m \in 1..Len(s) : s[j] = s[m] => j = m
  BY <1>2 DEF Lined
<1>7. head = s[1] /\ \A j \in 1..Len(s) :
                       h.next[s[j]] = IF j = Len(s) THEN Null ELSE s[j + 1]
  BY <1>2, <1>3 DEF Lined
<1>8. i = 1 <=> x = head
  BY <1>3, <1>6, <1>7 DEF x
<1>9. i > 1 => p = s[i - 1]
  <2>1. i > 1 => i - 1 \in 1..Len(s) /\ i - 1 # Len(s) /\ (i - 1) + 1 = i
    BY <1>3
  <2>2. i > 1 => h.next[s[i - 1]] = x /\ s[i - 1] \in Items
    BY <1>3, <1>7, <2>1 DEF x
  <2> QED BY <1>5, <2>2
<1>10. Lined(g, c, RemoveAt(s, i))
  <2>1. \A z \in Items : g.home[z] = c <=> h.home[z] = c /\ z # s[i]
    BY <1>1, <1>4 DEF x
  <2>2. g.child[c] = IF i = 1 THEN h.next[s[1]] ELSE h.child[c]
    BY <1>4, <1>7, <1>8
  <2>3. i > 1 => g.next[s[i - 1]] = h.next[s[i]]
    BY <1>4, <1>8, <1>9 DEF x
  <2>4. ASSUME NEW j \in 1..Len(s), j # i, j # i - 1
        PROVE  g.next[s[j]] = h.next[s[j]]
    <3>1. s[j] # x /\ s[j] \in Items
      BY <1>3, <1>6, <2>4 DEF x
    <3>2. i > 1 => s[j] # p
      BY <1>3, <1>6, <1>9, <2>4
    <3> QED BY <1>3, <1>4, <1>8, <3>1, <3>2
  <2>5. i \in 1..Len(s)
    OBVIOUS
  <2>6. \A j \in 1..Len(s) : j # i /\ j # i - 1 => g.next[s[j]] = h.next[s[j]]
    BY <2>4
  <2>7. Lined(h, c, s)
    BY <1>2
  <2> HIDE DEF s
  <2> QED BY ONLY <2>1, <2>2, <2>3, <2>5, <2>6, <2>7, LinedRemove
<1>11. Elsewhere(h, g, c, {x})
  BY <1>4, <1>5 DEF Elsewhere
<1> DEFINE t == RemoveAt(s, i)
<1> HIDE DEF t
<1>12. KidsAre(g, [k EXCEPT ![c] = t])
  <2>1. Lined(g, c, t)
    BY <1>10 DEF t
  <2>2. {x} \in SUBSET Items
    BY <1>5
  <2> QED BY <1>1, <1>11, <2>1, <2>2, OtherLists
<1> QED BY <1>12 DEF g, s, x, t

\* cJSON_InsertItemInArray puts x before the i-th item.
LEMMA KidsInsert ==
  ASSUME NEW h, NEW R, ListsHold(h, R), NEW k, KidsAre(h, k),
         NEW c \in h.live \ h.refs, NEW i \in 1..Len(k[c]), NEW x \in R
  PROVE  KidsAre(InsertBefore(h, c, k[c][i], x),
                 [k EXCEPT ![c] = InsertAt(k[c], i, x)])
<1> DEFINE s == k[c]
           y == s[i]
           g == InsertBefore(h, c, y, x)
           head == h.child[c]
           p == h.prev[y]
<1>1. c \in Items \ h.refs /\ Null \notin Items /\ c # Null
  BY CellsAssumption DEF ListsHold, StringTypes
<1>2. Lined(h, c, s) /\ Listed(h, c) = ToSet(s) /\ s \in Seq(Items)
  BY <1>1, ChainIs DEF KidsAre
<1>3. /\ y \in Listed(h, c)
      /\ Len(s) \in Nat /\ \A j \in 1..Len(s) : s[j] \in Items
  BY <1>2 DEF ToSet
<1> HIDE DEF y, g
<1>4. /\ g.live = h.live /\ g.refs = h.refs
      /\ x \in Items /\ h.home[x] = Null /\ h.next[x] = Null
      /\ x # y /\ x # head /\ x # p
      /\ g.home[x] = c /\ \A z \in Items \ {x} : g.home[z] = h.home[z]
      /\ g.next[x] = y
      /\ y = head => /\ \A z \in Items \ {x} : g.next[z] = h.next[z]
                     /\ g.child[c] = x
                     /\ \A z \in Items \ {c} : g.child[z] = h.child[z]
      /\ y # head => /\ g.next[p] = x
                     /\ \A z \in Items \ {x, p} : g.next[z] = h.next[z]
                     /\ g.child = h.child
  BY <1>3, InsertGoes DEF g
<1>5. /\ y \in Items /\ h.home[y] = c /\ p \in Items
      /\ y # head => h.home[p] = c /\ h.next[p] = y
      /\ \A z \in Items : h.next[z] = y => z = p
  BY <1>3, PlaceIs
<1>6. \A j, m \in 1..Len(s) : s[j] = s[m] => j = m
  BY <1>2 DEF Lined
<1>7. head = s[1] /\ \A j \in 1..Len(s) :
                       h.next[s[j]] = IF j = Len(s) THEN Null ELSE s[j + 1]
  BY <1>2, <1>3 DEF Lined
<1>8. i = 1 <=> y = head
  BY <1>3, <1>6, <1>7 DEF y
<1>9. i > 1 => p = s[i - 1]
  <2>1. i > 1 => i - 1 \in 1..Len(s) /\ i - 1 # Len(s) /\ (i - 1) + 1 = i
    BY <1>3
  <2>2. i > 1 => h.next[s[i - 1]] = y /\ s[i - 1] \in Items
    BY <1>3, <1>7, <2>1 DEF y
  <2> QED BY <1>5, <2>2
<1>10. Lined(g, c, InsertAt(s, i, x))
  <2>1. \A z \in Items : g.home[z] = c <=> h.home[z] = c \/ z = x
    BY <1>1, <1>4
  <2>2. g.child[c] = IF i = 1 THEN x ELSE h.child[c]
    BY <1>4, <1>7, <1>8
  <2>3. i > 1 => g.next[s[i - 1]] = x
    BY <1>4, <1>8, <1>9
  <2>4. ASSUME NEW j \in 1..Len(s), j # i - 1
        PROVE  g.next[s[j]] = h.next[s[j]]
    <3>1. s[j] \in Items /\ h.home[s[j]] = c
      BY <1>2, <1>3 DEF Lined
    <3>2. s[j] # x
      BY <1>1, <1>4, <3>1
    <3>3. i > 1 => s[j] # p
      BY <1>3, <1>6, <1>9, <2>4
    <3> QED BY <1>3, <1>4, <1>8, <3>1, <3>2, <3>3
  <2>5. i \in 1..(Len(s) + 1) /\ i # Len(s) + 1
    BY <1>3
  <2>6. \A j \in 1..Len(s) : j # i - 1 => g.next[s[j]] = h.next[s[j]]
    BY <2>4
  <2>7. Lined(h, c, s)
    BY <1>2
  <2>8. g.next[x] = IF i = Len(s) + 1 THEN Null ELSE s[i]
    BY <1>4, <2>5 DEF y
  <2>9. x \in Items /\ h.home[x] # c
    BY <1>1, <1>4
  <2> HIDE DEF s
  <2> QED BY ONLY <2>1, <2>2, <2>3, <2>5, <2>6, <2>7, <2>8, <2>9,
                  LinedInsert, SMTT(20)
<1>11. Elsewhere(h, g, c, {x})
  BY <1>4, <1>5 DEF Elsewhere
<1> DEFINE t == InsertAt(s, i, x)
<1> HIDE DEF t
<1>12. KidsAre(g, [k EXCEPT ![c] = t])
  <2>1. Lined(g, c, t)
    BY <1>10 DEF t
  <2>2. {x} \in SUBSET Items
    BY <1>4
  <2> QED BY <1>1, <1>11, <2>1, <2>2, OtherLists
<1> QED BY <1>12 DEF g, s, y, t

\* cJSON_ReplaceItemViaPointer, before what was replaced is deleted.
LEMMA KidsSwap ==
  ASSUME NEW h, NEW R, ListsHold(h, R), NEW k, KidsAre(h, k),
         NEW c \in h.live \ h.refs, NEW i \in 1..Len(k[c]), NEW x \in R
  PROVE  KidsAre(Swapped(h, c, k[c][i], x),
                 [k EXCEPT ![c] = ReplaceAt(k[c], i, x)])
<1> DEFINE s == k[c]
           y == s[i]
           g == Swapped(h, c, y, x)
           head == h.child[c]
           n == h.next[y]
           p == h.prev[y]
<1>1. c \in Items \ h.refs /\ Null \notin Items /\ c # Null
  BY CellsAssumption DEF ListsHold, StringTypes
<1>2. Lined(h, c, s) /\ Listed(h, c) = ToSet(s) /\ s \in Seq(Items)
  BY <1>1, ChainIs DEF KidsAre
<1>3. /\ y \in Listed(h, c)
      /\ Len(s) \in Nat /\ \A j \in 1..Len(s) : s[j] \in Items
  BY <1>2 DEF ToSet
<1> HIDE DEF y, g
<1>4. /\ g.live = h.live /\ g.refs = h.refs
      /\ x \in Items /\ h.home[x] = Null /\ h.next[x] = Null
      /\ x # y /\ x # head /\ x # p
      /\ g.home[x] = c /\ g.home[y] = Null
      /\ \A z \in Items \ {x, y} : g.home[z] = h.home[z]
      /\ g.next[x] = n
      /\ y = head => /\ \A z \in Items \ {x, y} : g.next[z] = h.next[z]
                     /\ g.child[c] = x
                     /\ \A z \in Items \ {c} : g.child[z] = h.child[z]
      /\ y # head => /\ g.next[p] = x
                     /\ \A z \in Items \ {x, y, p} : g.next[z] = h.next[z]
                     /\ g.child = h.child
  BY <1>3, SwapGoes DEF g
<1>5. /\ y \in Items /\ h.home[y] = c /\ p \in Items
      /\ y # head => h.home[p] = c /\ h.next[p] = y
      /\ \A z \in Items : h.next[z] = y => z = p
  BY <1>3, PlaceIs
<1>6. \A j, m \in 1..Len(s) : s[j] = s[m] => j = m
  BY <1>2 DEF Lined
<1>7. head = s[1] /\ \A j \in 1..Len(s) :
                       h.next[s[j]] = IF j = Len(s) THEN Null ELSE s[j + 1]
  BY <1>2, <1>3 DEF Lined
<1>8. i = 1 <=> y = head
  BY <1>3, <1>6, <1>7 DEF y
<1>9. i > 1 => p = s[i - 1]
  <2>1. i > 1 => i - 1 \in 1..Len(s) /\ i - 1 # Len(s) /\ (i - 1) + 1 = i
    BY <1>3
  <2>2. i > 1 => h.next[s[i - 1]] = y /\ s[i - 1] \in Items
    BY <1>3, <1>7, <2>1 DEF y
  <2> QED BY <1>5, <2>2
<1>10. Lined(g, c, ReplaceAt(s, i, x))
  <2>1. \A z \in Items :
          g.home[z] = c <=> (h.home[z] = c /\ z # s[i]) \/ z = x
    BY <1>1, <1>4 DEF y
  <2>2. g.child[c] = IF i = 1 THEN x ELSE h.child[c]
    BY <1>4, <1>7, <1>8
  <2>3. i > 1 => g.next[s[i - 1]] = x
    BY <1>4, <1>8, <1>9
  <2>4. ASSUME NEW j \in 1..Len(s), j # i, j # i - 1
        PROVE  g.next[s[j]] = h.next[s[j]]
    <3>1. s[j] \in Items /\ h.home[s[j]] = c
      BY <1>2, <1>3 DEF Lined
    <3>2. s[j] # x /\ s[j] # y
      BY <1>1, <1>4, <1>6, <2>4, <3>1 DEF y
    <3>3. i > 1 => s[j] # p
      BY <1>3, <1>6, <1>9, <2>4
    <3> QED BY <1>3, <1>4, <1>8, <3>1, <3>2, <3>3
  <2>5. i \in 1..Len(s)
    OBVIOUS
  <2>6. \A j \in 1..Len(s) : j # i /\ j # i - 1 => g.next[s[j]] = h.next[s[j]]
    BY <2>4
  <2>7. Lined(h, c, s)
    BY <1>2
  <2>8. g.next[x] = h.next[s[i]]
    BY <1>4 DEF y
  <2>9. x \in Items /\ h.home[x] # c
    BY <1>1, <1>4
  <2> HIDE DEF s
  <2>10. TakesPlace(h, g, c, s, i, x)
    BY <2>1, <2>2, <2>3, <2>6, <2>8, <2>9 DEF TakesPlace
  <2> QED BY ONLY <2>5, <2>7, <2>9, <2>10, LinedReplace
<1>11. Elsewhere(h, g, c, {x, y})
  BY <1>4, <1>5 DEF Elsewhere
<1> DEFINE t == ReplaceAt(s, i, x)
<1> HIDE DEF t
<1>12. KidsAre(g, [k EXCEPT ![c] = t])
  <2>1. Lined(g, c, t)
    BY <1>10 DEF t
  <2>2. {x, y} \in SUBSET Items
    BY <1>4, <1>5
  <2> QED BY <1>1, <1>11, <2>1, <2>2, OtherLists
<1> QED BY <1>12 DEF g, s, y, t

\* Emptied of D.
Without(D, k) == [y \in Items |-> IF y \in D THEN <<>> ELSE k[y]]

\* What is deleted leaves empty lists behind, and no other list loses an item.
LEMMA KidsDelete ==
  ASSUME NEW h, NEW R, ListsHold(h, R), NEW k, KidsAre(h, k), NEW x \in R
  PROVE  KidsAre(DeleteItems(h, x), Without(Visited(h, {x}), k))
<1> DEFINE D == Visited(h, {x})
           g == DeleteItems(h, x)
           m == Without(D, k)
<1>1. /\ Null \notin Items /\ D \subseteq Items
      /\ h.refs \subseteq h.live /\ h.live \subseteq Items
  BY CellsAssumption DEF ListsHold, StringTypes, Visited
<1>2. /\ g.refs = h.refs \ D
      /\ \A z \in D : g.next[z] = Null /\ g.child[z] = Null /\ g.home[z] = Null
      /\ \A z \in Items \ D : /\ g.next[z] = h.next[z]
                              /\ g.child[z] = h.child[z]
                              /\ g.home[z] = h.home[z]
  BY <1>1 DEF ListsHold, StringTypes, DeleteItems, Free, Fields, Shaped
<1> HIDE DEF g
<1>3. \A z \in Items : h.home[z] # Null => (z \in D <=> h.home[z] \in D)
  BY Whole
<1> HIDE DEF D
<1>4. /\ m \in [Items -> Seq(Items)]
      /\ \A y \in Items : m[y] = IF y \in D THEN <<>> ELSE k[y]
  BY DEF KidsAre, Without
<1> HIDE DEF m
<1>5. ASSUME NEW c \in Items \ g.refs PROVE Lined(g, c, m[c])
  <2>1. CASE c \in D
    <3>1. m[c] = <<>> /\ \A z \in Items : g.home[z] # c
      BY <1>1, <1>2, <1>3, <1>4, <2>1
    <3> QED BY <1>2, <2>1, <3>1 DEF Lined
  <2>2. CASE c \notin D
    <3>1. m[c] = k[c] /\ Lined(h, c, k[c]) /\ c # Null
      BY <1>1, <1>2, <1>4, <2>2 DEF KidsAre
    <3>2. \A z \in Items : g.home[z] = c <=> h.home[z] = c
      BY <1>1, <1>2, <1>3, <2>2, <3>1
    <3>3. \A z \in Items : h.home[z] = c => g.next[z] = h.next[z]
      BY <1>2, <1>3, <2>2, <3>1
    <3> QED BY <1>2, <2>2, <3>1, <3>2, <3>3, LinedKept
  <2> QED BY <2>1, <2>2
<1>6. \A c \in Items \cap g.refs : m[c] = <<>>
  BY <1>2, <1>4 DEF KidsAre
<1>7. KidsAre(g, m)
  BY <1>4, <1>5, <1>6 DEF KidsAre
<1> QED BY <1>7 DEF g, D, m

\* Every other item that is deleted was in the list of one that is deleted.
LEMMA Below ==
  ASSUME NEW h, NEW R, ListsHold(h, R), NEW x \in R, NEW y \in Visited(h, {x}),
         y # x
  PROVE  y \in Items /\ h.home[y] \in Visited(h, {x})
<1> DEFINE D == Visited(h, {x})
           S == {x} \cup {z \in D : h.home[z] \in D}
<1>1. /\ Forest(h, R) /\ h.live \subseteq Items /\ h.refs \subseteq h.live
      /\ x \in Items /\ x \in h.live /\ Null \notin Items
  BY CellsAssumption DEF ListsHold, StringTypes, Forest
<1>2. /\ x \in D /\ D \subseteq Items /\ Owned(h, D)
      /\ \A T \in SUBSET Items : {x} \subseteq T /\ Owned(h, T) => D \subseteq T
  BY <1>1, VisitedIs
<1> HIDE DEF D
<1>3. h.next[x] = Null
  BY RootsAlone
<1>4. ASSUME NEW z \in S PROVE Led(h, z) \subseteq S
  <2> SUFFICES ASSUME NEW w \in Led(h, z) PROVE w \in S
    OBVIOUS
  <2>1. z \in D /\ z \in Items
    BY <1>2
  <2>2. w \in D /\ w \in Items /\ w # Null
    BY <1>1, <1>2, <2>1, OwnedLed, LedTo DEF Led
  <2>3. CASE w = h.next[z]
    <3>1. z # x /\ h.home[z] \in D
      BY <1>3, <2>2, <2>3
    <3>2. h.home[w] = h.home[z]
      BY <2>1, <2>2, <2>3 DEF ListsHold, ListInv
    <3> QED BY <2>2, <3>1, <3>2
  <2>4. CASE z \notin h.refs /\ w = h.child[z]
    <3>1. h.home[w] = z
      BY <2>1, <2>2, <2>4 DEF ListsHold, ListInv, EndsWell
    <3> QED BY <2>1, <2>2, <3>1
  <2> QED BY <2>3, <2>4 DEF Led
<1>5. Owned(h, S) /\ S \subseteq Items
  BY <1>1, <1>2, <1>4, OwnedLed
<1>6. y \in S
  BY <1>2, <1>5 DEF D
<1> QED BY <1>2, <1>6 DEF D

\* New items have empty lists.
LEMMA KidsSame ==
  ASSUME NEW h, NEW k, KidsAre(h, k), NEW g, g.next = h.next, g.home = h.home,
         \A z \in Items \ g.refs : g.child[z] = h.child[z],
         h.refs \subseteq g.refs,
         \A z \in g.refs \ h.refs : \A y \in Items : h.home[y] # z
  PROVE  KidsAre(g, k)
<1>1. ASSUME NEW c \in Items \ g.refs PROVE Lined(g, c, k[c])
  BY <1>1, LinedKept DEF KidsAre
<1>2. ASSUME NEW c \in Items \cap g.refs PROVE k[c] = <<>>
  <2>1. CASE c \in h.refs
    BY <2>1 DEF KidsAre
  <2>2. CASE c \notin h.refs
    <3>1. Lined(h, c, k[c]) /\ \A y \in Items : h.home[y] # c
      BY <1>2, <2>2 DEF KidsAre
    <3>2. k[c] \in Seq(Items) /\ \A i \in 1..Len(k[c]) : FALSE
      BY <3>1 DEF Lined
    <3> QED BY <3>2
  <2> QED BY <2>1, <2>2
<1> QED BY <1>1, <1>2 DEF KidsAre

-----------------------------------------------------------------------------
(* What CJsonLists allows, for the lists of the heap.                       *)

\* The lists of the heap.
Rows == KidsOf(heap)

\* CJsonLists has its own instances of the operators on sequences.
LEMMA SameOperators ==
  ASSUME NEW s, NEW i, NEW x
  PROVE  /\ Lists!InsertAt(s, i, x) = InsertAt(s, i, x)
         /\ Lists!RemoveAt(s, i) = RemoveAt(s, i)
         /\ Lists!ReplaceAt(s, i, x) = ReplaceAt(s, i, x)
         /\ Lists!ToSet(s) = ToSet(s)
BY DEF Lists!InsertAt, InsertAt, Lists!RemoveAt, RemoveAt,
       Lists!ReplaceAt, ReplaceAt, Lists!ToSet, ToSet

\* x comes in before the i-th item.
LEMMA AsPut ==
  ASSUME NEW c \in heap.live, NEW x \in roots \cup (Items \ heap.live),
         NEW i \in 1..(Len(Rows[c]) + 1),
         heap.live' = heap.live \cup {x}, roots' = roots \ {x},
         Rows' = [Rows EXCEPT ![c] = InsertAt(Rows[c], i, x)],
         \A z \in heap.live \ {x} : heap.key'[z] = heap.key[z]
  PROVE  Lists!ListNext
<1>1. Lists!Put(c, i, x)
  <2>1. Lists!OthersKeepNames({x})
    BY DEF Lists!OthersKeepNames
  <2>2. Rows' = [Rows EXCEPT ![c] = Lists!InsertAt(Rows[c], i, x)]
    BY SameOperators, Zenon
  <2>3. x \in roots \/ x \notin heap.live
    OBVIOUS
  <2> QED BY <2>1, <2>2, <2>3 DEF Lists!Put, Rows, KidsOf
<1> QED BY <1>1 DEF Lists!ListNext, Rows, KidsOf

\* The i-th item goes out, and the caller holds it.
LEMMA AsTake ==
  ASSUME NEW c \in heap.live, NEW i \in 1..Len(Rows[c]),
         heap.live' = heap.live, roots' = roots \cup {Rows[c][i]},
         Rows' = [Rows EXCEPT ![c] = RemoveAt(Rows[c], i)],
         \A z \in heap.live : heap.key'[z] = heap.key[z]
  PROVE  Lists!ListNext
<1>1. Lists!Take(c, i)
  <2>1. Lists!OthersKeepNames({})
    BY DEF Lists!OthersKeepNames
  <2>2. Rows' = [Rows EXCEPT ![c] = Lists!RemoveAt(Rows[c], i)]
    BY SameOperators, Zenon
  <2> QED BY <2>1, <2>2 DEF Lists!Take, Rows, KidsOf
<1> QED BY <1>1 DEF Lists!ListNext, Rows, KidsOf

\* A new item, which the caller holds or has lost.
LEMMA AsMake ==
  ASSUME NEW x, x \notin heap.live, heap.live' = heap.live \cup {x},
         roots' \in {roots, roots \cup {x}}, Rows' = Rows, Rows[x] = <<>>,
         \A z \in heap.live : heap.key'[z] = heap.key[z]
  PROVE  Lists!ListNext
<1>1. heap.live' \ heap.live = {x} /\ heap.live \subseteq heap.live'
  OBVIOUS
<1>2. Lists!OthersKeepNames({})
  BY DEF Lists!OthersKeepNames
<1>3. Lists!ToSet(Rows'[x]) \subseteq {x}
  <2>1. Lists!ToSet(<<>>) = {}
    BY DEF Lists!ToSet
  <2> QED BY <2>1
<1>4. Lists!Make(heap.live' \ heap.live)
  <2>1. \A c \in {x} : Lists!ToSet(Rows'[c]) \subseteq {x}
    BY <1>3
  <2>2. \A c \in heap.live : Rows'[c] = Rows[c]
    OBVIOUS
  <2>3. /\ roots' \in {roots, roots \cup {x}}
        /\ \A y \in {x} \ {x} : \E z \in {x} : y \in Lists!ToSet(Rows'[z])
    OBVIOUS
  <2>4. \E w \in {x} :
          /\ roots' \in {roots, roots \cup {w}}
          /\ \A y \in {x} \ {w} : \E z \in {x} : y \in Lists!ToSet(Rows'[z])
    BY <2>3, Zenon
  <2> QED BY <1>1, <1>2, <2>1, <2>2, <2>4 DEF Lists!Make, Rows, KidsOf
<1> QED BY <1>1, <1>4, Zenon DEF Lists!ListNext

\* Only the name of an item that the caller holds changes.
LEMMA AsName ==
  ASSUME NEW x \in roots, heap.live' = heap.live, roots' = roots, Rows' = Rows,
         \A z \in heap.live \ {x} : heap.key'[z] = heap.key[z]
  PROVE  Lists!ListNext
<1>1. Lists!Name(x)
  <2>1. Lists!OthersKeepNames({x})
    BY DEF Lists!OthersKeepNames
  <2> QED BY <2>1 DEF Lists!Name, Rows, KidsOf
<1> QED BY <1>1 DEF Lists!ListNext

\* D is x and all that hangs below it.
Hangs(D, x, k) ==
  /\ x \in D
  /\ \A z \in D : ToSet(k[z]) \subseteq D
  /\ \A y \in D \ {x} : \E z \in D : y \in ToSet(k[z])

\* The same in the words of CJsonLists.
LEMMA HangsThere ==
  ASSUME NEW D, NEW x, NEW k, Hangs(D, x, k)
  PROVE  /\ x \in D
         /\ \A z \in D : Lists!ToSet(k[z]) \subseteq D
         /\ \A y \in D \ {x} : \E z \in D : y \in Lists!ToSet(k[z])
BY SameOperators DEF Hangs

\* The caller drops what it holds.
LEMMA AsDrop ==
  ASSUME NEW x \in roots, NEW D \in SUBSET heap.live, Hangs(D, x, Rows),
         heap.live' = heap.live \ D, roots' = roots \ {x},
         Rows' = Without(D, Rows),
         \A z \in heap.live \ D : heap.key'[z] = heap.key[z]
  PROVE  Lists!ListNext
<1>1. heap.live \ heap.live' = D /\ heap.live' \subseteq heap.live
  OBVIOUS
<1>2. Lists!OthersKeepNames(D)
  BY DEF Lists!OthersKeepNames
<1>3. /\ x \in D
      /\ \A z \in D : Lists!ToSet(Rows[z]) \subseteq D
      /\ \A y \in D \ {x} : \E z \in D : y \in Lists!ToSet(Rows[z])
  BY HangsThere
<1>4. Rows' = [y \in Items |->
                IF y \in D THEN <<>>
                ELSE Rows[y]]
  BY DEF Without
<1>5. Lists!Drop(heap.live \ heap.live', x)
  BY <1>1, <1>2, <1>3, <1>4
     DEF Lists!Drop, Lists!Dropped, Lists!OthersKeepNames, Rows, KidsOf
<1> QED BY <1>1, <1>5, Zenon DEF Lists!ListNext

\* The i-th item goes, with all that hangs below it.
LEMMA AsDropFrom ==
  ASSUME NEW c \in heap.live, NEW i \in 1..Len(Rows[c]),
         NEW D \in SUBSET heap.live, Hangs(D, Rows[c][i], Rows),
         heap.live' = heap.live \ D, roots' = roots,
         Rows' = Without(D, [Rows EXCEPT ![c] = RemoveAt(Rows[c], i)]),
         \A z \in heap.live \ D : heap.key'[z] = heap.key[z]
  PROVE  Lists!ListNext
<1>1. heap.live \ heap.live' = D /\ heap.live' \subseteq heap.live
  OBVIOUS
<1>2. Lists!OthersKeepNames(D)
  BY DEF Lists!OthersKeepNames
<1>3. /\ Rows[c][i] \in D
      /\ \A z \in D : Lists!ToSet(Rows[z]) \subseteq D
      /\ \A y \in D \ {Rows[c][i]} : \E z \in D : y \in Lists!ToSet(Rows[z])
  BY HangsThere
<1>4. Rows' = [y \in Items |->
                IF y \in D THEN <<>>
                ELSE [Rows EXCEPT ![c] = Lists!RemoveAt(Rows[c], i)][y]]
  <2>1. Lists!RemoveAt(Rows[c], i) = RemoveAt(Rows[c], i)
    BY SameOperators, Zenon
  <2> QED BY <2>1 DEF Without
<1>5. Lists!DropFrom(heap.live \ heap.live', c, i)
  BY <1>1, <1>2, <1>3, <1>4
     DEF Lists!DropFrom, Lists!Dropped, Lists!OthersKeepNames, Rows, KidsOf,
         Hangs
<1> QED BY <1>1, <1>5 DEF Lists!ListNext, Rows, KidsOf

\* x takes the place of the i-th item, which goes with what hangs below it.
LEMMA AsSwap ==
  ASSUME NEW c \in heap.live, NEW i \in 1..Len(Rows[c]), NEW x \in roots,
         NEW D \in SUBSET heap.live, Hangs(D, Rows[c][i], Rows),
         heap.live' = heap.live \ D, roots' = roots \ {x},
         Rows' = Without(D, [Rows EXCEPT ![c] = ReplaceAt(Rows[c], i, x)]),
         \A z \in heap.live \ (D \cup {x}) : heap.key'[z] = heap.key[z]
  PROVE  Lists!ListNext
<1>1. heap.live \ heap.live' = D /\ heap.live' \subseteq heap.live
  OBVIOUS
<1>2. Lists!OthersKeepNames(D \cup {x})
  BY DEF Lists!OthersKeepNames
<1>3. /\ Rows[c][i] \in D
      /\ \A z \in D : Lists!ToSet(Rows[z]) \subseteq D
      /\ \A y \in D \ {Rows[c][i]} : \E z \in D : y \in Lists!ToSet(Rows[z])
  BY HangsThere
<1>4. Rows' = [y \in Items |->
                IF y \in D THEN <<>>
                ELSE [Rows EXCEPT ![c] = Lists!ReplaceAt(Rows[c], i, x)][y]]
  <2>1. Lists!ReplaceAt(Rows[c], i, x) = ReplaceAt(Rows[c], i, x)
    BY SameOperators, Zenon
  <2> QED BY <2>1 DEF Without
<1>5. Lists!Swap(heap.live \ heap.live', c, i, x)
  BY <1>1, <1>2, <1>3, <1>4
     DEF Lists!Swap, Lists!Dropped, Lists!OthersKeepNames, Rows, KidsOf, Hangs
<1> QED BY <1>1, <1>5 DEF Lists!ListNext, Rows, KidsOf

\* What the lists of the heap are, in order.
Ordered == KidsAre(heap, Rows)

\* Lists in order after a step are the lists after it.
LEMMA NewRows ==
  ASSUME TreeInv', NEW k, KidsAre(heap', k)
  PROVE  Rows' = k /\ Ordered'
<1>1. ListsHold(heap', Mine')
  BY HeapParts DEF TreeInv
<1>2. k = KidsOf(heap')
  BY <1>1, KidsIs
<1>3. KidsOf(heap') = Rows'
  BY DEF Rows, KidsOf
<1>4. Rows' = k
  BY <1>2, <1>3
<1> QED BY <1>4 DEF Ordered

\* An item of a list does not have the list's owner below it.
LEMMA OwnerApart ==
  ASSUME NEW h, NEW R, HeapInv(h, R), NEW c \in h.live \ h.refs,
         NEW x \in Listed(h, c)
  PROVE  c \notin Subtree(h, x)
<1>1. /\ Forest(h, R) /\ Reached(h, R) /\ h.live \subseteq Items
      /\ c \in Items \ h.refs
  BY HeapParts
<1>2. SUFFICES ASSUME c \in Subtree(h, x) PROVE FALSE
  OBVIOUS
<1> DEFINE y == h.child[x]
           D == Visited(h, {y})
<1>3. x \in Items /\ h.child[c] # Null
  BY <1>1, ListedHas
<1>4. x \notin h.refs /\ y # Null
  <2>1. CASE x \in h.refs \/ y = Null
    <3>1. c = x
      BY <1>2, <2>1 DEF Subtree
    <3> QED BY <1>1, <1>3, <2>1, <3>1
  <2> QED BY <2>1
<1>5. y \in Items /\ y \in Led(h, x)
  BY <1>1, <1>3, <1>4 DEF Forest, Led
<1>6. x \notin D
  BY <1>1, <1>3, <1>5, Acyclic
<1>7. y \in D /\ D \subseteq Items /\ Owned(h, D)
  BY <1>1, <1>5, VisitedIs
<1>8. c = x \/ c \in D
  BY <1>2, <1>4 DEF Subtree
<1>9. h.child[c] \in D /\ NextClosed(h, D)
  BY <1>1, <1>3, <1>7, <1>8 DEF Owned
<1>10. x \in D
  BY <1>1, <1>3, <1>7, <1>9, ListedFrom
<1> QED BY <1>6, <1>10

\* What a deletion visits hangs together.
LEMMA HangTogether ==
  ASSUME NEW h, NEW R, HeapInv(h, R), NEW k, KidsAre(h, k), NEW x \in R
  PROVE  Hangs(Visited(h, {x}), x, k) /\ Visited(h, {x}) \subseteq h.live
<1> DEFINE D == Visited(h, {x})
<1>1. /\ ListsHold(h, R) /\ Forest(h, R) /\ ListInv(h)
      /\ h.live \subseteq Items /\ x \in Items /\ x \in h.live
  BY HeapParts
<1>2. x \in D /\ D \subseteq Items
  BY <1>1, VisitedIs
<1>3. D \subseteq h.live
  <2>1. Owned(h, h.live)
    BY <1>1, LedTo, OwnedLed
  <2> QED BY <1>1, <2>1, VisitedIs
<1>4. \A z \in Items : ToSet(k[z]) = {y \in Items : z \notin h.refs
                                                    /\ h.home[y] = z}
  <2>1. ASSUME NEW z \in Items, z \in h.refs PROVE ToSet(k[z]) = {}
    <3>1. k[z] = <<>>
      BY <2>1 DEF KidsAre
    <3> QED BY <3>1 DEF ToSet
  <2>2. ASSUME NEW z \in Items, z \notin h.refs
        PROVE  ToSet(k[z]) = {y \in Items : h.home[y] = z}
    <3>1. Lined(h, z, k[z])
      BY <2>2 DEF KidsAre
    <3> QED BY <3>1 DEF Lined, ToSet
  <2> QED BY <2>1, <2>2
<1>5. ASSUME NEW z \in D PROVE ToSet(k[z]) \subseteq D
  <2>1. SUFFICES ASSUME NEW y \in Items, h.home[y] = z PROVE y \in D
    BY <1>2, <1>4
  <2>2. h.home[y] # Null
    BY <1>2, <2>1, CellsAssumption
  <2> QED BY <1>1, <2>1, <2>2, Whole
<1>6. ASSUME NEW y \in D \ {x} PROVE \E z \in D : y \in ToSet(k[z])
  <2>1. y \in Items /\ h.home[y] \in D
    BY <1>1, Below
  <2>2. h.home[y] \in Items /\ h.home[y] \notin h.refs
    BY <1>1, <1>2, <2>1, CellsAssumption DEF ListInv
  <2> QED BY <1>4, <2>1, <2>2
<1> QED BY <1>2, <1>3, <1>5, <1>6 DEF Hangs

-----------------------------------------------------------------------------
(* The calls, as steps of CJsonLists.                                       *)

\* A step of the lists, or none.
ListStep == Ordered' /\ (Lists!ListNext \/ UNCHANGED Lists!listVars)

\* A call that leaves the lists alone.
LEMMA NoStep ==
  ASSUME TreeInv', KidsAre(heap', Rows), heap.live' = heap.live,
         heap.key' = heap.key, roots' = roots
  PROVE  ListStep
<1>1. Rows' = Rows /\ Ordered'
  BY NewRows
<1>2. UNCHANGED Lists!listVars
  BY <1>1 DEF Lists!listVars, Rows, KidsOf
<1> QED BY <1>1, <1>2 DEF ListStep

\* g has one cell more, which nobody has linked yet.
Fresh(h, g, x) ==
  /\ g.live = h.live \cup {x}
  /\ g.refs \in {h.refs, h.refs \cup {x}}
  /\ g.next = h.next /\ g.home = h.home /\ g.key = h.key
  /\ \A z \in Items \ {x} : g.child[z] = h.child[z]
  /\ g.child[x] = h.child[x] \/ x \in g.refs

\* What the calls make is fresh.
LEMMA FreshIs ==
  ASSUME NEW h, Shaped(h), NEW x, NEW y
  PROVE  /\ Fresh(h, NewItem(h, x), x) /\ Fresh(h, NewValued(h, x), x)
         /\ Fresh(h, [NewItem(h, x) EXCEPT !.refs = @ \cup {x},
                                           !.vstr[x] = Lent], x)
         /\ Fresh(h, [NewItem(h, x) EXCEPT !.refs = @ \cup {x},
                                           !.child[x] = y], x)
<1>1. /\ Fresh(h, NewItem(h, x), x) /\ Fresh(h, NewValued(h, x), x)
  BY DEF Fresh, NewItem, NewValued, Shaped, Fields
<1>2. Fresh(h, [NewItem(h, x) EXCEPT !.refs = @ \cup {x}, !.vstr[x] = Lent], x)
  BY DEF Fresh, NewItem, Shaped, Fields
<1>3. Fresh(h, [NewItem(h, x) EXCEPT !.refs = @ \cup {x}, !.child[x] = y], x)
  BY DEF Fresh, NewItem, Shaped, Fields
<1> QED BY <1>1, <1>2, <1>3

LEMMA FreshReference ==
  ASSUME NEW h, Shaped(h), NEW x, NEW r
  PROVE  Fresh(h, Reference(h, x, r), r)
BY DEF Fresh, NewItem, Reference, Shaped, Fields

\* A fresh cell has no list, and no other list has it.
LEMMA KidsFresh ==
  ASSUME NEW h, NEW R, HeapInv(h, R), NEW k, KidsAre(h, k),
         NEW x \in Items \ h.live, NEW g, Fresh(h, g, x)
  PROVE  KidsAre(g, k) /\ k[x] = <<>>
<1>1. /\ ListsHold(h, R) /\ ListInv(h) /\ h.refs \subseteq h.live
      /\ h.live \subseteq Items
  BY HeapParts
<1>2. \A y \in Items : h.home[y] # x
  BY <1>1, CellsAssumption DEF ListInv
<1>3. KidsAre(g, k)
  <2>1. /\ g.next = h.next /\ g.home = h.home /\ h.refs \subseteq g.refs
        /\ \A z \in Items \ g.refs : g.child[z] = h.child[z]
        /\ \A z \in g.refs \ h.refs : \A y \in Items : h.home[y] # z
    BY <1>2 DEF Fresh
  <2> QED BY <2>1, KidsSame
<1>4. k[x] = <<>>
  <2>1. Lined(h, x, k[x]) /\ h.child[x] = Null /\ k[x] \in Seq(Items)
    BY <1>1, FreeAlone DEF KidsAre
  <2>2. Len(k[x]) # 0 => k[x][1] \in Items
    BY <2>1
  <2>3. Len(k[x]) = 0
    BY <2>1, <2>2, CellsAssumption DEF Lined
  <2> QED BY <2>1, <2>3, EmptySeq
<1> QED BY <1>3, <1>4

\* A call that makes one item.
LEMMA StepMake ==
  ASSUME TreeInv, TreeInv', Ordered, NEW x \in Spare, Fresh(heap, heap', x),
         roots' \in {roots, roots \cup {x}}
  PROVE  ListStep
<1>1. HeapInv(heap, Mine) /\ x \in Items \ heap.live /\ KidsAre(heap, Rows)
  BY Held DEF TreeInv, Ordered
<1>2. KidsAre(heap', Rows) /\ Rows[x] = <<>>
  BY <1>1, KidsFresh
<1>3. Rows' = Rows /\ Ordered'
  BY <1>2, NewRows
<1>4. heap.live' = heap.live \cup {x} /\ heap.key' = heap.key
  BY DEF Fresh
<1>5. Lists!ListNext
  BY <1>1, <1>2, <1>3, <1>4, AsMake
<1> QED BY <1>3, <1>5 DEF ListStep

\* A call that deletes again what it has made.
LEMMA StepUndo ==
  ASSUME TreeInv, TreeInv', Ordered, NEW x \in Spare,
         NEW g, g = NewItem(heap, x) \/ g = NewValued(heap, x),
         heap' = Discard(g, x), roots' = roots
  PROVE  ListStep
<1>1. /\ HeapInv(heap, Mine) /\ x \in Items \ heap.live /\ KidsAre(heap, Rows)
      /\ Shaped(heap) /\ StringTypes(heap)
  BY Held, HeapParts DEF TreeInv, Ordered
<1>2. Fresh(heap, g, x)
  BY <1>1, FreshIs
<1>3. KidsAre(g, Rows) /\ Rows[x] = <<>>
  BY <1>1, <1>2, KidsFresh
<1>4. HeapInv(g, Mine \cup {x}) /\ Visited(g, {x}) = {x}
  BY <1>1, HeapTake
<1>5. KidsAre(heap', Without({x}, Rows))
  <2>1. ListsHold(g, Mine \cup {x})
    BY <1>4, HeapParts
  <2>2. KidsAre(DeleteItems(g, x), Without(Visited(g, {x}), Rows))
    BY <1>3, <2>1, KidsDelete DEF Without
  <2> QED BY <1>4, <2>2 DEF Discard
<1>6. Without({x}, Rows) = Rows
  BY <1>1, <1>3 DEF Without, KidsAre
<1>7. heap.live' = heap.live /\ heap.key' = heap.key
  <2>1. /\ Shaped(g) /\ g.live = heap.live \cup {x} /\ g.key = heap.key
    BY <1>2, <1>4, HeapParts DEF Fresh
  <2>2. /\ heap'.live = g.live \ {x}
        /\ heap'.key = [z \in Items |-> IF z = x THEN Null ELSE g.key[z]]
    BY <1>4, <2>1 DEF Discard, DeleteItems, Free, Shaped, Fields
  <2>3. heap.key[x] = Null /\ heap.key \in [Items -> Names \cup {Null}]
    BY <1>1 DEF StringTypes
  <2>4. heap'.live = heap.live
    BY <1>1, <2>1, <2>2
  <2>5. heap'.key = heap.key
    BY <2>1, <2>2, <2>3
  <2> QED BY <2>4, <2>5
<1> QED BY <1>5, <1>6, <1>7, NoStep

\* Every call that creates makes one item, or none.
LEMMA CreateLists ==
  ASSUME TreeInv, TreeInv', Ordered, Create
  PROVE  ListStep
<1>1. PICK x \in Spare, b \in Budgets :
        \/ CreateItem(x, b)
        \/ CreateString(x, b)
        \/ CreateStringReference(x, b)
        \/ \E y \in heap.live : CreateListReference(x, y, b)
  BY Zenon DEF Create
<1>2. Shaped(heap)
  BY HeapParts DEF TreeInv
<1>3. ASSUME Fresh(heap, heap', x), roots' = roots \cup {x}
      PROVE  ListStep
  BY <1>3, StepMake
<1>4. CASE CreateItem(x, b)
  BY <1>2, <1>3, <1>4, FreshIs DEF CreateItem, Hold
<1>5. CASE CreateString(x, b)
  <2>1. CASE Hold(NewValued(heap, x), x)
    BY <1>2, <1>3, <2>1, FreshIs DEF Hold
  <2>2. CASE heap' = Discard(NewItem(heap, x), x) /\ UNCHANGED <<roots, lost>>
    BY <2>2, StepUndo
  <2> QED BY <1>5, <2>1, <2>2 DEF CreateString
<1>6. CASE CreateStringReference(x, b)
  BY <1>2, <1>3, <1>6, FreshIs DEF CreateStringReference, Hold
<1>7. ASSUME NEW y \in heap.live, CreateListReference(x, y, b)
      PROVE  ListStep
  BY <1>2, <1>3, <1>7, FreshIs DEF CreateListReference, Hold
<1> QED BY <1>1, <1>4, <1>5, <1>6, <1>7

\* Names do not matter to the lists.
LEMMA KidsNamed ==
  ASSUME NEW h, NEW k, KidsAre(h, k), NEW g, SameTree(h, g)
  PROVE  KidsAre(g, k)
BY KidsSame DEF SameTree

\* A key replaced or freed is the key of one item.
LEMMA RenameKeys ==
  ASSUME NEW h, Shaped(h), NEW x, NEW k, NEW const, NEW z, z # x
  PROVE  /\ Rename(h, x, k, const).key[z] = h.key[z]
         /\ Unnamed(h, x).key[z] = h.key[z]
<1>1. Rename(h, x, k, const).key = [h.key EXCEPT ![x] = k]
  BY DEF Rename, Shaped, Fields
<1>2. Unnamed(h, x).key = [h.key EXCEPT ![x] = Null]
  BY DEF Unnamed, Shaped, Fields
<1> QED BY <1>1, <1>2

\* add_item_to_array, called for an item or for a new one.
LEMMA StepAdd ==
  ASSUME TreeInv, TreeInv', Ordered,
         NEW m, NEW R, HeapInv(m, R), KidsAre(m, Rows),
         NEW c \in heap.live, c \in m.live \ m.refs,
         NEW x \in R, x \in roots \cup (Items \ heap.live), c # x,
         m.live = heap.live \cup {x},
         \A z \in heap.live \ {x} : m.key[z] = heap.key[z],
         heap' = AddLast(m, c, x), roots' = roots \ {x}
  PROVE  ListStep
<1> DEFINE i == Len(Rows[c]) + 1
           k == [Rows EXCEPT ![c] = InsertAt(Rows[c], i, x)]
<1>1. ListsHold(m, R) /\ Shaped(m) /\ heap.live \subseteq Items
  BY Held, HeapParts
<1>2. KidsAre(heap', k)
  BY <1>1, KidsAdd
<1> HIDE DEF k
<1>3. Rows' = k /\ Ordered'
  BY <1>2, NewRows
<1>4. /\ heap.live' = heap.live \cup {x}
      /\ \A z \in heap.live \ {x} : heap.key'[z] = heap.key[z]
  BY <1>1, AddLastLinks DEF SameStrings
<1>5. i \in 1..(Len(Rows[c]) + 1)
  <2>1. Rows[c] \in Seq(Items)
    BY <1>1 DEF Ordered, KidsAre
  <2> QED BY <2>1
<1>6. Lists!ListNext
  BY <1>3, <1>4, <1>5, AsPut DEF k
<1> QED BY <1>3, <1>6 DEF ListStep

\* Every call that adds puts one item last, or makes none.
LEMMA AddLists ==
  ASSUME TreeInv, TreeInv', Ordered, Add
  PROVE  ListStep
<1>1. PICK c \in heap.live, b \in Budgets :
        \/ \E x \in roots : AddItemToArray(c, x)
        \/ \E x \in roots, k \in Names, const \in BOOLEAN :
             AddItemToObject(c, k, x, const, b)
        \/ \E x \in Spare, k \in Names, valued \in BOOLEAN :
             AddXToObject(c, k, x, valued, b)
        \/ \E x \in heap.live, r \in Spare : AddItemReferenceToArray(c, x, r, b)
        \/ \E x \in heap.live, r \in Spare, k \in Names :
             AddItemReferenceToObject(c, k, x, r, b)
  BY Zenon DEF Add
<1>2. /\ HeapInv(heap, Mine) /\ roots \subseteq Mine /\ Mine \subseteq heap.live
      /\ heap.live \subseteq Items /\ Shaped(heap) /\ KidsAre(heap, Rows)
      /\ FALSE \in BOOLEAN /\ TRUE \in BOOLEAN
  BY Held, HeapParts DEF TreeInv, Ordered
<1>3. ASSUME NEW x \in roots, AddItemToArray(c, x)
      PROVE  ListStep
  <2>1. /\ MayLink(c, x) /\ heap' = AddLast(heap, c, x)
        /\ roots' = IF c = x THEN roots ELSE roots \ {x}
    BY <1>3 DEF AddItemToArray
  <2>2. CASE c = x
    BY <1>2, <2>1, <2>2, NoStep DEF AddLast
  <2>3. CASE c # x
    <3>1. c \in heap.live \ heap.refs /\ heap.live = heap.live \cup {x}
      BY <1>2, <2>1, <2>3, Allowed
    <3> QED BY <1>2, <2>1, <2>3, <3>1, StepAdd
  <2> QED BY <2>2, <2>3
<1>4. ASSUME NEW x \in roots, NEW k \in Names, NEW const \in BOOLEAN,
             AddItemToObject(c, k, x, const, b)
      PROVE  ListStep
  <2> DEFINE m == Rename(heap, x, k, const)
  <2>1. MayLink(c, x) /\ c # x /\ heap' = AddLast(m, c, x)
        /\ roots' = roots \ {x}
    BY <1>4 DEF AddItemToObject
  <2>2. HeapInv(m, Mine) /\ SameTree(heap, m)
    BY <1>2, HeapRename
  <2>3. \A z \in heap.live \ {x} : m.key[z] = heap.key[z]
    BY <1>2, RenameKeys
  <2> HIDE DEF m
  <2>4. /\ KidsAre(m, Rows) /\ x \in Mine
        /\ c \in m.live \ m.refs /\ m.live = heap.live \cup {x}
    BY <1>2, <2>1, <2>2, Allowed, KidsNamed DEF SameTree
  <2> QED BY <2>1, <2>2, <2>3, <2>4, StepAdd
<1>5. ASSUME NEW x \in Spare, NEW n, NEW m, HeapInv(n, Mine \cup {x}),
             Fresh(heap, n, x), HeapInv(m, Mine \cup {x}),
             SameTree(n, m), \A z \in heap.live \ {x} : m.key[z] = n.key[z],
             c \in n.live \ n.refs, heap' = AddLast(m, c, x), roots' = roots
      PROVE  ListStep
  <2>1. /\ x \in Items \ heap.live /\ x \in Mine \cup {x} /\ c # x
        /\ roots' = roots \ {x}
    BY <1>2, <1>5, Held
  <2>2. KidsAre(n, Rows)
    BY <1>2, <1>5, <2>1, KidsFresh
  <2>3. KidsAre(m, Rows)
    BY <1>5, <2>2, KidsNamed
  <2>4. /\ m.live = heap.live \cup {x} /\ c \in m.live \ m.refs
        /\ \A z \in heap.live \ {x} : m.key[z] = heap.key[z]
    BY <1>5 DEF SameTree, Fresh
  <2> QED BY <1>5, <2>1, <2>3, <2>4, StepAdd
<1>6. ASSUME NEW x \in Spare, NEW k \in Names, NEW valued \in BOOLEAN,
             AddXToObject(c, k, x, valued, b)
      PROVE  ListStep
  <2> DEFINE n == IF valued THEN NewValued(heap, x) ELSE NewItem(heap, x)
             m == Rename(n, x, k, FALSE)
  <2>1. /\ c \in heap.live \ heap.refs /\ roots' = roots
        /\ heap' \in {AddLast(m, c, x), Discard(n, x)}
    BY <1>6 DEF AddXToObject, IsPlace
  <2>2. x \in Items \ heap.live /\ c # x
    BY Held
  <2>3. n = NewItem(heap, x) \/ n = NewValued(heap, x)
    OBVIOUS
  <2> HIDE DEF n
  <2>4. HeapInv(n, Mine \cup {x}) /\ Fresh(heap, n, x)
    <3>1. HeapInv(n, Mine \cup {x})
      BY <1>2, <2>2, <2>3, HeapTake
    <3>2. Fresh(heap, n, x)
      BY <1>2, <2>3, FreshIs, Zenon
    <3> QED BY <3>1, <3>2
  <2>5. x \in n.live /\ c \in n.live \ n.refs /\ Shaped(n)
    BY <2>1, <2>2, <2>4, HeapParts DEF Fresh
  <2>6. HeapInv(m, Mine \cup {x}) /\ SameTree(n, m)
    BY <1>2, <2>4, <2>5, HeapRename
  <2>7. \A z \in heap.live \ {x} : m.key[z] = n.key[z]
    BY <2>5 DEF Rename, Shaped, Fields
  <2> HIDE DEF m
  <2>8. CASE heap' = Discard(n, x)
    BY <2>1, <2>3, <2>8, StepUndo
  <2>9. CASE heap' = AddLast(m, c, x)
    BY <1>5, <2>1, <2>4, <2>5, <2>6, <2>7, <2>9
  <2> QED BY <2>1, <2>8, <2>9
<1>7. ASSUME NEW x \in heap.live, NEW r \in Spare, c \in heap.live \ heap.refs
      PROVE  LET g == Reference(heap, x, r)
             IN /\ HeapInv(g, Mine \cup {r}) /\ Fresh(heap, g, r) /\ Shaped(g)
                /\ r \in g.live /\ c \in g.live \ g.refs /\ c # r
  <2> DEFINE g == Reference(heap, x, r)
  <2>1. r \in Items \ heap.live
    BY Held
  <2>2. HeapInv(g, Mine \cup {r}) /\ Fresh(heap, g, r)
    BY <1>2, <2>1, HeapRefer, FreshReference
  <2> HIDE DEF g
  <2>3. Shaped(g) /\ r \in g.live /\ c \in g.live \ g.refs /\ c # r
    BY <1>7, <2>1, <2>2, HeapParts DEF Fresh
  <2> QED BY <2>2, <2>3 DEF g
<1>8. ASSUME NEW x \in heap.live, NEW r \in Spare,
             AddItemReferenceToArray(c, x, r, b)
      PROVE  ListStep
  <2> DEFINE g == Reference(heap, x, r)
  <2>1. /\ c \in heap.live \ heap.refs /\ roots' = roots
        /\ heap' = AddLast(g, c, r)
    BY <1>8 DEF AddItemReferenceToArray, IsPlace
  <2>2. HeapInv(g, Mine \cup {r}) /\ Fresh(heap, g, r)
        /\ c \in g.live \ g.refs
    BY <1>7, <2>1
  <2> HIDE DEF g
  <2>3. SameTree(g, g) /\ \A z \in heap.live \ {r} : g.key[z] = g.key[z]
    BY DEF SameTree
  <2> QED BY <1>5, <2>1, <2>2, <2>3
<1>9. ASSUME NEW x \in heap.live, NEW r \in Spare, NEW k \in Names,
             AddItemReferenceToObject(c, k, x, r, b)
      PROVE  ListStep
  <2> DEFINE g == Reference(heap, x, r)
             m == Rename(g, r, k, FALSE)
  <2>1. /\ c \in heap.live \ heap.refs /\ roots' = roots
        /\ heap' \in {AddLast(m, c, r), g}
    BY <1>9 DEF AddItemReferenceToObject, IsPlace
  <2>2. /\ HeapInv(g, Mine \cup {r}) /\ Fresh(heap, g, r) /\ Shaped(g)
        /\ r \in g.live /\ c \in g.live \ g.refs
    BY <1>7, <2>1
  <2> HIDE DEF g
  <2>3. HeapInv(m, Mine \cup {r}) /\ SameTree(g, m)
    BY <1>2, <2>2, HeapRename
  <2>4. \A z \in heap.live \ {r} : m.key[z] = g.key[z]
    BY <2>2 DEF Rename, Shaped, Fields
  <2> HIDE DEF m
  <2>5. CASE heap' = AddLast(m, c, r)
    BY <1>5, <2>1, <2>2, <2>3, <2>4, <2>5
  <2>6. CASE heap' = g
    BY <2>1, <2>2, <2>6, StepMake
  <2> QED BY <2>1, <2>5, <2>6
<1> QED BY <1>1, <1>3, <1>4, <1>6, <1>8, <1>9

\* What a deletion leaves of the names.
LEMMA DeleteKeys ==
  ASSUME NEW h, Shaped(h), NEW x
  PROVE  LET g == DeleteItems(h, x)
             D == Visited(h, {x})
         IN g.live = h.live \ D /\ \A z \in Items \ D : g.key[z] = h.key[z]
BY DEF DeleteItems, Free, Shaped, Fields

\* What hangs together does so before its top item left the list of c, too.
LEMMA HungBefore ==
  ASSUME NEW D, NEW x, NEW c, c \notin D, NEW k, NEW s,
         Hangs(D, x, [k EXCEPT ![c] = s]), D \subseteq Items,
         k \in [Items -> Seq(Items)]
  PROVE  Hangs(D, x, k)
<1>1. \A z \in D : [k EXCEPT ![c] = s][z] = k[z]
  OBVIOUS
<1> QED BY <1>1 DEF Hangs

\* Every call that takes out takes one item out of one list, and what it
\* deletes is all that hangs below.
LEMMA TakeOutLists ==
  ASSUME TreeInv, TreeInv', Ordered, TakeOut
  PROVE  ListStep
<1>1. PICK c \in heap.live, x \in heap.live :
        \/ DetachItem(c, x)
        \/ DeleteItemFrom(c, x)
        \/ Delete(x)
  BY Zenon DEF TakeOut
<1>2. /\ HeapInv(heap, Mine) /\ roots \subseteq Mine
      /\ heap.live \subseteq Items
      /\ ListsHold(heap, Mine) /\ Forest(heap, Mine) /\ Reached(heap, Mine)
      /\ Shaped(heap) /\ KidsAre(heap, Rows)
      /\ Rows \in [Items -> Seq(Items)]
  BY Held, HeapParts DEF TreeInv, Ordered, KidsAre
<1>3. ASSUME c \in heap.live \ heap.refs, x \in Listed(heap, c)
      PROVE  \E i \in 1..Len(Rows[c]) :
               /\ Rows[c][i] = x
               /\ KidsAre(Detach(heap, c, x),
                          [Rows EXCEPT ![c] = RemoveAt(Rows[c], i)])
  <2>1. PICK i \in 1..Len(Rows[c]) : Rows[c][i] = x
    BY <1>2, <1>3, PlaceOf
  <2>2. KidsAre(Detach(heap, c, Rows[c][i]),
                [Rows EXCEPT ![c] = RemoveAt(Rows[c], i)])
    BY <1>2, <1>3, KidsDetach
  <2> QED BY <2>1, <2>2
<1>4. CASE DetachItem(c, x)
  <2>1. /\ c \in heap.live \ heap.refs /\ x \in Listed(heap, c) \cup roots
        /\ heap' = Detach(heap, c, x) /\ roots' = roots \cup {x}
    BY <1>4 DEF DetachItem, IsPlace, Hold
  <2>2. CASE x \in Listed(heap, c)
    <3>1. PICK i \in 1..Len(Rows[c]) :
            /\ Rows[c][i] = x
            /\ KidsAre(Detach(heap, c, x),
                       [Rows EXCEPT ![c] = RemoveAt(Rows[c], i)])
      BY <1>3, <2>1, <2>2
    <3>2. Rows' = [Rows EXCEPT ![c] = RemoveAt(Rows[c], i)] /\ Ordered'
      <4> DEFINE k == [Rows EXCEPT ![c] = RemoveAt(Rows[c], i)]
      <4>1. KidsAre(heap', k)
        BY <2>1, <3>1
      <4> HIDE DEF k
      <4>2. Rows' = k /\ Ordered'
        BY <4>1, NewRows
      <4> QED BY <4>2 DEF k
    <3>3. heap.live' = heap.live /\ heap.key' = heap.key
      BY <1>2, <2>1, DetachLinks DEF SameStrings
    <3>4. Lists!ListNext
      BY <2>1, <3>1, <3>2, <3>3, AsTake
    <3> QED BY <3>2, <3>4 DEF ListStep
  <2>3. CASE x \in roots
    <3>1. x # heap.child[c] /\ heap.prev[x] = Null
      BY <1>2, <2>1, <2>3, RootsAlone, CellsAssumption DEF Forest
    <3>2. heap' = heap /\ roots' = roots
      BY <2>1, <2>3, <3>1 DEF Detach
    <3> QED BY <1>2, <3>2, NoStep
  <2> QED BY <2>1, <2>2, <2>3
<1>5. CASE DeleteItemFrom(c, x)
  <2> DEFINE g == Detach(heap, c, x)
             D == Visited(g, {x})
  <2>1. /\ c \in heap.live \ heap.refs /\ x \in Listed(heap, c)
        /\ heap' = DeleteItems(g, x) /\ roots' = roots
    BY <1>5 DEF DeleteItemFrom, IsPlace
  <2>2. PICK i \in 1..Len(Rows[c]) :
          /\ Rows[c][i] = x
          /\ KidsAre(g, [Rows EXCEPT ![c] = RemoveAt(Rows[c], i)])
    BY <1>3, <2>1
  <2> DEFINE k == [Rows EXCEPT ![c] = RemoveAt(Rows[c], i)]
  <2>3. /\ HeapInv(g, Mine \cup {x}) /\ ListsHold(g, Mine \cup {x}) /\ Shaped(g)
        /\ g.live = heap.live /\ g.key = heap.key /\ x \in Mine \cup {x}
    <3>1. HeapInv(g, Mine \cup {x})
      BY <1>2, <2>1, HeapDetach
    <3>2. g.live = heap.live /\ g.key = heap.key
      BY <1>2, DetachLinks DEF SameStrings
    <3> QED BY <3>1, <3>2, HeapParts
  <2>4. c \notin D
    <3>1. D = Subtree(heap, x)
      BY <1>2, <2>1, ReachedDetach
    <3> QED BY <1>2, <2>1, <3>1, OwnerApart
  <2> HIDE DEF g
  <2>5. KidsAre(heap', Without(D, k))
    BY <2>1, <2>2, <2>3, KidsDelete
  <2>6. Hangs(D, x, k) /\ D \subseteq heap.live
    BY <2>2, <2>3, HangTogether
  <2>7. Hangs(D, Rows[c][i], Rows)
    BY <1>2, <2>2, <2>4, <2>6, HungBefore
  <2>8. /\ heap.live' = heap.live \ D
        /\ \A z \in heap.live \ D : heap.key'[z] = heap.key[z]
    <3>1. /\ heap'.live = g.live \ D
          /\ \A z \in Items \ D : heap'.key[z] = g.key[z]
      BY <2>1, <2>3, DeleteKeys
    <3> QED BY <1>2, <2>3, <3>1
  <2> HIDE DEF D
  <2>9. Rows' = Without(D, k) /\ Ordered'
    <3> DEFINE m == Without(D, k)
    <3>1. KidsAre(heap', m)
      BY <2>5
    <3> HIDE DEF m
    <3>2. Rows' = m /\ Ordered'
      BY <3>1, NewRows
    <3> QED BY <3>2 DEF m
  <2>10. Lists!ListNext
    BY <2>1, <2>2, <2>6, <2>7, <2>8, <2>9, AsDropFrom
  <2> QED BY <2>9, <2>10 DEF ListStep
<1>6. CASE Delete(x)
  <2> DEFINE D == Visited(heap, {x})
  <2>1. /\ x \in roots /\ x \in Mine /\ heap' = DeleteItems(heap, x)
        /\ roots' = roots \ {x}
    BY <1>2, <1>6 DEF Delete
  <2>2. KidsAre(heap', Without(D, Rows))
    BY <1>2, <2>1, KidsDelete
  <2>3. Hangs(D, x, Rows) /\ D \subseteq heap.live
    BY <1>2, <2>1, HangTogether
  <2>4. /\ heap.live' = heap.live \ D
        /\ \A z \in heap.live \ D : heap.key'[z] = heap.key[z]
    BY <1>2, <2>1, DeleteKeys
  <2> HIDE DEF D
  <2>5. Rows' = Without(D, Rows) /\ Ordered'
    <3> DEFINE m == Without(D, Rows)
    <3>1. KidsAre(heap', m)
      BY <2>2
    <3> HIDE DEF m
    <3>2. Rows' = m /\ Ordered'
      BY <3>1, NewRows
    <3> QED BY <3>2 DEF m
  <2>6. Lists!ListNext
    BY <2>1, <2>3, <2>4, <2>5, AsDrop
  <2> QED BY <2>5, <2>6 DEF ListStep
<1> QED BY <1>1, <1>4, <1>5, <1>6

\* x, renamed or not, takes the place of y.
LEMMA StepReplace ==
  ASSUME TreeInv, TreeInv', Ordered, NEW c \in heap.live \ heap.refs,
         NEW y \in Listed(heap, c), NEW x \in roots,
         c \notin Visited(heap, {x}),
         NEW n, HeapInv(n, Mine), SameTree(heap, n),
         \A z \in heap.live \ {x} : n.key[z] = heap.key[z],
         heap' = Replace(n, c, y, x), roots' = roots \ {x}
  PROVE  ListStep
<1> DEFINE g == Swapped(n, c, y, x)
           D == Visited(g, {y})
           Q == (Mine \ {x}) \cup {y}
<1>1. /\ ListsHold(heap, Mine) /\ heap.live \subseteq Items /\ x \in Mine
      /\ KidsAre(heap, Rows) /\ Rows \in [Items -> Seq(Items)]
  BY Held, HeapParts DEF TreeInv, Ordered, KidsAre
<1>2. /\ KidsAre(n, Rows) /\ c \in n.live \ n.refs /\ n.live = heap.live
      /\ y \in Listed(n, c) /\ c \notin Visited(n, {x})
  BY <1>1, KidsNamed, WalksSame DEF SameTree
<1>3. /\ ListsHold(n, Mine) /\ StringTypes(n) /\ Shaped(n) /\ Forest(n, Mine)
      /\ Reached(n, Mine) /\ StringInv(n) /\ Shares(n)
  BY HeapParts
<1>4. PICK i \in 1..Len(Rows[c]) : Rows[c][i] = y
  <2>1. c \in Items \ n.refs
    BY <1>1, <1>2
  <2> QED BY <1>2, <1>3, <2>1, PlaceOf
<1> DEFINE k == [Rows EXCEPT ![c] = ReplaceAt(Rows[c], i, x)]
<1>5. KidsAre(g, k)
  <2>1. KidsAre(Swapped(n, c, Rows[c][i], x), k)
    BY <1>1, <1>2, <1>3, KidsSwap
  <2> QED BY <1>4, <2>1
<1>6. /\ HeapInv(g, Q) /\ D = Subtree(n, y)
      /\ heap' = DeleteItems(g, y) /\ SameStrings(n, g)
  <2>1. MaySwap(n, Mine, c, y, x)
    BY <1>1, <1>2 DEF MaySwap
  <2>2. SwapGives(n, Mine, c, y, x)
    BY <2>1, HeapSwap
  <2> QED BY <2>2 DEF SwapGives
<1>7. Shaped(g)
  BY <1>6, HeapParts
<1>8. c \notin D
  BY <1>2, <1>6, OwnerApart
<1>9. g.live = heap.live /\ g.key = n.key /\ y \in Q
  BY <1>2, <1>6 DEF SameStrings
<1> HIDE DEF g
<1>10. Hangs(D, y, k) /\ D \subseteq heap.live
  BY <1>5, <1>6, <1>9, HangTogether
<1>11. Hangs(D, Rows[c][i], Rows)
  BY <1>1, <1>4, <1>8, <1>10, HungBefore
<1>12. KidsAre(heap', Without(D, k))
  <2>1. ListsHold(g, Q)
    BY <1>6, HeapParts
  <2> QED BY <1>5, <1>6, <1>9, <2>1, KidsDelete
<1>13. /\ heap.live' = heap.live \ D
       /\ \A z \in heap.live \ (D \cup {x}) : heap.key'[z] = heap.key[z]
  <2>1. /\ heap'.live = g.live \ D
        /\ \A z \in Items \ D : heap'.key[z] = g.key[z]
    BY <1>6, <1>7, DeleteKeys
  <2> QED BY <1>1, <1>9, <2>1
<1> HIDE DEF D
<1>14. Rows' = Without(D, k) /\ Ordered'
  <2> DEFINE m == Without(D, k)
  <2>1. KidsAre(heap', m)
    BY <1>12
  <2> HIDE DEF m
  <2>2. Rows' = m /\ Ordered'
    BY <2>1, NewRows
  <2> QED BY <2>2 DEF m
<1>15. Lists!ListNext
  BY <1>10, <1>11, <1>13, <1>14, AsSwap
<1> QED BY <1>14, <1>15 DEF ListStep

\* Every call that inserts or replaces changes one place of one list.
LEMMA PlaceLists ==
  ASSUME TreeInv, TreeInv', Ordered, Place
  PROVE  ListStep
<1>1. PICK c \in heap.live, x \in roots :
        \/ \E y \in Listed(heap, c) : InsertItemInArray(c, y, x)
        \/ \E y \in Listed(heap, c) : ReplaceItem(c, y, x)
        \/ \E k \in Names, sensitive \in BOOLEAN, b \in Budgets :
             ReplaceItemInObject(c, k, x, sensitive, b)
  BY Zenon DEF Place
<1>2. /\ HeapInv(heap, Mine) /\ ListsHold(heap, Mine) /\ Shaped(heap)
      /\ x \in Mine /\ x \in heap.live /\ FALSE \in BOOLEAN
      /\ KidsAre(heap, Rows) /\ Rows \in [Items -> Seq(Items)]
      /\ heap.live \subseteq Items
  BY Held, HeapParts DEF TreeInv, Ordered, KidsAre
<1>3. ASSUME NEW y \in Listed(heap, c), InsertItemInArray(c, y, x)
      PROVE  ListStep
  <2>1. /\ MayLink(c, x) /\ c # x /\ heap' = InsertBefore(heap, c, y, x)
        /\ roots' = roots \ {x}
    BY <1>3 DEF InsertItemInArray
  <2>2. c \in heap.live \ heap.refs
    BY <2>1, Allowed
  <2>3. PICK i \in 1..Len(Rows[c]) : Rows[c][i] = y
    BY <1>2, <2>2, PlaceOf
  <2> DEFINE k == [Rows EXCEPT ![c] = InsertAt(Rows[c], i, x)]
  <2>4. KidsAre(InsertBefore(heap, c, Rows[c][i], x), k)
    BY <1>2, <2>2, KidsInsert
  <2>5. KidsAre(heap', k)
    BY <2>1, <2>3, <2>4
  <2> HIDE DEF k
  <2>6. Rows' = k /\ Ordered'
    BY <2>5, NewRows
  <2>7. heap.live' = heap.live \cup {x} /\ heap.key' = heap.key
    BY <1>2, <2>1, InsertLinks DEF SameStrings
  <2>8. i \in 1..(Len(Rows[c]) + 1)
    <3>1. Rows[c] \in Seq(Items)
      BY <1>2
    <3> QED BY <3>1
  <2>9. Lists!ListNext
    BY <2>1, <2>6, <2>7, <2>8, AsPut DEF k
  <2> QED BY <2>6, <2>9 DEF ListStep
<1>4. ASSUME NEW y \in Listed(heap, c), ReplaceItem(c, y, x)
      PROVE  ListStep
  <2>1. /\ MayLink(c, x) /\ c # x /\ heap' = Replace(heap, c, y, x)
        /\ roots' = roots \ {x}
    BY <1>4 DEF ReplaceItem
  <2>2. c \in heap.live \ heap.refs /\ c \notin Visited(heap, {x})
    BY <2>1, Allowed
  <2>3. SameTree(heap, heap)
    BY DEF SameTree
  <2> QED BY <1>2, <2>1, <2>2, <2>3, StepReplace
<1>5. ASSUME NEW k \in Names, NEW sensitive \in BOOLEAN, NEW b \in Budgets,
             ReplaceItemInObject(c, k, x, sensitive, b)
      PROVE  ListStep
  <2> DEFINE f == Unnamed(heap, x)
             m == Rename(heap, x, k, FALSE)
             n == IF CanCopy(f, b) THEN m ELSE f
  <2>1. /\ MayLink(c, x) /\ c # x
        /\ \/ heap' = n /\ roots' = roots
           \/ \E y \in Found(heap, c, k, sensitive) :
                /\ CanCopy(f, b)
                /\ MayDelete(y)
                /\ heap' = Replace(n, c, y, x)
                /\ roots' = roots \ {x}
    BY <1>5, Zenon DEF ReplaceItemInObject, Unnamed
  <2>2. SameTree(heap, f)
    BY <1>2 DEF Shaped, Fields, Unnamed, SameTree
  <2>3. HeapInv(m, Mine) /\ SameTree(heap, m)
    BY <1>2, HeapRename
  <2>4. \A z \in heap.live \ {x} : m.key[z] = heap.key[z]
    BY <1>2 DEF Rename, Shaped, Fields
  <2>5. \A z \in heap.live \ {x} : f.key[z] = heap.key[z]
    BY <1>2 DEF Unnamed, Shaped, Fields
  <2> HIDE DEF f, m
  <2>6. CASE heap' = n /\ roots' = roots
    <3>1. SameTree(heap, n)
      BY <2>2, <2>3
    <3>2. /\ heap.live' = heap.live
          /\ \A z \in heap.live \ {x} : heap.key'[z] = heap.key[z]
      BY <2>4, <2>5, <2>6, <3>1 DEF SameTree
    <3> HIDE DEF n
    <3>3. KidsAre(heap', Rows)
      BY <1>2, <2>6, <3>1, KidsNamed
    <3>4. Rows' = Rows /\ Ordered'
      BY <3>3, NewRows
    <3>5. Lists!ListNext
      BY <2>6, <3>2, <3>4, AsName
    <3> QED BY <3>4, <3>5 DEF ListStep
  <2>7. ASSUME NEW y \in Found(heap, c, k, sensitive), CanCopy(f, b),
               heap' = Replace(n, c, y, x), roots' = roots \ {x}
        PROVE  ListStep
    <3>1. /\ c \in heap.live \ heap.refs /\ c \notin Visited(heap, {x})
          /\ y \in Listed(heap, c) /\ heap' = Replace(m, c, y, x)
      BY <2>1, <2>7, Allowed DEF Found
    <3> QED BY <2>3, <2>4, <2>7, <3>1, StepReplace
  <2> QED BY <2>1, <2>6, <2>7
<1> QED BY <1>1, <1>3, <1>4, <1>5

\* Nothing hangs from anything before the first call.
LEMMA FirstLists ==
  ASSUME Init
  PROVE  Lists!ListInit /\ Ordered
<1>1. /\ heap.live = {} /\ heap.refs = {} /\ heap.next = Blank
      /\ heap.child = Blank /\ heap.home = Blank /\ heap.key = Blank
      /\ roots = {}
  BY DEF Init
<1> DEFINE k == [y \in Items |-> <<>>]
<1>2. KidsAre(heap, k)
  <2>1. ASSUME NEW c \in Items PROVE Lined(heap, c, k[c])
    BY <1>1, CellsAssumption DEF Lined, Blank
  <2>2. k \in [Items -> Seq(Items)]
    OBVIOUS
  <2> QED BY <1>1, <2>1, <2>2 DEF KidsAre
<1>3. ListsHold(heap, Mine)
  <2>1. TreeInv
    BY FirstHeap
  <2> QED BY <2>1, HeapParts DEF TreeInv
<1>4. Rows = k /\ Ordered
  BY <1>2, <1>3, KidsIs DEF Rows, Ordered
<1>5. heap.key \in [Items -> {heap.key[x] : x \in Items}]
  BY <1>1 DEF Blank
<1>6. Lists!ListInit
  BY <1>1, <1>4, <1>5 DEF Lists!ListInit, Rows, KidsOf
<1> QED BY <1>4, <1>6

\* A step that leaves the variables alone leaves the lists alone.
LEMMA NoCall ==
  ASSUME TreeInv, Ordered, UNCHANGED vars
  PROVE  TreeInv' /\ Ordered' /\ UNCHANGED Lists!listVars
<1>1. heap' = heap /\ roots' = roots /\ lost' = lost
  BY DEF vars
<1>2. Rows' = Rows /\ Ordered' /\ TreeInv'
  BY <1>1 DEF Rows, Ordered, TreeInv, Mine
<1> QED BY <1>1, <1>2 DEF Lists!listVars, Rows, KidsOf

\* Through next, prev and child every call changes one place of one list, for
\* any number of cells: an item comes in (cJSON.c:2012-2043, 2319-2351), goes
\* out (2243-2277) or takes another's place (2353-2400), what is deleted takes
\* what is below it along, and every other list keeps its items and their order.
THEOREM TreeImplementsLists == Spec => KeepsItsLists
<1>1. Init => Lists!ListInit /\ Ordered
  BY FirstLists
<1>2. ASSUME TreeInv, TreeInv', Ordered, [Next]_vars
      PROVE  Ordered' /\ [Lists!ListNext]_(Lists!listVars)
  <2>1. CASE Next
    <3>1. ListStep
      BY <1>2, <2>1, CreateLists, AddLists, TakeOutLists, PlaceLists DEF Next
    <3> QED BY <3>1 DEF ListStep
  <2>2. CASE UNCHANGED vars
    BY <1>2, <2>2, NoCall
  <2> QED BY <1>2, <2>1, <2>2
<1> QED BY <1>1, <1>2, HeapInvariant, PTL
        DEF Spec, KeepsItsLists, Lists!ListSpec

-----------------------------------------------------------------------------
(* Many items at once.                                                      *)

\* What hangs from an item is a list, or the rest of one.
LEMMA ListingThere ==
  ASSUME NEW h, NEW R, ListsHold(h, R), NEW k, KidsAre(h, k), NEW c \in Items
  PROVE  \E s : Listing(h, c, s)
<1> DEFINE y == h.child[c]
<1>1. /\ Forest(h, R) /\ ListInv(h) /\ h.live \subseteq Items
      /\ y \in Items \cup {Null} /\ Null \notin Items
  BY CellsAssumption DEF ListsHold, StringTypes, Forest, Pointers
<1>2. CASE y = Null
  <2>1. Listing(h, c, <<>>)
    BY <1>2 DEF Listing
  <2> QED BY <2>1
<1>3. CASE y # Null /\ h.home[y] = Null
  <2>1. h.next[y] = Null
    BY <1>1, <1>3 DEF ListInv
  <2>2. Listing(h, c, <<y>>)
    BY <1>1, <1>3, <2>1 DEF Listing
  <2> QED BY <2>2
<1>4. CASE y # Null /\ h.home[y] # Null
  <2> DEFINE e == h.home[y]
             t == k[e]
  <2>1. y \in Items /\ e \in Items \ h.refs
    BY <1>1, <1>4 DEF ListInv
  <2>2. Lined(h, e, t)
    BY <2>1 DEF KidsAre
  <2> HIDE DEF t
  <2>3. PICK i \in 1..Len(t) : t[i] = y
    BY <2>1, <2>2 DEF Lined
  <2>4. t \in Seq(Items) /\ Len(t) \in Nat
    BY <2>2 DEF Lined
  <2>5. \A j \in 1..Len(t) :
          h.next[t[j]] = (IF j = Len(t) THEN Null ELSE t[j + 1])
    BY <2>2 DEF Lined
  <2>6. \A j, l \in 1..Len(t) : t[j] = t[l] => j = l
    BY <2>2 DEF Lined
  <2> DEFINE s == SubSeq(t, i, Len(t))
  <2>7. /\ s \in Seq(Items) /\ Len(s) = Len(t) - i + 1
        /\ \A j \in 1..Len(s) : s[j] = t[i + j - 1]
    BY <2>4, SubSeqProperties
  <2> HIDE DEF s
  <2>8. s[1] = y /\ Len(s) # 0
    BY <2>3, <2>4, <2>7
  <2>10. \A j, l \in 1..Len(s) : s[j] = s[l] => j = l
    <3> SUFFICES ASSUME NEW j \in 1..Len(s), NEW l \in 1..Len(s), s[j] = s[l]
                 PROVE  j = l
      OBVIOUS
    <3>1. i + j - 1 \in 1..Len(t) /\ i + l - 1 \in 1..Len(t)
      BY <2>4, <2>7
    <3>2. t[i + j - 1] = t[i + l - 1]
      BY <2>7
    <3>3. i + j - 1 = i + l - 1
      BY <2>6, <3>1, <3>2
    <3> QED BY <2>4, <2>7, <3>3
  <2>11. ASSUME NEW j \in 1..Len(s)
         PROVE  h.next[s[j]] = IF j = Len(s) THEN Null ELSE s[j + 1]
    <3> DEFINE n == i + j - 1
    <3>1. n \in 1..Len(t) /\ (n = Len(t) <=> j = Len(s))
          /\ n + 1 = i + (j + 1) - 1
      BY <2>4, <2>7
    <3>2. s[j] = t[n]
      BY <2>7
    <3>3. j # Len(s) => s[j + 1] = t[n + 1]
      <4>1. j # Len(s) => j + 1 \in 1..Len(s)
        BY <2>4, <2>7
      <4> QED BY <2>7, <3>1, <4>1
    <3> HIDE DEF n
    <3> QED BY <2>5, <3>1, <3>2, <3>3
  <2>9. Listing(h, c, s)
    BY <2>7, <2>8, <2>10, <2>11 DEF Listing
  <2> QED BY <2>9
<1> QED BY <1>2, <1>3, <1>4

\* Chain is the list of any item.
LEMMA ChainOf ==
  ASSUME NEW h, NEW R, ListsHold(h, R), NEW k, KidsAre(h, k), NEW c \in Items
  PROVE  Listing(h, c, Chain(h, c)) /\ Listed(h, c) = ToSet(Chain(h, c))
BY ListingThere, ListingIs

\* The list of c is s, and the items of s know it.
Linked(g, c, s) ==
  /\ g.child[c] = (IF Len(s) = 0 THEN Null ELSE s[1])
  /\ \A i \in 1..Len(s) :
       /\ g.home[s[i]] = c
       /\ g.next[s[i]] = (IF i = Len(s) THEN Null ELSE s[i + 1])
       /\ g.prev[s[i]] = (IF i = 1 THEN s[Len(s)] ELSE s[i - 1])

\* D with the lists t is a tree, with r on top.
IsTree(D, r, t) ==
  /\ r \in D /\ t \in [D -> Seq(D)]
  /\ \A c, e \in D : \A i \in 1..Len(t[c]), j \in 1..Len(t[e]) :
       t[c][i] = t[e][j] => c = e /\ i = j
  /\ \A z \in D : z # r <=> \E c \in D : \E i \in 1..Len(t[c]) : t[c][i] = z
  /\ \A S \in SUBSET D :
       r \in S /\ (\A c \in S : \A i \in 1..Len(t[c]) : t[c][i] \in S) => D = S

\* g is h with a tree of new items.
Planted(h, g, D, r, t) ==
  /\ IsTree(D, r, t) /\ D \subseteq Items \ h.live
  /\ g.live = h.live \cup D /\ g.refs = h.refs
  /\ g.next \in [Items -> Pointers] /\ g.prev \in [Items -> Pointers]
  /\ g.child \in [Items -> Pointers] /\ g.home \in [Items -> Pointers]
  /\ \A z \in Items \ D :
       /\ g.next[z] = h.next[z] /\ g.prev[z] = h.prev[z]
       /\ g.child[z] = h.child[z] /\ g.home[z] = h.home[z]
       /\ g.key[z] = h.key[z] /\ g.vstr[z] = h.vstr[z]
  /\ g.next[r] = Null /\ g.prev[r] = Null /\ g.home[r] = Null
  /\ \A c \in D : Linked(g, c, t[c])
  /\ \A z \in D : g.vstr[z] \in {z, Null}

\* Where an item of the tree is.
LEMMA InTree ==
  ASSUME NEW h, NEW g, NEW D, NEW r, NEW t, Planted(h, g, D, r, t)
  PROVE  /\ \A c \in D : t[c] \in Seq(D) /\ Len(t[c]) \in Nat
         /\ \A c \in D : \A i \in 1..Len(t[c]) : t[c][i] \in D \ {r}
         /\ \A z \in D \ {r} :
              \E c \in D : \E i \in 1..Len(t[c]) :
                /\ z = t[c][i] /\ g.home[z] = c
                /\ g.next[z] = (IF i = Len(t[c]) THEN Null ELSE t[c][i + 1])
                /\ g.prev[z] = (IF i = 1 THEN t[c][Len(t[c])] ELSE t[c][i - 1])
<1>1. \A c \in D : t[c] \in Seq(D) /\ Len(t[c]) \in Nat
  BY DEF Planted, IsTree
<1>2. \A c \in D : \A i \in 1..Len(t[c]) : t[c][i] \in D
  BY <1>1
<1>3. \A c \in D : \A i \in 1..Len(t[c]) : t[c][i] # r
  BY <1>2 DEF Planted, IsTree
<1>4. ASSUME NEW z \in D \ {r}
      PROVE  \E c \in D : \E i \in 1..Len(t[c]) :
                /\ z = t[c][i] /\ g.home[z] = c
                /\ g.next[z] = (IF i = Len(t[c]) THEN Null ELSE t[c][i + 1])
                /\ g.prev[z] = (IF i = 1 THEN t[c][Len(t[c])] ELSE t[c][i - 1])
  <2>1. PICK c \in D : \E i \in 1..Len(t[c]) : t[c][i] = z
    BY DEF Planted, IsTree
  <2>2. PICK i \in 1..Len(t[c]) : t[c][i] = z
    BY <2>1
  <2>3. Linked(g, c, t[c])
    BY DEF Planted
  <2> QED BY <2>2, <2>3 DEF Linked
<1> QED BY <1>1, <1>2, <1>3, <1>4

\* Where the pointers of the new items lead.
LEMMA TreeLeads ==
  ASSUME NEW h, NEW g, NEW D, NEW r, NEW t, Planted(h, g, D, r, t),
         NEW z \in D
  PROVE  /\ g.next[z] # Null =>
              \E c \in D : \E i \in 1..(Len(t[c]) - 1) :
                /\ i \in 1..Len(t[c]) /\ i + 1 \in 1..Len(t[c])
                /\ z = t[c][i] /\ g.next[z] = t[c][i + 1]
                /\ g.prev[t[c][i + 1]] = z /\ g.home[t[c][i + 1]] = c
                /\ g.home[z] = c
         /\ g.child[z] # Null =>
              1 \in 1..Len(t[z]) /\ Len(t[z]) \in 1..Len(t[z])
              /\ g.child[z] = t[z][1]
         /\ z # r => g.home[z] \in D
<1>1. /\ \A c \in D : t[c] \in Seq(D) /\ Len(t[c]) \in Nat
      /\ \A c \in D : \A i \in 1..Len(t[c]) : t[c][i] \in D \ {r}
      /\ \A x \in D \ {r} :
              \E c \in D : \E i \in 1..Len(t[c]) :
                /\ x = t[c][i] /\ g.home[x] = c
                /\ g.next[x] = (IF i = Len(t[c]) THEN Null ELSE t[c][i + 1])
                /\ g.prev[x] = (IF i = 1 THEN t[c][Len(t[c])] ELSE t[c][i - 1])
  BY InTree
<1>2. ASSUME g.next[z] # Null
      PROVE  \E c \in D : \E i \in 1..(Len(t[c]) - 1) :
                /\ i \in 1..Len(t[c]) /\ i + 1 \in 1..Len(t[c])
                /\ z = t[c][i] /\ g.next[z] = t[c][i + 1]
                /\ g.prev[t[c][i + 1]] = z /\ g.home[t[c][i + 1]] = c
                /\ g.home[z] = c
  <2>1. z \in D \ {r}
    BY <1>2 DEF Planted
  <2>2. PICK c \in D : \E i \in 1..Len(t[c]) :
                /\ z = t[c][i] /\ g.home[z] = c
                /\ g.next[z] = (IF i = Len(t[c]) THEN Null ELSE t[c][i + 1])
    BY <1>1, <2>1
  <2>7. PICK i \in 1..Len(t[c]) :
                /\ z = t[c][i] /\ g.home[z] = c
                /\ g.next[z] = (IF i = Len(t[c]) THEN Null ELSE t[c][i + 1])
    BY <2>2
  <2>3. Len(t[c]) \in Nat /\ i # Len(t[c])
    BY <1>1, <1>2, <2>7
  <2>4. i \in 1..(Len(t[c]) - 1) /\ i + 1 \in 1..Len(t[c]) /\ i + 1 # 1
        /\ (i + 1) - 1 = i
    BY <2>3
  <2>5. Linked(g, c, t[c])
    BY DEF Planted
  <2>6. g.prev[t[c][i + 1]] = t[c][i] /\ g.home[t[c][i + 1]] = c
    BY <2>4, <2>5 DEF Linked
  <2> QED BY <2>3, <2>4, <2>6, <2>7
<1>3. ASSUME g.child[z] # Null
      PROVE  1 \in 1..Len(t[z]) /\ Len(t[z]) \in 1..Len(t[z])
             /\ g.child[z] = t[z][1]
  <2>1. g.child[z] = (IF Len(t[z]) = 0 THEN Null ELSE t[z][1])
    BY DEF Planted, Linked
  <2>2. Len(t[z]) # 0 /\ Len(t[z]) \in Nat
    BY <1>1, <1>3, <2>1
  <2> QED BY <2>1, <2>2
<1>4. z # r => g.home[z] \in D
  BY <1>1
<1> QED BY <1>2, <1>3, <1>4

\* No pointer of the new items leads out of the tree.
LEMMA TreeLeadsDown ==
  ASSUME NEW h, NEW g, NEW D, NEW r, NEW t, Planted(h, g, D, r, t),
         NEW z \in D
  PROVE  /\ g.next[z] \in (D \ {r}) \cup {Null}
         /\ g.child[z] \in (D \ {r}) \cup {Null}
<1>1. \A c \in D : \A i \in 1..Len(t[c]) : t[c][i] \in D \ {r}
  BY InTree
<1>2. g.next[z] \in (D \ {r}) \cup {Null}
  BY <1>1, TreeLeads
<1>3. g.child[z] \in (D \ {r}) \cup {Null}
  BY <1>1, TreeLeads
<1> QED BY <1>2, <1>3

\* What next and child lead to is led to once, with the tree as before it.
LEMMA ForestPlanted ==
  ASSUME NEW h, NEW R, ListsHold(h, R), NEW g, NEW D, NEW r, NEW t,
         Planted(h, g, D, r, t)
  PROVE  Forest(g, R \cup {r})
<1> DEFINE Q == R \cup {r}
<1>1. /\ Forest(h, R) /\ h.live \subseteq Items /\ h.refs \subseteq h.live
      /\ R \subseteq h.live /\ Null \notin Items
  BY CellsAssumption DEF ListsHold, StringTypes, Forest
<1>2. /\ D \subseteq Items /\ D \cap h.live = {} /\ r \in D
      /\ g.live = h.live \cup D /\ g.refs = h.refs
      /\ \A z \in Items \ D : g.next[z] = h.next[z] /\ g.prev[z] = h.prev[z]
                              /\ g.child[z] = h.child[z]
  BY DEF Planted, IsTree
<1>3. \A z \in D : /\ g.next[z] \in (D \ {r}) \cup {Null}
                   /\ g.child[z] \in (D \ {r}) \cup {Null}
  BY TreeLeadsDown
<1>4. \A z \in Items : h.next[z] \in (h.live \ R) \cup {Null}
  BY <1>1 DEF Forest
<1>5. \A z \in Items \ h.refs : h.child[z] \in (h.live \ R) \cup {Null}
  BY <1>1 DEF Forest
<1>6. \A z \in Items : g.next[z] \in (g.live \ Q) \cup {Null}
  BY <1>1, <1>2, <1>3, <1>4
<1>7. \A z \in Items \ g.refs : g.child[z] \in (g.live \ Q) \cup {Null}
  BY <1>1, <1>2, <1>3, <1>5
<1>8. ASSUME NEW w \in Items \ g.refs, NEW z \in Items \ g.refs,
             g.child[w] = g.child[z], g.child[w] # Null
      PROVE  w = z
  <2>1. CASE w \in D /\ z \in D
    <3>1. 1 \in 1..Len(t[w]) /\ 1 \in 1..Len(t[z]) /\ t[w][1] = t[z][1]
      BY <1>8, <2>1, TreeLeads
    <3> QED BY <2>1, <3>1 DEF Planted, IsTree
  <2>2. CASE w \notin D /\ z \notin D
    BY <1>1, <1>2, <1>8, <2>2 DEF Forest
  <2>3. CASE (w \in D /\ z \notin D) \/ (w \notin D /\ z \in D)
    BY <1>2, <1>3, <1>5, <1>8, <2>3
  <2> QED BY <2>1, <2>2, <2>3
<1>9. ASSUME NEW w \in Items, NEW z \in Items \ g.refs,
             g.next[w] = g.child[z], g.next[w] # Null
      PROVE  FALSE
  <2>1. CASE w \in D /\ z \in D
    <3>5. PICK c \in D : \E i \in 1..(Len(t[c]) - 1) :
            i + 1 \in 1..Len(t[c]) /\ g.next[w] = t[c][i + 1]
      BY <1>9, <2>1, TreeLeads
    <3>1. PICK i \in 1..(Len(t[c]) - 1) :
            i + 1 \in 1..Len(t[c]) /\ g.next[w] = t[c][i + 1]
      BY <3>5
    <3>2. 1 \in 1..Len(t[z]) /\ g.child[z] = t[z][1]
      BY <1>9, <2>1, TreeLeads
    <3>6. t[c][i + 1] = t[z][1]
      BY <1>9, <3>1, <3>2
    <3>7. \A b, e \in D : \A k \in 1..Len(t[b]), j \in 1..Len(t[e]) :
            t[b][k] = t[e][j] => b = e /\ k = j
      BY DEF Planted, IsTree
    <3>3. i + 1 = 1
      BY <2>1, <3>1, <3>2, <3>6, <3>7
    <3>4. Len(t[c]) \in Nat
      BY InTree
    <3> QED BY <3>3, <3>4
  <2>2. CASE w \notin D /\ z \notin D
    BY <1>1, <1>2, <1>9, <2>2 DEF Forest
  <2>3. CASE (w \in D /\ z \notin D) \/ (w \notin D /\ z \in D)
    BY <1>2, <1>3, <1>4, <1>5, <1>9, <2>3
  <2> QED BY <2>1, <2>2, <2>3
<1>10. ASSUME NEW w \in Items, g.next[w] # Null
       PROVE  g.prev[g.next[w]] = w
  <2>1. CASE w \in D
    BY <1>10, <2>1, TreeLeads
  <2>2. CASE w \notin D
    <3>1. h.next[w] # Null /\ h.next[w] \in Items \ D
      BY <1>1, <1>2, <1>4, <1>10, <2>2
    <3> QED BY <1>1, <1>2, <2>2, <3>1 DEF Forest
  <2> QED BY <2>1, <2>2
<1>11. /\ g.next \in [Items -> Pointers] /\ g.prev \in [Items -> Pointers]
       /\ g.child \in [Items -> Pointers] /\ Q \subseteq g.live
  BY <1>1, <1>2 DEF Planted
<1> QED BY <1>6, <1>7, <1>8, <1>9, <1>10, <1>11 DEF Forest

\* The list of a new item is the one it is given.
LEMMA PlantedListing ==
  ASSUME NEW h, NEW g, NEW D, NEW r, NEW t, Planted(h, g, D, r, t), NEW c \in D
  PROVE  Listing(g, c, t[c])
<1>0. D \subseteq Items /\ Linked(g, c, t[c])
  BY DEF Planted
<1>1. t[c] \in Seq(D)
  BY InTree
<1>2. t[c] \in Seq(Items)
  BY <1>0, <1>1, SeqMonotonic
<1>3. \A i, j \in 1..Len(t[c]) : t[c][i] = t[c][j] => i = j
  BY DEF Planted, IsTree
<1> QED BY <1>0, <1>2, <1>3 DEF Listing, Linked

\* With the tree every list is a chain that knows its tail.
LEMMA ListsPlanted ==
  ASSUME NEW h, NEW R, ListsHold(h, R), NEW g, NEW D, NEW r, NEW t,
         Planted(h, g, D, r, t)
  PROVE  ListInv(g)
<1>1. /\ Forest(h, R) /\ ListInv(h) /\ h.live \subseteq Items
      /\ h.refs \subseteq h.live /\ R \subseteq h.live /\ Null \notin Items
  BY CellsAssumption DEF ListsHold, StringTypes, Forest
<1>2. /\ D \subseteq Items /\ D \cap h.live = {} /\ r \in D
      /\ g.live = h.live \cup D /\ g.refs = h.refs
      /\ \A z \in Items \ D : g.next[z] = h.next[z] /\ g.prev[z] = h.prev[z]
                              /\ g.child[z] = h.child[z]
                              /\ g.home[z] = h.home[z]
      /\ g.next[r] = Null /\ g.prev[r] = Null /\ g.home[r] = Null
  BY DEF Planted, IsTree
<1>3. Forest(g, R \cup {r})
  BY ForestPlanted
<1>4. \A z \in D : h.home[z] = Null
  BY <1>2, FreeAlone
<1>5. ASSUME NEW c \in Items \ g.refs PROVE EndsWell(g, c)
  <2>1. CASE c \in D
    <3>1. SUFFICES ASSUME g.child[c] # Null
                   PROVE  /\ g.home[g.child[c]] = c
                          /\ g.prev[g.child[c]] \in Items
                          /\ g.home[g.prev[g.child[c]]] = c
                          /\ g.next[g.prev[g.child[c]]] = Null
      BY DEF EndsWell
    <3>2. /\ 1 \in 1..Len(t[c]) /\ Len(t[c]) \in 1..Len(t[c])
          /\ g.child[c] = t[c][1]
      BY <2>1, <3>1, TreeLeads
    <3>3. Linked(g, c, t[c])
      BY <2>1 DEF Planted
    <3>4. g.home[t[c][1]] = c /\ g.prev[t[c][1]] = t[c][Len(t[c])]
      BY <3>2, <3>3 DEF Linked
    <3>5. g.home[t[c][Len(t[c])]] = c /\ g.next[t[c][Len(t[c])]] = Null
      BY <3>2, <3>3 DEF Linked
    <3>6. t[c][Len(t[c])] \in Items
      BY <1>2, <2>1, <3>2, InTree
    <3> QED BY <3>2, <3>4, <3>5, <3>6
  <2>2. CASE c \notin D
    <3>1. EndsWell(h, c) /\ g.child[c] = h.child[c]
      BY <1>1, <1>2, <2>2 DEF ListInv
    <3>2. h.child[c] # Null => h.child[c] \in Items \ D
      BY <1>1, <1>2 DEF Forest
    <3>3. h.child[c] # Null => h.prev[h.child[c]] \in Items \ D
      BY <1>1, <1>4, <3>1 DEF EndsWell
    <3> QED BY <1>2, <3>1, <3>2, <3>3 DEF EndsWell
  <2> QED BY <2>1, <2>2
<1>6. ASSUME NEW z \in Items, g.next[z] # Null
      PROVE  g.home[g.next[z]] = g.home[z]
  <2>1. CASE z \in D
    BY <1>6, <2>1, TreeLeads
  <2>2. CASE z \notin D
    <3>1. h.next[z] # Null /\ h.next[z] \in Items \ D
      BY <1>1, <1>2, <1>6, <2>2 DEF Forest
    <3> QED BY <1>1, <1>2, <2>2, <3>1 DEF ListInv
  <2> QED BY <2>1, <2>2
<1>7. ASSUME NEW z \in Items, g.home[z] = Null
      PROVE  g.next[z] = Null /\ g.prev[z] = Null
  <2>1. CASE z \in D
    <3>1. z = r
      BY <1>1, <1>2, <1>7, <2>1, TreeLeads
    <3> QED BY <1>2, <3>1
  <2>2. CASE z \notin D
    BY <1>1, <1>2, <1>7, <2>2 DEF ListInv
  <2> QED BY <2>1, <2>2
<1>8. ASSUME NEW z \in Items, g.home[z] # Null
      PROVE  /\ g.home[z] \in g.live \ g.refs
             /\ z \in Listed(g, g.home[z])
             /\ g.next[z] = Null => g.prev[g.child[g.home[z]]] = z
  <2>1. CASE z \in D
    <3>1. z \in D \ {r}
      BY <1>2, <1>8, <2>1
    <3>10. PICK c \in D : \E i \in 1..Len(t[c]) :
            /\ z = t[c][i] /\ g.home[z] = c
            /\ g.next[z] = (IF i = Len(t[c]) THEN Null ELSE t[c][i + 1])
      BY <3>1, InTree
    <3>2. PICK i \in 1..Len(t[c]) :
            /\ z = t[c][i] /\ g.home[z] = c
            /\ g.next[z] = (IF i = Len(t[c]) THEN Null ELSE t[c][i + 1])
      BY <3>10
    <3>3. Listing(g, c, t[c]) /\ Linked(g, c, t[c])
      BY PlantedListing DEF Planted
    <3>4. z \in ToSet(t[c])
      BY <3>2, <3>3 DEF Listing, ToSet
    <3>5. z \in Listed(g, c)
      BY <3>3, <3>4, ListingIs
    <3>6. Len(t[c]) \in Nat /\ \A j \in 1..Len(t[c]) : t[c][j] \in Items
      BY <1>2, InTree
    <3>7. 1 \in 1..Len(t[c]) /\ Len(t[c]) # 0
      BY <3>6
    <3>8. g.prev[g.child[c]] = t[c][Len(t[c])]
      BY <3>3, <3>7 DEF Linked
    <3>9. g.next[z] = Null => i = Len(t[c])
      <4>1. SUFFICES ASSUME i # Len(t[c]) PROVE g.next[z] # Null
        OBVIOUS
      <4>2. i + 1 \in 1..Len(t[c])
        BY <3>6, <4>1
      <4> QED BY <1>1, <3>2, <3>6, <4>1, <4>2
    <3> QED BY <1>1, <1>2, <3>2, <3>5, <3>8, <3>9
  <2>2. CASE z \notin D
    <3> DEFINE e == h.home[z]
    <3>1. /\ e \in h.live \ h.refs /\ z \in Listed(h, e) /\ g.home[z] = e
          /\ h.next[z] = Null => h.prev[h.child[e]] = z
      BY <1>1, <1>2, <1>8, <2>2 DEF ListInv
    <3>2. e \in Items \ h.refs /\ e \notin D /\ g.child[e] = h.child[e]
      BY <1>1, <1>2, <3>1
    <3> HIDE DEF e
    <3>3. h.child[e] # Null /\ h.child[e] \in Items \ D
      BY <1>1, <1>2, <3>1, <3>2 DEF Listed, Forest
    <3>4. ASSUME NEW S \in SUBSET Items, g.child[e] \in S, NextClosed(g, S)
          PROVE  z \in S
      <4>1. NextClosed(h, S \ D)
        <5>1. ASSUME NEW x \in S \ D, h.next[x] # Null
              PROVE  h.next[x] \in S \ D
          <6>1. g.next[x] = h.next[x] /\ h.next[x] \notin D
            BY <1>1, <1>2, <5>1 DEF Forest
          <6> QED BY <3>4, <5>1, <6>1 DEF NextClosed
        <5> QED BY <5>1 DEF NextClosed
      <4>2. h.child[e] \in S \ D /\ S \ D \in SUBSET Items
        BY <3>2, <3>3, <3>4
      <4>3. z \in S \ D
        BY <1>1, <3>1, <3>2, <4>1, <4>2, ListedFrom
      <4> QED BY <4>3
    <3>5. z \in Listed(g, e)
      <4>1. e \in Items \ g.refs /\ g.child[e] # Null
        BY <1>2, <3>2, <3>3
      <4> QED BY <1>3, <3>4, <4>1, ListedFrom
    <3> QED BY <1>2, <2>2, <3>1, <3>2, <3>3, <3>5
  <2> QED BY <2>1, <2>2
<1> QED BY <1>5, <1>6, <1>7, <1>8 DEF ListInv, Planted

\* A set that is closed under what the new items lead to has their lists.
LEMMA PlantedClosed ==
  ASSUME NEW h, NEW R, ListsHold(h, R), NEW g, NEW D, NEW r, NEW t,
         Planted(h, g, D, r, t),
         NEW S \in SUBSET Items, r \in S, Owned(g, S)
  PROVE  D \subseteq S
<1>1. /\ Forest(g, R \cup {r}) /\ D \subseteq Items /\ r \in D
      /\ g.refs \cap D = {}
  <2>1. /\ D \subseteq Items \ h.live /\ r \in D /\ g.refs = h.refs
    BY DEF Planted, IsTree
  <2> QED BY <2>1, ForestPlanted DEF ListsHold, StringTypes
<1>2. ASSUME NEW c \in S \cap D, NEW i \in 1..Len(t[c])
      PROVE  t[c][i] \in S
  <2>1. Listing(g, c, t[c]) /\ c \in Items \ g.refs
    BY <1>1, PlantedListing
  <2>2. t[c][i] \in ToSet(t[c]) /\ t[c][i] \in Items
    BY <2>1 DEF Listing, ToSet
  <2>3. t[c][i] \in Listed(g, c)
    BY <2>1, <2>2, ListingIs
  <2>4. g.child[c] # Null
    BY <2>3 DEF Listed
  <2>5. g.child[c] \in S /\ NextClosed(g, S)
    BY <2>1, <2>4 DEF Owned
  <2> QED BY <1>1, <2>1, <2>2, <2>3, <2>5, ListedFrom
<1>3. \A c \in D : \A i \in 1..Len(t[c]) : t[c][i] \in D
  BY InTree
<1>4. D = S \cap D
  <2>1. S \cap D \in SUBSET D /\ r \in S \cap D
    BY <1>1
  <2>2. \A c \in S \cap D : \A i \in 1..Len(t[c]) : t[c][i] \in S \cap D
    BY <1>2, <1>3
  <2> QED BY <2>1, <2>2 DEF Planted, IsTree
<1> QED BY <1>4

\* Together: the new tree keeps all, and is what is below its top.
LEMMA HeapPlanted ==
  ASSUME NEW h, NEW R, HeapInv(h, R), NEW g, NEW D, NEW r, NEW t,
         Planted(h, g, D, r, t), StringInv(g)
  PROVE  HeapInv(g, R \cup {r}) /\ Visited(g, {r}) = D
<1>1. /\ ListsHold(h, R) /\ Forest(h, R) /\ Reached(h, R) /\ Shares(h)
      /\ h.live \subseteq Items /\ h.refs \subseteq h.live
      /\ R \subseteq h.live /\ Null \notin Items
  BY HeapParts, CellsAssumption
<1>2. /\ D \subseteq Items /\ D \cap h.live = {} /\ r \in D
      /\ g.live = h.live \cup D /\ g.refs = h.refs
      /\ \A z \in Items \ D : g.next[z] = h.next[z] /\ g.child[z] = h.child[z]
                              /\ g.vstr[z] = h.vstr[z]
      /\ \A z \in D : g.vstr[z] \in {z, Null}
  BY DEF Planted, IsTree
<1>3. Forest(g, R \cup {r}) /\ ListInv(g)
  BY <1>1, ForestPlanted, ListsPlanted
<1>4. Shares(g)
  <2>1. \A x \in g.refs : g.child[x] \in g.live \cup {Null}
    BY <1>1, <1>2 DEF Shares
  <2>2. \A z \in Items : g.vstr[z] \in g.live \cup {Null, Lent}
    BY <1>1, <1>2 DEF Shares
  <2>3. \A z \in Items \ g.refs : g.vstr[z] \in {z, Null}
    BY <1>1, <1>2 DEF Shares
  <2> QED BY <2>1, <2>2, <2>3 DEF Shares
<1>5. ASSUME NEW S \in SUBSET Items, R \cup {r} \subseteq S, Owned(g, S)
      PROVE  g.live \subseteq S
  <2>1. D \subseteq S
    BY <1>1, <1>5, PlantedClosed
  <2>2. ASSUME NEW z \in S \ D PROVE Led(h, z) \subseteq S \ D
    <3>1. Led(g, z) = Led(h, z) /\ z \in Items
      BY <1>2 DEF Led
    <3>2. Led(g, z) \subseteq S
      BY <1>5, OwnedLed
    <3>3. Led(h, z) \subseteq h.live
      BY <1>1, <3>1, LedTo
    <3> QED BY <1>2, <3>1, <3>2, <3>3
  <2>3. Owned(h, S \ D) /\ R \subseteq S \ D /\ S \ D \in SUBSET Items
    BY <1>1, <1>2, <1>5, <2>2, OwnedLed
  <2>4. h.live \subseteq S \ D
    BY <1>1, <2>3 DEF Reached
  <2> QED BY <1>2, <2>1, <2>4
<1>6. Visited(g, {r}) = D
  <2>1. g.live \subseteq Items /\ {r} \in SUBSET Items
    BY <1>1, <1>2
  <2>2. /\ {r} \subseteq Visited(g, {r}) /\ Visited(g, {r}) \subseteq Items
        /\ Owned(g, Visited(g, {r}))
        /\ \A S \in SUBSET Items : {r} \subseteq S /\ Owned(g, S)
                                   => Visited(g, {r}) \subseteq S
    BY <1>3, <2>1, VisitedIs
  <2>3. D \subseteq Visited(g, {r})
    BY <1>1, <2>2, PlantedClosed
  <2>4. Owned(g, D)
    <3>1. \A z \in D : Led(g, z) \subseteq D
      BY TreeLeadsDown DEF Led
    <3> QED BY <3>1, OwnedLed
  <2> QED BY <1>2, <2>2, <2>3, <2>4
<1>7. Reached(g, R \cup {r})
  BY <1>5 DEF Reached
<1> QED BY <1>3, <1>4, <1>6, <1>7 DEF HeapInv

\* The lists of the new tree are its own, and the others stay.
Joined(D, t, k) == [y \in Items |-> IF y \in D THEN t[y] ELSE k[y]]

\* The lists of the heap are those it had, and those of the tree.
LEMMA KidsPlanted ==
  ASSUME NEW h, NEW R, HeapInv(h, R), NEW k, KidsAre(h, k),
         NEW g, NEW D, NEW r, NEW t, Planted(h, g, D, r, t)
  PROVE  KidsAre(g, Joined(D, t, k))
<1>1. /\ ListsHold(h, R) /\ Forest(h, R) /\ ListInv(h)
      /\ h.live \subseteq Items /\ h.refs \subseteq h.live /\ Null \notin Items
  BY HeapParts, CellsAssumption
<1>2. /\ D \subseteq Items /\ D \cap h.live = {} /\ r \in D
      /\ g.live = h.live \cup D /\ g.refs = h.refs
      /\ \A z \in Items \ D : g.next[z] = h.next[z] /\ g.child[z] = h.child[z]
                              /\ g.home[z] = h.home[z]
      /\ g.home[r] = Null
  BY DEF Planted, IsTree
<1>3. \A z \in D : h.home[z] = Null /\ g.home[z] \in D \cup {Null}
  BY <1>1, <1>2, FreeAlone, TreeLeads
<1>4. \A z \in Items : h.home[z] # Null => h.home[z] \in h.live
  BY <1>1 DEF ListInv
<1>5. ASSUME NEW c \in D PROVE Lined(g, c, t[c])
  <2>1. Listing(g, c, t[c]) /\ c \in Items
    BY <1>2, PlantedListing
  <2>2. ASSUME NEW z \in Items, g.home[z] = c
        PROVE  \E i \in 1..Len(t[c]) : t[c][i] = z
    <3>1. z \in D
      BY <1>1, <1>2, <1>4, <2>1, <2>2
    <3>2. z \in D \ {r}
      BY <1>1, <1>2, <2>1, <2>2, <3>1
    <3> QED BY <2>2, <3>2, InTree
  <2>3. \A i \in 1..Len(t[c]) : g.home[t[c][i]] = c
    BY DEF Planted, Linked
  <2> QED BY <2>1, <2>2, <2>3 DEF Listing, Lined
<1>6. ASSUME NEW c \in (Items \ D) \ h.refs PROVE Lined(g, c, k[c])
  <2>1. Lined(h, c, k[c])
    BY <1>6 DEF KidsAre
  <2>2. \A z \in Items : g.home[z] = c <=> h.home[z] = c
    BY <1>1, <1>2, <1>3
  <2>3. \A z \in Items : h.home[z] = c => g.next[z] = h.next[z]
    BY <1>1, <1>2, <1>3
  <2>4. g.child[c] = h.child[c]
    BY <1>2
  <2> QED BY <2>1, <2>2, <2>3, <2>4, LinedKept
<1>7. ASSUME NEW c \in Items \cap h.refs PROVE k[c] = <<>> /\ c \notin D
  BY <1>1, <1>2 DEF KidsAre
<1>8. Joined(D, t, k) \in [Items -> Seq(Items)]
  <2>1. \A c \in D : t[c] \in Seq(Items)
    BY PlantedListing DEF Listing
  <2>2. \A c \in Items : k[c] \in Seq(Items)
    BY DEF KidsAre
  <2> QED BY <2>1, <2>2 DEF Joined
<1> QED BY <1>2, <1>5, <1>6, <1>7, <1>8 DEF KidsAre, Joined

\* A tree of new items, which the caller holds.
LEMMA AsMakeAll ==
  ASSUME NEW D, NEW r, NEW t, IsTree(D, r, t), D \subseteq Items \ heap.live,
         heap.live \subseteq Items,
         heap.live' = heap.live \cup D, roots' = roots \cup {r},
         Rows' = Joined(D, t, Rows),
         \A z \in heap.live : heap.key'[z] = heap.key[z]
  PROVE  Lists!ListNext
<1>1. heap.live' \ heap.live = D /\ heap.live \subseteq heap.live' /\ r \in D
  BY DEF IsTree
<1>2. Lists!OthersKeepNames({})
  BY DEF Lists!OthersKeepNames
<1>3. \A c \in D : Rows'[c] = t[c] /\ t[c] \in Seq(D)
  BY DEF Joined, IsTree
<1>4. \A c \in heap.live : Rows'[c] = Rows[c]
  BY DEF Joined
<1>5. \A c \in D : \A z :
        z \in ToSet(t[c]) <=> \E i \in 1..Len(t[c]) : t[c][i] = z
  BY <1>3 DEF ToSet
<1>6. \A c \in D : Lists!ToSet(Rows'[c]) = ToSet(t[c])
  BY <1>3, SameOperators
<1>7. \A y \in D \ {r} : \E z \in D : y \in Lists!ToSet(Rows'[z])
  <2>1. \A y \in D \ {r} : \E z \in D : y \in ToSet(t[z])
    BY <1>5 DEF IsTree
  <2> QED BY <1>6, <2>1
<1>9. \A c \in D : Lists!ToSet(Rows'[c]) \subseteq D
  <2>1. ASSUME NEW c \in D PROVE ToSet(t[c]) \subseteq D
    <3>1. \A i \in 1..Len(t[c]) : t[c][i] \in D
      BY <1>3
    <3> QED BY <1>5, <3>1
  <2> QED BY <1>6, <2>1
<1>8. Lists!Make(heap.live' \ heap.live)
  <2>1. \E x \in D : /\ roots' \in {roots, roots \cup {x}}
                     /\ \A y \in D \ {x} :
                          \E z \in D : y \in Lists!ToSet(Rows'[z])
    <3>1. roots' \in {roots, roots \cup {r}}
      OBVIOUS
    <3> QED BY <1>1, <1>7, <3>1, Zenon
  <2>2. D # {}
    BY <1>1
  <2> QED BY <1>1, <1>2, <1>4, <1>9, <2>1, <2>2 DEF Lists!Make, Rows, KidsOf
<1> QED BY <1>1, <1>8, Zenon DEF Lists!ListNext

\* A call that makes a tree.
LEMMA StepPlant ==
  ASSUME TreeInv, Ordered, NEW D, NEW r, NEW t,
         Planted(heap, heap', D, r, t), StringInv(heap'),
         roots' = roots \cup {r}, lost' = lost
  PROVE  TreeInv' /\ ListStep
<1>1. /\ HeapInv(heap, Mine) /\ KidsAre(heap, Rows)
      /\ heap.live \subseteq Items /\ Mine \subseteq heap.live
  BY Held DEF TreeInv, Ordered
<1>2. /\ IsTree(D, r, t) /\ D \subseteq Items \ heap.live /\ r \in D
      /\ heap'.live = heap.live \cup D
      /\ \A z \in heap.live : heap'.key[z] = heap.key[z]
  BY <1>1 DEF Planted, IsTree
<1>3. Mine' = Mine \cup {r} /\ r \notin Mine
  BY <1>1, <1>2 DEF Mine
<1>4. TreeInv'
  <2>1. HeapInv(heap', Mine \cup {r})
    BY <1>1, HeapPlanted
  <2>2. roots' \cap lost' = {}
    BY <1>3 DEF TreeInv, Mine
  <2> QED BY <1>3, <2>1, <2>2 DEF TreeInv
<1>5. Rows' = Joined(D, t, Rows) /\ Ordered'
  BY <1>1, <1>4, KidsPlanted, NewRows
<1>6. Lists!ListNext
  BY <1>1, <1>2, <1>5, AsMakeAll
<1> QED BY <1>4, <1>5, <1>6 DEF ListStep

\* What is freed again leaves the heap as it was.
LEMMA FreshFreed ==
  ASSUME NEW h, NEW R, ListsHold(h, R), NEW g, Shaped(g),
         h.prev \in [Items -> Pointers], h.home \in [Items -> Pointers],
         NEW D \in SUBSET (Items \ h.live),
         g.live = h.live \cup D, g.refs = h.refs, g.consts \ D = h.consts,
         \A z \in Items \ D :
           /\ g.next[z] = h.next[z] /\ g.prev[z] = h.prev[z]
           /\ g.child[z] = h.child[z] /\ g.home[z] = h.home[z]
           /\ g.key[z] = h.key[z] /\ g.vstr[z] = h.vstr[z],
         g.strings = h.strings + Blocks(g, D), Blocks(g, D) \in Int
  PROVE  Free(g, D) = h
<1>1. /\ Shaped(h) /\ Forest(h, R) /\ h.live \subseteq Items
      /\ h.refs \subseteq h.live /\ h.consts \subseteq h.live
      /\ h.strings \in Int
      /\ h.key \in [Items -> Names \cup {Null}]
      /\ h.vstr \in [Items -> Pointers \cup {Lent}]
      /\ \A z \in D : h.key[z] = Null /\ h.vstr[z] = Null
  BY DEF ListsHold, StringTypes
<1>2. \A z \in D : /\ h.home[z] = Null /\ h.next[z] = Null /\ h.prev[z] = Null
                   /\ h.child[z] = Null
  BY FreeAlone
<1> DEFINE f == Free(g, D)
           blank(m) == [z \in Items |-> IF z \in D THEN Null ELSE m[z]]
<1>3. /\ f.live = g.live \ D /\ f.refs = g.refs \ D /\ f.consts = g.consts \ D
      /\ f.next = blank(g.next) /\ f.prev = blank(g.prev)
      /\ f.child = blank(g.child) /\ f.home = blank(g.home)
      /\ f.key = blank(g.key) /\ f.vstr = blank(g.vstr)
      /\ f.strings = g.strings - Blocks(g, D)
      /\ Shaped(f)
  BY DEF Free, Shaped, Fields
<1>4. f.live = h.live /\ f.refs = h.refs /\ f.consts = h.consts
  BY <1>1, <1>3
<1>5. f.strings = h.strings
  <2> DEFINE n == Blocks(g, D)
  <2>1. n \in Int /\ g.strings = h.strings + n /\ f.strings = g.strings - n
    BY <1>3
  <2> HIDE DEF n
  <2> QED BY <1>1, <2>1
<1> HIDE DEF f
<1>6. f.next = h.next /\ f.child = h.child
  BY <1>1, <1>2, <1>3 DEF Forest
<1>7. f.prev = h.prev /\ f.home = h.home
  BY <1>2, <1>3
<1>8. f.key = h.key /\ f.vstr = h.vstr
  BY <1>1, <1>3
<1>9. \A x \in Fields : f[x] = h[x]
  BY <1>4, <1>5, <1>6, <1>7, <1>8 DEF Fields
<1>10. f = h
  BY <1>1, <1>3, <1>9 DEF Shaped
<1> QED BY <1>10 DEF f

-----------------------------------------------------------------------------
(* Strings.  An array constructor counts the blocks that are left.          *)

\* A heap whose strings the allocator can have handed out.
Afforded(h) == Shaped(h) /\ h.strings \in Int /\ h.strings <= MaxStrings

\* Linking takes no string.
LEMMA LinksAfforded ==
  ASSUME NEW h, Afforded(h), NEW c, NEW y, NEW x
  PROVE  /\ Afforded(AddLast(h, c, x)) /\ Afforded(Detach(h, c, x))
         /\ Afforded(InsertBefore(h, c, y, x)) /\ Afforded(Swapped(h, c, y, x))
         /\ Afforded(NewItem(h, x)) /\ Afforded(Reference(h, y, x))
         /\ Reference(h, y, x).strings = h.strings
<1>1. /\ Afforded(AddLast(h, c, x)) /\ Afforded(Detach(h, c, x))
      /\ Afforded(InsertBefore(h, c, y, x)) /\ Afforded(Swapped(h, c, y, x))
  BY AddLastLinks, DetachLinks, InsertLinks, SwappedLinks
     DEF Afforded, SameStrings
<1>2. /\ Shaped(NewItem(h, x)) /\ NewItem(h, x).strings = h.strings
      /\ Shaped(Reference(h, y, x)) /\ Reference(h, y, x).strings = h.strings
  BY DEF Afforded, NewItem, Reference, Shaped, Fields
<1> QED BY <1>1, <1>2 DEF Afforded

\* What a deletion gives back is counted.
LEMMA BlocksAre ==
  ASSUME NEW h, NEW D \in SUBSET Items
  PROVE  Blocks(h, D) \in Nat
<1>1. /\ {x \in D : OwnsValue(h, x)} \in SUBSET Items
      /\ {x \in D : OwnsKey(h, x)} \in SUBSET Items
  OBVIOUS
<1>2. /\ IsFiniteSet({x \in D : OwnsValue(h, x)})
      /\ IsFiniteSet({x \in D : OwnsKey(h, x)})
  BY <1>1, CellsAssumption, FS_Subset
<1>3. /\ Cardinality({x \in D : OwnsValue(h, x)}) \in Nat
      /\ Cardinality({x \in D : OwnsKey(h, x)}) \in Nat
  BY <1>2, FS_CardinalityType
<1> QED BY <1>3 DEF Blocks

\* Deleting takes no string.
LEMMA DeleteAfforded ==
  ASSUME NEW h, Afforded(h), NEW x
  PROVE  Afforded(DeleteItems(h, x)) /\ Afforded(Discard(h, x))
<1> DEFINE D == Visited(h, {x})
           n == Blocks(h, D)
<1>1. n \in Nat
  BY BlocksAre DEF Visited
<1>2. /\ Shaped(DeleteItems(h, x)) /\ DeleteItems(h, x).strings = h.strings - n
  BY DEF Afforded, DeleteItems, Free, Shaped, Fields
<1> HIDE DEF n
<1>3. MaxStrings \in Nat /\ h.strings \in Int /\ h.strings <= MaxStrings
  BY CellsAssumption DEF Afforded
<1>4. h.strings - n \in Int /\ h.strings - n <= MaxStrings
  BY <1>1, <1>3
<1> QED BY <1>2, <1>4 DEF Afforded, Discard

\* Nor does replacing.
LEMMA ReplaceAfforded ==
  ASSUME NEW h, Afforded(h), NEW c, NEW y, NEW x
  PROVE  Afforded(Replace(h, c, y, x))
<1>1. Shaped(h)
  BY DEF Afforded
<1> QED BY <1>1, SwappedLinks, LinksAfforded, DeleteAfforded

\* A copied key takes one block.
LEMMA RenameAfforded ==
  ASSUME NEW h, Afforded(h), NEW x, NEW k, NEW const \in BOOLEAN
  PROVE  /\ Afforded(Unnamed(h, x))
         /\ Unnamed(h, x).strings < MaxStrings
              => Afforded(Rename(h, x, k, const))
         /\ h.strings < MaxStrings \/ const => Afforded(Rename(h, x, k, const))
         /\ Shaped(Rename(h, x, k, const))
<1>1. /\ Shaped(Unnamed(h, x)) /\ Shaped(Rename(h, x, k, const))
      /\ Unnamed(h, x).strings = h.strings - One(OwnsKey(h, x))
      /\ Rename(h, x, k, const).strings
           = h.strings + One(~const) - One(OwnsKey(h, x))
  BY DEF Afforded, Unnamed, Rename, Shaped, Fields
<1>2. One(~const) \in {0, 1} /\ One(OwnsKey(h, x)) \in {0, 1}
      /\ (const => One(~const) = 0)
  BY DEF One
<1>3. MaxStrings \in Nat
  BY CellsAssumption
<1>4. h.strings \in Int /\ h.strings <= MaxStrings
  BY DEF Afforded
<1> QED BY <1>1, <1>2, <1>3, <1>4 DEF Afforded

\* A new value takes one block, if there is one.
LEMMA ValuedAfforded ==
  ASSUME NEW h, Afforded(h), NEW x, NEW b, CanCopy(h, b)
  PROVE  Afforded(NewValued(h, x))
<1>1. Shaped(NewValued(h, x)) /\ NewValued(h, x).strings = h.strings + 1
  BY DEF Afforded, NewItem, NewValued, Shaped, Fields
<1> QED BY <1>1, CellsAssumption DEF Afforded, CanCopy

\* No call copies a string that cannot be had.
LEMMA CallsAfforded ==
  ASSUME TreeInv, Afforded(heap), Next
  PROVE  Afforded(heap')
<1>1. CASE Create
  <2>1. PICK x \in Spare, b \in Budgets :
          \/ CreateItem(x, b)
          \/ CreateString(x, b)
          \/ CreateStringReference(x, b)
          \/ \E y \in heap.live : CreateListReference(x, y, b)
    BY <1>1, Zenon DEF Create
  <2> DEFINE n == NewItem(heap, x)
  <2>2. Afforded(n)
    BY LinksAfforded
  <2>3. CASE CreateItem(x, b)
    BY <2>2, <2>3 DEF CreateItem, Hold
  <2>4. CASE CreateString(x, b)
    BY <2>2, <2>4, ValuedAfforded, DeleteAfforded DEF CreateString, Hold
  <2> HIDE DEF n
  <2>5. CASE CreateStringReference(x, b)
    <3>1. heap' = [n EXCEPT !.refs = @ \cup {x}, !.vstr[x] = Lent]
      BY <2>5 DEF CreateStringReference, Hold, n
    <3> QED BY <2>2, <3>1 DEF Afforded, Shaped, Fields
  <2>6. ASSUME NEW y \in heap.live, CreateListReference(x, y, b)
        PROVE  Afforded(heap')
    <3>1. heap' = [n EXCEPT !.refs = @ \cup {x}, !.child[x] = y]
      BY <2>6 DEF CreateListReference, Hold, n
    <3> QED BY <2>2, <3>1 DEF Afforded, Shaped, Fields
  <2> QED BY <2>1, <2>3, <2>4, <2>5, <2>6
<1>2. CASE Add
  <2>1. PICK c \in heap.live, b \in Budgets :
          \/ \E x \in roots : AddItemToArray(c, x)
          \/ \E x \in roots, k \in Names, const \in BOOLEAN :
               AddItemToObject(c, k, x, const, b)
          \/ \E x \in Spare, k \in Names, valued \in BOOLEAN :
               AddXToObject(c, k, x, valued, b)
          \/ \E x \in heap.live, r \in Spare :
               AddItemReferenceToArray(c, x, r, b)
          \/ \E x \in heap.live, r \in Spare, k \in Names :
               AddItemReferenceToObject(c, k, x, r, b)
    BY <1>2, Zenon DEF Add
  <2>2. ASSUME NEW x \in roots, AddItemToArray(c, x) PROVE Afforded(heap')
    BY <2>2, LinksAfforded DEF AddItemToArray
  <2>3. ASSUME NEW x \in roots, NEW k \in Names, NEW const \in BOOLEAN,
               AddItemToObject(c, k, x, const, b)
        PROVE  Afforded(heap')
    <3>1. const \/ heap.strings < MaxStrings
      BY <2>3, Zenon DEF AddItemToObject, CanCopy
    <3>2. heap' = AddLast(Rename(heap, x, k, const), c, x)
      BY <2>3, Zenon DEF AddItemToObject
    <3> QED BY <3>1, <3>2, RenameAfforded, LinksAfforded
  <2>4. ASSUME NEW x \in Spare, NEW k \in Names, NEW valued \in BOOLEAN,
               AddXToObject(c, k, x, valued, b)
        PROVE  Afforded(heap')
    <3> DEFINE left == IF valued THEN b - 2 ELSE b - 1
               made == IF valued THEN NewValued(heap, x) ELSE NewItem(heap, x)
    <3>1. /\ valued => CanCopy(heap, b - 1)
          /\ heap' = IF CanCopy(made, left)
                     THEN AddLast(Rename(made, x, k, FALSE), c, x)
                     ELSE Discard(made, x)
      BY <2>4, Zenon DEF AddXToObject
    <3>2. Afforded(made)
      BY <3>1, ValuedAfforded, LinksAfforded
    <3>3. CanCopy(made, left) => made.strings < MaxStrings
      BY DEF CanCopy
    <3> HIDE DEF made
    <3> QED BY <3>1, <3>2, <3>3, RenameAfforded, LinksAfforded, DeleteAfforded
  <2>5. ASSUME NEW x \in heap.live, NEW r \in Spare,
               AddItemReferenceToArray(c, x, r, b)
        PROVE  Afforded(heap')
    BY <2>5, LinksAfforded DEF AddItemReferenceToArray
  <2>6. ASSUME NEW x \in heap.live, NEW r \in Spare, NEW k \in Names,
               AddItemReferenceToObject(c, k, x, r, b)
        PROVE  Afforded(heap')
    <3> DEFINE made == Reference(heap, x, r)
    <3>1. \/ CanCopy(made, b - 1)
             /\ heap' = AddLast(Rename(made, r, k, FALSE), c, r)
          \/ heap' = made
      BY <2>6, Zenon DEF AddItemReferenceToObject
    <3>2. Afforded(made) /\ (CanCopy(made, b - 1) => made.strings < MaxStrings)
      BY LinksAfforded DEF CanCopy
    <3> HIDE DEF made
    <3> QED BY <3>1, <3>2, RenameAfforded, LinksAfforded
  <2> QED BY <2>1, <2>2, <2>3, <2>4, <2>5, <2>6
<1>3. CASE TakeOut
  <2>1. PICK c \in heap.live, x \in heap.live :
          DetachItem(c, x) \/ DeleteItemFrom(c, x) \/ Delete(x)
    BY <1>3, Zenon DEF TakeOut
  <2>2. heap' \in {Detach(heap, c, x), DeleteItems(Detach(heap, c, x), x),
                   DeleteItems(heap, x)}
    BY <2>1 DEF DetachItem, DeleteItemFrom, Delete, Hold
  <2> QED BY <2>2, LinksAfforded, DeleteAfforded
<1>4. CASE Place
  <2>1. PICK c \in heap.live, x \in roots :
          \/ \E y \in Listed(heap, c) : InsertItemInArray(c, y, x)
          \/ \E y \in Listed(heap, c) : ReplaceItem(c, y, x)
          \/ \E k \in Names, sensitive \in BOOLEAN, b \in Budgets :
               ReplaceItemInObject(c, k, x, sensitive, b)
    BY <1>4, Zenon DEF Place
  <2>2. ASSUME NEW y, InsertItemInArray(c, y, x) \/ ReplaceItem(c, y, x)
        PROVE  Afforded(heap')
    BY <2>2, LinksAfforded, ReplaceAfforded DEF InsertItemInArray, ReplaceItem
  <2>3. ASSUME NEW k \in Names, NEW sensitive \in BOOLEAN, NEW b \in Budgets,
               ReplaceItemInObject(c, k, x, sensitive, b)
        PROVE  Afforded(heap')
    <3> DEFINE freed == Unnamed(heap, x)
               named == IF CanCopy(freed, b) THEN Rename(heap, x, k, FALSE)
                        ELSE freed
    <3>1. heap' = named \/ \E y : heap' = Replace(named, c, y, x)
      BY <2>3, Zenon DEF ReplaceItemInObject, Unnamed
    <3>2. Afforded(named)
      <4>1. CanCopy(freed, b) => freed.strings < MaxStrings
        BY DEF CanCopy
      <4> HIDE DEF freed
      <4>2. Afforded(freed)
        BY RenameAfforded DEF freed
      <4>3. freed.strings < MaxStrings => Afforded(Rename(heap, x, k, FALSE))
        BY RenameAfforded DEF freed
      <4> QED BY <4>1, <4>2, <4>3
    <3> HIDE DEF named
    <3> QED BY <3>1, <3>2, ReplaceAfforded
  <2> QED BY <2>1, <2>2, <2>3
<1> QED BY <1>1, <1>2, <1>3, <1>4 DEF Next

-----------------------------------------------------------------------------
(* The array constructors.                                                  *)

\* A finite set has a subset of every smaller size.
LEMMA SubsetOfSize ==
  ASSUME NEW S, IsFiniteSet(S), NEW m \in 0..Cardinality(S)
  PROVE  \E X \in SUBSET S : Cardinality(X) = m
<1>1. Cardinality(S) \in Nat /\ ExistsBijection(1..Cardinality(S), S)
  BY FS_CardinalityType
<1>2. PICK f : f \in Bijection(1..Cardinality(S), S)
  BY <1>1 DEF ExistsBijection
<1> DEFINE X == {f[i] : i \in 1..m}
           g == [i \in 1..m |-> f[i]]
<1>3. m \in Nat /\ 1..m \subseteq 1..Cardinality(S)
  BY <1>1
<1>4. /\ f \in [1..Cardinality(S) -> S]
      /\ \A a, b \in 1..Cardinality(S) : f[a] = f[b] => a = b
  BY <1>2 DEF Bijection, Injection, IsInjective
<1>5. X \in SUBSET S /\ g \in [1..m -> X]
  BY <1>3, <1>4
<1>6. g \in Bijection(1..m, X)
  BY <1>3, <1>4, <1>5 DEF Bijection, Injection, Surjection, IsInjective
<1>7. IsFiniteSet(1..m) /\ Cardinality(1..m) = m
  BY <1>3, FS_Interval
<1>8. Cardinality(X) = m
  BY <1>6, <1>7, FS_Bijection DEF ExistsBijection
<1> QED BY <1>5, <1>8

\* SetToSeq names each member once.
LEMMA SeqOfSet ==
  ASSUME NEW S, IsFiniteSet(S), NEW n, Cardinality(S) = n
  PROVE  LET xs == SetToSeq(S)
         IN /\ xs \in [1..n -> S] /\ Len(xs) = n /\ n \in Nat
            /\ \A i, j \in 1..n : xs[i] = xs[j] => i = j
<1>1. n \in Nat /\ ExistsBijection(1..n, S)
  BY FS_CardinalityType
<1>2. PICK f : f \in Bijection(1..n, S)
  BY <1>1 DEF ExistsBijection
<1>3. f \in [1..n -> S] /\ IsInjective(f)
  BY <1>2 DEF Bijection, Injection
<1>4. SetToSeq(S) = CHOOSE g \in [1..n -> S] : IsInjective(g)
  BY DEF SetToSeq
<1>5. SetToSeq(S) \in [1..n -> S] /\ IsInjective(SetToSeq(S))
  BY <1>3, <1>4, Zenon
<1> QED BY <1>1, <1>5 DEF IsInjective

\* How many elements are made: no more than asked for, and no more than there
\* are cells and blocks.
LEMMA Amount ==
  ASSUME NEW n \in Nat, NEW valued \in BOOLEAN, NEW b \in Nat, b > 0,
         NEW free \in Nat, free > 0, NEW blocks \in Nat
  PROVE  LET cost == IF valued THEN 2 ELSE 1
             got == Min({n, free - 1, (b - 1) \div cost, blocks})
         IN /\ got \in 0..n /\ got + 1 \in 0..free /\ got <= blocks
<1> DEFINE cost == IF valued THEN 2 ELSE 1
           q == (b - 1) \div cost
           S == {n, free - 1, q, blocks}
           got == Min(S)
<1>1. q \in Nat
  <2>1. CASE valued
    BY <2>1
  <2>2. CASE ~valued
    BY <2>2
  <2> QED BY <2>1, <2>2
<1> HIDE DEF q, cost
<1>2. S \in SUBSET Nat /\ S # {}
  BY <1>1
<1>3. \E m \in S : \A k \in S : m <= k
  BY <1>2, LeastOne
<1>4. got \in S /\ \A k \in S : got <= k
  BY <1>3 DEF Min
<1>5. got \in Nat /\ got <= n /\ got <= free - 1 /\ got <= blocks
  BY <1>2, <1>4
<1> HIDE DEF got
<1>6. got \in 0..n /\ got + 1 \in 0..free /\ got <= blocks
  BY <1>5
<1> QED BY <1>6 DEF got, q, cost

\* The steps of an array constructor.
Made(v, g, x) == IF v THEN NewValued(g, x) ELSE NewItem(g, x)

Under(v, g, a, b) == [Made(v, g, b) EXCEPT !.child[a] = b, !.home[b] = a]

Behind(v, g, a, b, c) ==
  [Made(v, g, c) EXCEPT !.next[b] = c, !.prev[c] = b, !.home[c] = a]

\* The i-th of them, after f[i - 1].
Further(h, v, xs, f, i) ==
  IF i = 1 THEN NewItem(h, xs[1])
  ELSE IF i = 2 THEN Under(v, f[1], xs[1], xs[2])
  ELSE Behind(v, f[i - 1], xs[1], xs[i - 1], xs[i])

\* The recursion of Chained, to the n-th element.
Furthers(h, v, xs, n, f) == f = [i \in 1..n |-> Further(h, v, xs, f, i)]

\* Only the step before matters.
LEMMA FurtherFrom ==
  ASSUME NEW h, NEW v, NEW xs, NEW f, NEW g, NEW i,
         i = 1 \/ f[i - 1] = g[i - 1]
  PROVE  Further(h, v, xs, f, i) = Further(h, v, xs, g, i)
BY DEF Further

\* There is such a recursion.
LEMMA FurthersThere ==
  ASSUME NEW h, NEW v, NEW xs, NEW n \in Nat
  PROVE  \E f : Furthers(h, v, xs, n, f)
<1> DEFINE Bad == {k \in Nat : ~ \E f : Furthers(h, v, xs, k, f)}
<1>1. SUFFICES ASSUME Bad # {} PROVE FALSE
  OBVIOUS
<1>2. PICK m \in Bad : \A k \in Bad : m <= k
  BY <1>1, LeastOne
<1>3. m \in Nat /\ ~ \E f : Furthers(h, v, xs, m, f)
  BY <1>2
<1>4. CASE m = 0
  <2> DEFINE f == [i \in 1..m |-> Further(h, v, xs, <<>>, i)]
  <2>1. \A i \in 1..m : FALSE
    BY <1>4
  <2>2. f = [i \in 1..m |-> Further(h, v, xs, f, i)]
    BY <2>1
  <2> QED BY <1>3, <2>2 DEF Furthers
<1>5. CASE m # 0
  <2>1. m - 1 \in Nat /\ ~(m <= m - 1)
    BY <1>3, <1>5
  <2>2. PICK g : Furthers(h, v, xs, m - 1, g)
    BY <1>2, <2>1
  <2> DEFINE f == [i \in 1..m |-> Further(h, v, xs, g, i)]
  <2>3. g = [i \in 1..(m - 1) |-> Further(h, v, xs, g, i)]
    BY <2>2 DEF Furthers
  <2>4. ASSUME NEW i \in 1..m, i # 1 PROVE f[i - 1] = g[i - 1]
    <3>1. i - 1 \in 1..(m - 1) /\ i - 1 \in 1..m
      BY <1>3, <2>4
    <3>2. g[i - 1] = Further(h, v, xs, g, i - 1)
      BY <2>3, <3>1, Zenon
    <3>3. f[i - 1] = Further(h, v, xs, g, i - 1)
      BY <3>1
    <3> QED BY <3>2, <3>3
  <2>5. \A i \in 1..m : Further(h, v, xs, g, i) = Further(h, v, xs, f, i)
    <3> HIDE DEF f
    <3> QED BY <2>4, FurtherFrom
  <2>6. f = [i \in 1..m |-> Further(h, v, xs, f, i)]
    BY <2>5
  <2> QED BY <1>3, <2>6 DEF Furthers
<1> QED BY <1>4, <1>5

\* Chained is its last value.
LEMMA ChainedIs ==
  ASSUME NEW h, NEW xs, Len(xs) \in Nat, NEW v \in BOOLEAN
  PROVE  \E f : /\ Chained(h, xs, v) = f[Len(xs)]
                /\ \A i \in 1..Len(xs) : f[i] = Further(h, v, xs, f, i)
<1> DEFINE n == Len(xs)
           f == CHOOSE g : Furthers(h, v, xs, n, g)
<1>1. Chained(h, xs, v) = f[n]
  BY DEF Chained, Furthers, Further, Made, Under, Behind
<1> HIDE DEF n
<1>2. Furthers(h, v, xs, n, f)
  BY FurthersThere, Zenon DEF n
<1> HIDE DEF f
<1>3. \A i \in 1..n : f[i] = Further(h, v, xs, f, i)
  BY <1>2, Zenon DEF Furthers
<1> QED BY <1>1, <1>3 DEF n

\* An item with a list of items that have none.
FlatKids(D, a, s) == [z \in D |-> IF z = a THEN s ELSE <<>>]

\* An array and its elements are a tree.
LEMMA FlatTree ==
  ASSUME NEW D, NEW a \in D, NEW s \in Seq(D),
         \A i, j \in 1..Len(s) : s[i] = s[j] => i = j,
         \A z \in D : z # a <=> \E i \in 1..Len(s) : s[i] = z
  PROVE  IsTree(D, a, FlatKids(D, a, s))
<1> DEFINE t == FlatKids(D, a, s)
<1>1. /\ t \in [D -> Seq(D)] /\ t[a] = s
      /\ \A c \in D \ {a} : t[c] = <<>> /\ Len(t[c]) = 0
  BY DEF FlatKids
<1> HIDE DEF t
<1>2. \A c \in D : \A i \in 1..Len(t[c]) : c = a
  BY <1>1
<1>3. \A c, e \in D : \A i \in 1..Len(t[c]), j \in 1..Len(t[e]) :
        t[c][i] = t[e][j] => c = e /\ i = j
  BY <1>1, <1>2
<1>4. \A z \in D : z # a <=> \E c \in D : \E i \in 1..Len(t[c]) : t[c][i] = z
  BY <1>1, <1>2
<1>5. ASSUME NEW S \in SUBSET D, a \in S,
             \A c \in S : \A i \in 1..Len(t[c]) : t[c][i] \in S
      PROVE  D = S
  <2>1. \A i \in 1..Len(s) : s[i] \in S
    BY <1>1, <1>5
  <2>2. \A z \in D : z \in S
    BY <1>5, <2>1
  <2> QED BY <2>2
<1> QED BY <1>1, <1>3, <1>4, <1>5 DEF IsTree, t

\* Its heap: new items D with no list but that of a.
FlatHeap(h, g, D, a, s) ==
  /\ g.live = h.live \cup D /\ g.refs = h.refs /\ g.key = h.key
  /\ g.next \in [Items -> Pointers] /\ g.prev \in [Items -> Pointers]
  /\ g.child \in [Items -> Pointers] /\ g.home \in [Items -> Pointers]
  /\ \A z \in Items \ D :
       /\ g.next[z] = h.next[z] /\ g.prev[z] = h.prev[z]
       /\ g.child[z] = h.child[z] /\ g.home[z] = h.home[z]
       /\ g.vstr[z] = h.vstr[z]
  /\ g.next[a] = Null /\ g.prev[a] = Null /\ g.home[a] = Null
  /\ Linked(g, a, s)
  /\ \A z \in D \ {a} : g.child[z] = Null
  /\ \A z \in D : g.vstr[z] \in {z, Null}

\* New items that are linked like that are planted.
LEMMA FlatPlanted ==
  ASSUME NEW h, NEW g, NEW D \in SUBSET (Items \ h.live), NEW a \in D,
         NEW s \in Seq(D),
         \A i, j \in 1..Len(s) : s[i] = s[j] => i = j,
         \A z \in D : z # a <=> \E i \in 1..Len(s) : s[i] = z,
         FlatHeap(h, g, D, a, s)
  PROVE  Planted(h, g, D, a, FlatKids(D, a, s))
<1>1. IsTree(D, a, FlatKids(D, a, s))
  BY FlatTree
<1>2. \A c \in D : Linked(g, c, FlatKids(D, a, s)[c])
  <2>1. \A c \in D \ {a} : FlatKids(D, a, s)[c] = <<>> /\ g.child[c] = Null
    BY DEF FlatKids, FlatHeap
  <2>2. \A c \in D \ {a} : Linked(g, c, <<>>)
    BY <2>1 DEF Linked
  <2>3. FlatKids(D, a, s)[a] = s /\ Linked(g, a, s)
    BY DEF FlatKids, FlatHeap
  <2> QED BY <2>1, <2>2, <2>3
<1> QED BY <1>1, <1>2 DEF FlatHeap, Planted

\* What Made leaves: a blank item more, with a string if it is valued.
MadeHeap(v, h, g, x) ==
  /\ Shaped(g) /\ g.live = h.live \cup {x} /\ g.refs = h.refs
  /\ g.consts = h.consts /\ g.key = h.key
  /\ g.next = h.next /\ g.prev = h.prev /\ g.child = h.child /\ g.home = h.home
  /\ g.vstr = (IF v THEN [h.vstr EXCEPT ![x] = x] ELSE h.vstr)
  /\ g.strings = (IF v THEN h.strings + 1 ELSE h.strings)

\* The fields of the heap after each of the steps.
LEMMA MadeIs ==
  ASSUME NEW h, Shaped(h), NEW x, NEW v \in BOOLEAN
  PROVE  MadeHeap(v, h, Made(v, h, x), x)
BY DEF Made, MadeHeap, NewItem, NewValued, Shaped, Fields

\* What links it leaves the strings alone.
UnderHeap(m, g, a, b) ==
  /\ Shaped(g) /\ SameStrings(m, g)
  /\ g.next = m.next /\ g.prev = m.prev
  /\ g.child = [m.child EXCEPT ![a] = b]
  /\ g.home = [m.home EXCEPT ![b] = a]

\* With the first element.
LEMMA UnderIs ==
  ASSUME NEW h, Shaped(h), NEW a, NEW b, NEW v \in BOOLEAN
  PROVE  UnderHeap(Made(v, h, b), Under(v, h, a, b), a, b)
<1> DEFINE m == Made(v, h, b)
<1>1. Shaped(m)
  BY MadeIs DEF MadeHeap
<1>2. Under(v, h, a, b) = [m EXCEPT !.child[a] = b, !.home[b] = a]
  BY DEF Under
<1> HIDE DEF m
<1>3. UnderHeap(m, Under(v, h, a, b), a, b)
  BY <1>1, <1>2 DEF UnderHeap, SameStrings, Shaped, Fields
<1> QED BY <1>3 DEF m

BehindHeap(m, g, a, b, c) ==
  /\ Shaped(g) /\ SameStrings(m, g)
  /\ g.next = [m.next EXCEPT ![b] = c]
  /\ g.prev = [m.prev EXCEPT ![c] = b]
  /\ g.child = m.child
  /\ g.home = [m.home EXCEPT ![c] = a]

\* With one more element.
LEMMA BehindIs ==
  ASSUME NEW h, Shaped(h), NEW a, NEW b, NEW c, NEW v \in BOOLEAN
  PROVE  BehindHeap(Made(v, h, c), Behind(v, h, a, b, c), a, b, c)
<1> DEFINE m == Made(v, h, c)
<1>1. Shaped(m)
  BY MadeIs DEF MadeHeap
<1>2. Behind(v, h, a, b, c) = [m EXCEPT !.next[b] = c, !.prev[c] = b,
                                        !.home[c] = a]
  BY DEF Behind
<1> HIDE DEF m
<1>3. BehindHeap(m, Behind(v, h, a, b, c), a, b, c)
  BY <1>1, <1>2 DEF BehindHeap, SameStrings, Shaped, Fields
<1> QED BY <1>3 DEF m

ClosedHeap(h, g, xs) ==
  /\ Shaped(g) /\ SameStrings(h, g)
  /\ g.next = h.next /\ g.child = h.child /\ g.home = h.home
  /\ g.prev = IF Len(xs) = 1 THEN h.prev
              ELSE [h.prev EXCEPT ![xs[2]] = xs[Len(xs)]]

\* With the tail known.
LEMMA ClosedIs ==
  ASSUME NEW h, Shaped(h), NEW xs
  PROVE  ClosedHeap(h, Closed(h, xs), xs)
BY DEF Closed, ClosedHeap, Last, SameStrings, Shaped, Fields

\* The blocks that i elements take.
Taken(v, i) == IF v THEN i ELSE 0

\* Each element owns its string.
LEMMA MadeOwns ==
  ASSUME NEW h, StringInv(h), NEW x \in Items \ h.live, NEW v \in BOOLEAN
  PROVE  /\ StringInv(Made(v, h, x))
         /\ Made(v, h, x).strings = h.strings + Taken(v, 1)
<1>1. Shaped(h) /\ h.strings \in Int
  BY DEF StringInv, StringTypes
<1>2. Made(v, h, x).strings = h.strings + Taken(v, 1)
  <2>1. MadeHeap(v, h, Made(v, h, x), x)
    BY <1>1, MadeIs
  <2>2. Made(v, h, x).strings = (IF v THEN h.strings + 1 ELSE h.strings)
    BY <2>1 DEF MadeHeap
  <2>3. (IF v THEN h.strings + 1 ELSE h.strings) = h.strings + Taken(v, 1)
    BY <1>1 DEF Taken
  <2> QED BY <2>2, <2>3
<1> QED BY <1>2, NewItemOwns, NewValuedOwns DEF Made

\* n free cells, each its own.
FreeCells(h, xs, n) ==
  /\ xs \in [1..n -> Items \ h.live]
  /\ \A i, j \in 1..n : xs[i] = xs[j] => i = j

\* A heap whose free cells are blank.
BlankBeyond(h) ==
  /\ StringInv(h) /\ h.strings \in Int
  /\ h.next \in [Items -> Pointers] /\ h.prev \in [Items -> Pointers]
  /\ h.child \in [Items -> Pointers] /\ h.home \in [Items -> Pointers]
  /\ h.vstr \in [Items -> Pointers \cup {Lent}]
  /\ \A z \in Items \ h.live :
       /\ h.next[z] = Null /\ h.prev[z] = Null /\ h.child[z] = Null
       /\ h.home[z] = Null /\ h.vstr[z] = Null /\ h.key[z] = Null
       /\ z \notin h.consts /\ z \notin h.refs

Upto(xs, i) == {xs[j] : j \in 1..i}

\* The heap once i of the cells xs are taken: the array and i - 1 elements.
Grown(h, g, v, xs, i) ==
  /\ StringInv(g) /\ Shaped(g) /\ g.strings = h.strings + Taken(v, i - 1)
  /\ g.refs = h.refs /\ g.key = h.key /\ g.consts = h.consts
  /\ g.live = h.live \cup Upto(xs, i)
  /\ g.next \in [Items -> Pointers] /\ g.prev \in [Items -> Pointers]
  /\ g.child \in [Items -> Pointers] /\ g.home \in [Items -> Pointers]
  /\ g.vstr \in [Items -> Pointers \cup {Lent}]
  /\ \A z \in Items \ Upto(xs, i) :
       /\ g.next[z] = h.next[z] /\ g.prev[z] = h.prev[z]
       /\ g.child[z] = h.child[z] /\ g.home[z] = h.home[z]
       /\ g.vstr[z] = h.vstr[z]
  /\ \A j \in 1..i :
       /\ g.next[xs[j]] = (IF j = 1 \/ j = i THEN Null ELSE xs[j + 1])
       /\ g.prev[xs[j]] = (IF j = 1 \/ j = 2 THEN Null ELSE xs[j - 1])
       /\ g.child[xs[j]] = (IF j = 1 /\ i # 1 THEN xs[2] ELSE Null)
       /\ g.home[xs[j]] = (IF j = 1 THEN Null ELSE xs[1])
       /\ g.vstr[xs[j]] = (IF j # 1 /\ v THEN xs[j] ELSE Null)

\* The array alone.
LEMMA GrownFirst ==
  ASSUME NEW h, BlankBeyond(h), NEW v \in BOOLEAN, NEW xs, NEW n \in Nat,
         FreeCells(h, xs, n), n # 0
  PROVE  Grown(h, NewItem(h, xs[1]), v, xs, 1)
<1> DEFINE g == NewItem(h, xs[1])
<1>1. xs[1] \in Items \ h.live /\ \A j \in 1..1 : j = 1
  BY DEF FreeCells
<1>2. Upto(xs, 1) = {xs[1]}
  BY <1>1 DEF Upto
<1>3. Shaped(h) /\ StringInv(g) /\ Taken(v, 1 - 1) = 0
      /\ h.strings = h.strings + 0
  BY <1>1, NewItemOwns DEF BlankBeyond, StringInv, StringTypes, Taken
<1>4. /\ Shaped(g) /\ g.strings = h.strings /\ g.live = h.live \cup {xs[1]}
      /\ g.refs = h.refs /\ g.key = h.key /\ g.consts = h.consts
      /\ g.next = h.next /\ g.prev = h.prev /\ g.child = h.child
      /\ g.home = h.home /\ g.vstr = h.vstr
  BY <1>3 DEF NewItem, Shaped, Fields
<1> HIDE DEF g
<1>5. \A j \in 1..1 :
       /\ g.next[xs[j]] = (IF j = 1 \/ j = 1 THEN Null ELSE xs[j + 1])
       /\ g.prev[xs[j]] = (IF j = 1 \/ j = 2 THEN Null ELSE xs[j - 1])
       /\ g.child[xs[j]] = (IF j = 1 /\ 1 # 1 THEN xs[2] ELSE Null)
       /\ g.home[xs[j]] = (IF j = 1 THEN Null ELSE xs[1])
       /\ g.vstr[xs[j]] = (IF j # 1 /\ v THEN xs[j] ELSE Null)
  BY <1>1, <1>4 DEF BlankBeyond
<1>6. Grown(h, g, v, xs, 1)
  BY <1>2, <1>3, <1>4, <1>5 DEF Grown, BlankBeyond
<1> QED BY <1>6 DEF g

\* What linking one more element changes: p is the array, or the item before.
MoreHeap(m, g, p, a, c) ==
  /\ Shaped(g) /\ SameStrings(m, g)
  /\ IF p = a
     THEN /\ g.next = m.next /\ g.prev = m.prev
          /\ g.child = [m.child EXCEPT ![a] = c]
     ELSE /\ g.next = [m.next EXCEPT ![p] = c]
          /\ g.prev = [m.prev EXCEPT ![c] = p]
          /\ g.child = m.child
  /\ g.home = [m.home EXCEPT ![c] = a]

\* One more element.
LEMMA GrownMore ==
  ASSUME NEW h, BlankBeyond(h), NEW v \in BOOLEAN, NEW xs, NEW n \in Nat,
         FreeCells(h, xs, n), NEW f, NEW i \in 1..n, i + 1 \in 1..n,
         Grown(h, f[i], v, xs, i)
  PROVE  Grown(h, Further(h, v, xs, f, i + 1), v, xs, i + 1)
<1> DEFINE o == f[i]
           a == xs[1]
           p == xs[i]
           c == xs[i + 1]
           m == Made(v, o, c)
           g == Further(h, v, xs, f, i + 1)
           k == i + 1
<1>1. /\ i \in Nat /\ k \in Nat /\ 1 \in 1..n /\ 1 \in 1..i
      /\ (k = 2 <=> i = 1) /\ k # 1 /\ k - 1 = i
      /\ \A j \in 1..k : j \in 1..i \/ j = k
      /\ \A j \in 1..i : j \in 1..n /\ j \in 1..k /\ j # k
  OBVIOUS
<1>2. /\ a \in Items \ h.live /\ p \in Items \ h.live /\ c \in Items \ h.live
      /\ \A j \in 1..i : xs[j] \in Items \ h.live /\ xs[j] # c
      /\ \A j \in 1..i : (xs[j] = a <=> j = 1) /\ (xs[j] = p <=> j = i)
      /\ p = a <=> i = 1
  BY <1>1 DEF FreeCells
<1>3. /\ Upto(xs, k) = Upto(xs, i) \cup {c} /\ c \notin Upto(xs, i)
      /\ a \in Upto(xs, i) /\ p \in Upto(xs, i)
  BY <1>1, <1>2 DEF Upto
<1>4. /\ StringInv(o) /\ Shaped(o) /\ o.strings = h.strings + Taken(v, i - 1)
      /\ o.refs = h.refs /\ o.key = h.key /\ o.consts = h.consts
      /\ o.live = h.live \cup Upto(xs, i) /\ c \in Items \ o.live
      /\ o.next \in [Items -> Pointers] /\ o.prev \in [Items -> Pointers]
      /\ o.child \in [Items -> Pointers] /\ o.home \in [Items -> Pointers]
      /\ o.vstr \in [Items -> Pointers \cup {Lent}]
  BY <1>2, <1>3 DEF Grown
<1>5. MadeHeap(v, o, m, c) /\ StringInv(m)
      /\ m.strings = o.strings + Taken(v, 1)
  BY <1>4, MadeIs, MadeOwns
<1>6. MoreHeap(m, g, p, a, c)
  <2>1. CASE i = 1
    <3>1. g = Under(v, o, a, c)
      BY <1>1, <2>1 DEF Further
    <3>2. UnderHeap(m, g, a, c)
      BY <1>4, <3>1, UnderIs
    <3> QED BY <1>2, <2>1, <3>2 DEF UnderHeap, MoreHeap
  <2>2. CASE i # 1
    <3>1. g = Behind(v, o, a, p, c)
      BY <1>1, <2>2 DEF Further
    <3>2. BehindHeap(m, g, a, p, c)
      BY <1>4, <3>1, BehindIs
    <3> QED BY <1>2, <2>2, <3>2 DEF BehindHeap, MoreHeap
  <2> QED BY <2>1, <2>2
<1> HIDE DEF g, m, k
<1>7. StringInv(g)
  BY <1>5, <1>6, LinksOnly DEF MoreHeap
<1>8. g.strings = h.strings + Taken(v, k - 1)
  <2>1. g.strings = (h.strings + Taken(v, i - 1)) + Taken(v, 1)
    BY <1>4, <1>5, <1>6 DEF MoreHeap, SameStrings
  <2>2. h.strings \in Int
    BY DEF BlankBeyond
  <2> QED BY <1>1, <2>1, <2>2 DEF Taken
<1>9. /\ g.refs = h.refs /\ g.key = h.key /\ g.consts = h.consts
      /\ g.live = h.live \cup Upto(xs, k)
  BY <1>3, <1>4, <1>5, <1>6 DEF MadeHeap, MoreHeap, SameStrings
<1>10. /\ g.vstr \in [Items -> Pointers \cup {Lent}]
       /\ \A z \in Items \ {c} : g.vstr[z] = o.vstr[z]
       /\ g.vstr[c] = IF v THEN c ELSE Null
  <2>1. g.vstr = (IF v THEN [o.vstr EXCEPT ![c] = c] ELSE o.vstr)
    BY <1>5, <1>6 DEF MadeHeap, MoreHeap, SameStrings
  <2>2. o.vstr[c] = Null
    BY <1>2, <1>3 DEF Grown, BlankBeyond
  <2> QED BY <1>2, <1>4, <2>1, <2>2 DEF Pointers
<1>11. /\ g.next \in [Items -> Pointers] /\ g.prev \in [Items -> Pointers]
       /\ g.child \in [Items -> Pointers] /\ g.home \in [Items -> Pointers]
  BY <1>2, <1>4, <1>5, <1>6 DEF MadeHeap, MoreHeap, Pointers
<1>12. /\ \A z \in Items \ {p} : g.next[z] = o.next[z]
       /\ g.next[p] = IF i = 1 THEN o.next[p] ELSE c
       /\ \A z \in Items \ {c} : g.prev[z] = o.prev[z]
       /\ g.prev[c] = IF i = 1 THEN o.prev[c] ELSE p
       /\ \A z \in Items \ {a} : g.child[z] = o.child[z]
       /\ g.child[a] = IF i = 1 THEN c ELSE o.child[a]
       /\ \A z \in Items \ {c} : g.home[z] = o.home[z]
       /\ g.home[c] = a
  BY <1>2, <1>4, <1>5, <1>6 DEF MadeHeap, MoreHeap
<1>13. /\ o.next[c] = Null /\ o.prev[c] = Null /\ o.child[c] = Null
       /\ c # a /\ c # p
  BY <1>1, <1>2, <1>3 DEF Grown, BlankBeyond
<1>14. \A z \in Items \ Upto(xs, k) :
         /\ g.next[z] = h.next[z] /\ g.prev[z] = h.prev[z]
         /\ g.child[z] = h.child[z] /\ g.home[z] = h.home[z]
         /\ g.vstr[z] = h.vstr[z]
  BY <1>3, <1>10, <1>12 DEF Grown
<1>15. ASSUME NEW j \in 1..i
       PROVE  /\ g.next[xs[j]] = (IF j = 1 \/ j = k THEN Null ELSE xs[j + 1])
              /\ g.prev[xs[j]] = (IF j = 1 \/ j = 2 THEN Null ELSE xs[j - 1])
              /\ g.child[xs[j]] = (IF j = 1 /\ k # 1 THEN xs[2] ELSE Null)
              /\ g.home[xs[j]] = (IF j = 1 THEN Null ELSE xs[1])
              /\ g.vstr[xs[j]] = (IF j # 1 /\ v THEN xs[j] ELSE Null)
  <2>1. /\ o.next[xs[j]] = (IF j = 1 \/ j = i THEN Null ELSE xs[j + 1])
        /\ o.prev[xs[j]] = (IF j = 1 \/ j = 2 THEN Null ELSE xs[j - 1])
        /\ o.child[xs[j]] = (IF j = 1 /\ i # 1 THEN xs[2] ELSE Null)
        /\ o.home[xs[j]] = (IF j = 1 THEN Null ELSE xs[1])
        /\ o.vstr[xs[j]] = (IF j # 1 /\ v THEN xs[j] ELSE Null)
    BY DEF Grown
  <2>2. xs[j] \in Items /\ xs[j] # c /\ (xs[j] = a <=> j = 1)
        /\ (xs[j] = p <=> j = i)
    BY <1>2
  <2>3. g.next[xs[j]] = (IF j = 1 \/ j = k THEN Null ELSE xs[j + 1])
    <3>1. CASE j = i /\ i # 1
      BY <1>1, <1>12, <2>2, <3>1
    <3>2. CASE j = i /\ i = 1
      BY <1>12, <2>1, <2>2, <3>2
    <3>3. CASE j # i
      BY <1>1, <1>12, <2>1, <2>2, <3>3
    <3> QED BY <3>1, <3>2, <3>3
  <2>4. g.child[xs[j]] = (IF j = 1 /\ k # 1 THEN xs[2] ELSE Null)
    <3>1. CASE j = 1 /\ i = 1
      BY <1>1, <1>12, <2>2, <3>1
    <3>2. CASE j = 1 /\ i # 1
      BY <1>1, <1>12, <2>1, <2>2, <3>2
    <3>3. CASE j # 1
      BY <1>12, <2>1, <2>2, <3>3
    <3> QED BY <3>1, <3>2, <3>3
  <2> HIDE DEF c, a, p
  <2> QED BY <1>10, <1>12, <2>1, <2>2, <2>3, <2>4
<1>16. /\ g.next[c] = Null
       /\ g.prev[c] = (IF k = 2 THEN Null ELSE xs[k - 1])
       /\ g.child[c] = Null /\ g.home[c] = a
       /\ g.vstr[c] = (IF v THEN c ELSE Null)
  BY <1>1, <1>2, <1>10, <1>12, <1>13
<1>17. \A j \in 1..k :
         /\ g.next[xs[j]] = (IF j = 1 \/ j = k THEN Null ELSE xs[j + 1])
         /\ g.prev[xs[j]] = (IF j = 1 \/ j = 2 THEN Null ELSE xs[j - 1])
         /\ g.child[xs[j]] = (IF j = 1 /\ k # 1 THEN xs[2] ELSE Null)
         /\ g.home[xs[j]] = (IF j = 1 THEN Null ELSE xs[1])
         /\ g.vstr[xs[j]] = (IF j # 1 /\ v THEN xs[j] ELSE Null)
  <2> SUFFICES ASSUME NEW j \in 1..k
               PROVE
         /\ g.next[xs[j]] = (IF j = 1 \/ j = k THEN Null ELSE xs[j + 1])
         /\ g.prev[xs[j]] = (IF j = 1 \/ j = 2 THEN Null ELSE xs[j - 1])
         /\ g.child[xs[j]] = (IF j = 1 /\ k # 1 THEN xs[2] ELSE Null)
         /\ g.home[xs[j]] = (IF j = 1 THEN Null ELSE xs[1])
         /\ g.vstr[xs[j]] = (IF j # 1 /\ v THEN xs[j] ELSE Null)
    OBVIOUS
  <2>1. CASE j \in 1..i
    BY <1>15, <2>1
  <2>2. CASE j = k
    <3>1. xs[j] = c
      BY <2>2 DEF k
    <3> QED BY <1>1, <1>16, <2>2, <3>1
  <2> QED BY <1>1, <2>1, <2>2
<1>18. Shaped(g)
  BY <1>6 DEF MoreHeap
<1>19. Grown(h, g, v, xs, k)
  BY <1>7, <1>8, <1>9, <1>10, <1>11, <1>14, <1>17, <1>18 DEF Grown
<1> QED BY <1>19 DEF g, k

\* So Chained takes them all.
LEMMA GrownAll ==
  ASSUME NEW h, BlankBeyond(h), NEW v \in BOOLEAN, NEW xs, Len(xs) \in Nat,
         FreeCells(h, xs, Len(xs)), Len(xs) # 0
  PROVE  Grown(h, Chained(h, xs, v), v, xs, Len(xs))
<1> DEFINE n == Len(xs)
<1>1. n \in Nat /\ n # 0 /\ FreeCells(h, xs, n) /\ n \in 1..n
  OBVIOUS
<1>2. PICK f : /\ Chained(h, xs, v) = f[n]
               /\ \A i \in 1..n : f[i] = Further(h, v, xs, f, i)
  BY ChainedIs
<1> HIDE DEF n
<1> DEFINE Bad == {i \in 1..n : ~Grown(h, f[i], v, xs, i)}
<1>3. Bad = {}
  <2>1. SUFFICES ASSUME Bad # {} PROVE FALSE
    OBVIOUS
  <2>2. Bad \in SUBSET Nat
    BY <1>1
  <2>3. PICK m \in Bad : \A i \in Bad : m <= i
    BY <2>1, <2>2, LeastOne
  <2>4. m \in 1..n /\ ~Grown(h, f[m], v, xs, m)
    BY <2>3
  <2>5. CASE m = 1
    <3>1. f[1] = NewItem(h, xs[1])
      BY <1>2, <2>4, <2>5 DEF Further
    <3> QED BY <1>1, <2>4, <2>5, <3>1, GrownFirst
  <2>6. CASE m # 1
    <3> DEFINE i == m - 1
    <3>1. i \in 1..n /\ ~(m <= i) /\ i + 1 = m
      BY <1>1, <2>4, <2>6
    <3>2. Grown(h, f[i], v, xs, i)
      BY <2>3, <3>1
    <3> HIDE DEF i
    <3>3. Grown(h, Further(h, v, xs, f, i + 1), v, xs, i + 1)
      BY <1>1, <2>4, <3>1, <3>2, GrownMore
    <3> QED BY <1>2, <2>4, <3>1, <3>3
  <2> QED BY <2>5, <2>6
<1>4. Grown(h, f[n], v, xs, n)
  BY <1>1, <1>3
<1> QED BY <1>2, <1>4 DEF n

\* Every heap of the module is blank where no item is.
LEMMA BlankIs ==
  ASSUME NEW h, NEW R, HeapInv(h, R)
  PROVE  BlankBeyond(h)
<1>1. /\ StringInv(h) /\ StringTypes(h) /\ ListsHold(h, R) /\ Null \notin Items
      /\ h.next \in [Items -> Pointers] /\ h.prev \in [Items -> Pointers]
      /\ h.child \in [Items -> Pointers] /\ h.home \in [Items -> Pointers]
      /\ h.vstr \in [Items -> Pointers \cup {Lent}]
      /\ h.strings \in Int /\ h.refs \subseteq h.live
      /\ h.consts \subseteq h.live
  BY HeapParts, CellsAssumption DEF Forest, ListInv, StringTypes
<1>2. \A z \in Items \ h.live :
        /\ h.next[z] = Null /\ h.prev[z] = Null /\ h.child[z] = Null
        /\ h.home[z] = Null
  BY <1>1, FreeAlone
<1>3. \A z \in Items \ h.live :
        /\ h.vstr[z] = Null /\ h.key[z] = Null
        /\ z \notin h.consts /\ z \notin h.refs
  BY <1>1 DEF StringTypes
<1> QED BY <1>1, <1>2, <1>3 DEF BlankBeyond

\* An array with all its elements.
LEMMA ArrayMade ==
  ASSUME NEW h, NEW R, HeapInv(h, R), NEW n \in Nat, NEW v \in BOOLEAN,
         NEW xs \in [1..(n + 1) -> Items \ h.live], Len(xs) = n + 1,
         \A i, j \in 1..(n + 1) : xs[i] = xs[j] => i = j
  PROVE  LET g == Closed(Chained(h, xs, v), xs)
         IN /\ StringInv(g) /\ Shaped(g) /\ g.strings = h.strings + Taken(v, n)
            /\ \E D, t : Planted(h, g, D, xs[1], t)
<1> DEFINE m == Chained(h, xs, v)
           g == Closed(m, xs)
           a == xs[1]
           N == n + 1
           D == Upto(xs, N)
           s == [i \in 1..n |-> xs[i + 1]]
<1>1. BlankBeyond(h)
  BY BlankIs
<1>2. N \in Nat /\ N # 0 /\ Len(xs) = N /\ N - 1 = n /\ 1 \in 1..N
      /\ (n # 0 => 2 \in 1..N) /\ (N = 1 <=> n = 0) /\ N \in 1..N
  OBVIOUS
<1>3. FreeCells(h, xs, N)
  BY DEF FreeCells
<1> HIDE DEF N
<1>4. Grown(h, m, v, xs, N)
  BY <1>1, <1>2, <1>3, GrownAll
<1> HIDE DEF m
<1>5. Shaped(m) /\ StringInv(m) /\ m.strings = h.strings + Taken(v, n)
  BY <1>2, <1>4 DEF Grown
<1>6. ClosedHeap(m, g, xs)
  BY <1>5, ClosedIs
<1> HIDE DEF g, s, D, a
<1>7. Shaped(g) /\ StringInv(g) /\ SameStrings(m, g)
  BY <1>5, <1>6, LinksOnly DEF ClosedHeap
<1>8. g.strings = h.strings + Taken(v, n)
  BY <1>5, <1>7 DEF SameStrings
<1>9. /\ D \subseteq Items \ h.live /\ a \in D
      /\ \A j \in 1..N : xs[j] \in D /\ xs[j] \in Items
      /\ \A z \in D : \E j \in 1..N : z = xs[j]
      /\ \A i, j \in 1..N : xs[i] = xs[j] => i = j
  BY <1>2, <1>3 DEF D, a, Upto, FreeCells
<1>10. /\ \A i \in 1..n : i \in Nat /\ i + 1 \in 1..N /\ i + 1 # 1
                          /\ (i + 1 = 2 <=> i = 1) /\ (i + 1) - 1 = i
                          /\ (i + 1 = N <=> i = n)
                          /\ (i # n => i + 1 \in 1..n)
                          /\ (i # 1 => i - 1 \in 1..n /\ (i - 1) + 1 = i)
       /\ \A j \in 1..N : j # 1 => j - 1 \in 1..n /\ (j - 1) + 1 = j
       /\ n \in Nat
  BY DEF N
<1>11. /\ Len(s) = n /\ \A i \in 1..n : s[i] = xs[i + 1]
       /\ s \in Seq(D)
  <2>1. s \in [1..n -> D]
    BY <1>9, <1>10 DEF s
  <2> QED BY <2>1, <1>10 DEF s
<1>12. /\ \A i, j \in 1..Len(s) : s[i] = s[j] => i = j
       /\ \A z \in D : z # a <=> \E i \in 1..Len(s) : s[i] = z
  <2>1. \A i, j \in 1..n : s[i] = s[j] => i = j
    <3> SUFFICES ASSUME NEW i \in 1..n, NEW j \in 1..n, s[i] = s[j]
                 PROVE  i = j
      OBVIOUS
    <3>1. xs[i + 1] = xs[j + 1] /\ i + 1 \in 1..N /\ j + 1 \in 1..N
      BY <1>10, <1>11
    <3>2. i + 1 = j + 1
      BY <1>9, <3>1
    <3> QED BY <3>2
  <2>2. ASSUME NEW z \in D, z # a PROVE \E i \in 1..n : s[i] = z
    <3>1. PICK j \in 1..N : z = xs[j]
      BY <1>9
    <3>2. j # 1
      BY <2>2, <3>1 DEF a
    <3>3. j - 1 \in 1..n /\ s[j - 1] = z
      BY <1>10, <1>11, <3>1, <3>2
    <3> QED BY <3>3
  <2>3. ASSUME NEW z \in D, NEW i \in 1..n, s[i] = z PROVE z # a
    <3>1. z = xs[i + 1] /\ i + 1 \in 1..N /\ i + 1 # 1
      BY <1>10, <1>11, <2>3
    <3> QED BY <1>2, <1>9, <3>1 DEF a
  <2> QED BY <1>11, <2>1, <2>2, <2>3
<1>13. /\ g.next = m.next /\ g.child = m.child /\ g.home = m.home
       /\ g.vstr = m.vstr
       /\ m.prev \in [Items -> Pointers]
       /\ g.prev = IF n = 0 THEN m.prev ELSE [m.prev EXCEPT ![xs[2]] = xs[N]]
  BY <1>2, <1>4, <1>6 DEF ClosedHeap, SameStrings, Grown
<1>14. \A j \in 1..N :
       /\ g.next[xs[j]] = (IF j = 1 \/ j = N THEN Null ELSE xs[j + 1])
       /\ m.prev[xs[j]] = (IF j = 1 \/ j = 2 THEN Null ELSE xs[j - 1])
       /\ g.child[xs[j]] = (IF j = 1 /\ N # 1 THEN xs[2] ELSE Null)
       /\ g.home[xs[j]] = (IF j = 1 THEN Null ELSE a)
       /\ g.vstr[xs[j]] = (IF j # 1 /\ v THEN xs[j] ELSE Null)
  BY <1>4, <1>13 DEF Grown, a
<1>15. /\ \A z \in Items \ D : g.prev[z] = m.prev[z]
       /\ \A j \in 1..N : g.prev[xs[j]] = (IF n # 0 /\ j = 2 THEN xs[N]
                                           ELSE m.prev[xs[j]])
       /\ g.prev \in [Items -> Pointers]
  <2>1. CASE n = 0
    BY <1>13, <2>1
  <2>2. CASE n # 0
    <3>1. g.prev = [m.prev EXCEPT ![xs[2]] = xs[N]] /\ xs[2] \in D
          /\ xs[N] \in Items
      BY <1>2, <1>9, <1>13, <2>2
    <3>2. \A z \in Items : g.prev[z] = IF z = xs[2] THEN xs[N] ELSE m.prev[z]
      BY <1>13, <3>1
    <3>3. g.prev \in [Items -> Pointers]
      BY <1>13, <3>1 DEF Pointers
    <3>4. \A j \in 1..N : xs[j] = xs[2] <=> j = 2
      BY <1>2, <1>9, <2>2
    <3> QED BY <1>9, <2>2, <3>1, <3>2, <3>3, <3>4
  <2> QED BY <2>1, <2>2
<1>16. Linked(g, a, s)
  <2>1. g.child[a] = (IF Len(s) = 0 THEN Null ELSE s[1])
    <3>1. g.child[a] = (IF N # 1 THEN xs[2] ELSE Null)
      BY <1>2, <1>14 DEF a
    <3>2. n # 0 => s[1] = xs[2]
      BY <1>10, <1>11
    <3> QED BY <1>2, <1>11, <3>1, <3>2
  <2>2. ASSUME NEW i \in 1..n
        PROVE  /\ g.home[s[i]] = a
               /\ g.next[s[i]] = (IF i = n THEN Null ELSE s[i + 1])
               /\ g.prev[s[i]] = (IF i = 1 THEN s[n] ELSE s[i - 1])
    <3> DEFINE j == i + 1
    <3>1. /\ s[i] = xs[j] /\ j \in 1..N /\ j # 1 /\ (j = 2 <=> i = 1)
          /\ j - 1 = i /\ (j = N <=> i = n) /\ n # 0
      BY <1>10, <1>11
    <3>2. i # n => s[i + 1] = xs[j + 1]
      BY <1>10, <1>11
    <3>3. s[n] = xs[N] /\ (i # 1 => s[i - 1] = xs[i])
      BY <1>10, <1>11 DEF N
    <3> HIDE DEF j
    <3>4. g.home[s[i]] = a
      BY <1>14, <3>1
    <3>5. g.next[s[i]] = (IF i = n THEN Null ELSE s[i + 1])
      BY <1>14, <3>1, <3>2
    <3>6. g.prev[s[i]] = (IF i = 1 THEN s[n] ELSE s[i - 1])
      BY <1>14, <1>15, <3>1, <3>3
    <3> QED BY <3>4, <3>5, <3>6
  <2> QED BY <1>11, <2>1, <2>2 DEF Linked
<1>17. FlatHeap(h, g, D, a, s)
  <2>1. /\ g.live = h.live \cup D /\ g.refs = h.refs /\ g.key = h.key
    BY <1>4, <1>7 DEF SameStrings, Grown, D
  <2>2. /\ g.next \in [Items -> Pointers] /\ g.prev \in [Items -> Pointers]
        /\ g.child \in [Items -> Pointers] /\ g.home \in [Items -> Pointers]
    BY <1>4, <1>13, <1>15 DEF Grown
  <2>3. \A z \in Items \ D :
           /\ g.next[z] = h.next[z] /\ g.prev[z] = h.prev[z]
           /\ g.child[z] = h.child[z] /\ g.home[z] = h.home[z]
           /\ g.vstr[z] = h.vstr[z]
    BY <1>4, <1>13, <1>15 DEF Grown, D
  <2>4. g.next[a] = Null /\ g.prev[a] = Null /\ g.home[a] = Null
    BY <1>2, <1>14, <1>15 DEF a
  <2>5. ASSUME NEW z \in D
        PROVE  (z # a => g.child[z] = Null) /\ g.vstr[z] \in {z, Null}
    <3>1. PICK j \in 1..N : z = xs[j]
      BY <1>9
    <3>2. z # a => j # 1
      BY <3>1 DEF a
    <3> QED BY <1>14, <3>1, <3>2
  <2> QED BY <1>16, <2>1, <2>2, <2>3, <2>4, <2>5 DEF FlatHeap
<1>18. Planted(h, g, D, a, FlatKids(D, a, s))
  BY <1>9, <1>11, <1>12, <1>17, FlatPlanted
<1> QED BY <1>7, <1>8, <1>18 DEF g, m, a

\* Its elements are all that is visited from it.
LEMMA GrownVisited ==
  ASSUME NEW h, BlankBeyond(h), NEW v \in BOOLEAN, NEW xs, NEW n \in Nat,
         n # 0, FreeCells(h, xs, n), NEW m, Grown(h, m, v, xs, n)
  PROVE  Visited(m, {xs[1]}) = Upto(xs, n)
<1> DEFINE a == xs[1]
           D == Upto(xs, n)
<1>1. /\ 1 \in 1..n /\ a \in D /\ D \subseteq Items \ h.live
      /\ \A j \in 1..n : xs[j] \in D /\ xs[j] \in Items /\ xs[j] # Null
      /\ \A z \in D : \E j \in 1..n : z = xs[j]
  BY CellsAssumption DEF Upto, FreeCells
<1>2. \A j \in 1..n :
       /\ m.next[xs[j]] = (IF j = 1 \/ j = n THEN Null ELSE xs[j + 1])
       /\ m.child[xs[j]] = (IF j = 1 /\ n # 1 THEN xs[2] ELSE Null)
       /\ xs[j] \notin m.refs
  <2>1. \A j \in 1..n : xs[j] \notin m.refs
    BY <1>1 DEF Grown, BlankBeyond
  <2> QED BY <2>1 DEF Grown
<1> HIDE DEF a, D
<1>3. Owned(m, D)
  <2>1. ASSUME NEW z \in D
        PROVE  (m.next[z] # Null => m.next[z] \in D)
               /\ (m.child[z] # Null => m.child[z] \in D)
    <3>1. PICK j \in 1..n : z = xs[j]
      BY <1>1
    <3>2. j # n => j + 1 \in 1..n
      OBVIOUS
    <3>3. n # 1 => 2 \in 1..n
      OBVIOUS
    <3> QED BY <1>1, <1>2, <3>1, <3>2, <3>3
  <2> QED BY <2>1 DEF Owned, NextClosed
<1>4. Visited(m, {a}) \subseteq D
  BY <1>1, <1>3 DEF Visited
<1>5. ASSUME NEW S \in SUBSET Items, {a} \subseteq S, Owned(m, S)
      PROVE  \A j \in 1..n : xs[j] \in S
  <2> DEFINE Bad == {j \in 1..n : xs[j] \notin S}
  <2>1. SUFFICES ASSUME Bad # {} PROVE FALSE
    OBVIOUS
  <2>2. Bad \in SUBSET Nat
    OBVIOUS
  <2>3. PICK k \in Bad : \A j \in Bad : k <= j
    BY <2>1, <2>2, LeastOne
  <2>4. k \in 1..n /\ xs[k] \notin S /\ xs[k] # Null
    BY <1>1, <2>3
  <2>5. k # 1
    BY <1>5, <2>4 DEF a
  <2>6. k - 1 \in 1..n /\ ~(k <= k - 1) /\ (k - 1) + 1 = k
        /\ (k # 2 => k - 1 # 1) /\ k - 1 # n /\ n # 1
    BY <2>4, <2>5
  <2>7. xs[k - 1] \in S
    BY <2>3, <2>6
  <2>8. CASE k = 2
    <3>1. m.child[a] = xs[k] /\ a \in S \ m.refs
      BY <1>1, <1>2, <1>5, <2>6, <2>8 DEF a
    <3> QED BY <1>5, <2>4, <3>1 DEF Owned
  <2>9. CASE k # 2
    <3>1. m.next[xs[k - 1]] = xs[k]
      BY <1>2, <2>6, <2>9
    <3> QED BY <1>5, <2>4, <2>7, <3>1 DEF Owned, NextClosed
  <2> QED BY <2>8, <2>9
<1>6. D \subseteq Visited(m, {a})
  BY <1>1, <1>5 DEF Visited
<1> QED BY <1>4, <1>6 DEF a, D

\* Its elements own the blocks that were taken for them, and no key.
LEMMA GrownBlocks ==
  ASSUME NEW h, BlankBeyond(h), NEW v \in BOOLEAN, NEW xs, NEW n \in Nat,
         FreeCells(h, xs, n), NEW m, Grown(h, m, v, xs, n)
  PROVE  m.strings = h.strings + Blocks(m, Upto(xs, n))
<1> DEFINE D == Upto(xs, n)
           V == {x \in D : OwnsValue(m, x)}
           K == {x \in D : OwnsKey(m, x)}
<1>1. /\ D \subseteq Items \ h.live /\ m.live = h.live \cup D
      /\ m.refs = h.refs /\ m.consts = h.consts /\ m.key = h.key
      /\ StringInv(h) /\ StringInv(m) /\ h.live \subseteq Items
      /\ \A z \in Items \ D : m.vstr[z] = h.vstr[z]
  BY DEF Grown, BlankBeyond, StringInv, StringTypes, Upto, FreeCells
<1> HIDE DEF D
<1>2. \A z \in D : h.key[z] = Null
  BY <1>1 DEF BlankBeyond
<1>3. K = {} /\ KeyOwners(m) = KeyOwners(h)
  BY <1>1, <1>2 DEF KeyOwners, OwnsKey
<1>4. ValueOwners(m) = ValueOwners(h) \cup V /\ ValueOwners(h) \cap V = {}
  BY <1>1 DEF ValueOwners, OwnsValue
<1>5. IsFiniteSet(V) /\ Cardinality(V) \in Nat
  <2>1. V \in SUBSET Items
    BY <1>1
  <2> QED BY <2>1, CellsAssumption, FS_Subset, FS_CardinalityType
<1>6. /\ IsFiniteSet(ValueOwners(h)) /\ Cardinality(ValueOwners(h)) \in Nat
      /\ Cardinality(KeyOwners(h)) \in Nat
  BY <1>1, OwnersFinite DEF StringInv
<1> HIDE DEF V, K
<1>7. Cardinality(ValueOwners(m)) = Cardinality(ValueOwners(h)) + Cardinality(V)
  BY <1>4, <1>5, <1>6, FS_Union, FS_EmptySet
<1>8. Blocks(m, D) = Cardinality(V)
  <2>1. Blocks(m, D) = Cardinality(V) + Cardinality(K)
    BY DEF Blocks, V, K
  <2> QED BY <1>3, <1>5, <2>1, FS_EmptySet
<1>9. /\ h.strings = Cardinality(KeyOwners(h)) + Cardinality(ValueOwners(h))
      /\ m.strings = Cardinality(KeyOwners(h)) + Cardinality(ValueOwners(m))
  BY <1>1, <1>3 DEF StringInv, Counted
<1>10. m.strings = h.strings + Blocks(m, D)
  BY <1>5, <1>6, <1>7, <1>8, <1>9
<1> QED BY <1>10 DEF D

\* An array that is given up leaves nothing behind.
LEMMA ArrayUnmade ==
  ASSUME NEW h, NEW R, HeapInv(h, R), NEW n \in Nat, NEW v \in BOOLEAN,
         NEW xs \in [1..(n + 1) -> Items \ h.live], Len(xs) = n + 1,
         \A i, j \in 1..(n + 1) : xs[i] = xs[j] => i = j
  PROVE  Discard(Chained(h, xs, v), xs[1]) = h
<1> DEFINE m == Chained(h, xs, v)
           N == n + 1
           D == Upto(xs, N)
<1>1. BlankBeyond(h) /\ ListsHold(h, R)
  BY BlankIs, HeapParts
<1>2. N \in Nat /\ N # 0 /\ Len(xs) = N
  OBVIOUS
<1>3. FreeCells(h, xs, N)
  BY DEF FreeCells
<1> HIDE DEF N
<1>4. Grown(h, m, v, xs, N)
  BY <1>1, <1>2, <1>3, GrownAll
<1> HIDE DEF m
<1>5. Visited(m, {xs[1]}) = D
  <2>1. BlankBeyond(h)
    BY <1>1
  <2> QED BY <1>2, <1>3, <1>4, <2>1, GrownVisited
<1>6. m.strings = h.strings + Blocks(m, D)
  BY <1>1, <1>2, <1>3, <1>4, GrownBlocks
<1>7. D \in SUBSET (Items \ h.live)
  <2>1. \A j \in 1..N : xs[j] \in Items \ h.live
    BY <1>3 DEF FreeCells
  <2> QED BY <2>1 DEF Upto
<1>8. /\ Shaped(m) /\ m.live = h.live \cup D /\ m.refs = h.refs
      /\ m.consts = h.consts /\ m.key = h.key
      /\ \A z \in Items \ D :
           /\ m.next[z] = h.next[z] /\ m.prev[z] = h.prev[z]
           /\ m.child[z] = h.child[z] /\ m.home[z] = h.home[z]
           /\ m.vstr[z] = h.vstr[z]
  BY <1>4 DEF Grown
<1> HIDE DEF D
<1>9. m.consts \ D = h.consts
  BY <1>1, <1>7, <1>8 DEF BlankBeyond
<1>10. Blocks(m, D) \in Int
  <2>1. D \in SUBSET Items
    BY <1>7
  <2> QED BY <2>1, BlocksAre
<1>11. Free(m, D) = h
  BY <1>1, <1>6, <1>7, <1>8, <1>9, <1>10, FreshFreed DEF BlankBeyond
<1> QED BY <1>5, <1>11 DEF Discard, DeleteItems, m

\* cJSON_Create...Array makes an array with its elements, or nothing.
LEMMA CreateListSteps ==
  ASSUME TreeInv, Ordered, Afforded(heap), NEW n \in 0..MaxLength,
         NEW valued \in BOOLEAN, NEW b \in Budgets, CreateList(n, valued, b)
  PROVE  TreeInv' /\ ListStep /\ Afforded(heap')
<1> DEFINE cost == IF valued THEN 2 ELSE 1
           F == Items \ heap.live
           free == Cardinality(F)
           blocks == IF valued THEN MaxStrings - heap.strings ELSE n
           got == Min({n, free - 1, (b - 1) \div cost, blocks})
           Size(X) == Cardinality(X) = got + 1
           Y == CHOOSE X \in SUBSET F : Size(X)
           xs == SetToSeq(Y)
           m == Chained(heap, xs, valued)
<1>1. /\ b > 0 /\ free > 0
      /\ IF got = n THEN Hold(Closed(m, xs), xs[1])
         ELSE /\ heap' = Discard(m, xs[1])
              /\ UNCHANGED <<roots, lost>>
  BY DEF CreateList
<1>0. n \in Nat
  BY LimitAssumption
<1>2. b \in Nat /\ MaxStrings \in Nat /\ IsFiniteSet(F) /\ free \in Nat
  BY BudgetsAssumption, CellsAssumption, FS_Subset, FS_CardinalityType
<1>3. heap.strings \in Int /\ heap.strings <= MaxStrings /\ blocks \in Nat
  BY <1>0, <1>2 DEF Afforded
<1>4. got \in 0..n /\ got + 1 \in 0..free /\ got <= blocks
  <2> HIDE DEF free, blocks
  <2> QED BY <1>0, <1>1, <1>2, <1>3, Amount
<1> HIDE DEF got, free
<1>5. \E X \in SUBSET F : Cardinality(X) = got + 1
  <2> HIDE DEF F
  <2> QED BY <1>2, <1>4, SubsetOfSize DEF free
<1>6. Y \in SUBSET F /\ Cardinality(Y) = got + 1
  <2>1. Y \in SUBSET F /\ Size(Y)
    <3> HIDE DEF F
    <3> QED BY <1>5
  <2> QED BY <2>1
<1> HIDE DEF Y
<1>7. IsFiniteSet(Y)
  BY <1>2, <1>6, FS_Subset
<1>8. /\ xs \in [1..(got + 1) -> Y] /\ Len(xs) = got + 1
      /\ \A i, j \in 1..(got + 1) : xs[i] = xs[j] => i = j
  BY <1>6, <1>7, SeqOfSet
<1>9. xs \in [1..(got + 1) -> F]
  BY <1>6, <1>8
<1>10. HeapInv(heap, Mine)
  BY DEF TreeInv
<1> HIDE DEF xs, m
<1>11. CASE got = n
  <2> DEFINE g == Closed(m, xs)
  <2>1. heap' = g /\ roots' = roots \cup {xs[1]} /\ lost' = lost
    BY <1>1, <1>11 DEF Hold
  <2>2. /\ StringInv(g) /\ Shaped(g)
        /\ g.strings = heap.strings + Taken(valued, n)
        /\ \E D, t : Planted(heap, g, D, xs[1], t)
    BY <1>8, <1>9, <1>10, <1>11, <1>0, ArrayMade DEF m
  <2> HIDE DEF g
  <2>3. TreeInv' /\ ListStep
    <3>1. PICK D, t : Planted(heap, g, D, xs[1], t)
      BY <2>2
    <3> QED BY <2>1, <2>2, <3>1, StepPlant
  <2>4. Afforded(g)
    <3>1. Taken(valued, n) \in Nat
          /\ heap.strings + Taken(valued, n) <= MaxStrings
      BY <1>0, <1>2, <1>3, <1>4, <1>11 DEF Taken
    <3> QED BY <1>3, <2>2, <3>1 DEF Afforded
  <2> QED BY <2>1, <2>3, <2>4
<1>12. CASE got # n
  <2>1. got \in Nat
    BY <1>0, <1>4, <1>12
  <2>2. heap' = heap /\ roots' = roots /\ lost' = lost
    BY <1>1, <1>8, <1>9, <1>10, <1>12, <2>1, ArrayUnmade DEF m
  <2>3. TreeInv' /\ Afforded(heap')
    BY <2>2, <1>10 DEF TreeInv, Mine
  <2>4. Rows' = Rows /\ Ordered'
    BY <2>2 DEF Rows, Ordered
  <2>5. ListStep
    BY <2>2, <2>4 DEF ListStep, Lists!listVars, Rows, KidsOf
  <2> QED BY <2>3, <2>5
<1> QED BY <1>11, <1>12

-----------------------------------------------------------------------------
(* The ways down from an item.                                              *)

\* A way is its last item behind the rest.
LEMMA FrontOf ==
  ASSUME NEW S, NEW w \in Seq(S), Len(w) > 0
  PROVE  /\ Front(w) \in Seq(S) /\ Len(Front(w)) = Len(w) - 1
         /\ \A i \in 1..(Len(w) - 1) : Front(w)[i] = w[i]
         /\ Last(w) \in S /\ Last(w) = w[Len(w)]
         /\ w = Append(Front(w), Last(w))
<1>1. Len(w) \in Nat /\ \A i \in 1..Len(w) : w[i] \in S
  OBVIOUS
<1>2. \A i \in 1..(Len(w) - 1) : w[i] \in S
  BY <1>1
<1>3. /\ Front(w) \in Seq(S) /\ Len(Front(w)) = Len(w) - 1
      /\ \A i \in 1..(Len(w) - 1) : Front(w)[i] = w[i]
  <2> DEFINE n == Len(w) - 1
  <2>1. n \in Nat /\ 1 \in Int /\ n - 1 + 1 = n /\ \A i \in Nat : 1 + i - 1 = i
    BY <1>1
  <2>2. Front(w) = SubSeq(w, 1, n)
    BY DEF Front
  <2> HIDE DEF n
  <2>3. /\ SubSeq(w, 1, n) \in Seq(S)
        /\ Len(SubSeq(w, 1, n)) = IF 1 <= n THEN n - 1 + 1 ELSE 0
        /\ \A i \in 1..(n - 1 + 1) : SubSeq(w, 1, n)[i] = w[1 + i - 1]
    <3>1. \A i \in 1..n : w[i] \in S
      BY <1>2 DEF n
    <3> QED BY <2>1, <3>1, SubSeqProperties
  <2>4. /\ SubSeq(w, 1, n) \in Seq(S) /\ Len(SubSeq(w, 1, n)) = n
        /\ \A i \in 1..n : SubSeq(w, 1, n)[i] = w[i]
    BY <2>1, <2>3
  <2> QED BY <2>2, <2>4 DEF n
<1>4. Last(w) \in S /\ Last(w) = w[Len(w)]
  BY <1>1 DEF Last
<1> DEFINE u == Front(w)
           y == Last(w)
<1> HIDE DEF u, y
<1>5. /\ Append(u, y) \in Seq(S) /\ Len(Append(u, y)) = Len(w)
      /\ \A i \in 1..(Len(w) - 1) : Append(u, y)[i] = w[i]
      /\ Append(u, y)[Len(w)] = w[Len(w)]
  <2>1. /\ Append(u, y) \in Seq(S) /\ Len(Append(u, y)) = Len(u) + 1
        /\ \A i \in 1..Len(u) : Append(u, y)[i] = u[i]
        /\ Append(u, y)[Len(u) + 1] = y
    BY <1>3, <1>4, AppendProperties DEF u, y
  <2>2. Len(u) = Len(w) - 1 /\ Len(u) + 1 = Len(w)
        /\ \A i \in 1..(Len(w) - 1) : u[i] = w[i]
    BY <1>1, <1>3 DEF u
  <2>3. y = w[Len(w)]
    BY <1>4 DEF y
  <2> QED BY <2>1, <2>2, <2>3
<1>6. \A i \in 1..Len(w) : Append(u, y)[i] = w[i]
  BY <1>1, <1>5
<1>7. Append(u, y) = w
  BY <1>5, <1>6, SeqEqual
<1> QED BY <1>3, <1>4, <1>7 DEF u, y

\* And one more item makes a longer way.
LEMMA LastOfAppend ==
  ASSUME NEW S, NEW w \in Seq(S), NEW y \in S
  PROVE  LET u == Append(w, y)
         IN /\ u \in Seq(S) /\ Len(u) = Len(w) + 1 /\ Len(u) > 0
            /\ Front(u) = w /\ Last(u) = y
            /\ \A i \in 1..Len(w) : u[i] = w[i]
<1> DEFINE u == Append(w, y)
<1>1. /\ u \in Seq(S) /\ Len(u) = Len(w) + 1 /\ Len(w) \in Nat
      /\ \A i \in 1..Len(w) : u[i] = w[i]
      /\ u[Len(w) + 1] = y
  BY AppendProperties
<1> HIDE DEF u
<1>2. Len(u) > 0 /\ Len(u) - 1 = Len(w)
  BY <1>1
<1>3. /\ Front(u) \in Seq(S) /\ Len(Front(u)) = Len(u) - 1
      /\ \A i \in 1..(Len(u) - 1) : Front(u)[i] = u[i]
      /\ Last(u) = u[Len(u)]
  BY <1>1, <1>2, FrontOf
<1>4. Len(Front(u)) = Len(w) /\ \A i \in 1..Len(w) : Front(u)[i] = w[i]
  BY <1>1, <1>2, <1>3
<1>5. Front(u) = w
  BY <1>3, <1>4, SeqEqual
<1> QED BY <1>1, <1>2, <1>3, <1>5 DEF u

\* The ways of d steps.
Level(h, x, d) ==
  {w \in Seq(Items) : /\ Len(w) = d + 1 /\ w[1] = x
                      /\ \A i \in 1..d : w[i + 1] \in Kids(h, w[i])}

\* A list has items only.
LEMMA KidsThere ==
  ASSUME NEW h, NEW x
  PROVE  Kids(h, x) \subseteq Items
BY DEF Kids, Listed, From

\* At the depth 0 there is x.
LEMMA LevelNone ==
  ASSUME NEW h, NEW x \in Items
  PROVE  Level(h, x, 0) = {<<x>>}
<1>1. <<x>> \in Level(h, x, 0)
  BY DEF Level
<1>2. ASSUME NEW w \in Level(h, x, 0) PROVE w = <<x>>
  <2>1. w \in Seq(Items) /\ Len(w) = 1 /\ w[1] = x
    BY <1>2 DEF Level
  <2>2. <<x>> \in Seq(Items) /\ Len(<<x>>) = 1 /\ <<x>>[1] = x
    OBVIOUS
  <2>3. \A i \in 1..Len(w) : w[i] = <<x>>[i]
    BY <2>1, <2>2
  <2> QED BY <2>1, <2>2, <2>3, SeqEqual
<1> QED BY <1>1, <1>2

\* A son of the last item is one deeper.
LEMMA LevelUp ==
  ASSUME NEW h, NEW x \in Items, NEW d \in Nat, NEW w \in Level(h, x, d),
         NEW y \in Kids(h, Last(w))
  PROVE  Append(w, y) \in Level(h, x, d + 1)
<1>1. /\ w \in Seq(Items) /\ Len(w) = d + 1 /\ w[1] = x
      /\ \A i \in 1..d : w[i + 1] \in Kids(h, w[i])
  BY DEF Level
<1>2. y \in Items
  BY KidsThere
<1> DEFINE u == Append(w, y)
<1>3. /\ u \in Seq(Items) /\ Len(u) = (d + 1) + 1
      /\ Last(u) = y /\ \A i \in 1..(d + 1) : u[i] = w[i]
  BY <1>1, <1>2, LastOfAppend
<1> HIDE DEF u
<1>4. u[(d + 1) + 1] = y /\ Last(w) = w[d + 1]
  BY <1>1, <1>3 DEF Last
<1>5. ASSUME NEW i \in 1..(d + 1) PROVE u[i + 1] \in Kids(h, u[i])
  <2>1. CASE i = d + 1
    BY <1>3, <1>4, <2>1
  <2>2. CASE i # d + 1
    <3>1. i \in 1..d /\ i + 1 \in 1..(d + 1)
      BY <2>2
    <3> QED BY <1>1, <1>3, <3>1
  <2> QED BY <2>1, <2>2
<1>6. u[1] = x
  BY <1>1, <1>3
<1> QED BY <1>3, <1>5, <1>6 DEF Level, u

\* A way that is one deeper goes over a son.
LEMMA LevelDown ==
  ASSUME NEW h, NEW x \in Items, NEW d \in Nat, NEW w \in Level(h, x, d + 1)
  PROVE  /\ Front(w) \in Level(h, x, d) /\ w = Append(Front(w), Last(w))
         /\ Last(w) \in Kids(h, Last(Front(w)))
<1>1. /\ w \in Seq(Items) /\ Len(w) = (d + 1) + 1 /\ w[1] = x
      /\ \A i \in 1..(d + 1) : w[i + 1] \in Kids(h, w[i])
  BY DEF Level
<1> DEFINE u == Front(w)
<1>2. /\ u \in Seq(Items) /\ Len(u) = Len(w) - 1
      /\ \A i \in 1..(Len(w) - 1) : u[i] = w[i]
      /\ Last(w) = w[Len(w)] /\ w = Append(u, Last(w))
  <2>1. Len(w) > 0
    BY <1>1
  <2> QED BY <1>1, <2>1, FrontOf
<1> HIDE DEF u
<1>3. Len(u) = d + 1 /\ \A i \in 1..(d + 1) : u[i] = w[i]
  BY <1>1, <1>2
<1>4. u[1] = x /\ Last(u) = w[d + 1] /\ Last(w) = w[(d + 1) + 1]
  BY <1>1, <1>2, <1>3 DEF Last
<1>5. \A i \in 1..d : u[i + 1] \in Kids(h, u[i])
  <2>1. \A i \in 1..d : i \in 1..(d + 1) /\ i + 1 \in 1..(d + 1)
    OBVIOUS
  <2> QED BY <1>1, <1>3, <2>1
<1>6. w[(d + 1) + 1] \in Kids(h, w[d + 1])
  BY <1>1
<1> QED BY <1>2, <1>3, <1>4, <1>5, <1>6 DEF Level, u

\* What Ways computes from one level is the next.
Longer(h, S) == UNION {{Append(w, y) : y \in Kids(h, Last(w))} : w \in S}

\* So each level comes from the one above.
LEMMA LevelNext ==
  ASSUME NEW h, NEW x \in Items, NEW d \in Nat
  PROVE  Level(h, x, d + 1) = Longer(h, Level(h, x, d))
<1>1. \A w \in Level(h, x, d) : \A y \in Kids(h, Last(w)) :
        Append(w, y) \in Level(h, x, d + 1)
  BY LevelUp
<1>2. \A u \in Level(h, x, d + 1) : \E w \in Level(h, x, d) :
        \E y \in Kids(h, Last(w)) : u = Append(w, y)
  BY LevelDown
<1> DEFINE T == Longer(h, Level(h, x, d))
<1>3. \A u : u \in T <=> \E w \in Level(h, x, d) :
        \E y \in Kids(h, Last(w)) : u = Append(w, y)
  BY DEF Longer
<1> HIDE DEF T
<1>4. \A u : u \in T <=> u \in Level(h, x, d + 1)
  <2>1. \A u \in T : u \in Level(h, x, d + 1)
    <3> SUFFICES ASSUME NEW u \in T PROVE u \in Level(h, x, d + 1)
      OBVIOUS
    <3>1. PICK w \in Level(h, x, d) :
            \E y \in Kids(h, Last(w)) : u = Append(w, y)
      BY <1>3
    <3>2. PICK y \in Kids(h, Last(w)) : u = Append(w, y)
      BY <3>1
    <3>3. Append(w, y) \in Level(h, x, d + 1)
      BY <1>1
    <3> QED BY <3>2, <3>3
  <2>2. \A u \in Level(h, x, d + 1) : u \in T
    BY <1>2, <1>3
  <2> QED BY <2>1, <2>2
<1>5. T = Level(h, x, d + 1)
  BY <1>4
<1> QED BY <1>5 DEF T

\* Ways has the levels down to CircularLimit, and looks at one more.
LEMMA WaysAre ==
  ASSUME NEW h, NEW x \in Items
  PROVE  /\ Ways(h, x).all = UNION {Level(h, x, d) : d \in 0..CircularLimit}
         /\ Ways(h, x).tooDeep <=> Level(h, x, CircularLimit + 1) # {}
<1> DEFINE L == CircularLimit
           row(f, d) == IF d = 0 THEN {<<x>>} ELSE Longer(h, f[d - 1])
           Rec(f) == f = [d \in 0..(L + 1) |-> row(f, d)]
           f0 == CHOOSE f : Rec(f)
           e == [d \in 0..(L + 1) |-> Level(h, x, d)]
<1>0. L \in Nat
  BY LimitAssumption
<1>1. Ways(h, x) = [all |-> UNION {f0[d] : d \in 0..L},
                    tooDeep |-> f0[L + 1] # {}]
  BY DEF Ways, Longer
<1>2. /\ Ways(h, x).all = UNION {f0[d] : d \in 0..L}
      /\ Ways(h, x).tooDeep = (f0[L + 1] # {})
  <2> HIDE DEF f0
  <2> QED BY <1>1
<1> HIDE DEF L
<1>3. ASSUME NEW d \in 0..(L + 1), d # 0
      PROVE  /\ Level(h, x, d) = Longer(h, Level(h, x, d - 1))
             /\ d - 1 \in 0..(L + 1)
  <2>1. d - 1 \in Nat /\ (d - 1) + 1 = d /\ d - 1 \in 0..(L + 1)
    BY <1>0, <1>3
  <2>2. \A k \in Nat : Level(h, x, k + 1) = Longer(h, Level(h, x, k))
    BY LevelNext
  <2> QED BY <2>1, <2>2
<1>4. Rec(e)
  <2>1. ASSUME NEW d \in 0..(L + 1) PROVE Level(h, x, d) = row(e, d)
    <3>1. CASE d = 0
      BY <3>1, LevelNone
    <3>2. CASE d # 0
      <4>1. e[d - 1] = Level(h, x, d - 1)
        BY <1>3, <3>2
      <4> HIDE DEF e
      <4> QED BY <1>3, <3>2, <4>1
    <3> QED BY <3>1, <3>2
  <2> QED BY <2>1
<1>5. Rec(f0)
  <2> HIDE DEF Rec, e
  <2> QED BY <1>4
<1> HIDE DEF f0
<1>6. \A d \in 0..(L + 1) : f0[d] = row(f0, d)
  <2> HIDE DEF row
  <2> QED BY <1>5, Zenon
<1>7. \A d \in 0..(L + 1) : f0[d] = Level(h, x, d)
  <2> DEFINE Bad == {d \in 0..(L + 1) : f0[d] # Level(h, x, d)}
  <2>1. SUFFICES ASSUME Bad # {} PROVE FALSE
    OBVIOUS
  <2>2. Bad \in SUBSET Nat
    BY <1>0
  <2>3. PICK d \in Bad : \A k \in Bad : d <= k
    BY <2>1, <2>2, LeastOne
  <2>4. d \in 0..(L + 1) /\ f0[d] # Level(h, x, d)
    BY <2>3
  <2>5. d # 0
    BY <1>6, <2>4, LevelNone
  <2>6. Level(h, x, d) = Longer(h, Level(h, x, d - 1)) /\ d - 1 \in 0..(L + 1)
    BY <1>3, <2>4, <2>5
  <2>7. ~(d <= d - 1)
    BY <1>0, <2>4
  <2>8. f0[d - 1] = Level(h, x, d - 1)
    BY <2>3, <2>6, <2>7
  <2>9. f0[d] = Longer(h, f0[d - 1])
    BY <1>6, <2>4, <2>5
  <2> QED BY <2>4, <2>6, <2>8, <2>9
<1>8. L + 1 \in 0..(L + 1) /\ 0..L \subseteq 0..(L + 1)
  BY <1>0
<1>9. UNION {f0[d] : d \in 0..L} = UNION {Level(h, x, d) : d \in 0..L}
  BY <1>7, <1>8
<1>10. f0[L + 1] = Level(h, x, L + 1)
  BY <1>7, <1>8
<1> QED BY <1>2, <1>9, <1>10, Zenon DEF L

\* A level is finite.
LEMMA LevelFinite ==
  ASSUME NEW h, NEW x \in Items, NEW d \in Nat
  PROVE  IsFiniteSet(Level(h, x, d))
<1> DEFINE Bad == {k \in Nat : ~IsFiniteSet(Level(h, x, k))}
<1>1. SUFFICES ASSUME Bad # {} PROVE FALSE
  OBVIOUS
<1>2. PICK m \in Bad : \A k \in Bad : m <= k
  BY <1>1, LeastOne
<1>3. m \in Nat /\ ~IsFiniteSet(Level(h, x, m))
  BY <1>2
<1>4. m # 0
  <2>1. IsFiniteSet(Level(h, x, 0))
    <3>1. IsFiniteSet({<<x>>})
      BY FS_Singleton
    <3> QED BY <3>1, LevelNone
  <2> QED BY <1>3, <2>1
<1>5. m - 1 \in Nat /\ (m - 1) + 1 = m /\ ~(m <= m - 1)
  BY <1>3, <1>4
<1> DEFINE S == Level(h, x, m - 1)
           T == Level(h, x, m)
           f == [w \in T |-> <<Front(w), Last(w)>>]
<1>6. IsFiniteSet(S)
  BY <1>2, <1>5
<1>7. ASSUME NEW w \in T
      PROVE  /\ Front(w) \in S /\ w = Append(Front(w), Last(w))
             /\ Last(w) \in Items
  <2>1. w \in Level(h, x, (m - 1) + 1)
    BY <1>5
  <2> QED BY <1>5, <2>1, LevelDown, KidsThere
<1> HIDE DEF S, T
<1>8. f \in [T -> S \X Items]
  BY <1>7
<1>9. \A v, w \in T : f[v] = f[w] => v = w
  <2> SUFFICES ASSUME NEW v \in T, NEW w \in T, f[v] = f[w] PROVE v = w
    OBVIOUS
  <2>1. <<Front(v), Last(v)>> = <<Front(w), Last(w)>>
    OBVIOUS
  <2>2. Front(v) = Front(w) /\ Last(v) = Last(w)
    BY <2>1
  <2> QED BY <1>7, <2>2
<1>10. f \in Injection(T, S \X Items)
  <2> HIDE DEF f
  <2> QED BY <1>8, <1>9 DEF Injection, IsInjective
<1>11. IsFiniteSet(S \X Items)
  BY <1>6, CellsAssumption, FS_Product
<1>12. IsFiniteSet(T)
  BY <1>10, <1>11, FS_Injection
<1> QED BY <1>3, <1>12 DEF T

-----------------------------------------------------------------------------
(* cJSON_Duplicate.                                                         *)

\* The parts of CopyAt.
Copies(W, f) == {f[w] : w \in W}

Way(W, f, z) == CHOOSE w \in W : f[w] = z

RowOf(s, f, w) == [i \in 1..Len(s[w]) |-> f[Append(w, s[w][i])]]

Siblings(W, s, f, z) == RowOf(s, f, Front(Way(W, f, z)))

PlaceIn(W, s, f, z) ==
  CHOOSE i \in 1..Len(Siblings(W, s, f, z)) : Siblings(W, s, f, z)[i] = z

CopyHeap(h, g, W, s, f) ==
  /\ Shaped(g) /\ g.refs = h.refs
  /\ g.live = h.live \cup Copies(W, f)
  /\ g.consts = h.consts \cup
                  {z \in Copies(W, f) : Last(Way(W, f, z)) \in h.consts}
  /\ g.next = [z \in Items |->
       IF z \in Copies(W, f)
       THEN IF Len(Way(W, f, z)) = 1 THEN Null
            ELSE NextIn(Siblings(W, s, f, z), PlaceIn(W, s, f, z))
       ELSE h.next[z]]
  /\ g.prev = [z \in Items |->
       IF z \in Copies(W, f)
       THEN IF Len(Way(W, f, z)) = 1 THEN Null
            ELSE PrevIn(Siblings(W, s, f, z), PlaceIn(W, s, f, z))
       ELSE h.prev[z]]
  /\ g.child = [z \in Items |->
       IF z \in Copies(W, f)
       THEN IF Len(s[Way(W, f, z)]) = 0 THEN Null
            ELSE RowOf(s, f, Way(W, f, z))[1]
       ELSE h.child[z]]
  /\ g.home = [z \in Items |->
       IF z \in Copies(W, f)
       THEN IF Len(Way(W, f, z)) = 1 THEN Null ELSE f[Front(Way(W, f, z))]
       ELSE h.home[z]]
  /\ g.key = [z \in Items |-> IF z \in Copies(W, f)
                              THEN h.key[Last(Way(W, f, z))] ELSE h.key[z]]
  /\ g.vstr = [z \in Items |->
       IF z \in Copies(W, f)
       THEN IF h.vstr[Last(Way(W, f, z))] = Null THEN Null ELSE z
       ELSE h.vstr[z]]
  /\ g.strings = h.strings + CostOf(h, W) - Cardinality(W)

\* CopyAt gives these parts.
LEMMA CopyIs ==
  ASSUME NEW h, Shaped(h), NEW s, NEW f
  PROVE  CopyHeap(h, CopyAt(h, s, f), DOMAIN s, s, f)
BY ZenonT(40) DEF CopyAt, CopyHeap, Copies, Way, RowOf, Siblings, PlaceIn,
                  Shaped, Fields

\* W are ways down from x, and s[w] the items that W goes on to from w: all
\* that the list of Last(w) has, or none.
Paths(h, W, x, s) ==
  /\ W \subseteq Seq(Items) /\ <<x>> \in W /\ s \in [W -> Seq(Items)]
  /\ \A w \in W : Len(w) > 0 /\ (Len(w) = 1 => w = <<x>>)
  /\ \A w \in W : \A i, j \in 1..Len(s[w]) : s[w][i] = s[w][j] => i = j
  /\ \A w \in W : \A i \in 1..Len(s[w]) :
       /\ Append(w, s[w][i]) \in W
       /\ h.next[s[w][i]] = IF i = Len(s[w]) THEN Null ELSE s[w][i + 1]
  /\ \A w \in W : IF Len(s[w]) = 0 THEN \A y : Append(w, y) \notin W
                  ELSE h.child[Last(w)] = s[w][1]
  /\ \A w \in W : Len(w) > 1 =>
       /\ Front(w) \in W
       /\ \E i \in 1..Len(s[Front(w)]) : s[Front(w)][i] = Last(w)

\* The item alone.
LEMMA OnePath ==
  ASSUME NEW h, NEW x \in Items
  PROVE  Paths(h, {<<x>>}, x, [w \in {<<x>>} |-> <<>>]) /\ IsFiniteSet({<<x>>})
<1> DEFINE W == {<<x>>}
           s == [w \in W |-> <<>>]
<1>1. s \in [W -> Seq(Items)] /\ \A w \in W : Len(s[w]) = 0
  OBVIOUS
<1>2. \A w \in W : w = <<x>> /\ Len(w) = 1 /\ w \in Seq(Items)
  <2>1. <<x>> \in Seq(Items) /\ Len(<<x>>) = 1
    OBVIOUS
  <2> QED BY <2>1
<1>3. \A w \in W : \A y : Append(w, y) \notin W
  <2> SUFFICES ASSUME NEW y PROVE Append(<<x>>, y) # <<x>>
    BY <1>2
  <2>1. Len(Append(<<x>>, y)) = 2 /\ Len(<<x>>) = 1
    OBVIOUS
  <2> QED BY <2>1
<1>4. IsFiniteSet(W)
  BY FS_Singleton
<1>6. <<x>> \in W
  OBVIOUS
<1> HIDE DEF s, W
<1>7. \A w \in W : \A i \in 1..Len(s[w]) : FALSE
  BY <1>1
<1>8. \A w \in W : Len(w) > 0 /\ ~(Len(w) > 1) /\ w = <<x>>
  <2>1. \A w \in W : w = <<x>>
    BY <1>2, Zenon
  <2>2. \A w \in W : Len(w) = 1
    BY <1>2, Zenon
  <2>4. 1 > 0 /\ ~(1 > 1)
    OBVIOUS
  <2>3. \A w \in W : Len(w) > 0 /\ ~(Len(w) > 1)
    BY <2>2, <2>4, Zenon
  <2> QED BY <2>1, <2>3, Zenon
<1>5. Paths(h, W, x, s)
  BY <1>1, <1>2, <1>3, <1>6, <1>7, <1>8 DEF Paths
<1> QED BY <1>4, <1>5 DEF s, W

\* All of them, if they are not too deep.
LEMMA AllPaths ==
  ASSUME NEW h, NEW R, ListsHold(h, R), NEW k, KidsAre(h, k), NEW x \in Items,
         ~Ways(h, x).tooDeep
  PROVE  LET W == Ways(h, x).all
         IN /\ Paths(h, W, x, [w \in W |-> Chain(h, Last(w))])
            /\ IsFiniteSet(W)
<1> DEFINE W == Ways(h, x).all
           L == CircularLimit
           s == [w \in W |-> Chain(h, Last(w))]
<1>0. L \in Nat
  BY LimitAssumption
<1>1. \A w : w \in W <=> \E d \in 0..L : w \in Level(h, x, d)
  BY WaysAre
<1>2. Level(h, x, L + 1) = {}
  BY WaysAre
<1> HIDE DEF W, L
<1>3. \A w \in W : w \in Seq(Items) /\ Len(w) > 0
  BY <1>0, <1>1 DEF Level
<1>4. \A w \in W : Last(w) \in Items
  BY <1>3, FrontOf
<1>5. ASSUME NEW c \in Items
      PROVE  Listing(h, c, Chain(h, c)) /\ Kids(h, c) = ToSet(Chain(h, c))
  BY ChainOf DEF Kids
<1>6. ASSUME NEW w \in W, NEW y \in Kids(h, Last(w)) PROVE Append(w, y) \in W
  <2>1. PICK d \in 0..L : w \in Level(h, x, d)
    BY <1>1
  <2>2. d \in Nat /\ d + 1 \in 0..(L + 1)
    BY <1>0
  <2>3. Append(w, y) \in Level(h, x, d + 1)
    BY <2>1, <2>2, LevelUp
  <2>4. d + 1 # L + 1
    BY <1>2, <2>3
  <2>5. d + 1 \in 0..L
    BY <1>0, <2>2, <2>4
  <2> QED BY <1>1, <2>3, <2>5
<1>7. ASSUME NEW w \in W, Len(w) > 1
      PROVE  /\ Front(w) \in W /\ w = Append(Front(w), Last(w))
             /\ Last(w) \in Kids(h, Last(Front(w)))
  <2>1. PICK d \in 0..L : w \in Level(h, x, d)
    BY <1>1
  <2>2. Len(w) = d + 1
    BY <2>1 DEF Level
  <2>3. d - 1 \in Nat /\ d - 1 \in 0..L /\ (d - 1) + 1 = d
    BY <1>0, <1>7, <2>2
  <2>4. w \in Level(h, x, (d - 1) + 1)
    BY <2>1, <2>3
  <2> QED BY <1>1, <2>3, <2>4, LevelDown
<1>8. <<x>> \in W
  BY <1>0, <1>1, LevelNone
<1>9. ASSUME NEW w \in W, Len(w) = 1 PROVE w = <<x>>
  <2>1. PICK d \in 0..L : w \in Level(h, x, d)
    BY <1>1
  <2>2. Len(w) = d + 1
    BY <2>1 DEF Level
  <2>3. d = 0
    BY <1>0, <1>9, <2>2
  <2> QED BY <2>1, <2>3, LevelNone
<1>10. s \in [W -> Seq(Items)] /\ \A w \in W : s[w] = Chain(h, Last(w))
  BY <1>4, <1>5 DEF Listing
<1> HIDE DEF s
<1>11. ASSUME NEW w \in W
       PROVE  /\ Listing(h, Last(w), s[w]) /\ Kids(h, Last(w)) = ToSet(s[w])
              /\ \A z : z \in Kids(h, Last(w)) <=>
                   \E i \in 1..Len(s[w]) : s[w][i] = z
  <2>1. Listing(h, Last(w), s[w]) /\ Kids(h, Last(w)) = ToSet(s[w])
    BY <1>4, <1>5, <1>10
  <2>2. \A z : z \in ToSet(s[w]) <=> \E i \in 1..Len(s[w]) : s[w][i] = z
    BY <2>1 DEF ToSet, Listing
  <2> QED BY <2>1, <2>2
<1>12. ASSUME NEW w \in W, Len(s[w]) = 0, NEW y, Append(w, y) \in W
       PROVE  FALSE
  <2> DEFINE u == Append(w, y)
  <2>7. u \in W
    BY <1>12
  <2>1. u \in Seq(Items) /\ w \in Seq(Items) /\ Len(w) \in Nat /\ Len(w) > 0
    <3> HIDE DEF u
    <3> QED BY <1>3, <2>7
  <2>2. Len(u) = Len(w) + 1 /\ u[Len(w) + 1] = y
    BY <2>1
  <2>3. y \in Items
    BY <2>1, <2>2
  <2>4. Front(u) = w /\ Last(u) = y
    BY <2>1, <2>3, LastOfAppend
  <2> HIDE DEF u
  <2>8. Len(u) > 1
    BY <2>1, <2>2
  <2>5. y \in Kids(h, Last(w))
    BY <1>7, <2>4, <2>7, <2>8
  <2>6. \E i \in 1..Len(s[w]) : s[w][i] = y
    BY <1>11, <2>5
  <2> QED BY <1>12, <2>6
<1>13. IsFiniteSet(W)
  <2> DEFINE lev == [d \in 0..L |-> Level(h, x, d)]
             V == {lev[d] : d \in 0..L}
  <2>1. \A T \in V : IsFiniteSet(T)
    BY <1>0, LevelFinite
  <2>2. lev \in Surjection(0..L, V)
    BY DEF Surjection
  <2>3. IsFiniteSet(0..L)
    BY <1>0, FS_Interval
  <2>4. IsFiniteSet(V)
    <3> HIDE DEF lev, V
    <3> QED BY <2>2, <2>3, FS_Surjection
  <2>5. W = UNION V
    <3>1. \A w : w \in UNION V <=> \E d \in 0..L : w \in Level(h, x, d)
      OBVIOUS
    <3> HIDE DEF V, lev
    <3> QED BY <1>1, <3>1
  <2> HIDE DEF V
  <2>6. IsFiniteSet(UNION V)
    BY <2>1, <2>4, FS_UNION
  <2> QED BY <2>5, <2>6
<1>14. ASSUME NEW w \in W PROVE
          IF Len(s[w]) = 0 THEN \A y : Append(w, y) \notin W
                  ELSE h.child[Last(w)] = s[w][1]
  BY <1>11, <1>12 DEF Listing
<1>15. Paths(h, W, x, s)
  <2>1. W \subseteq Seq(Items) /\ <<x>> \in W /\ s \in [W -> Seq(Items)]
    BY <1>3, <1>8, <1>10
  <2>2. \A w \in W : Len(w) > 0 /\ (Len(w) = 1 => w = <<x>>)
    BY <1>3, <1>9
  <2>3. \A w \in W : \A i, j \in 1..Len(s[w]) : s[w][i] = s[w][j] => i = j
    BY <1>11 DEF Listing
  <2>4. \A w \in W : \A i \in 1..Len(s[w]) : Append(w, s[w][i]) \in W
    BY <1>6, <1>11
  <2>5. \A w \in W : \A i \in 1..Len(s[w]) :
          h.next[s[w][i]] = IF i = Len(s[w]) THEN Null ELSE s[w][i + 1]
    BY <1>11 DEF Listing
  <2>6. \A w \in W : Len(w) > 1 =>
          /\ Front(w) \in W
          /\ \E i \in 1..Len(s[Front(w)]) : s[Front(w)][i] = Last(w)
    BY <1>7, <1>11
  <2> QED BY <1>14, <2>1, <2>2, <2>3, <2>4, <2>5, <2>6 DEF Paths
<1> QED BY <1>13, <1>15 DEF W, s

\* Those of Sons, with all below x or without.
LEMMA SonsArePaths ==
  ASSUME NEW h, NEW R, ListsHold(h, R), NEW k, KidsAre(h, k), NEW x \in Items,
         NEW recurse \in BOOLEAN, ~(recurse /\ Ways(h, x).tooDeep)
  PROVE  LET s == Sons(h, x, recurse)
         IN Paths(h, DOMAIN s, x, s) /\ IsFiniteSet(DOMAIN s)
<1>1. CASE recurse
  <2> DEFINE W == Ways(h, x).all
  <2>1. Sons(h, x, recurse) = [w \in W |-> Chain(h, Last(w))]
    BY <1>1 DEF Sons
  <2>2. DOMAIN Sons(h, x, recurse) = W
    BY <2>1
  <2>3. /\ Paths(h, W, x, [w \in W |-> Chain(h, Last(w))])
        /\ IsFiniteSet(W)
    BY <1>1, AllPaths
  <2> QED BY <2>1, <2>2, <2>3
<1>2. CASE ~recurse
  <2>1. Sons(h, x, recurse) = [w \in {<<x>>} |-> <<>>]
    BY <1>2 DEF Sons
  <2>2. DOMAIN Sons(h, x, recurse) = {<<x>>}
    BY <2>1
  <2> QED BY <2>1, <2>2, OnePath
<1> QED BY <1>1, <1>2

\* If there is room, the copy gets a cell for each way.
LEMMA RoomFor ==
  ASSUME NEW W, IsFiniteSet(W), NEW F, IsFiniteSet(F),
         Cardinality(W) <= Cardinality(F)
  PROVE  LET f == CHOOSE g \in [W -> F] : IsInjective(g)
         IN f \in [W -> F] /\ \A v, w \in W : f[v] = f[w] => v = w
<1>1. Cardinality(W) \in 0..Cardinality(F)
  BY FS_CardinalityType
<1>2. PICK X \in SUBSET F : Cardinality(X) = Cardinality(W)
  BY <1>1, SubsetOfSize
<1>3. ExistsBijection(W, X)
  BY <1>2, FS_Subset, FS_SameCardinalityBij
<1>4. PICK g : g \in Bijection(W, X)
  BY <1>3 DEF ExistsBijection
<1>5. g \in [W -> F] /\ IsInjective(g)
  BY <1>2, <1>4 DEF Bijection, Injection
<1> DEFINE f == CHOOSE e \in [W -> F] : IsInjective(e)
<1>6. f \in [W -> F] /\ IsInjective(f)
  BY <1>5, Zenon
<1> HIDE DEF f
<1>7. \A v, w \in W : f[v] = f[w] => v = w
  BY <1>6 DEF IsInjective
<1> QED BY <1>6, <1>7 DEF f

LEMMA CellsAreFree ==
  ASSUME NEW W, IsFiniteSet(W),
         Cardinality(W) <= Cardinality(Items \ heap.live)
  PROVE  LET f == CellsFor(heap, W)
         IN /\ f \in [W -> Items \ heap.live]
            /\ \A v, w \in W : f[v] = f[w] => v = w
<1> DEFINE F == Items \ heap.live
<1>1. IsFiniteSet(F)
  BY CellsAssumption, FS_Subset
<1>2. CellsFor(heap, W) = CHOOSE g \in [W -> F] : IsInjective(g)
  BY DEF CellsFor
<1>3. Cardinality(W) <= Cardinality(F)
  OBVIOUS
<1> HIDE DEF F
<1>4. LET f == CHOOSE g \in [W -> F] : IsInjective(g)
      IN f \in [W -> F] /\ \A v, w \in W : f[v] = f[w] => v = w
  BY <1>1, <1>3, RoomFor
<1> QED BY <1>2, <1>4 DEF F

\* The way over the i-th son.
Over(s, w, i) == Append(w, s[w][i])

\* It is a way, and leads to that son.
LEMMA OverIs ==
  ASSUME NEW h, NEW W, NEW x, NEW s, Paths(h, W, x, s),
         NEW w \in W, NEW i \in 1..Len(s[w])
  PROVE  LET u == Over(s, w, i)
         IN /\ u \in W /\ Front(u) = w /\ Last(u) = s[w][i] /\ s[w][i] \in Items
            /\ Len(u) # 1 /\ Len(u) = Len(w) + 1 /\ Len(w) \in Nat
            /\ h.next[Last(u)] = IF i = Len(s[w]) THEN Null ELSE s[w][i + 1]
<1>1. w \in Seq(Items) /\ s[w] \in Seq(Items) /\ Len(w) > 0
  BY DEF Paths
<1>2. s[w][i] \in Items /\ Len(w) \in Nat
  BY <1>1
<1>3. Over(s, w, i) \in W
  BY DEF Paths, Over
<1> DEFINE u == Over(s, w, i)
<1>4. Front(u) = w /\ Last(u) = s[w][i] /\ Len(u) = Len(w) + 1
  BY <1>1, <1>2, LastOfAppend DEF Over
<1> HIDE DEF u
<1>5. Len(u) # 1
  BY <1>1, <1>2, <1>4
<1>6. h.next[s[w][i]] = IF i = Len(s[w]) THEN Null ELSE s[w][i + 1]
  BY DEF Paths
<1> QED BY <1>2, <1>3, <1>4, <1>5, <1>6 DEF u

\* Each way but the first goes over one son of one way.
LEMMA OverSome ==
  ASSUME NEW h, NEW W, NEW x, NEW s, Paths(h, W, x, s),
         NEW u \in W, Len(u) # 1
  PROVE  /\ Front(u) \in W
         /\ \E i \in 1..Len(s[Front(u)]) : u = Over(s, Front(u), i)
<1>1. u \in Seq(Items) /\ Len(u) > 0 /\ Len(u) \in Nat
  BY DEF Paths
<1>2. Len(u) > 1
  <2> DEFINE n == Len(u)
  <2>1. n \in Nat /\ n > 0 /\ n # 1
    BY <1>1
  <2> HIDE DEF n
  <2>2. n > 1
    BY <2>1
  <2> QED BY <2>2 DEF n
<1>3. u = Append(Front(u), Last(u))
  BY <1>1, FrontOf
<1>4. /\ Front(u) \in W
      /\ \E i \in 1..Len(s[Front(u)]) : s[Front(u)][i] = Last(u)
  BY <1>2 DEF Paths
<1> QED BY <1>3, <1>4 DEF Over

\* No two of them are the same.
LEMMA OverOne ==
  ASSUME NEW h, NEW W, NEW x, NEW s, Paths(h, W, x, s),
         NEW v \in W, NEW i \in 1..Len(s[v]),
         NEW w \in W, NEW j \in 1..Len(s[w]), Over(s, v, i) = Over(s, w, j)
  PROVE  v = w /\ i = j
<1>1. v = w /\ s[v][i] = s[w][j]
  BY OverIs
<1> QED BY <1>1 DEF Paths

\* A copy into free cells, each way its own.
CopyOf(h, g, W, x, s, f) ==
  /\ CopyHeap(h, g, W, s, f) /\ Paths(h, W, x, s)
  /\ f \in [W -> Items \ h.live]
  /\ \A v, w \in W : f[v] = f[w] => v = w

\* Each copy is the copy of one way.
LEMMA WayIs ==
  ASSUME NEW h, NEW g, NEW W, NEW x, NEW s, NEW f, CopyOf(h, g, W, x, s, f),
         NEW w \in W
  PROVE  /\ f[w] \in Copies(W, f) /\ f[w] \in Items /\ f[w] \notin h.live
         /\ f[w] # Null /\ Way(W, f, f[w]) = w
         /\ \A z \in Copies(W, f) : \E v \in W : z = f[v] /\ Way(W, f, z) = v
<1>1. \A v \in W : Way(W, f, f[v]) = v
  BY DEF Way, CopyOf
<1>2. f[w] \in Items /\ f[w] \notin h.live
  BY DEF CopyOf
<1>3. f[w] # Null
  BY <1>2, CellsAssumption
<1> QED BY <1>1, <1>2, <1>3 DEF Copies

\* The copies of one walk, in order.
InOrder(s, f, w, row) ==
  /\ Len(s[w]) \in Nat /\ Len(row) = Len(s[w])
  /\ \A i \in 1..Len(s[w]) : row[i] = f[Over(s, w, i)]
  /\ Last(row) = row[Len(s[w])]

LEMMA RowIs ==
  ASSUME NEW h, NEW W, NEW x, NEW s, NEW f, Paths(h, W, x, s), NEW w \in W
  PROVE  InOrder(s, f, w, RowOf(s, f, w))
<1> DEFINE n == Len(s[w])
           a(i) == f[Over(s, w, i)]
           row == RowOf(s, f, w)
<1>1. n \in Nat
  BY DEF Paths
<1>2. row = [i \in 1..n |-> a(i)]
  BY DEF RowOf, Over
<1> HIDE DEF n, a, row
<1>3. Len(row) = n /\ \A i \in 1..n : row[i] = a(i)
  BY <1>1, <1>2
<1>4. Last(row) = row[n]
  BY <1>3 DEF Last
<1> QED BY <1>1, <1>3, <1>4 DEF n, a, row, InOrder

\* The lists of the copies.
LEMMA CopyLinks ==
  ASSUME NEW h, NEW g, NEW W, NEW x, NEW s, NEW f, CopyOf(h, g, W, x, s, f),
         NEW w \in W
  PROVE  /\ g.child[f[w]] = (IF Len(s[w]) = 0 THEN Null ELSE f[Over(s, w, 1)])
         /\ Len(w) = 1 => /\ g.next[f[w]] = Null /\ g.prev[f[w]] = Null
                          /\ g.home[f[w]] = Null
         /\ \A i \in 1..Len(s[w]) :
              LET z == f[Over(s, w, i)]
              IN /\ g.home[z] = f[w]
                 /\ g.next[z] = (IF i = Len(s[w]) THEN Null
                                 ELSE f[Over(s, w, i + 1)])
                 /\ g.prev[z] = (IF i = 1 THEN f[Over(s, w, Len(s[w]))]
                                 ELSE f[Over(s, w, i - 1)])
<1> DEFINE row == RowOf(s, f, w)
<1>1. Paths(h, W, x, s) /\ CopyHeap(h, g, W, s, f)
  BY DEF CopyOf
<1>2. \A v \in W : /\ f[v] \in Copies(W, f) /\ f[v] \in Items
                   /\ Way(W, f, f[v]) = v
  BY WayIs
<1>3. \A u, v \in W : f[u] = f[v] => u = v
  BY DEF CopyOf
<1>4. /\ Len(s[w]) \in Nat /\ Len(row) = Len(s[w])
      /\ \A i \in 1..Len(s[w]) : row[i] = f[Over(s, w, i)]
      /\ Last(row) = row[Len(s[w])]
  <2>1. InOrder(s, f, w, row)
    BY <1>1, RowIs
  <2> HIDE DEF row
  <2> QED BY <2>1 DEF InOrder
<1> HIDE DEF row
<1>5. g.child[f[w]] = (IF Len(s[w]) = 0 THEN Null ELSE f[Over(s, w, 1)])
  <2>1. g.child[f[w]] = IF Len(s[w]) = 0 THEN Null ELSE row[1]
    BY <1>1, <1>2 DEF CopyHeap, row
  <2>2. Len(s[w]) # 0 => 1 \in 1..Len(s[w])
    BY <1>4
  <2> QED BY <1>4, <2>1, <2>2
<1>6. Len(w) = 1 => /\ g.next[f[w]] = Null /\ g.prev[f[w]] = Null
                    /\ g.home[f[w]] = Null
  BY <1>1, <1>2 DEF CopyHeap
<1>7. ASSUME NEW i \in 1..Len(s[w])
      PROVE  LET z == f[Over(s, w, i)]
             IN /\ g.home[z] = f[w]
                /\ g.next[z] = (IF i = Len(s[w]) THEN Null
                                ELSE f[Over(s, w, i + 1)])
                /\ g.prev[z] = (IF i = 1 THEN f[Over(s, w, Len(s[w]))]
                                ELSE f[Over(s, w, i - 1)])
  <2> DEFINE u == Over(s, w, i)
             z == f[u]
  <2>1. u \in W /\ Front(u) = w /\ Len(u) # 1
    BY <1>1, OverIs
  <2>2. z \in Copies(W, f) /\ z \in Items /\ Way(W, f, z) = u
    BY <1>2, <2>1
  <2>3. Siblings(W, s, f, z) = row
    BY <2>1, <2>2 DEF Siblings, row
  <2>4. ASSUME NEW j \in 1..Len(s[w]), row[j] = z PROVE j = i
    <3>1. f[Over(s, w, j)] = f[Over(s, w, i)] /\ Over(s, w, j) \in W
      BY <1>1, <1>4, <2>4, OverIs
    <3>2. Over(s, w, j) = Over(s, w, i)
      BY <1>3, <2>1, <3>1
    <3> QED BY <1>1, <3>2, OverOne
  <2>5. PlaceIn(W, s, f, z) = i
    <3>1. PlaceIn(W, s, f, z) = CHOOSE j \in 1..Len(s[w]) : row[j] = z
      BY <1>4, <2>3 DEF PlaceIn
    <3>2. row[i] = z
      BY <1>4
    <3> HIDE DEF z
    <3> QED BY <2>4, <3>1, <3>2
  <2> HIDE DEF z
  <2>6. g.home[z] = f[w]
    BY <1>1, <2>1, <2>2 DEF CopyHeap
  <2>7. g.next[z] = NextIn(row, i) /\ g.prev[z] = PrevIn(row, i)
    <3>1. /\ g.next[z] = NextIn(Siblings(W, s, f, z), PlaceIn(W, s, f, z))
          /\ g.prev[z] = PrevIn(Siblings(W, s, f, z), PlaceIn(W, s, f, z))
      BY <1>1, <2>1, <2>2 DEF CopyHeap
    <3> QED BY <2>3, <2>5, <3>1
  <2>8. /\ i # Len(s[w]) => i + 1 \in 1..Len(s[w])
        /\ i # 1 => i - 1 \in 1..Len(s[w])
        /\ Len(s[w]) \in 1..Len(s[w])
    BY <1>4
  <2>9. NextIn(row, i) = IF i = Len(s[w]) THEN Null ELSE f[Over(s, w, i + 1)]
    BY <1>4, <2>8 DEF NextIn
  <2>10. PrevIn(row, i) = IF i = 1 THEN f[Over(s, w, Len(s[w]))]
                          ELSE f[Over(s, w, i - 1)]
    BY <1>4, <2>8 DEF PrevIn
  <2> QED BY <2>6, <2>7, <2>9, <2>10 DEF z
<1> QED BY <1>5, <1>6, <1>7

\* The lists of the copies, as sequences.
CopyLists(W, s, f) ==
  [z \in Copies(W, f) |-> [i \in 1..Len(s[Way(W, f, z)]) |->
                             f[Over(s, Way(W, f, z), i)]]]

\* The copies are a tree.
LEMMA CopyTree ==
  ASSUME NEW h, NEW g, NEW W, NEW x, NEW s, NEW f, CopyOf(h, g, W, x, s, f)
  PROVE  IsTree(Copies(W, f), f[<<x>>], CopyLists(W, s, f))
<1> DEFINE C == Copies(W, f)
           t == CopyLists(W, s, f)
           r == f[<<x>>]
<1>1. Paths(h, W, x, s)
  BY DEF CopyOf
<1>2. \A v \in W : f[v] \in C /\ Way(W, f, f[v]) = v
  BY WayIs
<1>3. \A z \in C : \E v \in W : z = f[v] /\ Way(W, f, z) = v
  BY <1>2 DEF Copies
<1>4. \A u, v \in W : f[u] = f[v] => u = v
  BY DEF CopyOf
<1>5. /\ <<x>> \in W
      /\ \A w \in W : Len(s[w]) \in Nat /\ (Len(w) = 1 <=> w = <<x>>)
  <2>1. /\ <<x>> \in W
        /\ \A w \in W : Len(s[w]) \in Nat /\ (Len(w) = 1 => w = <<x>>)
    BY <1>1 DEF Paths
  <2>2. Len(<<x>>) = 1
    OBVIOUS
  <2> QED BY <2>1, <2>2
<1>6. \A w \in W : \A i \in 1..Len(s[w]) :
        Over(s, w, i) \in W /\ Len(Over(s, w, i)) # 1
  BY <1>1, OverIs
<1>7. \A w \in W : /\ t[f[w]] = [i \in 1..Len(s[w]) |-> f[Over(s, w, i)]]
                   /\ t[f[w]] \in Seq(C) /\ Len(t[f[w]]) = Len(s[w])
                   /\ \A i \in 1..Len(s[w]) : t[f[w]][i] = f[Over(s, w, i)]
  <2> SUFFICES ASSUME NEW w \in W
               PROVE  /\ t[f[w]] = [i \in 1..Len(s[w]) |-> f[Over(s, w, i)]]
                   /\ t[f[w]] \in Seq(C) /\ Len(t[f[w]]) = Len(s[w])
                   /\ \A i \in 1..Len(s[w]) : t[f[w]][i] = f[Over(s, w, i)]
    OBVIOUS
  <2>1. t[f[w]] = [i \in 1..Len(s[w]) |-> f[Over(s, w, i)]]
    BY <1>2 DEF CopyLists
  <2>2. \A i \in 1..Len(s[w]) : f[Over(s, w, i)] \in C
    BY <1>2, <1>6
  <2> DEFINE n == Len(s[w])
             a(i) == f[Over(s, w, i)]
  <2>3. n \in Nat
    BY <1>5
  <2> HIDE DEF n, a, C, t
  <2>4. t[f[w]] = [i \in 1..n |-> a(i)] /\ \A i \in 1..n : a(i) \in C
    BY <2>1, <2>2 DEF n, a
  <2>5. /\ t[f[w]] \in Seq(C) /\ Len(t[f[w]]) = n
        /\ \A i \in 1..n : t[f[w]][i] = a(i)
    BY <2>3, <2>4
  <2> QED BY <2>1, <2>5 DEF n, a
<1>8. t \in [C -> Seq(C)] /\ r \in C
  <2>1. t = [z \in C |-> t[z]]
    BY DEF CopyLists
  <2> HIDE DEF t, C
  <2> QED BY <1>2, <1>3, <1>5, <1>7, <2>1
<1>9. ASSUME NEW c \in C, NEW e \in C, NEW i \in 1..Len(t[c]),
             NEW j \in 1..Len(t[e]), t[c][i] = t[e][j]
      PROVE  c = e /\ i = j
  <2> HIDE DEF t, C
  <2>1. PICK v \in W : c = f[v]
    BY <1>3
  <2>2. PICK w \in W : e = f[w]
    BY <1>3
  <2>3. i \in 1..Len(s[v]) /\ j \in 1..Len(s[w])
    BY <1>7, <2>1, <2>2
  <2>4. f[Over(s, v, i)] = f[Over(s, w, j)]
    BY <1>7, <1>9, <2>1, <2>2, <2>3
  <2>5. Over(s, v, i) = Over(s, w, j)
    BY <1>4, <1>6, <2>3, <2>4
  <2> QED BY <1>1, <2>1, <2>2, <2>3, <2>5, OverOne
<1>10. ASSUME NEW z \in C
       PROVE  z # r <=> \E c \in C : \E i \in 1..Len(t[c]) : t[c][i] = z
  <2> HIDE DEF t, C
  <2>1. PICK u \in W : z = f[u]
    BY <1>3
  <2>2. z # r <=> Len(u) # 1
    BY <1>4, <1>5, <2>1
  <2>3. ASSUME Len(u) # 1
        PROVE  \E c \in C : \E i \in 1..Len(t[c]) : t[c][i] = z
    <3> DEFINE w == Front(u)
    <3>1. w \in W /\ \E i \in 1..Len(s[w]) : u = Over(s, w, i)
      BY <1>1, <2>3, OverSome
    <3> HIDE DEF w
    <3>2. PICK i \in 1..Len(s[w]) : u = Over(s, w, i)
      BY <3>1
    <3>3. f[w] \in C /\ i \in 1..Len(t[f[w]]) /\ t[f[w]][i] = z
      BY <1>2, <1>7, <2>1, <3>1, <3>2
    <3> QED BY <3>3
  <2>4. ASSUME NEW c \in C, NEW i \in 1..Len(t[c]), t[c][i] = z
        PROVE  Len(u) # 1
    <3>1. PICK w \in W : c = f[w]
      BY <1>3
    <3>2. i \in 1..Len(s[w]) /\ f[Over(s, w, i)] = f[u]
      BY <1>7, <2>1, <2>4, <3>1
    <3> QED BY <1>4, <1>6, <3>2
  <2> QED BY <2>2, <2>3, <2>4
<1>11. ASSUME NEW S \in SUBSET C, r \in S,
              \A c \in S : \A i \in 1..Len(t[c]) : t[c][i] \in S
       PROVE  C = S
  <2> HIDE DEF t, C
  <2> DEFINE Bad == {n \in Nat : \E w \in W : Len(w) = n /\ f[w] \notin S}
  <2>1. SUFFICES ASSUME Bad # {} PROVE FALSE
    <3>1. \A w \in W : Len(w) \in Nat
      BY <1>1 DEF Paths
    <3> QED BY <1>3, <2>1, <3>1
  <2>2. Bad \in SUBSET Nat
    OBVIOUS
  <2>3. PICK m \in Bad : \A n \in Bad : m <= n
    BY <2>1, <2>2, LeastOne
  <2>4. PICK u \in W : Len(u) = m /\ f[u] \notin S
    BY <2>3
  <2>5. Len(u) # 1
    BY <1>5, <1>11, <2>4
  <2> DEFINE w == Front(u)
  <2>6. w \in W /\ \E i \in 1..Len(s[w]) : u = Over(s, w, i)
    BY <1>1, <2>5, OverSome
  <2> HIDE DEF w
  <2>7. PICK i \in 1..Len(s[w]) : u = Over(s, w, i)
    BY <2>6
  <2>8. Len(u) = Len(w) + 1 /\ Len(w) \in Nat
    BY <1>1, <2>6, <2>7, OverIs
  <2>9. Len(w) \notin Bad
    <3>1. ~(m <= Len(w))
      BY <2>4, <2>8
    <3> HIDE DEF Bad
    <3> QED BY <2>3, <3>1
  <2>10. f[w] \in S
    BY <2>6, <2>8, <2>9
  <2>11. i \in 1..Len(t[f[w]]) /\ t[f[w]][i] = f[u]
    BY <1>7, <2>6, <2>7
  <2> QED BY <1>11, <2>4, <2>10, <2>11
<1> QED BY <1>8, <1>9, <1>10, <1>11 DEF IsTree

\* The copies are new items, linked as that tree.
LEMMA CopyPlanted ==
  ASSUME NEW h, NEW R, HeapInv(h, R),
         NEW g, NEW W, NEW x, NEW s, NEW f, CopyOf(h, g, W, x, s, f)
  PROVE  Planted(h, g, Copies(W, f), f[<<x>>], CopyLists(W, s, f))
<1> DEFINE C == Copies(W, f)
           t == CopyLists(W, s, f)
           r == f[<<x>>]
<1>1. /\ Paths(h, W, x, s) /\ CopyHeap(h, g, W, s, f)
      /\ Forest(h, R) /\ ListInv(h)
      /\ h.next \in [Items -> Pointers] /\ h.prev \in [Items -> Pointers]
      /\ h.child \in [Items -> Pointers] /\ h.home \in [Items -> Pointers]
  BY HeapParts DEF CopyOf, Forest, ListInv
<1>2. \A v \in W : /\ f[v] \in C /\ f[v] \in Items /\ f[v] \notin h.live
                   /\ Way(W, f, f[v]) = v
  BY WayIs
<1>3. \A z \in C : \E v \in W : z = f[v] /\ Way(W, f, z) = v
  BY <1>2 DEF Copies
<1>4. C \subseteq Items \ h.live
  BY <1>2, <1>3
<1>5. \A w \in W : \A i \in 1..Len(s[w]) : Over(s, w, i) \in W
  BY <1>1, OverIs
<1>6. <<x>> \in W /\ \A w \in W : Len(s[w]) \in Nat
  BY <1>1 DEF Paths
<1>7. ASSUME NEW w \in W PROVE Linked(g, f[w], t[f[w]])
  <2>1. Way(W, f, f[w]) = w /\ f[w] \in C
    BY <1>2
  <2>2. t[f[w]] = [i \in 1..Len(s[w]) |-> f[Over(s, w, i)]]
    BY <2>1 DEF CopyLists
  <2> DEFINE n == Len(s[w])
             a(i) == f[Over(s, w, i)]
             q == t[f[w]]
  <2>3. n \in Nat
    BY <1>6
  <2>4. /\ g.child[f[w]] = (IF n = 0 THEN Null ELSE a(1))
        /\ \A i \in 1..n :
              /\ g.home[a(i)] = f[w]
              /\ g.next[a(i)] = (IF i = n THEN Null ELSE a(i + 1))
              /\ g.prev[a(i)] = (IF i = 1 THEN a(n) ELSE a(i - 1))
    BY CopyLinks
  <2> HIDE DEF n, a, t, q
  <2>5. q = [i \in 1..n |-> a(i)]
    BY <2>2 DEF n, a, q
  <2>6. Len(q) = n /\ \A i \in 1..n : q[i] = a(i)
    BY <2>3, <2>5
  <2>7. \A i \in 1..n : (i # n => i + 1 \in 1..n) /\ (i # 1 => i - 1 \in 1..n)
                        /\ n \in 1..n
    BY <2>3
  <2>8. n # 0 => 1 \in 1..n
    BY <2>3
  <2>9. Linked(g, f[w], q)
    BY <2>4, <2>6, <2>7, <2>8 DEF Linked
  <2> QED BY <2>9 DEF q
<1>8. /\ g.next[r] = Null /\ g.prev[r] = Null /\ g.home[r] = Null
  <2>1. Len(<<x>>) = 1
    OBVIOUS
  <2> QED BY <1>6, <2>1, CopyLinks
<1>9. ASSUME NEW z \in C
      PROVE  /\ g.next[z] \in Pointers /\ g.prev[z] \in Pointers
             /\ g.child[z] \in Pointers /\ g.home[z] \in Pointers
  <2>1. PICK u \in W : z = f[u]
    BY <1>3
  <2>2. g.child[z] \in Pointers
    <3>1. Len(s[u]) # 0 => 1 \in 1..Len(s[u])
      BY <1>6
    <3>2. g.child[z] = (IF Len(s[u]) = 0 THEN Null ELSE f[Over(s, u, 1)])
      BY <2>1, CopyLinks
    <3> QED BY <1>2, <1>5, <3>1, <3>2 DEF Pointers
  <2>3. CASE Len(u) = 1
    <3>1. g.next[z] = Null /\ g.prev[z] = Null /\ g.home[z] = Null
      BY <2>1, <2>3, CopyLinks
    <3> QED BY <2>2, <3>1 DEF Pointers
  <2>4. CASE Len(u) # 1
    <3> DEFINE w == Front(u)
    <3>1. w \in W /\ \E i \in 1..Len(s[w]) : u = Over(s, w, i)
      BY <1>1, <2>4, OverSome
    <3> HIDE DEF w
    <3>2. PICK i \in 1..Len(s[w]) : u = Over(s, w, i)
      BY <3>1
    <3>3. /\ g.home[z] = f[w]
          /\ g.next[z] = (IF i = Len(s[w]) THEN Null ELSE f[Over(s, w, i + 1)])
          /\ g.prev[z] = (IF i = 1 THEN f[Over(s, w, Len(s[w]))]
                          ELSE f[Over(s, w, i - 1)])
      BY <2>1, <3>1, <3>2, CopyLinks
    <3>4. /\ i # Len(s[w]) => i + 1 \in 1..Len(s[w])
          /\ i # 1 => i - 1 \in 1..Len(s[w])
          /\ Len(s[w]) \in 1..Len(s[w])
      <4>1. Len(s[w]) \in Nat
        BY <1>6, <3>1
      <4> QED BY <4>1
    <3> QED BY <1>2, <1>5, <2>2, <3>1, <3>3, <3>4 DEF Pointers
  <2> QED BY <2>3, <2>4
<1>10. /\ g.next \in [Items -> Pointers] /\ g.prev \in [Items -> Pointers]
       /\ g.child \in [Items -> Pointers] /\ g.home \in [Items -> Pointers]
  <2>1. /\ g.next = [z \in Items |-> g.next[z]]
        /\ g.prev = [z \in Items |-> g.prev[z]]
        /\ g.child = [z \in Items |-> g.child[z]]
        /\ g.home = [z \in Items |-> g.home[z]]
    BY <1>1 DEF CopyHeap
  <2>2. \A z \in Items \ C : /\ g.next[z] = h.next[z] /\ g.prev[z] = h.prev[z]
                             /\ g.child[z] = h.child[z] /\ g.home[z] = h.home[z]
    BY <1>1 DEF CopyHeap
  <2>3. \A z \in Items : /\ g.next[z] \in Pointers /\ g.prev[z] \in Pointers
                         /\ g.child[z] \in Pointers /\ g.home[z] \in Pointers
    BY <1>1, <1>9, <2>2
  <2> QED BY <2>1, <2>3
<1>11. \A z \in Items \ C :
         /\ g.next[z] = h.next[z] /\ g.prev[z] = h.prev[z]
         /\ g.child[z] = h.child[z] /\ g.home[z] = h.home[z]
         /\ g.key[z] = h.key[z] /\ g.vstr[z] = h.vstr[z]
  BY <1>1 DEF CopyHeap
<1>12. \A z \in C : g.vstr[z] \in {z, Null}
  BY <1>1, <1>4 DEF CopyHeap
<1>13. \A c \in C : Linked(g, c, t[c])
  BY <1>3, <1>7
<1>14. IsTree(C, r, t)
  BY CopyTree
<1>15. g.live = h.live \cup C /\ g.refs = h.refs
  BY <1>1 DEF CopyHeap
<1> QED BY <1>4, <1>8, <1>10, <1>11, <1>12, <1>13, <1>14, <1>15 DEF Planted

\* As many copies as ways.
LEMMA ImageSize ==
  ASSUME NEW W, IsFiniteSet(W), NEW f, \A v, w \in W : f[v] = f[w] => v = w,
         NEW V \in SUBSET W
  PROVE  /\ IsFiniteSet(Copies(V, f))
         /\ Cardinality(Copies(V, f)) = Cardinality(V)
<1> DEFINE e == [w \in V |-> f[w]]
<1>1. e \in Bijection(V, Copies(V, f))
  BY DEF Bijection, Injection, Surjection, IsInjective, Copies
<1>2. IsFiniteSet(V)
  BY FS_Subset
<1> HIDE DEF e
<1> QED BY <1>1, <1>2, FS_Bijection DEF ExistsBijection

\* A copy has strings of its own, as many as were counted.
LEMMA CopyOwns ==
  ASSUME NEW h, NEW R, HeapInv(h, R),
         NEW g, NEW W, NEW x, NEW s, NEW f, CopyOf(h, g, W, x, s, f),
         IsFiniteSet(W)
  PROVE  /\ StringInv(g) /\ CostOf(h, W) \in Nat /\ Cardinality(W) \in Nat
         /\ g.strings = h.strings + CostOf(h, W) - Cardinality(W)
<1> DEFINE C == Copies(W, f)
           V == {w \in W : h.vstr[Last(w)] # Null}
           K == {w \in W : OwnsKey(h, Last(w))}
           FV == Copies(V, f)
           FK == Copies(K, f)
<1>1. /\ CopyHeap(h, g, W, s, f) /\ Paths(h, W, x, s)
      /\ StringTypes(h) /\ Counted(h)
      /\ h.live \subseteq Items /\ h.refs \subseteq h.live
      /\ h.consts \subseteq h.live /\ h.strings \in Int
      /\ h.key \in [Items -> Names \cup {Null}]
      /\ h.vstr \in [Items -> Pointers \cup {Lent}]
      /\ Null \notin Items
  BY HeapParts, CellsAssumption DEF CopyOf, StringInv, StringTypes
<1>2. \A v \in W : /\ f[v] \in C /\ f[v] \in Items /\ f[v] \notin h.live
                   /\ Way(W, f, f[v]) = v /\ f[v] # Null
  BY WayIs
<1>3. \A z \in C : \E v \in W : z = f[v] /\ Way(W, f, z) = v
  BY <1>2 DEF Copies
<1>4. \A u, v \in W : f[u] = f[v] => u = v
  BY DEF CopyOf
<1>5. \A w \in W : Last(w) \in Items
  BY <1>1, FrontOf DEF Paths
<1>6. \A w \in W : /\ g.key[f[w]] = h.key[Last(w)]
                   /\ g.vstr[f[w]] = (IF h.vstr[Last(w)] = Null THEN Null
                                      ELSE f[w])
                   /\ f[w] \in g.consts <=> Last(w) \in h.consts
                   /\ f[w] \notin g.refs
  BY <1>1, <1>2 DEF CopyHeap
<1>7. /\ g.live = h.live \cup C /\ g.refs = h.refs
      /\ \A z \in Items \ C : g.key[z] = h.key[z] /\ g.vstr[z] = h.vstr[z]
                              /\ (z \in g.consts <=> z \in h.consts)
      /\ C \cap h.live = {} /\ C \subseteq Items
  BY <1>1, <1>2, <1>3 DEF CopyHeap
<1>8. KeyOwners(g) = KeyOwners(h) \cup FK /\ KeyOwners(h) \cap FK = {}
  <2>1. \A w \in W : f[w] \in KeyOwners(g) <=> OwnsKey(h, Last(w))
    BY <1>2, <1>6, <1>7 DEF KeyOwners, OwnsKey
  <2>2. \A z \in h.live : z \in KeyOwners(g) <=> z \in KeyOwners(h)
    BY <1>1, <1>7 DEF KeyOwners, OwnsKey
  <2>3. \A z \in KeyOwners(g) : z \in h.live \/ \E w \in W : z = f[w]
    BY <1>3, <1>7 DEF KeyOwners
  <2>4. KeyOwners(h) \subseteq h.live
    BY DEF KeyOwners
  <2>5. \A z \in FK : \E w \in W : z = f[w] /\ OwnsKey(h, Last(w))
    BY DEF Copies
  <2>6. \A w \in W : OwnsKey(h, Last(w)) => f[w] \in FK
    BY DEF Copies
  <2> HIDE DEF FK
  <2> QED BY <1>2, <2>1, <2>2, <2>3, <2>4, <2>5, <2>6
<1>9. ValueOwners(g) = ValueOwners(h) \cup FV /\ ValueOwners(h) \cap FV = {}
  <2>1. \A w \in W : f[w] \in ValueOwners(g) <=> h.vstr[Last(w)] # Null
    BY <1>2, <1>6, <1>7 DEF ValueOwners, OwnsValue
  <2>2. \A z \in h.live : z \in ValueOwners(g) <=> z \in ValueOwners(h)
    BY <1>1, <1>7 DEF ValueOwners, OwnsValue
  <2>3. \A z \in ValueOwners(g) : z \in h.live \/ \E w \in W : z = f[w]
    BY <1>3, <1>7 DEF ValueOwners
  <2>4. ValueOwners(h) \subseteq h.live
    BY DEF ValueOwners
  <2>5. \A z \in FV : \E w \in W : z = f[w] /\ h.vstr[Last(w)] # Null
    BY DEF Copies
  <2>6. \A w \in W : h.vstr[Last(w)] # Null => f[w] \in FV
    BY DEF Copies
  <2> HIDE DEF FV
  <2> QED BY <1>2, <2>1, <2>2, <2>3, <2>4, <2>5, <2>6
<1>10. /\ V \in SUBSET W /\ K \in SUBSET W
       /\ IsFiniteSet(FV) /\ Cardinality(FV) = Cardinality(V)
       /\ IsFiniteSet(FK) /\ Cardinality(FK) = Cardinality(K)
  <2>1. V \in SUBSET W /\ K \in SUBSET W
    OBVIOUS
  <2> HIDE DEF V, K
  <2> QED BY <1>4, <2>1, ImageSize
<1>11. /\ IsFiniteSet(KeyOwners(h)) /\ Cardinality(KeyOwners(h)) \in Nat
       /\ IsFiniteSet(ValueOwners(h)) /\ Cardinality(ValueOwners(h)) \in Nat
  BY <1>1, OwnersFinite
<1>12. CostOf(h, W) = Cardinality(W) + Cardinality(V) + Cardinality(K)
  BY DEF CostOf
<1>13. g.strings = h.strings + CostOf(h, W) - Cardinality(W)
  BY <1>1 DEF CopyHeap
<1> HIDE DEF V, K, FV, FK
<1>14. /\ Cardinality(W) \in Nat /\ Cardinality(V) \in Nat
       /\ Cardinality(K) \in Nat
  BY <1>10, FS_Subset, FS_CardinalityType
<1>15. /\ Cardinality(KeyOwners(g)) = Cardinality(KeyOwners(h)) + Cardinality(K)
       /\ Cardinality(ValueOwners(g))
            = Cardinality(ValueOwners(h)) + Cardinality(V)
  <2>1. Cardinality(KeyOwners(h) \cap FK) = 0
        /\ Cardinality(ValueOwners(h) \cap FV) = 0
    BY <1>8, <1>9, FS_EmptySet
  <2>2. Cardinality(KeyOwners(h) \cup FK)
          = Cardinality(KeyOwners(h)) + Cardinality(FK) - 0
    BY <1>10, <1>11, <2>1, FS_Union
  <2>3. Cardinality(ValueOwners(h) \cup FV)
          = Cardinality(ValueOwners(h)) + Cardinality(FV) - 0
    BY <1>10, <1>11, <2>1, FS_Union
  <2> QED BY <1>8, <1>9, <1>10, <1>11, <1>14, <2>2, <2>3
<1>16. CostOf(h, W) \in Nat
  BY <1>12, <1>14
<1>17. Counted(g)
  BY <1>1, <1>11, <1>12, <1>13, <1>14, <1>15 DEF Counted
<1>18. StringTypes(g)
  <2>1. Shaped(g) /\ g.live \subseteq Items /\ g.refs \subseteq g.live
    BY <1>1, <1>7 DEF CopyHeap
  <2>2. g.consts \subseteq g.live
    BY <1>1 DEF CopyHeap
  <2>3. g.strings \in Int
    BY <1>1, <1>13, <1>14, <1>16
  <2>4. \A z \in Items : g.key[z] \in Names \cup {Null}
                         /\ g.vstr[z] \in Pointers \cup {Lent}
    <3>1. \A w \in W : g.key[f[w]] \in Names \cup {Null}
                       /\ g.vstr[f[w]] \in Pointers \cup {Lent}
      BY <1>1, <1>2, <1>5, <1>6 DEF Pointers
    <3> QED BY <1>1, <1>3, <1>7, <3>1
  <2>5. /\ g.key = [z \in Items |-> g.key[z]]
        /\ g.vstr = [z \in Items |-> g.vstr[z]]
    BY <1>1 DEF CopyHeap
  <2>6. /\ g.key \in [Items -> Names \cup {Null}]
        /\ g.vstr \in [Items -> Pointers \cup {Lent}]
    BY <2>4, <2>5
  <2>7. \A z \in Items \ g.live : g.key[z] = Null /\ g.vstr[z] = Null
    BY <1>1, <1>7 DEF StringTypes
  <2> QED BY <2>1, <2>2, <2>3, <2>6, <2>7 DEF StringTypes
<1> QED BY <1>13, <1>14, <1>16, <1>17, <1>18 DEF StringInv

\* cJSON_Duplicate makes a tree of new items.
LEMMA DuplicateSteps ==
  ASSUME TreeInv, Ordered, Afforded(heap), NEW x \in heap.live,
         NEW recurse \in BOOLEAN, NEW b \in Budgets, Duplicate(x, recurse, b)
  PROVE  TreeInv' /\ ListStep /\ Afforded(heap')
<1> DEFINE F == Items \ heap.live
           s == Sons(heap, x, recurse)
           W == DOMAIN s
           f == CellsFor(heap, W)
<1>1. /\ ~(recurse /\ Ways(heap, x).tooDeep) /\ HasRoom(heap, W)
      /\ Hold(CopyAt(heap, s, f), f[<<x>>])
  BY DEF Duplicate
<1>2. /\ HeapInv(heap, Mine) /\ ListsHold(heap, Mine) /\ KidsAre(heap, Rows)
      /\ Shaped(heap) /\ heap.live \subseteq Items /\ heap.strings \in Int
  BY HeapParts DEF TreeInv, Ordered, Afforded
<1>3. x \in Items
  BY <1>2
<1>4. Paths(heap, W, x, s) /\ IsFiniteSet(W)
  BY <1>1, <1>2, <1>3, SonsArePaths
<1> HIDE DEF s
<1>6. /\ Cardinality(W) <= Cardinality(F)
      /\ heap.strings + CostOf(heap, W) - Cardinality(W) <= MaxStrings
  BY <1>1 DEF HasRoom
<1>7. f \in [W -> F] /\ \A v, w \in W : f[v] = f[w] => v = w
  BY <1>4, <1>6, CellsAreFree
<1> HIDE DEF f
<1> DEFINE g == CopyAt(heap, s, f)
<1>8. CopyOf(heap, g, W, x, s, f)
  <2>1. CopyHeap(heap, g, W, s, f)
    BY <1>2, CopyIs
  <2> HIDE DEF g, W
  <2> QED BY <1>4, <1>7, <2>1 DEF CopyOf
<1>9. heap' = g /\ roots' = roots \cup {f[<<x>>]} /\ lost' = lost
  BY <1>1 DEF Hold
<1> HIDE DEF g
<1>10. Planted(heap, g, Copies(W, f), f[<<x>>], CopyLists(W, s, f))
  BY <1>2, <1>8, CopyPlanted
<1>11. /\ StringInv(g) /\ CostOf(heap, W) \in Nat /\ Cardinality(W) \in Nat
       /\ g.strings = heap.strings + CostOf(heap, W) - Cardinality(W)
  BY <1>2, <1>4, <1>8, CopyOwns
<1>12. TreeInv' /\ ListStep
  BY <1>9, <1>10, <1>11, StepPlant
<1>13. Afforded(g)
  BY <1>6, <1>11 DEF Afforded, StringInv, StringTypes
<1> QED BY <1>9, <1>12, <1>13

\* What holds between the calls.
CopyInv == TreeInv /\ Ordered /\ Afforded(heap)

\* It holds before the first call.
LEMMA FirstCopyInv ==
  ASSUME Init
  PROVE  CopyInv
<1>1. heap.strings = 0 /\ Shaped(heap)
  BY DEF Init, Shaped, Fields
<1> QED BY <1>1, FirstHeap, FirstLists, CellsAssumption DEF CopyInv, Afforded

\* Every call keeps it, and is a step of CJsonLists or leaves the lists alone.
LEMMA CopySteps ==
  ASSUME CopyInv, [CopyNext]_vars
  PROVE  CopyInv' /\ [Lists!ListNext]_(Lists!listVars)
<1>1. TreeInv /\ Ordered /\ Afforded(heap)
  BY DEF CopyInv
<1>2. CASE Next
  <2>1. TreeInv'
    BY <1>1, <1>2, CreateHolds, AddHolds, TakeOutHolds, PlaceHolds DEF Next
  <2>2. ListStep
    BY <1>1, <1>2, <2>1, CreateLists, AddLists, TakeOutLists, PlaceLists
       DEF Next
  <2>3. Afforded(heap')
    BY <1>1, <1>2, CallsAfforded
  <2> QED BY <2>1, <2>2, <2>3 DEF ListStep, CopyInv
<1>3. ASSUME NEW x \in heap.live, NEW recurse \in BOOLEAN, NEW b \in Budgets,
             Duplicate(x, recurse, b)
      PROVE  CopyInv' /\ ListStep
  BY <1>1, <1>3, DuplicateSteps DEF ListStep, CopyInv
<1>4. ASSUME NEW n \in 0..MaxLength, NEW valued \in BOOLEAN, NEW b \in Budgets,
             CreateList(n, valued, b)
      PROVE  CopyInv' /\ ListStep
  BY <1>1, <1>4, CreateListSteps DEF ListStep, CopyInv
<1>5. CASE UNCHANGED vars
  <2>1. heap' = heap
    BY <1>5 DEF vars
  <2> QED BY <1>1, <1>5, <2>1, NoCall DEF CopyInv
<1> QED BY <1>2, <1>3, <1>4, <1>5 DEF CopyNext, ListStep

\* The calls that make many items at once keep the whole heap in order too,
\* whether they succeed or fail half way: cJSON_Duplicate (cJSON.c:2769-2858)
\* and cJSON_Create...Array (cJSON.c:2606-2764), next to all the others.
THEOREM CopyInvariant == CopySpec => []CopyInv
<1>1. Init => CopyInv
  BY FirstCopyInv
<1>2. CopyInv /\ [CopyNext]_vars => CopyInv'
  BY CopySteps
<1> QED BY <1>1, <1>2, PTL DEF CopySpec

\* So what the theorems on CJsonTree say of the heap holds with them as well.
THEOREM CopyKeepsHeap ==
  CopySpec => [](ListShape /\ NothingLost /\ NoDangling /\ StringsOwned)
<1>1. CopyInv => ListShape /\ NothingLost /\ NoDangling /\ StringsOwned
  BY TreeShape, TreeReached, TreePoints, TreeStrings DEF CopyInv
<1> QED BY <1>1, CopyInvariant, PTL

\* With these calls as well, every call changes one place of one list, or makes
\* a tree of new items with one item on top that the caller gets.
THEOREM CopyImplementsLists == CopySpec => KeepsItsLists
<1>1. Init => Lists!ListInit
  BY FirstLists
<1>2. CopyInv /\ [CopyNext]_vars => [Lists!ListNext]_(Lists!listVars)
  BY CopySteps
<1> QED BY <1>1, <1>2, CopyInvariant, PTL
        DEF CopySpec, KeepsItsLists, Lists!ListSpec

-----------------------------------------------------------------------------
(* What a copy shows.                                                       *)

\* What y shows down to the depth d, from what the items below show.
Cell(h, v, d, y) ==
  <<h.key[y], h.vstr[y] # Null,
    IF d = 0 THEN <<>>
    ELSE [i \in 1..Len(Chain(h, y)) |-> v[d - 1][Chain(h, y)[i]]]>>

\* The recursion of View, to the depth n.
Views(h, n, v) == v = [d \in 0..n |-> [y \in Items |-> Cell(h, v, d, y)]]

\* Only what is shown one level below matters.
LEMMA CellFrom ==
  ASSUME NEW h, NEW u, NEW v, NEW d, d = 0 \/ u[d - 1] = v[d - 1], NEW y
  PROVE  Cell(h, u, d, y) = Cell(h, v, d, y)
BY DEF Cell

\* There is such a recursion.
LEMMA ViewsThere ==
  ASSUME NEW h, NEW n \in Nat
  PROVE  \E v : Views(h, n, v)
<1> DEFINE Bad == {k \in Nat : ~ \E v : Views(h, k, v)}
<1>1. SUFFICES ASSUME Bad # {} PROVE FALSE
  OBVIOUS
<1>2. PICK m \in Bad : \A k \in Bad : m <= k
  BY <1>1, LeastOne
<1>3. m \in Nat /\ ~ \E v : Views(h, m, v)
  BY <1>2
<1>4. CASE m = 0
  <2> DEFINE v == [d \in 0..m |-> [y \in Items |-> Cell(h, <<>>, d, y)]]
  <2>1. \A d \in 0..m : d = 0
    BY <1>4
  <2>2. \A d \in 0..m : \A y \in Items : Cell(h, <<>>, d, y) = Cell(h, v, d, y)
    <3> HIDE DEF v
    <3> QED BY <2>1, CellFrom
  <2>3. v = [d \in 0..m |-> [y \in Items |-> Cell(h, v, d, y)]]
    BY <2>2
  <2> QED BY <1>3, <2>3 DEF Views
<1>5. CASE m # 0
  <2>1. m - 1 \in Nat /\ ~(m <= m - 1)
    BY <1>3, <1>5
  <2>2. PICK u : Views(h, m - 1, u)
    BY <1>2, <2>1
  <2> DEFINE v == [d \in 0..m |-> [y \in Items |-> Cell(h, u, d, y)]]
  <2>3. u = [d \in 0..(m - 1) |-> [y \in Items |-> Cell(h, u, d, y)]]
    BY <2>2 DEF Views
  <2>4. ASSUME NEW d \in 0..m, d # 0 PROVE v[d - 1] = u[d - 1]
    <3>1. d - 1 \in 0..(m - 1) /\ d - 1 \in 0..m
      BY <1>3, <2>4
    <3>2. u[d - 1] = [y \in Items |-> Cell(h, u, d - 1, y)]
      BY <2>3, <3>1, Zenon
    <3>3. v[d - 1] = [y \in Items |-> Cell(h, u, d - 1, y)]
      BY <3>1
    <3> QED BY <3>2, <3>3
  <2>5. \A d \in 0..m : \A y \in Items : Cell(h, u, d, y) = Cell(h, v, d, y)
    <3> HIDE DEF v
    <3> QED BY <2>4, CellFrom
  <2>6. v = [d \in 0..m |-> [y \in Items |-> Cell(h, v, d, y)]]
    BY <2>5
  <2> QED BY <1>3, <2>6 DEF Views
<1> QED BY <1>4, <1>5

\* View is such a recursion.
LEMMA ViewIs ==
  ASSUME NEW h, NEW x
  PROVE  \E v : /\ View(h, x) = v[CircularLimit][x]
                /\ \A d \in 0..CircularLimit : \A y \in Items :
                     v[d][y] = Cell(h, v, d, y)
<1> DEFINE v == CHOOSE u : Views(h, CircularLimit, u)
<1>1. View(h, x) = v[CircularLimit][x]
  BY DEF View, Views, Cell
<1>2. Views(h, CircularLimit, v)
  BY ViewsThere, LimitAssumption, Zenon
<1> HIDE DEF v
<1>3. \A d \in 0..CircularLimit : v[d] = [y \in Items |-> Cell(h, v, d, y)]
  BY <1>2, Zenon DEF Views
<1>4. \A d \in 0..CircularLimit : \A y \in Items : v[d][y] = Cell(h, v, d, y)
  BY <1>3
<1> QED BY <1>1, <1>4

\* A copy shows what its source shows.
LEMMA CopyShows ==
  ASSUME NEW h, NEW R, HeapInv(h, R),
         NEW g, NEW W, NEW x, NEW s, NEW f, CopyOf(h, g, W, x, s, f),
         \A w \in W : s[w] = Chain(h, Last(w))
  PROVE  View(g, f[<<x>>]) = View(h, x)
<1> DEFINE L == CircularLimit
           t == CopyLists(W, s, f)
           l(w) == Last(w)
<1>1. /\ Paths(h, W, x, s) /\ CopyHeap(h, g, W, s, f) /\ <<x>> \in W
      /\ L \in Nat /\ Null \notin Items
      /\ ListsHold(h, R) /\ h.live \subseteq Items
  BY HeapParts, CellsAssumption, LimitAssumption DEF CopyOf, Paths
<1>2. \A v \in W : /\ f[v] \in Copies(W, f) /\ f[v] \in Items /\ f[v] # Null
                   /\ Way(W, f, f[v]) = v
  BY WayIs
<1>3. \A w \in W : l(w) \in Items /\ Len(s[w]) \in Nat
  BY <1>1, FrontOf DEF Paths
<1>4. ASSUME NEW w \in W
      PROVE  /\ Chain(h, l(w)) = s[w]
             /\ Len(Chain(g, f[w])) = Len(s[w])
             /\ \A i \in 1..Len(s[w]) :
                  /\ Chain(g, f[w])[i] = f[Over(s, w, i)]
                  /\ Over(s, w, i) \in W /\ l(Over(s, w, i)) = s[w][i]
  <2>1. Planted(h, g, Copies(W, f), f[<<x>>], t)
    BY CopyPlanted
  <2>2. Listing(g, f[w], t[f[w]])
    <3>1. Forest(g, R \cup {f[<<x>>]})
      BY <1>1, <2>1, ForestPlanted
    <3> QED BY <1>1, <1>2, <2>1, <3>1, PlantedListing
  <2>3. Chain(g, f[w]) = t[f[w]]
    BY <2>2, ListingIs
  <2> DEFINE n == Len(s[w])
             a(i) == f[Over(s, w, i)]
  <2>4. t[f[w]] = [i \in 1..n |-> a(i)]
    BY <1>2 DEF CopyLists
  <2>5. n \in Nat
    BY <1>3
  <2>6. \A i \in 1..n : Over(s, w, i) \in W /\ l(Over(s, w, i)) = s[w][i]
    BY <1>1, OverIs
  <2> HIDE DEF n, a, t
  <2>7. Len(t[f[w]]) = n /\ \A i \in 1..n : t[f[w]][i] = a(i)
    BY <2>4, <2>5
  <2> QED BY <2>3, <2>6, <2>7 DEF n, a
<1>5. \A w \in W : g.key[f[w]] = h.key[l(w)]
  BY <1>1, <1>2 DEF CopyHeap
<1>6. \A w \in W : g.vstr[f[w]] = IF h.vstr[l(w)] = Null THEN Null ELSE f[w]
  BY <1>1, <1>2 DEF CopyHeap
<1>7. \A w \in W : (g.vstr[f[w]] # Null) = (h.vstr[l(w)] # Null)
  BY <1>2, <1>6, Zenon
<1>8. PICK p : /\ View(g, f[<<x>>]) = p[L][f[<<x>>]]
               /\ \A d \in 0..L : \A y \in Items : p[d][y] = Cell(g, p, d, y)
  BY ViewIs
<1>9. PICK q : /\ View(h, x) = q[L][x]
               /\ \A d \in 0..L : \A y \in Items : q[d][y] = Cell(h, q, d, y)
  BY ViewIs
<1> HIDE DEF l
<1>10. ASSUME NEW d \in 0..L, NEW w \in W,
              d = 0 \/ \A u \in W : p[d - 1][f[u]] = q[d - 1][l(u)]
       PROVE  p[d][f[w]] = q[d][l(w)]
  <2> DEFINE P == IF d = 0 THEN <<>>
                  ELSE [i \in 1..Len(Chain(g, f[w])) |->
                          p[d - 1][Chain(g, f[w])[i]]]
             Q == IF d = 0 THEN <<>>
                  ELSE [i \in 1..Len(Chain(h, l(w))) |->
                          q[d - 1][Chain(h, l(w))[i]]]
  <2>1. P = Q
    <3>1. CASE d = 0
      BY <3>1
    <3>2. CASE d # 0
      <4>1. ASSUME NEW i \in 1..Len(s[w])
            PROVE  p[d - 1][Chain(g, f[w])[i]] = q[d - 1][Chain(h, l(w))[i]]
        <5>1. /\ Chain(g, f[w])[i] = f[Over(s, w, i)] /\ Over(s, w, i) \in W
              /\ l(Over(s, w, i)) = Chain(h, l(w))[i]
          BY <1>4
        <5> QED BY <1>10, <3>2, <5>1
      <4>2. Len(Chain(g, f[w])) = Len(s[w]) /\ Len(Chain(h, l(w))) = Len(s[w])
        BY <1>4
      <4> QED BY <3>2, <4>1, <4>2
    <3> QED BY <3>1, <3>2
  <2>2. Cell(g, p, d, f[w]) = <<g.key[f[w]], g.vstr[f[w]] # Null, P>>
    BY DEF Cell
  <2>3. Cell(h, q, d, l(w)) = <<h.key[l(w)], h.vstr[l(w)] # Null, Q>>
    BY DEF Cell
  <2> HIDE DEF P, Q
  <2>4. Cell(g, p, d, f[w]) = Cell(h, q, d, l(w))
    BY <1>5, <1>7, <2>1, <2>2, <2>3, Zenon
  <2>5. p[d][f[w]] = Cell(g, p, d, f[w]) /\ q[d][l(w)] = Cell(h, q, d, l(w))
    BY <1>2, <1>3, <1>8, <1>9 DEF l
  <2> QED BY <2>4, <2>5
<1> DEFINE Bad == {d \in 0..L : \E w \in W : p[d][f[w]] # q[d][l(w)]}
<1>11. Bad = {}
  <2>1. SUFFICES ASSUME Bad # {} PROVE FALSE
    OBVIOUS
  <2>2. Bad \in SUBSET Nat
    BY <1>1
  <2>3. PICK m \in Bad : \A d \in Bad : m <= d
    BY <2>1, <2>2, LeastOne
  <2>4. PICK w \in W : p[m][f[w]] # q[m][l(w)]
    BY <2>3
  <2>5. m \in 0..L
    BY <2>3
  <2>6. ASSUME m # 0, NEW u \in W PROVE p[m - 1][f[u]] = q[m - 1][l(u)]
    <3>1. m - 1 \in 0..L /\ ~(m <= m - 1)
      BY <1>1, <2>5, <2>6
    <3> QED BY <2>3, <3>1
  <2> QED BY <1>10, <2>4, <2>5, <2>6
<1>12. L \in 0..L /\ l(<<x>>) = x
  <2>1. <<x>> \in Seq(Items) /\ Len(<<x>>) = 1
    BY <1>1 DEF Paths
  <2>2. <<x>>[1] = x
    OBVIOUS
  <2>3. l(<<x>>) = <<x>>[Len(<<x>>)]
    BY DEF l, Last
  <2> QED BY <1>1, <2>1, <2>2, <2>3
<1>13. p[L][f[<<x>>]] = q[L][x]
  BY <1>1, <1>11, <1>12
<1> QED BY <1>8, <1>9, <1>13

\* What CopyInv says of a copy, before it is made.
LEMMA CopiesShow ==
  ASSUME CopyInv
  PROVE  CopyIsEqual
<1>1. SUFFICES ASSUME NEW x \in heap.live, ~Ways(heap, x).tooDeep,
                      HasRoom(heap, DOMAIN Sons(heap, x, TRUE))
               PROVE  LET s == Sons(heap, x, TRUE)
                          f == CellsFor(heap, DOMAIN s)
                          copied == CopyAt(heap, s, f)
                      IN /\ View(copied, f[<<x>>]) = View(heap, x)
                         /\ ListShapeOf(copied)
                         /\ Visited(copied, {f[<<x>>]}) \cap heap.live = {}
  BY Zenon DEF CopyIsEqual
<1> DEFINE s == Sons(heap, x, TRUE)
           W == DOMAIN s
           f == CellsFor(heap, W)
<1>2. /\ HeapInv(heap, Mine) /\ ListsHold(heap, Mine) /\ KidsAre(heap, Rows)
      /\ Shaped(heap) /\ heap.live \subseteq Items
  BY HeapParts DEF CopyInv, TreeInv, Ordered, Afforded
<1>3. Paths(heap, W, x, s) /\ IsFiniteSet(W)
  <2>1. x \in Items
    BY <1>2
  <2> QED BY <1>1, <1>2, <2>1, SonsArePaths
<1>4. \A w \in W : s[w] = Chain(heap, Last(w))
  BY DEF Sons
<1>5. Cardinality(W) <= Cardinality(Items \ heap.live)
  BY <1>1 DEF HasRoom
<1> HIDE DEF s
<1>6. f \in [W -> Items \ heap.live] /\ \A v, w \in W : f[v] = f[w] => v = w
  BY <1>3, <1>5, CellsAreFree
<1> HIDE DEF f
<1> DEFINE g == CopyAt(heap, s, f)
<1>7. CopyOf(heap, g, W, x, s, f)
  <2>1. CopyHeap(heap, g, W, s, f)
    BY <1>2, CopyIs
  <2> HIDE DEF g, W
  <2> QED BY <1>3, <1>6, <2>1 DEF CopyOf
<1> HIDE DEF g, W
<1>8. View(g, f[<<x>>]) = View(heap, x)
  BY <1>2, <1>4, <1>7, CopyShows
<1>9. ListShapeOf(g) /\ Visited(g, {f[<<x>>]}) \cap heap.live = {}
  <2>1. Planted(heap, g, Copies(W, f), f[<<x>>], CopyLists(W, s, f))
    BY <1>2, <1>7, CopyPlanted
  <2>2. StringInv(g)
    BY <1>2, <1>3, <1>7, CopyOwns
  <2> DEFINE D == Copies(W, f)
             r == f[<<x>>]
             t == CopyLists(W, s, f)
  <2> HIDE DEF D, r, t
  <2>3. Planted(heap, g, D, r, t)
    BY <2>1 DEF D, r, t
  <2>4. HeapInv(heap, Mine)
    BY <1>2
  <2>5. HeapInv(g, Mine \cup {r}) /\ Visited(g, {r}) = D
    BY <2>2, <2>3, <2>4, HeapPlanted
  <2>6. ListShapeOf(g)
    BY <2>5, HeapShape
  <2> QED BY <2>3, <2>5, <2>6 DEF Planted, r
<1> QED BY <1>8, <1>9 DEF g, f, W, s

\* Whenever there is memory for a copy (cJSON.c:2769-2858), it has the keys, the
\* strings and the lists of its source, in their order, down to CircularLimit and
\* through references; its lists are linked from head to tail and back, and
\* nothing in it leads to an item that was there before: for any number of cells
\* and any tree that the calls can build.
THEOREM CopiesAreEqual == CopySpec => []CopyIsEqual
BY CopyInvariant, CopiesShow, PTL
=============================================================================
