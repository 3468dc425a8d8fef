------------------------------ MODULE CJsonHeap ------------------------------
(***************************************************************************)
(* The memory of cJSON (utility/cJSON/cJSON.c): cells linked by next, prev  *)
(* and child, keys and value strings in blocks of their own, and what the   *)
(* library does to them: allocate, link, unlink, replace, copy and free.  A *)
(* list's head keeps the tail in prev; the tail's next is NULL.             *)
(*                                                                         *)
(* The operators are functions from heap to heap, so that a call of the     *)
(* library (CJsonTree) is a composition of them, as in the code.  The code  *)
(* never asks whether a cell is an array or an object before it links, so a *)
(* cell without a value string stands for both and for the scalars.         *)
(***************************************************************************)
EXTENDS Integers, FiniteSets

CONSTANTS Items,   \* the cells the allocator can hand out
          Null,    \* the NULL pointer
          Lent,    \* a string that belongs to the caller
          Names,   \* keys; two that differ only in case are one name
          MaxStrings \* the string blocks the allocator can hand out

ASSUME CellsAssumption ==
  /\ IsFiniteSet(Items)
  /\ Null \notin Items /\ Lent \notin Items /\ Lent # Null /\ Null \notin Names
  /\ MaxStrings \in Nat

Pointers == Items \cup {Null}

\* home is history: the cell whose list an item is in.  No guard reads it.
Heaps == [live : SUBSET Items, refs : SUBSET Items, consts : SUBSET Items,
          next : [Items -> Pointers], prev : [Items -> Pointers],
          child : [Items -> Pointers], home : [Items -> Pointers],
          key : [Items -> Names \cup {Null}],
          vstr : [Items -> Pointers \cup {Lent}],
          strings : Int]

Blank == [x \in Items |-> Null]

-----------------------------------------------------------------------------
(* Walks.  A loop that follows pointers visits the least set that is closed *)
(* under them.                                                              *)

NextClosed(h, S) == \A x \in S : h.next[x] # Null => h.next[x] \in S

\* while (element != NULL) { ...; element = element->next; }
From(h, x) == {y \in Items : \A S \in SUBSET Items :
                  x \in S /\ y \notin S => ~NextClosed(h, S)}

Listed(h, c) == IF h.child[c] = Null THEN {} ELSE From(h, h.child[c])

\* mutant
OwnedAndReferred(h, S) ==
  /\ NextClosed(h, S)
  /\ \A x \in S : h.child[x] # Null => h.child[x] \in S

\* cJSON_Delete goes to next, and to child unless the item is a reference.
Owned(h, S) ==
  /\ NextClosed(h, S)
  /\ \A x \in S \ h.refs : h.child[x] # Null => h.child[x] \in S

Visited(h, X) == {y \in Items : \A S \in SUBSET Items :
                    X \subseteq S /\ y \notin S => ~Owned(h, S)}

\* An item and what it owns, without its neighbours.
Subtree(h, x) ==
  {x} \cup (IF x \in h.refs \/ h.child[x] = Null THEN {}
            ELSE Visited(h, {h.child[x]}))

-----------------------------------------------------------------------------
(* Memory.                                                                  *)

One(P) == IF P THEN 1 ELSE 0

OwnsKey(h, x) == h.key[x] # Null /\ x \notin h.consts

OwnsValue(h, x) == h.vstr[x] # Null /\ x \notin h.refs

\* malloc of a cell: any free one
MayTake(h, x, b) == b > 0 /\ x \notin h.live

\* one more string block, as cJSON_strdup needs
CanCopy(h, b) == b > 0 /\ h.strings < MaxStrings

\* memset(node, 0): a free cell is kept blank
NewItem(h, x) == [h EXCEPT !.live = @ \cup {x}]

NewValued(h, x) == [NewItem(h, x) EXCEPT !.vstr[x] = x, !.strings = @ + 1]

\* mutant
ValueBlocks(h, D) == Cardinality({x \in D : OwnsValue(h, x)})

\* the string blocks that go with the items D
Blocks(h, D) == Cardinality({x \in D : OwnsValue(h, x)})
                + Cardinality({x \in D : OwnsKey(h, x)})

Free(h, D) ==
  [h EXCEPT !.live = @ \ D, !.refs = @ \ D, !.consts = @ \ D,
    !.next = [x \in Items |-> IF x \in D THEN Null ELSE @[x]],
    !.prev = [x \in Items |-> IF x \in D THEN Null ELSE @[x]],
    !.child = [x \in Items |-> IF x \in D THEN Null ELSE @[x]],
    !.home = [x \in Items |-> IF x \in D THEN Null ELSE @[x]],
    !.key = [x \in Items |-> IF x \in D THEN Null ELSE @[x]],
    !.vstr = [x \in Items |-> IF x \in D THEN Null ELSE @[x]],
    !.strings = @ - Blocks(h, D)]

\* cJSON_Delete
DeleteItems(h, x) == Free(h, Visited(h, {x}))

\* mutant
Kept(h, x) == h

\* cJSON_Delete of what a failed call has made
Discard(h, x) == DeleteItems(h, x)

-----------------------------------------------------------------------------
(* Linking.                                                                 *)

\* add_item_to_array: the head's prev finds the tail
AddLast(h, a, x) ==
  IF a = x THEN h
  ELSE IF h.child[a] = Null
       THEN [h EXCEPT !.child[a] = x, !.prev[x] = x, !.next[x] = Null,
                      !.home[x] = a]
  ELSE IF h.prev[h.child[a]] = Null THEN h
  ELSE [h EXCEPT !.next[h.prev[h.child[a]]] = x,
                 !.prev = [@ EXCEPT ![x] = h.prev[h.child[a]],
                                    ![h.child[a]] = x],
                 !.home[x] = a]

\* The old key is freed, unless it is constant.
Rename(h, x, k, const) ==
  [h EXCEPT !.key[x] = k,
            !.consts = IF const THEN @ \cup {x} ELSE @ \ {x},
            !.strings = @ + One(~const) - One(OwnsKey(h, x))]

\* mutant
TailStays(h, c, x) == FALSE

\* The tail leaves its place: the head's prev has to follow.
TailLeaves(h, c, x) == x # h.child[c] /\ h.next[x] = Null

\* cJSON_DetachItemViaPointer
Detach(h, c, x) ==
  IF x # h.child[c] /\ h.prev[x] = Null THEN h
  ELSE LET n == h.next[x]
           p == h.prev[x]
           first == x = h.child[c]
       IN [h EXCEPT
             !.next = [y \in Items |-> IF y = x THEN Null
                                       ELSE IF ~first /\ y = p THEN n
                                       ELSE @[y]],
             !.prev = [y \in Items |-> IF y = x THEN Null
                                       ELSE IF y = n THEN p
                                       ELSE IF TailLeaves(h, c, x)
                                               /\ y = h.child[c] THEN p
                                       ELSE @[y]],
             !.child[c] = IF first THEN n ELSE @,
             !.home[x] = Null]

\* cJSON_InsertItemInArray, x before y
InsertBefore(h, c, y, x) ==
  IF y # h.child[c] /\ h.prev[y] = Null THEN h
  ELSE [h EXCEPT
          !.next = [z \in Items |-> IF z = x THEN y
                                    ELSE IF y # h.child[c] /\ z = h.prev[y]
                                         THEN x
                                    ELSE @[z]],
          !.prev = [@ EXCEPT ![x] = h.prev[y], ![y] = x],
          !.child[c] = IF y = h.child[c] THEN x ELSE @,
          !.home[x] = c]

\* cJSON_ReplaceItemViaPointer: x takes y's place and y is freed
Replace(h, c, y, x) ==
  LET n == h.next[y]
      p == h.prev[y]
      first == h.child[c] = y
      swapped ==
        [h EXCEPT
          !.next = [z \in Items |-> IF z = x THEN n
                                    ELSE IF z = y THEN Null
                                    ELSE IF ~first /\ z = p THEN x
                                    ELSE @[z]],
          !.prev = [z \in Items |-> IF z = x
                                    THEN IF first /\ p = y THEN x ELSE p
                                    ELSE IF z = y THEN Null
                                    ELSE IF z = n THEN x
                                    ELSE IF TailLeaves(h, c, y)
                                            /\ z = h.child[c] THEN x
                                    ELSE @[z]],
          !.child[c] = IF first THEN x ELSE @,
          !.home = [@ EXCEPT ![x] = c, ![y] = Null]]
  IN IF x = y THEN h ELSE DeleteItems(swapped, y)

\* create_reference: a copy without key or neighbours that owns nothing
Reference(h, x, r) ==
  [NewItem(h, r) EXCEPT
     !.refs = @ \cup {r},
     !.consts = IF x \in h.consts THEN @ \cup {r} ELSE @,
     !.child[r] = h.child[x], !.vstr[r] = h.vstr[x]]

\* get_object_item: the case-sensitive walk stops at an element without a
\* key, the other one passes it.
Found(h, c, k, sensitive) ==
  LET names(x) == IF sensitive THEN h.key[x] \in {k, Null}
                  ELSE h.key[x] = k
      hits == {x \in Listed(h, c) : names(x)}
      first == {x \in hits : hits \subseteq From(h, x)}
  IN {x \in first : h.key[x] # Null}
=============================================================================
