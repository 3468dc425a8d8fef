------------------------------ MODULE CJsonTree ------------------------------
(***************************************************************************)
(* The calls of cJSON that build and take apart item trees, under the       *)
(* contract of cJSON.h: an item that is linked is one the caller holds, it  *)
(* does not contain its new place, nothing is linked into a reference, and  *)
(* nothing is freed that a live reference points to.  A call is given b,    *)
(* the number of allocations that succeed before one fails.                 *)
(***************************************************************************)
EXTENDS CJsonHeap

CONSTANTS Budgets,   \* values of b
          MaxShared  \* bound: live references

ASSUME BudgetsAssumption == Budgets \subseteq Nat /\ MaxShared \in Nat

\* roots are the items the caller holds, lost those nobody holds any more.
VARIABLES heap, roots, lost

vars == <<heap, roots, lost>>

Init ==
  /\ heap = [live |-> {}, refs |-> {}, consts |-> {}, next |-> Blank,
             prev |-> Blank, child |-> Blank, home |-> Blank, key |-> Blank,
             vstr |-> Blank, strings |-> 0]
  /\ roots = {}
  /\ lost = {}

\* The caller does not free what a live reference still points to.
MayDelete(x) ==
  LET D == Subtree(heap, x)
  IN \A r \in (heap.live \cap heap.refs) \ D :
       heap.child[r] \notin D /\ heap.vstr[r] \notin D

IsPlace(c) == c \in heap.live \ heap.refs /\ heap.vstr[c] = Null

MayLink(c, x) ==
  IsPlace(c) /\ x \in roots /\ (c = x \/ c \notin Visited(heap, {x}))

MayShare == Cardinality(heap.refs) < MaxShared

Hold(h, x) == heap' = h /\ roots' = roots \cup {x} /\ UNCHANGED lost

\* cJSON_CreateNull, True, False, Bool, Number, Array and Object
CreateItem(x, b) == MayTake(heap, x, b) /\ Hold(NewItem(heap, x), x)

\* cJSON_CreateString and CreateRaw: without its copy the item is deleted
CreateString(x, b) ==
  /\ MayTake(heap, x, b)
  /\ IF CanCopy(heap, b - 1) THEN Hold(NewValued(heap, x), x)
     ELSE heap' = Discard(NewItem(heap, x), x) /\ UNCHANGED <<roots, lost>>

CreateStringReference(x, b) ==
  /\ MayShare
  /\ MayTake(heap, x, b)
  /\ Hold([NewItem(heap, x) EXCEPT !.refs = @ \cup {x}, !.vstr[x] = Lent], x)

\* cJSON_CreateObjectReference and CreateArrayReference of a list from y on
CreateListReference(x, y, b) ==
  /\ MayShare
  /\ MayTake(heap, x, b)
  /\ Hold([NewItem(heap, x) EXCEPT !.refs = @ \cup {x}, !.child[x] = y], x)

AddItemToArray(a, x) ==
  /\ MayLink(a, x)
  /\ heap' = AddLast(heap, a, x)
  /\ roots' = IF a = x THEN roots ELSE roots \ {x}
  /\ UNCHANGED lost

\* cJSON_AddItemToObject, and AddItemToObjectCS with a constant key
AddItemToObject(o, k, x, const, b) ==
  /\ MayLink(o, x)
  /\ o # x
  /\ const \/ CanCopy(heap, b)
  /\ heap' = AddLast(Rename(heap, x, k, const), o, x)
  /\ roots' = roots \ {x}
  /\ UNCHANGED lost

\* cJSON_AddNullToObject and its like: the new item is deleted if the key
\* cannot be copied.
AddXToObject(o, k, x, valued, b) ==
  LET left == IF valued THEN b - 2 ELSE b - 1
      made == IF valued THEN NewValued(heap, x) ELSE NewItem(heap, x)
  IN /\ IsPlace(o)
     /\ MayTake(heap, x, b)
     /\ valued => CanCopy(heap, b - 1)
     /\ heap' = IF CanCopy(made, left)
                THEN AddLast(Rename(made, x, k, FALSE), o, x)
                ELSE Discard(made, x)
     /\ UNCHANGED <<roots, lost>>

AddItemReferenceToArray(a, x, r, b) ==
  /\ MayShare
  /\ IsPlace(a)
  /\ MayTake(heap, r, b)
  /\ heap' = AddLast(Reference(heap, x, r), a, r)
  /\ UNCHANGED <<roots, lost>>

\* If the key cannot be copied the reference is neither linked nor freed.
AddItemReferenceToObject(o, k, x, r, b) ==
  LET made == Reference(heap, x, r)
  IN /\ MayShare
     /\ IsPlace(o)
     /\ MayTake(heap, r, b)
     /\ IF CanCopy(made, b - 1)
        THEN heap' = AddLast(Rename(made, r, k, FALSE), o, r)
             /\ UNCHANGED lost
        ELSE heap' = made /\ lost' = lost \cup {r}
     /\ UNCHANGED roots

\* cJSON_DetachItemViaPointer, FromArray and FromObject; an item that has no
\* neighbours is not in the list and stays where it is
DetachItem(c, x) ==
  /\ IsPlace(c)
  /\ x \in Listed(heap, c) \cup roots
  /\ Hold(Detach(heap, c, x), x)

\* cJSON_DeleteItemFromArray and FromObject
DeleteItemFrom(c, x) ==
  /\ IsPlace(c)
  /\ x \in Listed(heap, c)
  /\ MayDelete(x)
  /\ heap' = DeleteItems(Detach(heap, c, x), x)
  /\ UNCHANGED <<roots, lost>>

\* cJSON_InsertItemInArray before an item; beyond the end it appends
InsertItemInArray(a, y, x) ==
  /\ MayLink(a, x)
  /\ a # x
  /\ y \in Listed(heap, a)
  /\ heap' = InsertBefore(heap, a, y, x)
  /\ roots' = roots \ {x}
  /\ UNCHANGED lost

\* cJSON_ReplaceItemViaPointer and ReplaceItemInArray
ReplaceItem(c, y, x) ==
  /\ MayLink(c, x)
  /\ c # x
  /\ y \in Listed(heap, c)
  /\ MayDelete(y)
  /\ heap' = Replace(heap, c, y, x)
  /\ roots' = roots \ {x}
  /\ UNCHANGED lost

\* replace_item_in_object: the replacement is renamed first, and keeps the
\* new name (or none) when there is nothing to replace
ReplaceItemInObject(o, k, x, sensitive, b) ==
  LET freed == [heap EXCEPT !.key[x] = Null,
                            !.strings = @ - One(OwnsKey(heap, x))]
      named == IF CanCopy(freed, b) THEN Rename(heap, x, k, FALSE) ELSE freed
      found == Found(heap, o, k, sensitive)
  IN /\ MayLink(o, x)
     /\ o # x
     /\ UNCHANGED lost
     /\ \/ /\ ~CanCopy(freed, b) \/ found = {}
           /\ heap' = named
           /\ UNCHANGED roots
        \/ \E y \in found :
             /\ CanCopy(freed, b)
             /\ MayDelete(y)
             /\ heap' = Replace(named, o, y, x)
             /\ roots' = roots \ {x}

Delete(x) ==
  /\ x \in roots
  /\ MayDelete(x)
  /\ heap' = DeleteItems(heap, x)
  /\ roots' = roots \ {x}
  /\ UNCHANGED lost

Spare == Items \ heap.live

Create ==
  \E x \in Spare, b \in Budgets :
    \/ CreateItem(x, b)
    \/ CreateString(x, b)
    \/ CreateStringReference(x, b)
    \/ \E y \in heap.live : CreateListReference(x, y, b)

Add ==
  \E c \in heap.live, b \in Budgets :
    \/ \E x \in roots : AddItemToArray(c, x)
    \/ \E x \in roots, k \in Names, const \in BOOLEAN :
         AddItemToObject(c, k, x, const, b)
    \/ \E x \in Spare, k \in Names, valued \in BOOLEAN :
         AddXToObject(c, k, x, valued, b)
    \/ \E x \in heap.live, r \in Spare : AddItemReferenceToArray(c, x, r, b)
    \/ \E x \in heap.live, r \in Spare, k \in Names :
         AddItemReferenceToObject(c, k, x, r, b)

TakeOut ==
  \E c, x \in heap.live :
    \/ DetachItem(c, x)
    \/ DeleteItemFrom(c, x)
    \/ Delete(x)

Place ==
  \E c \in heap.live, x \in roots :
    \/ \E y \in Listed(heap, c) : InsertItemInArray(c, y, x)
    \/ \E y \in Listed(heap, c) : ReplaceItem(c, y, x)
    \/ \E k \in Names, sensitive \in BOOLEAN, b \in Budgets :
         ReplaceItemInObject(c, k, x, sensitive, b)

Next == Create \/ Add \/ TakeOut \/ Place

Spec == Init /\ [][Next]_vars

-----------------------------------------------------------------------------
(* Properties.                                                              *)

TypeOK ==
  /\ heap \in Heaps
  /\ roots \subseteq heap.live /\ lost \subseteq heap.live

Heads(h) == {h.child[c] : c \in h.live \ h.refs} \ {Null}

ListShapeOf(h) ==
  /\ \A c \in h.live \ h.refs :
       h.child[c] # Null =>
         LET tail == h.prev[h.child[c]]
         IN /\ h.home[h.child[c]] = c
            /\ tail # Null /\ h.home[tail] = c /\ h.next[tail] = Null
  /\ \A x \in h.live :
       h.next[x] # Null =>
         /\ h.home[h.next[x]] = h.home[x]
         /\ h.prev[h.next[x]] = x
         /\ h.next[x] \notin Heads(h)
  /\ \A x \in h.live :
       IF h.home[x] = Null THEN h.next[x] = Null /\ h.prev[x] = Null
       ELSE h.home[x] \in h.live \ h.refs /\ x \in Listed(h, h.home[x])

\* Every list is one chain from its head to its tail, the head knows the tail,
\* and an item is in at most one list, whatever was added, detached, inserted
\* or replaced before: what the next append (cJSON.c:2028-2038) relies on.
ListShape == ListShapeOf(heap)

\* The string blocks that are allocated are those some item owns: none is
\* leaked or freed twice when keys and values change hands.
StringsOwned ==
  heap.strings = Cardinality({x \in heap.live : OwnsKey(heap, x)})
                 + Cardinality({x \in heap.live : OwnsValue(heap, x)})

\* What is allocated can still be reached from what the caller holds, whatever
\* allocation failed; the exception is what AddItemReferenceToObject drops.
NothingLost == heap.live = Visited(heap, roots \cup lost)

\* No pointer of a live item leads to a freed one.
NoDangling ==
  \A x \in heap.live :
    {heap.next[x], heap.prev[x], heap.child[x], heap.vstr[x]}
      \subseteq heap.live \cup {Null, Lent}
=============================================================================
