------------------------------ MODULE CJsonCopy ------------------------------
(***************************************************************************)
(* The calls of cJSON that make many items at once: cJSON_Duplicate and the *)
(* cJSON_Create...Array family.  CopySpec has them and every call of        *)
(* CJsonTree, and implements CJsonLists.                                    *)
(***************************************************************************)
EXTENDS CJsonTree, FiniteSetsExt, SequencesExt

CONSTANTS CircularLimit, \* CJSON_CIRCULAR_LIMIT, 10000 in cJSON.h
          MaxLength      \* bound: elements of an array made at once

ASSUME LimitAssumption == CircularLimit \in Nat /\ MaxLength \in Nat

-----------------------------------------------------------------------------
(* cJSON_Duplicate.  The copy is a tree, so it has one cell for each way    *)
(* down from x; references are walked into, and what they point to is       *)
(* copied too.                                                              *)

\* The list of c, in order.
Chain(h, c) ==
  LET at[i \in 1..Cardinality(Listed(h, c))] ==
        IF i = 1 THEN h.child[c] ELSE h.next[at[i - 1]]
  IN at

Kids(h, x) == Listed(h, x)

Ways(h, x) ==
  LET ways[d \in 0..(CircularLimit + 1)] ==
        IF d = 0 THEN {<<x>>}
        ELSE UNION {{Append(w, y) : y \in Kids(h, Last(w))} :
                             w \in ways[d - 1]}
  IN [all |-> UNION {ways[d] : d \in 0..CircularLimit},
      tooDeep |-> ways[CircularLimit + 1] # {}]

\* The items the loop goes over for the copy of each way's last item.
Sons(h, x, recurse) ==
  [w \in IF recurse THEN Ways(h, x).all ELSE {<<x>>} |->
     IF recurse THEN Chain(h, Last(w)) ELSE <<>>]

\* The allocations that a copy of the ways W takes.
CostOf(h, W) ==
  Cardinality(W)
  + Cardinality({w \in W : h.vstr[Last(w)] # Null})
  + Cardinality({w \in W : OwnsKey(h, Last(w))})

HasRoom(h, W) ==
  /\ Cardinality(W) <= Cardinality(Items \ h.live)
  /\ h.strings + CostOf(h, W) - Cardinality(W) <= MaxStrings

\* Some free cell for each way.
CellsFor(h, W) == CHOOSE g \in [W -> Items \ h.live] : IsInjective(g)

\* The copies in one list: newchild goes behind the one before it, and behind
\* the loop the first one gets the last as its prev.
NextIn(row, i) == IF i = Len(row) THEN Null ELSE row[i + 1]

\* mutant: the first one's prev is set in the loop, where it is alone
PrevAlone(row, i) == IF i = 1 THEN row[1] ELSE row[i - 1]

PrevIn(row, i) == IF i = 1 THEN Last(row) ELSE row[i - 1]

\* The copy of each way w at the cell f[w], behind whose child are the copies
\* of the walk s[w].
CopyAt(h, s, f) ==
  LET cells == {f[w] : w \in DOMAIN s}
      way(z) == CHOOSE w \in DOMAIN s : f[w] = z
      of(z) == Last(way(z))
      top(z) == Len(way(z)) = 1
      row(w) == [i \in 1..Len(s[w]) |-> f[Append(w, s[w][i])]]
      list(z) == row(Front(way(z)))
      place(z) == CHOOSE i \in 1..Len(list(z)) : list(z)[i] = z
      Copied(old, value(_)) ==
        [z \in Items |-> IF z \in cells THEN value(z) ELSE old[z]]
  IN [h EXCEPT
       !.live = @ \cup cells,
       !.consts = @ \cup {z \in cells : of(z) \in h.consts},
       !.next = Copied(@, LAMBDA z :
                  IF top(z) THEN Null ELSE NextIn(list(z), place(z))),
       !.prev = Copied(@, LAMBDA z :
                  IF top(z) THEN Null ELSE PrevIn(list(z), place(z))),
       !.child = Copied(@, LAMBDA z :
                   IF Len(s[way(z)]) = 0 THEN Null ELSE row(way(z))[1]),
       !.home = Copied(@, LAMBDA z :
                  IF top(z) THEN Null ELSE f[Front(way(z))]),
       !.key = Copied(@, LAMBDA z : h.key[of(z)]),
       !.vstr = Copied(@, LAMBDA z : IF h.vstr[of(z)] = Null THEN Null ELSE z),
       !.strings = @ + CostOf(h, DOMAIN s) - Cardinality(DOMAIN s)]

\* A copy that fails on the way deletes what it has made: nothing changes.
Duplicate(x, recurse, b) ==
  LET s == Sons(heap, x, recurse)
      f == CellsFor(heap, DOMAIN s)
  IN /\ ~(recurse /\ Ways(heap, x).tooDeep)
     /\ CostOf(heap, DOMAIN s) <= b
     /\ HasRoom(heap, DOMAIN s)
     /\ Hold(CopyAt(heap, s, f), f[<<x>>])

-----------------------------------------------------------------------------
(* cJSON_CreateIntArray, FloatArray, DoubleArray and StringArray.           *)

\* The lists after i elements at the cells xs: the array xs[1], then each
\* element behind the last.  The head's prev is not set before the end.
Chained(h, xs, valued) ==
  LET made(g, x) == IF valued THEN NewValued(g, x) ELSE NewItem(g, x)
      step[i \in 1..Len(xs)] ==
        IF i = 1 THEN NewItem(h, xs[1])
        ELSE IF i = 2 THEN [made(step[1], xs[2]) EXCEPT
                              !.child[xs[1]] = xs[2], !.home[xs[2]] = xs[1]]
        ELSE [made(step[i - 1], xs[i]) EXCEPT
                !.next[xs[i - 1]] = xs[i], !.prev[xs[i]] = xs[i - 1],
                !.home[xs[i]] = xs[1]]
  IN step[Len(xs)]

Closed(h, xs) ==
  IF Len(xs) = 1 THEN h ELSE [h EXCEPT !.prev[xs[2]] = Last(xs)]

\* An element that cannot be made takes the array and the others with it.
CreateList(n, valued, b) ==
  LET cost == IF valued THEN 2 ELSE 1
      free == Cardinality(Items \ heap.live)
      blocks == IF valued THEN MaxStrings - heap.strings ELSE n
      got == Min({n, free - 1, (b - 1) \div cost, blocks})
      xs == SetToSeq(CHOOSE X \in SUBSET (Items \ heap.live) :
                       Cardinality(X) = got + 1)
  IN /\ b > 0
     /\ free > 0
     /\ IF got = n THEN Hold(Closed(Chained(heap, xs, valued), xs), xs[1])
        ELSE /\ heap' = Discard(Chained(heap, xs, valued), xs[1])
             /\ UNCHANGED <<roots, lost>>

CopyNext ==
  \/ Next
  \/ \E x \in heap.live, recurse \in BOOLEAN, b \in Budgets :
       Duplicate(x, recurse, b)
  \/ \E n \in 0..MaxLength, valued \in BOOLEAN, b \in Budgets :
       CreateList(n, valued, b)

CopySpec == Init /\ [][CopyNext]_vars

-----------------------------------------------------------------------------
(* Properties.                                                              *)

Lists == INSTANCE CJsonLists
           WITH Cells <- Items, items <- heap.live, names <- heap.key,
                kids <- [c \in Items |-> IF c \in heap.refs THEN <<>>
                                         ELSE Chain(heap, c)],
                held <- roots

\* Through next, prev and child every call changes one place of one list: an
\* item comes in, goes out or takes another's place, what is dropped takes what
\* is below it along, and everything else stays and keeps its order.
KeepsItsLists == Lists!ListSpec

\* What an item shows to a reader: its key, whether it has a string, and what
\* the items of its list show, in order.
View(h, x) ==
  LET view[d \in 0..CircularLimit] ==
        [y \in Items |->
           <<h.key[y], h.vstr[y] # Null,
             IF d = 0 THEN <<>>
             ELSE [i \in 1..Len(Chain(h, y)) |-> view[d - 1][Chain(h, y)[i]]]>>]
  IN view[CircularLimit][x]

\* A copy for which there is memory shows what its source shows, through
\* references too, its lists are as well linked as all others, head to tail, and
\* it leads to none of the items that were there.
CopyIsEqual ==
  \A x \in heap.live :
    LET s == Sons(heap, x, TRUE)
        f == CellsFor(heap, DOMAIN s)
        copied == CopyAt(heap, s, f)
    IN ~Ways(heap, x).tooDeep /\ HasRoom(heap, DOMAIN s) =>
         /\ View(copied, f[<<x>>]) = View(heap, x)
         /\ ListShapeOf(copied)
         /\ Visited(copied, {f[<<x>>]}) \cap heap.live = {}
=============================================================================
