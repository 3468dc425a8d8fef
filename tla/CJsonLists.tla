----------------------------- MODULE CJsonLists -----------------------------
(***************************************************************************)
(* What the item trees of cJSON promise (utility/cJSON/cJSON.h): an array   *)
(* or object is the sequence of its items, each item has one place, and a   *)
(* call changes that one place.  CJsonCopy, which has the cells and the     *)
(* pointers, implements this module.                                        *)
(***************************************************************************)
EXTENDS FiniteSets, SequencesExt

CONSTANT Cells

\* kids[c] is the list of c, names[x] the key of x, held what the caller holds.
VARIABLES items, kids, names, held

listVars == <<items, kids, names, held>>

ListInit ==
  /\ items = {}
  /\ kids = [x \in Cells |-> <<>>]
  /\ names \in [Cells -> {names[x] : x \in Cells}]
  /\ held = {}

OthersKeepNames(X) == \A x \in items \ X : names'[x] = names[x]

\* New items X, whose lists hold new items only and hang together; the caller
\* gets the top one, or loses it.
Make(X) ==
  /\ X # {}
  /\ \E x \in X :
       /\ held' \in {held, held \cup {x}}
       /\ \A y \in X \ {x} : \E z \in X : y \in ToSet(kids'[z])
  /\ \A c \in X : ToSet(kids'[c]) \subseteq X
  /\ \A c \in items : kids'[c] = kids[c]
  /\ OthersKeepNames({})

\* x comes into the list of c before the i-th item: one that was held, or new
Put(c, i, x) ==
  /\ items' = items \cup {x}
  /\ held' = held \ {x}
  /\ x \in held \/ x \notin items
  /\ kids' = [kids EXCEPT ![c] = InsertAt(@, i, x)]
  /\ OthersKeepNames({x})

Take(c, i) ==
  /\ items' = items
  /\ held' = held \cup {kids[c][i]}
  /\ kids' = [kids EXCEPT ![c] = RemoveAt(@, i)]
  /\ OthersKeepNames({})

\* What is dropped takes with it all that is below it, and nothing else.
Dropped(X, x, lists) ==
  /\ x \in X
  /\ \A z \in X : ToSet(kids[z]) \subseteq X
  /\ \A y \in X \ {x} : \E z \in X : y \in ToSet(kids[z])
  /\ kids' = [y \in Cells |-> IF y \in X THEN <<>> ELSE lists[y]]

Drop(X, x) ==
  /\ held' = held \ {x}
  /\ Dropped(X, x, kids)
  /\ OthersKeepNames(X)

DropFrom(X, c, i) ==
  /\ held' = held
  /\ kids[c][i] \in X
  /\ Dropped(X, kids[c][i], [kids EXCEPT ![c] = RemoveAt(@, i)])
  /\ OthersKeepNames(X)

Swap(X, c, i, x) ==
  /\ held' = held \ {x}
  /\ kids[c][i] \in X
  /\ Dropped(X, kids[c][i], [kids EXCEPT ![c] = ReplaceAt(@, i, x)])
  /\ OthersKeepNames(X \cup {x})

Name(x) ==
  /\ items' = items /\ held' = held
  /\ OthersKeepNames({x})
  /\ kids' = kids

ListNext ==
  \/ items \subseteq items' /\ Make(items' \ items)
  \/ \E x \in held : Name(x)
  \/ \E x \in held : items' \subseteq items /\ Drop(items \ items', x)
  \/ \E x \in held \cup (Cells \ items), c \in items :
       \E i \in 1..(Len(kids[c]) + 1) : Put(c, i, x)
  \/ \E c \in items : \E i \in 1..Len(kids[c]) :
       \/ Take(c, i)
       \/ items' \subseteq items /\ DropFrom(items \ items', c, i)
       \/ \E x \in held :
            items' \subseteq items /\ Swap(items \ items', c, i, x)

ListSpec == ListInit /\ [][ListNext]_listVars
=============================================================================
