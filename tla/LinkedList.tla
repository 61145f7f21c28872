----------------------------- MODULE LinkedList -----------------------------
(***************************************************************************)
(* The singly linked list of threads/list.h, with its elements on a heap:  *)
(* an address is a positive number and 0 is the null pointer.              *)
(***************************************************************************)
EXTENDS Naturals, FiniteSetsExt, SequencesExt

Nil == 0

(* ListElement::ListElement *)
ListElement(item, key) == [item |-> item, key |-> key, next |-> Nil]

(* List::List *)
NewList == [first |-> Nil, last |-> Nil, node |-> <<>>]

IsEmpty(l) == l.first = Nil

Free(l) == Min((1 .. Cardinality(DOMAIN l.node) + 1) \ DOMAIN l.node)    \* what new returns

(* The elements a walk from first along the next pointers meets *)
Walk(l) ==
    LET met[k \in 0 .. Cardinality(DOMAIN l.node)] ==
            IF k = 0 THEN l.first ELSE IF met[k - 1] = Nil THEN Nil ELSE l.node[met[k - 1]].next
        n == Cardinality({k \in DOMAIN met : met[k] # Nil})
    IN  [k \in 1 .. n |-> met[k - 1]]

(* The heap node with the element e at the new address p *)
Store(node, p, e) == [q \in DOMAIN node \union {p} |-> IF q = p THEN e ELSE node[q]]

OnlyElement(l, p, e) == [first |-> p, last |-> p, node |-> Store(l.node, p, e)]

(* The element e, at address p, after the element at q *)
LinkAfter(l, q, p, e) ==
    [l EXCEPT !.node = Store([@ EXCEPT ![q].next = p], p, [e EXCEPT !.next = l.node[q].next])]

(* List::Append *)
ListAppend(l, item) ==
    LET p == Free(l)
        e == ListElement(item, 0)
    IN  IF IsEmpty(l) THEN OnlyElement(l, p, e) ELSE [LinkAfter(l, l.last, p, e) EXCEPT !.last = p]

(* Variant: an element put at the end does not become the last one. *)
SortedInsertKeepsLast(l, item, sortKey) ==
    LET p == Free(l)
        e == ListElement(item, sortKey)
        w == Walk(l)
        at == {k \in 1 .. Len(w) - 1 : sortKey < l.node[w[k + 1]].key}
    IN  CASE IsEmpty(l) -> OnlyElement(l, p, e)
          [] ~IsEmpty(l) /\ sortKey < l.node[l.first].key ->
               [l EXCEPT !.first = p, !.node = Store(@, p, [e EXCEPT !.next = l.first])]
          [] OTHER -> LinkAfter(l, IF at = {} THEN l.last ELSE w[Min(at)], p, e)

(* List::SortedInsert: the new element goes after those with its key. *)
SortedInsert(l, item, sortKey) ==
    LET p == Free(l)
        e == ListElement(item, sortKey)
        w == Walk(l)
        at == {k \in 1 .. Len(w) - 1 : sortKey < l.node[w[k + 1]].key}
    IN  CASE IsEmpty(l) -> OnlyElement(l, p, e)
          [] ~IsEmpty(l) /\ sortKey < l.node[l.first].key ->
               [l EXCEPT !.first = p, !.node = Store(@, p, [e EXCEPT !.next = l.first])]
          [] ~IsEmpty(l) /\ sortKey >= l.node[l.first].key /\ at # {} ->
               LinkAfter(l, w[Min(at)], p, e)
          [] OTHER -> [LinkAfter(l, l.last, p, e) EXCEPT !.last = p]

(* List::SortedRemove and Remove: what is left; the caller reads the first *)
(* element beforehand.                                                     *)
SortedRemove(l) ==
    LET rest == [l EXCEPT !.node = [p \in DOMAIN l.node \ {l.first} |-> @[p]]]
    IN  IF l.first = l.last THEN [rest EXCEPT !.first = Nil, !.last = Nil]
        ELSE [rest EXCEPT !.first = l.node[l.first].next]

FirstElement(l) == l.node[l.first]
Elements(l) == [k \in 1 .. Len(Walk(l)) |-> l.node[Walk(l)[k]]]
=============================================================================
