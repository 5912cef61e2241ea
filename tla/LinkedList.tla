----------------------------- MODULE LinkedList -----------------------------
(***************************************************************************)
(* The doubly linked list of the Pintos kernel (lib/kernel/list.c).  A list *)
(* is two header elements; every element is a pair of pointers, `links',    *)
(* and nothing says which list an element is in.  The variable `contents'   *)
(* is what the client believes: the sequence of elements of each list.      *)
(* Addresses are numbers: element e is e, list l has its head at l and its  *)
(* tail at l + 1, and 0 is NULL.  `less' compares the values LVal[e].       *)
(***************************************************************************)
EXTENDS Integers, Sequences, FiniteSets, SequencesExt

CONSTANTS LElems,   \* the elements, positive numbers
          Lists,    \* the lists' addresses
          LVal      \* the value of each element

VARIABLES links,    \* the prev and next pointers of every element and header
          contents  \* what each list should hold

listVars == <<links, contents>>

NIL == 0
ListHead(l) == l
ListTail(l) == l + 1
LNode == LElems \cup Lists \cup {l + 1 : l \in Lists}
Less(e, f) == LVal[e] < LVal[f]

---------------------------------------------------------------------------
(* The operations, as functions of the pointers p. *)

ListBegin(p, l) == p.next[ListHead(l)]
IsHead(p, e) == p.prev[e] = NIL /\ p.next[e] # NIL
IsInterior(p, e) == p.prev[e] # NIL /\ p.next[e] # NIL
IsTail(p, e) == p.prev[e] # NIL /\ p.next[e] = NIL
ListEmpty(p, l) == ListBegin(p, l) = ListTail(l)

(* list_init() of every list; an element not yet in a list holds NULLs. *)
ListInit ==
  [next |-> [n \in LNode |-> IF n \in Lists THEN ListTail(n) ELSE NIL],
   prev |-> [n \in LNode |-> IF n - 1 \in Lists THEN ListHead(n - 1) ELSE NIL]]

LinkBefore(p, before, elem) ==
  LET before_prev == p.prev[before]
  IN [next |-> [p.next EXCEPT ![elem] = before, ![before_prev] = elem],
      prev |-> [p.prev EXCEPT ![elem] = before_prev, ![before] = elem]]

(* Moves first..end (exclusive) in front of `before': unlink, then relink. *)
Splice(p, before, first, end) ==
  LET last == p.prev[end]
      next == [p.next EXCEPT ![p.prev[first]] = p.next[last]]
      prev == [p.prev EXCEPT ![p.next[last]] = p.prev[first]]
  IN IF first = end THEN p
     ELSE [next |-> [next EXCEPT ![last] = before, ![prev[before]] = first],
           prev |-> [prev EXCEPT ![first] = prev[before], ![before] = last]]

Unlink(p, elem) ==
  [next |-> [p.next EXCEPT ![p.prev[elem]] = p.next[elem]],
   prev |-> [p.prev EXCEPT ![p.next[elem]] = p.prev[elem]]]

(* The elements from e up to `end', as a for loop with list_next() (or, with
   the pointers exchanged, list_prev()) meets them.  NIL marks a broken chain. *)
RECURSIVE Walk(_, _, _)
Walk(step, e, end) ==
  CASE e = end -> <<>>
    [] e \notin LElems -> <<NIL>>
    [] OTHER -> <<e>> \o Walk(step, step[e], end)
Forward(p, l) == Walk(p.next, ListBegin(p, l), ListTail(l))
Backward(p, l) == Walk(p.prev, p.prev[ListTail(l)], ListHead(l))
ListSize(p, l) == Len(Forward(p, l))

(* list_reverse(): exchange the pointers of every element, then make the two
   headers point at the other end, and the ends at the other header. *)
Reversed(p, l) ==
  LET interior == ToSet(Forward(p, l))
      next == [n \in LNode |-> IF n \in interior THEN p.prev[n] ELSE p.next[n]]
      prev == [n \in LNode |-> IF n \in interior THEN p.next[n] ELSE p.prev[n]]
      front == prev[ListTail(l)]
      back == next[ListHead(l)]
  IN IF ListEmpty(p, l) THEN p
     ELSE [next |-> [next EXCEPT ![ListHead(l)] = front, ![back] = prev[front]],
           prev |-> [prev EXCEPT ![ListTail(l)] = back, ![front] = next[back]]]

RECURSIVE FindEndOfRun(_, _, _)
FindEndOfRun(p, a, b) ==
  LET n == p.next[a]
  IN IF n # b /\ ~Less(n, p.prev[n]) THEN FindEndOfRun(p, n, b) ELSE n

RECURSIVE InplaceMerge(_, _, _, _)
(* A merge that takes the second run's element first when the two are equal:
   the sort is not stable any more. *)
InplaceMergeUnstable(p, a0, a1b0, b1) ==
  CASE a0 = a1b0 \/ a1b0 = b1 -> p
    [] Less(a0, a1b0) -> InplaceMerge(p, p.next[a0], a1b0, b1)
    [] OTHER -> InplaceMerge(Splice(p, a0, a1b0, p.next[a1b0]), a0, p.next[a1b0], b1)
InplaceMerge(p, a0, a1b0, b1) ==
  CASE a0 = a1b0 \/ a1b0 = b1 -> p
    [] ~Less(a1b0, a0) -> InplaceMerge(p, p.next[a0], a1b0, b1)
    [] OTHER -> InplaceMerge(Splice(p, a0, a1b0, p.next[a1b0]), a0, p.next[a1b0], b1)

(* One pass of list_sort() from a0: the pointers and the number of runs. *)
RECURSIVE SortPass(_, _, _, _)
SortPass(p, a0, end, runs) ==
  IF a0 = end THEN [p |-> p, runs |-> runs]
  ELSE LET a1b0 == FindEndOfRun(p, a0, end)
           b1 == FindEndOfRun(p, a1b0, end)
       IN IF a1b0 = end THEN [p |-> p, runs |-> runs + 1]
          ELSE SortPass(InplaceMerge(p, a0, a1b0, b1), b1, end, runs + 1)

RECURSIVE Sorted(_, _)
Sorted(p, l) ==
  LET pass == SortPass(p, ListBegin(p, l), ListTail(l), 0)
  IN IF pass.runs > 1 THEN Sorted(pass.p, l) ELSE pass.p

(* list_insert_ordered() stops at the first element that is greater. *)
RECURSIVE FirstGreater(_, _, _, _)
FirstGreater(p, e, end, elem) ==
  IF e = end \/ Less(elem, e) THEN e ELSE FirstGreater(p, p.next[e], end, elem)

(* list_unique(): duplicates go to the back of list d. *)
RECURSIVE Unique(_, _, _, _)
Unique(p, elem, end, d) ==
  LET next == p.next[elem]
  IN CASE next = end -> p
       [] LVal[elem] = LVal[next] ->
            Unique(LinkBefore(Unlink(p, next), ListTail(d), next), elem, end, d)
       [] OTHER -> Unique(p, next, end, d)

(* list_max() and list_min(): the earliest extreme, or the tail. *)
RECURSIVE Extreme(_, _, _, _, _)
Extreme(p, best, e, end, max) ==
  IF e = end THEN best
  ELSE Extreme(p, IF (max /\ Less(best, e)) \/ (~max /\ Less(e, best)) THEN e ELSE best,
               p.next[e], end, max)
ListExtreme(p, l, max) ==
  IF ListEmpty(p, l) THEN ListTail(l)
  ELSE Extreme(p, ListBegin(p, l), p.next[ListBegin(p, l)], ListTail(l), max)

---------------------------------------------------------------------------
(* What the operations mean, on sequences. *)

IndexOf(s, e) == CHOOSE i \in 1..Len(s) : s[i] = e
PlaceOf(s, before) == IF before \in LElems THEN IndexOf(s, before) ELSE Len(s) + 1
Free(e) == \A l \in Lists : e \notin ToSet(contents[l])
InOrder(s) == \A i, j \in 1..Len(s) : i < j => LVal[s[i]] <= LVal[s[j]]

(* The stable sort of s: each element goes to its rank. *)
StableSort(s) ==
  LET rank(i) == Cardinality({j \in 1..Len(s) : \/ LVal[s[j]] < LVal[s[i]]
                                                \/ LVal[s[j]] = LVal[s[i]] /\ j <= i})
  IN [k \in 1..Len(s) |-> s[CHOOSE i \in 1..Len(s) : rank(i) = k]]

Duplicate(s, e) == LET i == IndexOf(s, e) IN i > 1 /\ LVal[s[i - 1]] = LVal[e]

---------------------------------------------------------------------------
(* The client's calls, each within the operation's documented precondition. *)

LInit == links = ListInit /\ contents = [l \in Lists |-> <<>>]

ListInsertBefore(l, before, elem) ==
  /\ Free(elem) /\ before \in ToSet(contents[l]) \cup {ListTail(l)}
  /\ links' = LinkBefore(links, before, elem)
  /\ contents' = [contents EXCEPT ![l] = InsertAt(@, PlaceOf(@, before), elem)]

ListPushFront(l, elem) ==
  /\ Free(elem)
  /\ links' = LinkBefore(links, ListBegin(links, l), elem)
  /\ contents' = [contents EXCEPT ![l] = <<elem>> \o @]

ListRemove(l, elem) ==
  /\ elem \in ToSet(contents[l])
  /\ links' = Unlink(links, elem)
  /\ contents' = [contents EXCEPT ![l] = SelectSeq(@, LAMBDA e : e # elem)]

ListPopFront(l) ==
  /\ contents[l] # <<>>
  /\ links' = Unlink(links, ListBegin(links, l))
  /\ contents' = [contents EXCEPT ![l] = Tail(@)]

ListPopBack(l) ==
  /\ contents[l] # <<>>
  /\ links' = Unlink(links, links.prev[ListTail(l)])
  /\ contents' = [contents EXCEPT ![l] = Front(@)]

(* The elements i..j-1 of list `from' go before `before' of list `to'. *)
ListSplice(to, before, from, i, j) ==
  LET s == contents[from]
      moved == SubSeq(s, i, j - 1)
      rest == SubSeq(s, 1, i - 1) \o SubSeq(s, j, Len(s))
      target == IF to = from THEN rest ELSE contents[to]
      k == PlaceOf(target, before)
  IN /\ i <= j /\ j <= Len(s) + 1
     /\ before \in (ToSet(contents[to]) \ ToSet(moved)) \cup {ListTail(to)}
     /\ links' = Splice(links, before, IF i > Len(s) THEN ListTail(from) ELSE s[i],
                        IF j > Len(s) THEN ListTail(from) ELSE s[j])
     /\ contents' = [contents EXCEPT ![from] = rest,
                       ![to] = SubSeq(target, 1, k - 1) \o moved \o SubSeq(target, k, Len(target))]

ListReverse(l) ==
  /\ links' = Reversed(links, l)
  /\ contents' = [contents EXCEPT ![l] = Reverse(@)]

ListSort(l) ==
  /\ links' = Sorted(links, l)
  /\ contents' = [contents EXCEPT ![l] = StableSort(@)]

ListInsertOrdered(l, elem) ==
  /\ Free(elem) /\ InOrder(contents[l])
  /\ links' = LinkBefore(links, FirstGreater(links, ListBegin(links, l), ListTail(l), elem), elem)
  /\ contents' = [contents EXCEPT ![l] = StableSort(Append(@, elem))]

ListUnique(l, d) ==
  /\ l # d
  /\ links' = IF ListEmpty(links, l) THEN links
              ELSE Unique(links, ListBegin(links, l), ListTail(l), d)
  /\ LET s == contents[l]
     IN contents' = [contents EXCEPT ![l] = SelectSeq(s, LAMBDA e : ~Duplicate(s, e)),
                                     ![d] = @ \o SelectSeq(s, LAMBDA e : Duplicate(s, e))]

LNext ==
  \/ \E l \in Lists : ListPopFront(l) \/ ListPopBack(l) \/ ListReverse(l) \/ ListSort(l)
  \/ \E l \in Lists, e \in LElems :
       ListPushFront(l, e) \/ ListRemove(l, e) \/ ListInsertOrdered(l, e)
  \/ \E l \in Lists, e \in LElems, before \in LNode : ListInsertBefore(l, before, e)
  \/ \E l, d \in Lists : ListUnique(l, d)
  \/ \E l, d \in Lists, before \in LNode, i, j \in 1..(Cardinality(LElems) + 1) :
       ListSplice(l, before, d, i, j)

---------------------------------------------------------------------------
(* Whatever sequence of operations the client performs, each list holds what
   it should, in the order it should, in both directions; an element in a
   list looks interior, so that list_next() and list_prev() do not panic; and
   list_max() and list_min() return the earliest extreme (list.c). *)
ListsLinked ==
  \A l \in Lists :
    LET s == contents[l]
    IN /\ Forward(links, l) = s /\ Backward(links, l) = Reverse(s)
       /\ ListSize(links, l) = Len(s)
       /\ IsHead(links, ListHead(l)) /\ IsTail(links, ListTail(l))
       /\ \A e \in ToSet(s) : IsInterior(links, e)
       /\ s # <<>> => /\ ListExtreme(links, l, FALSE) = StableSort(s)[1]
                      /\ LVal[ListExtreme(links, l, TRUE)] = LVal[Last(StableSort(s))]
=============================================================================
