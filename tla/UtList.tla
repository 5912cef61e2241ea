------------------------------- MODULE UtList --------------------------------
(***************************************************************************)
(* The list macros of hw-http/utlist.h, on which the HTTP server's work     *)
(* queue is built (wq.c uses DL_APPEND and DL_DELETE): singly linked lists  *)
(* (LL), doubly linked lists whose head's prev is the tail (DL), and        *)
(* circular ones (CDL), with the merge sort they share.  What the header    *)
(* has for compilers without typeof is not compiled and not modelled.       *)
(*                                                                          *)
(* A list is a head and the fields next and prev of every cell, those that  *)
(* are not in the list included, whose fields keep what they held.          *)
(***************************************************************************)
EXTENDS Integers, Sequences, FiniteSets, SequencesExt

CONSTANTS Cells,         \* the cells, numbers from 1
          CellValue      \* what cmp() compares

VARIABLES utKind,        \* "LL", "DL" or "CDL"
          utList,        \* [head, next, prev]
          utOrder        \* the sequence of cells it stands for

utVars == <<utKind, utList, utOrder>>
NULL == 0

UtInit ==
  /\ utKind \in {"LL", "DL", "CDL"}
  /\ utList = [head |-> NULL, next |-> [c \in Cells |-> NULL], prev |-> [c \in Cells |-> NULL]]
  /\ utOrder = <<>>

---------------------------------------------------------------------------
(* LL_FOREACH and DL_FOREACH: the cells met from c on.  A walk that is longer
   than there are cells has met a cycle, and is cut. *)
RECURSIVE Walk(_, _, _)
Walk(l, c, left) == IF c = NULL \/ left = 0 THEN <<>> ELSE <<c>> \o Walk(l, l.next[c], left - 1)
Foreach(l) == Walk(l, l.head, Cardinality(Cells) + 1)

(* CDL_FOREACH *)
RECURSIVE CdlWalk(_, _, _)
CdlWalk(l, c, left) ==
  IF c = NULL \/ left = 0 THEN <<>>
  ELSE <<c>> \o CdlWalk(l, IF l.next[c] = l.head THEN NULL ELSE l.next[c], left - 1)
CdlForeach(l) == CdlWalk(l, l.head, Cardinality(Cells) + 1)

(* The cell before c, as the loops of the LL macros find it. *)
LLBefore(l, c) == LET s == Foreach(l) IN s[(CHOOSE i \in 1..Len(s) : s[i] = c) - 1]

---------------------------------------------------------------------------
LLPrepend(l, add) == [l EXCEPT !.next[add] = l.head, !.head = add]

LLAppend(l, add) ==
  IF l.head = NULL THEN [l EXCEPT !.next[add] = NULL, !.head = add]
  ELSE [l EXCEPT !.next[add] = NULL, !.next[Last(Foreach(l))] = add]

LLConcat(l, head2) ==
  IF l.head = NULL THEN [l EXCEPT !.head = head2]
  ELSE [l EXCEPT !.next[Last(Foreach(l))] = head2]

LLDelete(l, del) ==
  IF l.head = del THEN [l EXCEPT !.head = l.next[del]]
  ELSE [l EXCEPT !.next[LLBefore(l, del)] = l.next[del]]

LLReplaceElem(l, el, add) ==
  IF l.head = el THEN [l EXCEPT !.next[add] = l.next[el], !.head = add]
  ELSE [l EXCEPT !.next[add] = l.next[el], !.next[LLBefore(l, el)] = add]

LLPrependElem(l, el, add) ==
  IF l.head = el THEN [l EXCEPT !.next[add] = el, !.head = add]
  ELSE [l EXCEPT !.next[add] = el, !.next[LLBefore(l, el)] = add]

---------------------------------------------------------------------------
DLPrepend(l, add) ==
  IF l.head = NULL THEN [l EXCEPT !.next[add] = NULL, !.prev[add] = add, !.head = add]
  ELSE [l EXCEPT !.next[add] = l.head, !.prev[add] = l.prev[l.head], !.prev[l.head] = add,
                 !.head = add]

DLAppend(l, add) ==
  IF l.head = NULL THEN [l EXCEPT !.next[add] = NULL, !.prev[add] = add, !.head = add]
  ELSE [l EXCEPT !.prev[add] = l.prev[l.head], !.next[l.prev[l.head]] = add,
                 !.prev[l.head] = add, !.next[add] = NULL]

DLConcat(l, head2) ==
  CASE head2 = NULL -> l
    [] head2 # NULL /\ l.head = NULL -> [l EXCEPT !.head = head2]
    [] OTHER -> [l EXCEPT !.prev[head2] = l.prev[l.head], !.next[l.prev[l.head]] = head2,
                          !.prev[l.head] = l.prev[head2]]

(* Mutant: the head's prev does not follow when the tail is deleted. *)
DLDeleteTailKept(l, del) ==
  CASE l.prev[del] = del -> [l EXCEPT !.head = NULL]
    [] l.prev[del] # del /\ del = l.head ->
         [l EXCEPT !.prev[l.next[del]] = l.prev[del], !.head = l.next[del]]
    [] l.prev[del] # del /\ del # l.head /\ l.next[del] # NULL ->
         [l EXCEPT !.next[l.prev[del]] = l.next[del], !.prev[l.next[del]] = l.prev[del]]
    [] OTHER -> [l EXCEPT !.next[l.prev[del]] = NULL]

DLDelete(l, del) ==
  CASE l.prev[del] = del -> [l EXCEPT !.head = NULL]
    [] l.prev[del] # del /\ del = l.head ->
         [l EXCEPT !.prev[l.next[del]] = l.prev[del], !.head = l.next[del]]
    [] l.prev[del] # del /\ del # l.head /\ l.next[del] # NULL ->
         [l EXCEPT !.next[l.prev[del]] = l.next[del], !.prev[l.next[del]] = l.prev[del]]
    [] OTHER -> [l EXCEPT !.next[l.prev[del]] = NULL, !.prev[l.head] = l.prev[del]]

(* The alternatives are those of the macro: el is the head or not, the last
   cell or not. *)
DLReplaceElem(l, el, add) ==
  LET next == l.next[el]
      prev == l.prev[el]
  IN CASE l.head = el /\ next = NULL ->
            [l EXCEPT !.head = add, !.next[add] = NULL, !.prev[add] = add]
       [] l.head = el /\ next # NULL ->
            [l EXCEPT !.head = add, !.next[add] = next, !.prev[add] = prev, !.prev[next] = add]
       [] l.head # el /\ next = NULL ->
            [l EXCEPT !.next[add] = NULL, !.prev[add] = prev, !.next[prev] = add,
                      !.prev[l.head] = add]
       [] OTHER -> [l EXCEPT !.next[add] = next, !.prev[add] = prev, !.next[prev] = add,
                             !.prev[next] = add]

DLPrependElem(l, el, add) ==
  LET m == [l EXCEPT !.next[add] = el, !.prev[add] = l.prev[el], !.prev[el] = add]
  IN IF l.head = el THEN [m EXCEPT !.head = add] ELSE [m EXCEPT !.next[l.prev[el]] = add]

---------------------------------------------------------------------------
CDLPrepend(l, add) ==
  IF l.head = NULL THEN [l EXCEPT !.next[add] = add, !.prev[add] = add, !.head = add]
  ELSE [l EXCEPT !.prev[add] = l.prev[l.head], !.next[add] = l.head, !.prev[l.head] = add,
                 !.next[l.prev[l.head]] = add, !.head = add]

CDLDelete(l, del) ==
  IF l.head = del /\ l.next[del] = del THEN [l EXCEPT !.head = NULL]
  ELSE [l EXCEPT !.prev[l.next[del]] = l.prev[del], !.next[l.prev[del]] = l.next[del],
                 !.head = IF del = @ THEN l.next[del] ELSE @]

CDLReplaceElem(l, el, add) ==
  IF l.next[el] = el THEN [l EXCEPT !.next[add] = add, !.prev[add] = add, !.head = add]
  ELSE [l EXCEPT !.next[add] = l.next[el], !.prev[add] = l.prev[el], !.prev[l.next[el]] = add,
                 !.next[l.prev[el]] = add, !.head = IF @ = el THEN add ELSE @]

CDLPrependElem(l, el, add) ==
  [l EXCEPT !.next[add] = el, !.prev[add] = l.prev[el], !.prev[el] = add,
            !.next[l.prev[el]] = add, !.head = IF @ = el THEN add ELSE @]

---------------------------------------------------------------------------
(* The sort.  A pass merges the runs of `insize' cells, from left to right,
   reading the old next fields while it writes the new ones; m is the state of
   its variables: the list m.l that is being made, with its tail, the cells p
   and q that come next in the two runs, and what is left of these. *)

(* The cell after c: in a circular list the old head is the end. *)
After(kind, m, c) == IF kind = "CDL" /\ m.l.next[c] = m.old THEN NULL ELSE m.l.next[c]

RECURSIVE Skip(_, _, _, _, _)
Skip(kind, m, c, n, left) ==
  IF c = NULL \/ left = 0 THEN <<c, n>> ELSE Skip(kind, m, After(kind, m, c), n + 1, left - 1)

(* Mutant: equal cells are taken from the right run. *)
FromRightEqual(m) ==
  \/ m.psize = 0
  \/ m.qsize > 0 /\ m.q # NULL /\ CellValue[m.p] >= CellValue[m.q]

FromRight(m) ==
  \/ m.psize = 0
  \/ m.qsize > 0 /\ m.q # NULL /\ CellValue[m.p] > CellValue[m.q]

(* Cell e is put at the end of the list; prev is not written in an LL list. *)
Put(kind, m, e) ==
  LET l == IF m.tail = NULL THEN [m.l EXCEPT !.head = e] ELSE [m.l EXCEPT !.next[m.tail] = e]
  IN [m EXCEPT !.l = IF kind = "LL" THEN l ELSE [l EXCEPT !.prev[e] = m.tail], !.tail = e]

RECURSIVE MergeRun(_, _)
MergeRun(kind, m) ==
  CASE ~(m.psize > 0 \/ (m.qsize > 0 /\ m.q # NULL)) -> m
    [] (m.psize > 0 \/ (m.qsize > 0 /\ m.q # NULL)) /\ FromRight(m) ->
         MergeRun(kind, [Put(kind, m, m.q) EXCEPT !.q = After(kind, m, m.q), !.qsize = @ - 1])
    [] OTHER ->
         MergeRun(kind, [Put(kind, m, m.p) EXCEPT !.p = After(kind, m, m.p), !.psize = @ - 1])

RECURSIVE MergePass(_, _, _)
MergePass(kind, m, insize) ==
  IF m.p = NULL THEN m
  ELSE LET run == Skip(kind, m, m.p, 0, insize)
           done == MergeRun(kind, [m EXCEPT !.q = run[1], !.psize = run[2], !.qsize = insize])
       IN MergePass(kind, [done EXCEPT !.p = done.q, !.nmerges = @ + 1], insize)

(* The end of a pass closes the list. *)
LLClose(m) == [m.l EXCEPT !.next[m.tail] = NULL]
DLClose(m) == [m.l EXCEPT !.prev[m.l.head] = m.tail, !.next[m.tail] = NULL]
CDLClose(m) == [m.l EXCEPT !.prev[m.l.head] = m.tail, !.next[m.tail] = m.l.head]

RECURSIVE SortPasses(_, _, _)
SortPasses(kind, l, insize) ==
  LET m == MergePass(kind, [l |-> [l EXCEPT !.head = NULL], old |-> l.head, p |-> l.head,
                            q |-> NULL, psize |-> 0, qsize |-> 0, tail |-> NULL, nmerges |-> 0],
                     insize)
      closed == CASE kind = "LL" -> LLClose(m) [] kind = "DL" -> DLClose(m) [] OTHER -> CDLClose(m)
  IN IF m.nmerges <= 1 THEN closed ELSE SortPasses(kind, closed, 2 * insize)

Sort(kind, l) == IF l.head = NULL THEN l ELSE SortPasses(kind, l, 1)
LLSort(l) == Sort("LL", l)
DLSort(l) == Sort("DL", l)
CDLSort(l) == Sort("CDL", l)

---------------------------------------------------------------------------
Members == ToSet(utOrder)
Becomes(list, order) == utList' = list /\ utOrder' = order /\ UNCHANGED utKind
OfKind(ll, dl, cdl) == CASE utKind = "LL" -> ll [] utKind = "DL" -> dl [] OTHER -> cdl
At(c) == CHOOSE i \in 1..Len(utOrder) : utOrder[i] = c

Prepends(a) ==
  Becomes(OfKind(LLPrepend(utList, a), DLPrepend(utList, a), CDLPrepend(utList, a)),
          <<a>> \o utOrder)

Appends(a) ==
  /\ utKind # "CDL"
  /\ Becomes(IF utKind = "LL" THEN LLAppend(utList, a) ELSE DLAppend(utList, a),
             Append(utOrder, a))

(* The list is given a second one, of the cells a and b. *)
Concats(a, b) ==
  /\ utKind # "CDL" /\ a # b
  /\ LET empty == [utList EXCEPT !.head = NULL]
         two == IF utKind = "LL" THEN LLAppend(LLAppend(empty, a), b)
                ELSE DLAppend(DLAppend(empty, a), b)
         both == [two EXCEPT !.head = utList.head]
     IN Becomes(IF utKind = "LL" THEN LLConcat(both, a) ELSE DLConcat(both, a),
                utOrder \o <<a, b>>)

Deletes(d) ==
  Becomes(OfKind(LLDelete(utList, d), DLDelete(utList, d), CDLDelete(utList, d)),
          RemoveAt(utOrder, At(d)))

Replaces(c, a) ==
  Becomes(OfKind(LLReplaceElem(utList, c, a), DLReplaceElem(utList, c, a),
                 CDLReplaceElem(utList, c, a)),
          [utOrder EXCEPT ![At(c)] = a])

PrependsTo(c, a) ==
  Becomes(OfKind(LLPrependElem(utList, c, a), DLPrependElem(utList, c, a),
                 CDLPrependElem(utList, c, a)),
          InsertAt(utOrder, At(c), a))

(* What sorting means: by value, cells of one value in their old order. *)
Rank(c) == Cardinality({d \in Members : \/ CellValue[d] < CellValue[c]
                                        \/ CellValue[d] = CellValue[c] /\ At(d) <= At(c)})
Sorted == [i \in 1..Len(utOrder) |-> CHOOSE c \in Members : Rank(c) = i]

Sorts == Becomes(OfKind(LLSort(utList), DLSort(utList), CDLSort(utList)), Sorted)

UtNext ==
  \/ \E a \in Cells \ Members : Prepends(a) \/ Appends(a)
  \/ \E a, b \in Cells \ Members : Concats(a, b)
  \/ \E d \in Members : Deletes(d)
  \/ \E c \in Members, a \in Cells \ Members : Replaces(c, a) \/ PrependsTo(c, a)
  \/ Sorts

---------------------------------------------------------------------------
(* After any sequence of operations the links are those of the list's cells in
   order, whatever the cells that left it still point to: forwards, and for DL
   and CDL backwards, with the tail at the head's prev, which is where
   DL_APPEND adds the next connection (utlist.h, wq.c). *)
UtLinked ==
  LET n == Len(utOrder)
  IN /\ (IF utKind = "CDL" THEN CdlForeach(utList) ELSE Foreach(utList)) = utOrder
     /\ utKind # "LL" =>
          \A i \in 1..n : utList.prev[utOrder[i]] = utOrder[IF i = 1 THEN n ELSE i - 1]
=============================================================================
