------------------------------- MODULE Bitmap -------------------------------
(***************************************************************************)
(* The kernel's bitmaps (lib/kernel/bitmap.c): an array of bits kept in an    *)
(* array of elements of ElemBits bits each, which is also what a bitmap's     *)
(* file holds.  It is what the page allocator and the free map stand on.      *)
(* An element is a number; bmRef, the set of bits that are 1, is the bitmap   *)
(* as its users see it.                                                       *)
(***************************************************************************)
EXTENDS Integers, Sequences, FiniteSets, FiniteSetsExt, Bitwise

CONSTANTS ElemBits,     \* ELEM_BITS
          BitCounts,    \* sizes of bitmaps
          MaxOps        \* bound on the operations

VARIABLES bmCnt,        \* bit_cnt; -1: no bitmap yet
          bmWords,      \* bits, elements 1..elem_cnt
          bmRef,        \* history: the bits that should be 1
          bmFile,       \* what bitmap_write() left in the file; <<>>: nothing
          bmResult,     \* history: what the last query returned and should return
          bmOps

bitmapVars == <<bmCnt, bmWords, bmRef, bmFile, bmResult, bmOps>>

BITMAP_ERROR == -1      \* SIZE_MAX
ElemIdx(idx) == idx \div ElemBits
BitMask(idx) == 2 ^ (idx % ElemBits)
ElemCnt(cnt) == (cnt + ElemBits - 1) \div ElemBits

(* Mutant: a last element that is full is masked out. *)
LastMaskPlain(cnt) == 2 ^ (cnt % ElemBits) - 1

LastMask(cnt) == IF cnt % ElemBits # 0 THEN 2 ^ (cnt % ElemBits) - 1 ELSE 2 ^ ElemBits - 1

(* orl, andl and xorl, each one instruction. *)
BitmapMark(words, idx) == [words EXCEPT ![ElemIdx(idx) + 1] = @ | BitMask(idx)]
BitmapReset(words, idx) == [words EXCEPT ![ElemIdx(idx) + 1] = @ & (2 ^ ElemBits - 1 - BitMask(idx))]
BitmapFlip(words, idx) == [words EXCEPT ![ElemIdx(idx) + 1] = @ ^^ BitMask(idx)]
BitmapSet(words, idx, value) == IF value THEN BitmapMark(words, idx) ELSE BitmapReset(words, idx)
BitmapTest(words, idx) == (words[ElemIdx(idx) + 1] & BitMask(idx)) # 0

RECURSIVE BitmapSetMultiple(_, _, _, _)
BitmapSetMultiple(words, start, cnt, value) ==
  IF cnt = 0 THEN words
  ELSE BitmapSetMultiple(BitmapSet(words, start, value), start + 1, cnt - 1, value)
BitmapCount(words, start, cnt, value) ==
  Cardinality({i \in 0..(cnt - 1) : BitmapTest(words, start + i) = value})
BitmapContains(words, start, cnt, value) ==
  \E i \in 0..(cnt - 1) : BitmapTest(words, start + i) = value

(* Mutant: a group at the very end is not found. *)
BitmapScanShort(words, size, start, cnt, value) ==
  LET found == {i \in start..(size - cnt - 1) : ~BitmapContains(words, i, cnt, ~value)}
  IN IF cnt > size \/ found = {} THEN BITMAP_ERROR ELSE Min(found)

BitmapScan(words, size, start, cnt, value) ==
  LET found == {i \in start..(size - cnt) : ~BitmapContains(words, i, cnt, ~value)}
  IN IF cnt > size \/ found = {} THEN BITMAP_ERROR ELSE Min(found)

---------------------------------------------------------------------------
BitmapInit ==
  /\ bmCnt = -1 /\ bmWords = <<>> /\ bmRef = {} /\ bmFile = <<>>
  /\ bmResult = [got |-> 0, right |-> 0] /\ bmOps = 0

(* malloc() leaves anything in the elements; bitmap_set_all() clears the bits
   that are used. *)
BitmapCreate(cnt, word) ==
  /\ bmCnt = -1 /\ bmCnt' = cnt
  /\ bmWords' = BitmapSetMultiple([i \in 1..ElemCnt(cnt) |-> word], 0, cnt, FALSE)
  /\ bmRef' = {}
  /\ UNCHANGED <<bmFile, bmResult, bmOps>>

BmOp == bmCnt >= 0 /\ bmOps < MaxOps /\ bmOps' = bmOps + 1
SetMultiple(start, cnt, value) ==
  /\ BmOp /\ start + cnt <= bmCnt
  /\ bmWords' = BitmapSetMultiple(bmWords, start, cnt, value)
  /\ bmRef' = IF value THEN bmRef \cup (start..(start + cnt - 1)) ELSE bmRef \ (start..(start + cnt - 1))
  /\ UNCHANGED <<bmCnt, bmFile, bmResult>>

Flip(idx) ==
  /\ BmOp /\ idx < bmCnt
  /\ bmWords' = BitmapFlip(bmWords, idx)
  /\ bmRef' = IF idx \in bmRef THEN bmRef \ {idx} ELSE bmRef \cup {idx}
  /\ UNCHANGED <<bmCnt, bmFile, bmResult>>

(* The first group by its definition. *)
FirstGroup(start, cnt, value) ==
  LET groups == {i \in start..bmCnt : /\ i + cnt <= bmCnt
                                      /\ \A j \in i..(i + cnt - 1) : (j \in bmRef) = value}
  IN IF groups = {} THEN BITMAP_ERROR ELSE Min(groups)

(* Where an empty group is found is not judged: the code says `start', the
   comment of bitmap_scan_and_flip() says 0. *)
ScanAndFlip(start, cnt, value) ==
  LET idx == BitmapScan(bmWords, bmCnt, start, cnt, value)
      group == FirstGroup(start, cnt, value)
      bits == group..(group + cnt - 1)
  IN /\ BmOp /\ start <= bmCnt
     /\ bmResult' = IF cnt = 0 THEN bmResult ELSE [got |-> idx, right |-> group]
     /\ bmWords' = IF idx = BITMAP_ERROR THEN bmWords ELSE BitmapSetMultiple(bmWords, idx, cnt, ~value)
     /\ bmRef' = CASE group = BITMAP_ERROR -> bmRef
                   [] group # BITMAP_ERROR /\ value -> bmRef \ bits
                   [] OTHER -> bmRef \cup bits
     /\ UNCHANGED <<bmCnt, bmFile>>

Count(start, cnt, value) ==
  /\ BmOp /\ start + cnt <= bmCnt
  /\ bmResult' = [got |-> BitmapCount(bmWords, start, cnt, value),
                  right |-> Cardinality({i \in start..(start + cnt - 1) : (i \in bmRef) = value})]
  /\ UNCHANGED <<bmCnt, bmWords, bmRef, bmFile>>

BitmapWrite ==
  /\ BmOp /\ bmCnt > 0 /\ bmFile' = bmWords
  /\ UNCHANGED <<bmCnt, bmWords, bmRef, bmResult>>

(* bitmap_read(), of the file that was written, or of one with other bits in
   the unused part of the last element. *)
BitmapRead(word) ==
  LET n == ElemCnt(bmCnt)
  IN /\ BmOp /\ bmCnt > 0
     /\ LET read == IF bmFile # <<>> THEN bmFile ELSE [i \in 1..n |-> word]
        IN /\ bmWords' = [read EXCEPT ![n] = @ & LastMask(bmCnt)]
           /\ bmRef' = {i \in 0..(bmCnt - 1) : BitmapTest(read, i)}
     /\ UNCHANGED <<bmCnt, bmFile, bmResult>>

BitmapNext ==
  \/ \E cnt \in BitCounts, word \in {0, 2 ^ ElemBits - 1} : BitmapCreate(cnt, word)
  \/ \E start, cnt \in 0..Max(BitCounts), value \in BOOLEAN :
       \/ SetMultiple(start, cnt, value) \/ Count(start, cnt, value)
       \/ ScanAndFlip(start, cnt, value)
  \/ \E idx \in 0..Max(BitCounts) : Flip(idx)
  \/ BitmapWrite
  \/ \E word \in {1, 2 ^ ElemBits - 1} : BitmapRead(word)

(* The words hold the bits that the callers set, whatever the order of the
   operations and where the last element ends; a scan for one bit or more finds
   the first group, and a count is exact (bitmap.c). *)
BitmapRight ==
  /\ \A i \in 0..(bmCnt - 1) : BitmapTest(bmWords, i) = (i \in bmRef)
  /\ bmResult.got = bmResult.right
=============================================================================
