-------------------------------- MODULE LibC --------------------------------
(***************************************************************************)
(* The freestanding C library of Pintos: lib/string.c, lib/stdlib.c and       *)
(* lib/random.c.  Memory is a function from addresses to bytes and a pointer  *)
(* an address; a string ends at its first 0.  The loops that write memory are *)
(* modelled byte by byte, because their order is what overlapping operands    *)
(* depend on.  Each state is one call, `libCall', with its operands.          *)
(***************************************************************************)
EXTENDS Integers, Sequences, FiniteSets, SequencesExt

CONSTANTS MemSize,    \* the addresses are 0..MemSize-1
          Chars,      \* the nonzero bytes
          Delims,     \* the delimiters given to strtok_r()
          IntBits,    \* the width of int
          SortLen,    \* the longest array sorted
          RandSize    \* the size of the generator's state, 256 in the code

VARIABLE libCall      \* <<>> or the call: a record of its operands

Addr == 0..(MemSize - 1)
Memory == {m \in [Addr -> Chars \cup {0}] : m[MemSize - 1] = 0}
Null == -1

---------------------------------------------------------------------------
(* string.c *)

StrNLen(m, s, max) ==
  CHOOSE n \in 0..max : (n = max \/ m[s + n] = 0) /\ \A i \in 0..(n - 1) : m[s + i] # 0
StrLen(m, s) == StrNLen(m, s, MemSize - 1 - s)
Str(m, s) == [i \in 1..StrLen(m, s) |-> m[s + i - 1]]

RECURSIVE CopyUp(_, _, _, _)
CopyUp(m, dst, src, size) ==
  IF size = 0 THEN m ELSE CopyUp([m EXCEPT ![dst] = m[src]], dst + 1, src + 1, size - 1)

RECURSIVE CopyDown(_, _, _, _)
CopyDown(m, dst, src, size) ==
  IF size = 0 THEN m
  ELSE CopyDown([m EXCEPT ![dst + size - 1] = m[src + size - 1]], dst, src, size - 1)

MemCpy(m, dst, src, size) == CopyUp(m, dst, src, size)

(* A memmove() that always copies upwards. *)
MemMoveUp(m, dst, src, size) == CopyUp(m, dst, src, size)

MemMove(m, dst, src, size) ==
  IF dst < src THEN CopyUp(m, dst, src, size) ELSE CopyDown(m, dst, src, size)

(* -1, 0 or 1, by the first byte that differs. *)
RECURSIVE MemCmp(_, _, _, _)
MemCmp(m, a, b, size) ==
  CASE size = 0 -> 0
    [] size > 0 /\ m[a] # m[b] -> IF m[a] > m[b] THEN 1 ELSE -1
    [] OTHER -> MemCmp(m, a + 1, b + 1, size - 1)

RECURSIVE StrCmp(_, _, _)
StrCmp(m, a, b) ==
  IF m[a] # 0 /\ m[a] = m[b] THEN StrCmp(m, a + 1, b + 1)
  ELSE CASE m[a] < m[b] -> -1 [] m[a] > m[b] -> 1 [] OTHER -> 0

RECURSIVE StrStrFrom(_, _, _, _)
StrStrFrom(m, haystack, needle, i) ==
  CASE i > StrLen(m, haystack) - StrLen(m, needle) -> Null
    [] MemCmp(m, haystack + i, needle, StrLen(m, needle)) = 0 -> haystack + i
    [] OTHER -> StrStrFrom(m, haystack, needle, i + 1)
StrStr(m, haystack, needle) ==
  IF StrLen(m, haystack) >= StrLen(m, needle) THEN StrStrFrom(m, haystack, needle, 0) ELSE Null

(* strspn() and strcspn(): the run of characters (not) in `set' at s. *)
RECURSIVE Span(_, _, _, _)
Span(m, s, set, in) ==
  IF m[s] # 0 /\ ((m[s] \in set) = in) THEN 1 + Span(m, s + 1, set, in) ELSE 0
StrPbrk(m, s, set) == LET n == Span(m, s, set, FALSE) IN IF m[s + n] = 0 THEN Null ELSE s + n

MemChr(m, s, ch, size) ==
  LET at == {i \in s..(s + size - 1) : m[i] = ch} IN IF at = {} THEN Null ELSE Min(at)
StrChr(m, s, ch) == MemChr(m, s, ch, StrLen(m, s) + 1)
StrRChr(m, s, ch) ==
  LET at == {i \in s..(s + StrLen(m, s) - 1) : m[i] = ch} IN IF at = {} THEN Null ELSE Max(at)
MemSet(m, dst, value, size) == [a \in Addr |-> IF a \in dst..(dst + size - 1) THEN value ELSE m[a]]

(* strtok_r() from s: the token (or Null), the memory and the saved position. *)
StrTokR(m, s) ==
  LET token == s + Span(m, s, Delims, TRUE)
      end == token + Span(m, token, Delims, FALSE)
  IN CASE m[token] = 0 -> [token |-> Null, m |-> m, save |-> token]
       [] m[token] # 0 /\ m[end] = 0 -> [token |-> token, m |-> m, save |-> end]
       [] OTHER -> [token |-> token, m |-> [m EXCEPT ![end] = 0], save |-> end + 1]

(* The caller's loop: the tokens it sees when it looks at them at the end. *)
RECURSIVE TokenPtrs(_, _)
TokenPtrs(m, s) ==
  LET r == StrTokR(m, s)
  IN IF r.token = Null THEN [ptrs |-> <<>>, m |-> r.m]
     ELSE LET rest == TokenPtrs(r.m, r.save)
          IN [ptrs |-> <<r.token>> \o rest.ptrs, m |-> rest.m]
Tokens(m, s) ==
  LET t == TokenPtrs(m, s) IN [i \in 1..Len(t.ptrs) |-> Str(t.m, t.ptrs[i])]

StrLCpy(m, dst, src, size) ==
  LET dst_len == Min({size - 1, StrLen(m, src)})
  IN [m |-> IF size = 0 THEN m
            ELSE [MemCpy(m, dst, src, dst_len) EXCEPT ![dst + dst_len] = 0],
      ret |-> StrLen(m, src)]

StrLCat(m, dst, src, size) ==
  LET dst_len == StrLen(m, dst)
      copy_cnt == Min({size - dst_len - 1, StrLen(m, src)})
  IN [m |-> IF size = 0 \/ dst_len >= size THEN m
            ELSE [MemCpy(m, dst + dst_len, src, copy_cnt) EXCEPT ![dst + dst_len + copy_cnt] = 0],
      ret |-> StrLen(m, src) + dst_len]

---------------------------------------------------------------------------
(* stdlib.c *)

IntMin == -(2^(IntBits - 1))
IntMax == 2^(IntBits - 1) - 1

(* A numeral is a sign and digits.  The value is accumulated negatively, because
   the negative range is the larger one; overflow would be undefined. *)
RECURSIVE Accumulate(_, _)
Accumulate(digits, value) ==
  IF digits = <<>> THEN value ELSE Accumulate(Tail(digits), value * 10 - Head(digits))
Atoi(n) == IF n.neg THEN Accumulate(n.digits, 0) ELSE -Accumulate(n.digits, 0)

RECURSIVE Decimal(_)
Decimal(v) == IF v < 10 THEN <<v>> ELSE Append(Decimal(v \div 10), v % 10)
Numeral(v) == [neg |-> v < 0, digits |-> Decimal(IF v < 0 THEN -v ELSE v)]

DoSwap(a, i, j) == [a EXCEPT ![i] = a[j], ![j] = a[i]]

(* Float element i of the heap a[1..cnt] down; HeapifyShort forgets the last
   element when it is a right child. *)
RECURSIVE Heapify(_, _, _)
HeapifyShort(a, i, cnt) ==
  LET left == 2 * i
      right == 2 * i + 1
      m1 == IF left <= cnt /\ a[left] > a[i] THEN left ELSE i
      max == IF right < cnt /\ a[right] > a[m1] THEN right ELSE m1
  IN IF max = i THEN a ELSE Heapify(DoSwap(a, i, max), max, cnt)
Heapify(a, i, cnt) ==
  LET left == 2 * i
      right == 2 * i + 1
      m1 == IF left <= cnt /\ a[left] > a[i] THEN left ELSE i
      max == IF right <= cnt /\ a[right] > a[m1] THEN right ELSE m1
  IN IF max = i THEN a ELSE Heapify(DoSwap(a, i, max), max, cnt)

RECURSIVE BuildHeap(_, _)
BuildHeap(a, i) == IF i = 0 THEN a ELSE BuildHeap(Heapify(a, i, Len(a)), i - 1)

RECURSIVE SortHeap(_, _)
SortHeap(a, i) == IF i <= 1 THEN a ELSE SortHeap(Heapify(DoSwap(a, 1, i), 1, i - 1), i - 1)

(* sort() and qsort(). *)
HeapSort(a) == SortHeap(BuildHeap(a, Len(a) \div 2), Len(a))

(* binary_search() and bsearch() in a[first..last-1]: an index, or Null. *)
RECURSIVE BinarySearch(_, _, _, _)
BinarySearch(key, a, first, last) ==
  LET middle == first + (last - first) \div 2
  IN CASE first >= last -> Null
       [] first < last /\ key < a[middle] -> BinarySearch(key, a, first, middle)
       [] first < last /\ key > a[middle] -> BinarySearch(key, a, middle + 1, last)
       [] OTHER -> middle

---------------------------------------------------------------------------
(* random.c: RC4 over a state of RandSize bytes; arithmetic is modulo that. *)

SwapByte(s, i, j) == [s EXCEPT ![i] = s[j], ![j] = s[i]]

(* seed is the sequence of the seed's bytes. *)
RECURSIVE Schedule(_, _, _, _)
Schedule(s, seed, i, j) ==
  LET k == (j + s[i] + seed[(i % Len(seed)) + 1]) % RandSize
  IN IF i = RandSize THEN s ELSE Schedule(SwapByte(s, i, k), seed, i + 1, k)
RandomInit(seed) ==
  [s |-> Schedule([i \in 0..(RandSize - 1) |-> i], seed, 0, 0), i |-> 0, j |-> 0]

(* One byte of random_bytes(). *)
RandomByte(r) ==
  LET i == (r.i + 1) % RandSize
      j == (r.j + r.s[i]) % RandSize
      s == SwapByte(r.s, i, j)
  IN [state |-> [s |-> s, i |-> i, j |-> j], byte |-> s[(s[i] + s[j]) % RandSize]]

---------------------------------------------------------------------------
(* The calls. *)

LibInit == libCall = <<>>

(* Two pointers into one memory, and a size that stays inside it. *)
CallString ==
  /\ libCall = <<>>
  /\ \E m \in Memory, a, b \in Addr, size \in 0..MemSize :
       /\ size <= MemSize - a /\ size <= MemSize - b
       /\ libCall' = [fn |-> "string", m |-> m, a |-> a, b |-> b, size |-> size]

CallAtoi ==
  /\ libCall = <<>>
  /\ \E v \in IntMin..IntMax : libCall' = [fn |-> "atoi", v |-> v]

CallSort ==
  /\ libCall = <<>>
  /\ \E n \in 0..SortLen : \E a \in [1..n -> 1..3] : libCall' = [fn |-> "sort", a |-> a]

(* random_init(), and then bytes: here the state goes on. *)
CallRandomInit ==
  /\ libCall = <<>>
  /\ \E seed \in [1..2 -> 0..(RandSize - 1)] :
       libCall' = [fn |-> "random", r |-> RandomInit(seed), out |-> 0]
CallRandomBytes ==
  /\ libCall # <<>> /\ libCall.fn = "random"
  /\ LET b == RandomByte(libCall.r)
     IN libCall' = [fn |-> "random", r |-> b.state, out |-> b.byte]

LibNext == CallString \/ CallAtoi \/ CallSort \/ CallRandomInit \/ CallRandomBytes

---------------------------------------------------------------------------
(* Reference definitions. *)

Copied(m, dst, src, size) ==
  [x \in Addr |-> IF x \in dst..(dst + size - 1) THEN m[x - dst + src] ELSE m[x]]

(* The maximal runs of non-delimiters of a string. *)
Runs(s) ==
  LET starts == {i \in 1..Len(s) : s[i] \notin Delims /\ (i = 1 \/ s[i - 1] \in Delims)}
      stop(i) == Max({j \in i..Len(s) : \A k \in i..j : s[k] \notin Delims})
      nth(k) == CHOOSE i \in starts : Cardinality({j \in starts : j <= i}) = k
  IN [k \in 1..Cardinality(starts) |-> SubSeq(s, nth(k), stop(nth(k)))]

Disjoint(c, n) == c.a + n <= c.b \/ c.b + StrLen(c.m, c.b) < c.a

(* memmove() copies as if through a buffer whatever the overlap; strlcpy() and
   strlcat() leave a terminated, possibly truncated string, write nothing past
   the size they are given and return the length they tried for; strstr() finds
   the first occurrence, strchr(), strrchr() and strpbrk() the first or the last
   character looked for; and a loop of strtok_r() calls yields exactly the runs
   of non-delimiters, although every call cuts the string (string.c). *)
StringsRight ==
  libCall # <<>> /\ libCall.fn = "string" =>
    LET m == libCall.m
        a == libCall.a
        b == libCall.b
        size == libCall.size
        src == Str(m, b)
        cpy == StrLCpy(m, a, b, size)
        cat == StrLCat(m, a, b, size)
        at == {i \in 0..StrLen(m, a) : IsPrefix(src, SubSeq(Str(m, a), i + 1, StrLen(m, a)))}
        outside == Addr \ (a..(a + size - 1))
    IN /\ MemMove(m, a, b, size) = Copied(m, a, b, size)
       /\ Tokens(m, a) = Runs(Str(m, a))
       /\ StrStr(m, a, b) = IF at = {} THEN Null ELSE a + Min(at)
       /\ (StrCmp(m, a, b) = 0) <=> (Str(m, a) = src)
       /\ \A ch \in Chars \cup {0} :
            LET here == {i \in 1..StrLen(m, a) : m[a + i - 1] = ch}
            IN /\ StrChr(m, a, ch) = CASE ch = 0 -> a + StrLen(m, a)
                                       [] ch # 0 /\ here = {} -> Null
                                       [] OTHER -> a + Min(here) - 1
               /\ StrRChr(m, a, ch) = IF here = {} THEN Null ELSE a + Max(here) - 1
               /\ StrPbrk(m, a, {ch}) = IF here = {} THEN Null ELSE a + Min(here) - 1
               /\ \A x \in outside : MemSet(m, a, ch, size)[x] = m[x]
       /\ Disjoint(libCall, size) /\ size > 0 =>
            /\ Str(cpy.m, a) = SubSeq(src, 1, Min({size - 1, Len(src)}))
            /\ cpy.ret = Len(src)
            /\ StrLen(m, a) < size =>
                 LET whole == Str(m, a) \o src
                 IN /\ Str(cat.m, a) = SubSeq(whole, 1, Min({size - 1, Len(whole)}))
                    /\ cat.ret = Len(whole)
            /\ \A x \in outside : cpy.m[x] = m[x] /\ cat.m[x] = m[x]

(* atoi() returns every int its decimal numeral stands for, the smallest one
   included, without overflowing on the way; sort() returns the ordered permutation of its array, in which
   binary_search() finds exactly the keys that are there (stdlib.c); and the
   generator's state stays a permutation, whatever the seed (random.c). *)
StdlibRight ==
  libCall # <<>> =>
    CASE libCall.fn = "atoi" ->
           LET n == Numeral(libCall.v)
           IN Atoi(n) = libCall.v /\ Accumulate(n.digits, 0) \in IntMin..IntMax
      [] libCall.fn = "sort" ->
           LET a == HeapSort(libCall.a)
           IN /\ \A i, j \in 1..Len(a) : i < j => a[i] <= a[j]
              /\ \A v \in 1..3 : /\ Cardinality({i \in 1..Len(a) : a[i] = v})
                                      = Cardinality({i \in 1..Len(a) : libCall.a[i] = v})
                                 /\ LET k == BinarySearch(v, a, 1, Len(a) + 1)
                                    IN IF v \in ToSet(a) THEN k # Null /\ a[k] = v ELSE k = Null
      [] libCall.fn = "random" -> {libCall.r.s[i] : i \in 0..(RandSize - 1)} = 0..(RandSize - 1)
      [] OTHER -> TRUE
=============================================================================
