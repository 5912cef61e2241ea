------------------------------- MODULE MRApps -------------------------------
(***************************************************************************)
(* What a MapReduce job computes: the applications (word count, grep, vertex  *)
(* degree), the codec of the intermediate and output files, the split into    *)
(* reduce tasks, the sort and grouping of a reduce task and the client's      *)
(* post-processing, in C (hw-map-reduce) and in Rust (hw-map-reduce-rs).       *)
(*                                                                            *)
(* A byte is a number: 1..3 and 5..7 are letters in lower and upper case, 9    *)
(* is a newline.  An int has two bytes in base 4.  A key-value pair is         *)
(* [key, value], both sequences of bytes.  The length in front of a record     *)
(* is one cell of a file.                                                      *)
(***************************************************************************)
EXTENDS Integers, Sequences, FiniteSets, SequencesExt, Bitwise

CONSTANTS JobTexts,     \* file contents for word count and grep
          JobEdges,     \* file contents for vertex degree: lines of numbers, -1: no number
          Terms,        \* what grep searches for
          Packets,      \* sequences of byte strings for the codec
          ReduceCounts  \* values of n_reduce

VARIABLE mrJob          \* the job that ran, with its output; <<>> at first

Nl == 9
Prime == 5              \* stands for the multiplier of the hash
HashMod == 16           \* 2^32
IsAlpha(c) == c \in 1..3 \cup 5..7
ToLower(c) == IF c \in 5..7 THEN c - 4 ELSE c
KV(k, v) == [key |-> k, value |-> v]

---------------------------------------------------------------------------
(* lib.c *)

IHash(key) ==
  FoldLeft(LAMBDA h, c : ((h * Prime) % HashMod) ^^ c, 0, key) % (HashMod \div 2)

(* strncmp() of the common length, which stops at a zero byte. *)
RECURSIVE StrNCmp(_, _, _)
StrNCmp(a, b, n) ==
  CASE n = 0 \/ a = <<>> -> 0
    [] n > 0 /\ a # <<>> /\ a[1] # b[1] -> a[1] - b[1]
    [] n > 0 /\ a # <<>> /\ a[1] = b[1] /\ a[1] = 0 -> 0
    [] OTHER -> StrNCmp(Tail(a), Tail(b), n - 1)
ByKey(k1, k2) ==
  LET n == IF Len(k1) < Len(k2) THEN Len(k1) ELSE Len(k2)
      c == StrNCmp(SubSeq(k1, 1, n), SubSeq(k2, 1, n), n)
  IN IF c # 0 THEN c ELSE Len(k1) - Len(k2)

(* codec.c: a record is its length and its bytes; the reader stops at a
   record that is not all there. *)
LdwWrite(file, buf) == file \o <<Len(buf)>> \o buf
RECURSIVE LdrAll(_, _)
LdrAll(file, pos) ==
  IF pos >= Len(file) \/ pos + 1 + file[pos + 1] > Len(file) THEN <<>>
  ELSE <<SubSeq(file, pos + 2, pos + 1 + file[pos + 1])>> \o LdrAll(file, pos + 1 + file[pos + 1])
Encoded(kvs) == FoldLeft(LAMBDA f, kv : LdwWrite(LdwWrite(f, kv.key), kv.value), <<>>, kvs)
Pairs(bufs) == [i \in 1..(Len(bufs) \div 2) |-> KV(bufs[2 * i - 1], bufs[2 * i])]
Decoded(file) == Pairs(LdrAll(file, 0))

---------------------------------------------------------------------------
(* The applications in C. *)

RECURSIVE WcMapFrom(_, _, _)
WcMapFrom(buf, p1, p2) ==     \* p1 and p2 count from 0
  IF p1 >= Len(buf) THEN <<>>
  ELSE IF p2 >= Len(buf) \/ ~IsAlpha(buf[p2 + 1])
       THEN LET word == [i \in 1..(p2 - p1) |-> ToLower(buf[p1 + i])]
            IN (IF p2 > p1 + 1 THEN <<KV(word, <<1, 0>>)>> ELSE <<>>)
                 \o WcMapFrom(buf, p2 + 1, p2 + 1)
       ELSE WcMapFrom(buf, p1, p2 + 1)
WcMap(buf) == WcMapFrom(buf, 0, 0)

ToInt(b) == b[1] + 4 * b[2]
IntBytes(n) == <<n % 4, (n \div 4) % 4>>
SumReduce(kvs) == IntBytes(FoldLeft(LAMBDA n, kv : n + ToInt(kv.value), 0, kvs))
WcLess(a, b) == \/ ToInt(a.value) < ToInt(b.value)
                \/ ToInt(a.value) = ToInt(b.value) /\ ByKey(a.key, b.key) < 0

(* find_occurrences(): lines that end in a newline, with their numbers. *)
IsIn(term, line) == \E i \in 0..(Len(line) - Len(term)) : SubSeq(line, i + 1, i + Len(term)) = term
RECURSIVE LinesFrom(_, _)
LinesFrom(buf, line) ==
  CASE buf = <<>> -> <<>>
    [] buf # <<>> /\ buf[1] = Nl -> <<line>> \o LinesFrom(Tail(buf), <<>>)
    [] OTHER -> LinesFrom(Tail(buf), Append(line, buf[1]))
Lines(buf) == LinesFrom(buf, <<>>)
Numbered(lines, term) ==
  SelectSeq([i \in 1..Len(lines) |-> <<i>> \o lines[i]], LAMBDA v : IsIn(term, Tail(v)))
GrepMap(name, buf, term) ==
  LET found == Numbered(Lines(buf), term) IN [i \in 1..Len(found) |-> KV(name, found[i])]
GrepLess(a, b) == a.value[1] < b.value[1]
GrepReduce(kvs) ==
  Front(FlattenSeq([i \in 1..Len(kvs) |-> Append(SortSeq(kvs, GrepLess)[i].value, Nl)]))

(* get_pairs(): strtol() skips white space, lines included. *)
RECURSIVE EdgePairs(_)
EdgePairs(nums) ==
  IF Len(nums) < 2 \/ nums[1] < 0 \/ nums[2] < 0 THEN <<>>
  ELSE <<KV(IntBytes(nums[1]), <<1, 0>>), KV(IntBytes(nums[2]), <<1, 0>>)>>
         \o EdgePairs(SubSeq(nums, 3, Len(nums)))
VertexDegreeMap(edgeLines) == EdgePairs(FlattenSeq(edgeLines))
VertexLess(a, b) == ToInt(a.key) < ToInt(b.key)

---------------------------------------------------------------------------
(* task_handler.c: write_map_kvs(), read_map_kvs(), reduce_kvs(). *)

(* Mutant: the partitions are numbered from 0 to n_reduce. *)
PartitionOneMore(kvs, r, n) ==
  Encoded(SelectSeq(kvs, LAMBDA kv : IHash(kv.key) % (n + 1) = r))

Partition(kvs, r, n) == Encoded(SelectSeq(kvs, LAMBDA kv : IHash(kv.key) % n = r))

(* The runs of equal keys: each is compared with its first. *)
RECURSIVE GroupsFrom(_, _, _)
GroupsFrom(kvs, p1, p2) ==
  CASE p1 > Len(kvs) -> <<>>
    [] p1 <= Len(kvs) /\ (p2 > Len(kvs) \/ ByKey(kvs[p1].key, kvs[p2].key) # 0) ->
         <<SubSeq(kvs, p1, p2 - 1)>> \o GroupsFrom(kvs, p2, p2 + 1)
    [] OTHER -> GroupsFrom(kvs, p1, p2 + 1)
Groups(kvs) == GroupsFrom(SortSeq(kvs, LAMBDA a, b : ByKey(a.key, b.key) < 0), 1, 2)
Reduce(app, kvs) == IF app = "grep" THEN GrepReduce(kvs) ELSE SumReduce(kvs)
Less(app, a, b) == CASE app = "wc" -> WcLess(a, b)
                     [] app = "grep" -> ByKey(a.key, b.key) < 0
                     [] OTHER -> VertexLess(a, b)
ReduceOutput(app, kvs) ==
  LET gs == Groups(kvs) IN Encoded([i \in 1..Len(gs) |-> KV(gs[i][1].key, Reduce(app, gs[i]))])

(* A job: its map outputs, their files, the reduce outputs, and client.c's
   process(). *)
JobOutput(app, maps, n) ==
  LET reduceIn(r) == FlattenSeq([f \in 1..Len(maps) |-> Decoded(Partition(maps[f], r, n))])
      out == FlattenSeq([r \in 1..n |-> Decoded(ReduceOutput(app, reduceIn(r - 1)))])
  IN SortSeq(out, LAMBDA a, b : Less(app, a, b))

---------------------------------------------------------------------------
(* Rust: words of one letter count, the last line needs no newline, a line has
   to start with two numbers, keys are compared whole. *)

RECURSIVE RustSplit(_, _)
RustSplit(buf, word) ==
  CASE buf = <<>> -> <<word>>
    [] buf # <<>> /\ ~IsAlpha(buf[1]) -> <<word>> \o RustSplit(Tail(buf), <<>>)
    [] OTHER -> RustSplit(Tail(buf), Append(word, ToLower(buf[1])))
RustWcMap(buf) ==
  LET words == SelectSeq(RustSplit(buf, <<>>), LAMBDA w : w # <<>>)
  IN [i \in 1..Len(words) |-> KV(words[i], <<1, 0>>)]
RustLines(buf) ==
  IF buf = <<>> \/ Last(buf) = Nl THEN Lines(buf) ELSE Lines(Append(buf, Nl))
RustGrepMap(name, buf, term) ==
  LET found == Numbered(RustLines(buf), term) IN [i \in 1..Len(found) |-> KV(name, found[i])]
BadLine(line) == Len(line) < 2 \/ line[1] < 0 \/ line[2] < 0
RustVertexMap(edgeLines) ==
  FlattenSeq([i \in 1..Len(edgeLines) |->
    <<KV(IntBytes(edgeLines[i][1]), <<1, 0>>), KV(IntBytes(edgeLines[i][2]), <<1, 0>>)>>])
RustVertexFails(edgeLines) == \E i \in 1..Len(edgeLines) : BadLine(edgeLines[i])

(* codec/mod.rs, of whole buffers: the reader panics on one that is cut short,
   and buffers never leave memory in part. *)
RustSend(buf, packet) == LdwWrite(buf, packet)
RustPackets(buf) == LdrAll(buf, 0)
RustEncoded(kvs) == FoldLeft(LAMBDA f, kv : RustSend(RustSend(f, kv.key), kv.value), <<>>, kvs)

(* reduce(): sort_unstable_by_key() and group_by() on whole keys; grep's
   values are packed by the codec. *)
RustReduce(app, kvs) ==
  IF app # "grep" THEN SumReduce(kvs)
  ELSE FoldLeft(LAMBDA f, kv : RustSend(f, kv.value), <<>>, SortSeq(kvs, GrepLess))
RustKeys(kvs) == {kvs[i].key : i \in 1..Len(kvs)}
RustReduceOutput(app, kvs) ==
  {KV(k, RustReduce(app, SelectSeq(kvs, LAMBDA kv : kv.key = k))) : k \in RustKeys(kvs)}
RustPartition(kvs, r, n) == RustEncoded(SelectSeq(kvs, LAMBDA kv : IHash(kv.key) % n = r))
RustJobOutput(app, maps, n) ==
  LET reduceIn(r) == FlattenSeq([f \in 1..Len(maps) |-> Pairs(RustPackets(RustPartition(maps[f], r, n)))])
  IN UNION {RustReduceOutput(app, reduceIn(r)) : r \in 0..(n - 1)}

---------------------------------------------------------------------------
MRInit == mrJob = <<>>

Name(f) == <<f>>        \* file f's name
RunTexts(files, term, n) ==
  LET len == Len(files)
      wc == [f \in 1..len |-> WcMap(files[f])]
      grep == [f \in 1..len |-> GrepMap(Name(f), files[f], term)]
      rwc == [f \in 1..len |-> RustWcMap(files[f])]
      rgrep == [f \in 1..len |-> RustGrepMap(Name(f), files[f], term)]
  IN /\ mrJob = <<>>
     /\ mrJob' = [kind |-> "texts", files |-> files, term |-> term,
                  wc |-> JobOutput("wc", wc, n), grep |-> JobOutput("grep", grep, n),
                  rustWc |-> RustJobOutput("wc", rwc, n),
                  rustGrep |-> RustJobOutput("grep", rgrep, n)]

RunEdges(files, n) ==
  LET bad == \E f \in 1..Len(files) : RustVertexFails(files[f])
  IN /\ mrJob = <<>>
     /\ mrJob' = [kind |-> "edges", files |-> files, rustFails |-> bad,
                  out |-> JobOutput("vertex", [f \in 1..Len(files) |-> VertexDegreeMap(files[f])], n),
                  rust |-> IF bad THEN {}
                           ELSE RustJobOutput("vertex",
                                  [f \in 1..Len(files) |-> RustVertexMap(files[f])], n)]

(* A file that a worker left behind after `cut' cells. *)
RunCodec(bufs, cut) ==
  LET file == FoldLeft(LdwWrite, <<>>, bufs)
  IN /\ mrJob = <<>> /\ cut <= Len(file)
     /\ mrJob' = [kind |-> "codec", bufs |-> bufs, whole |-> cut = Len(file),
                  read |-> LdrAll(SubSeq(file, 1, cut), 0)]

MRNext ==
  \/ \E a, b \in JobTexts, t \in Terms, n \in ReduceCounts : RunTexts(<<a, b>>, t, n)
  \/ \E a, b \in JobEdges, n \in ReduceCounts : RunEdges(<<a, b>>, n)
  \/ \E bufs \in Packets, cut \in 0..12 : RunCodec(bufs, cut)

---------------------------------------------------------------------------
(* Reference definitions. *)
Span(buf, i, j) ==
  /\ \A k \in i..j : IsAlpha(buf[k])
  /\ i > 1 => ~IsAlpha(buf[i - 1])
  /\ j < Len(buf) => ~IsAlpha(buf[j + 1])
Spans(files, least) ==
  {s \in (1..Len(files)) \X (1..8) \X (1..8) :
     /\ s[3] <= Len(files[s[1]]) /\ s[3] - s[2] + 1 >= least
     /\ Span(files[s[1]], s[2], s[3])}
WordOf(files, s) == [k \in 1..(s[3] - s[2] + 1) |-> ToLower(files[s[1]][s[2] + k - 1])]
WordCounts(files, least) ==
  LET spans == Spans(files, least)
  IN {KV(w, IntBytes(Cardinality({s \in spans : WordOf(files, s) = w}))) :
        w \in {WordOf(files, s) : s \in spans}}
Matches(files, f, term, rust) ==
  Numbered(IF rust THEN RustLines(files[f]) ELSE Lines(files[f]), term)
Degree(files, v) ==
  Cardinality({x \in (1..Len(files)) \X (1..4) \X (1..2) :
                 x[2] <= Len(files[x[1]]) /\ files[x[1]][x[2]][x[3]] = v})
Even(files) == \A f \in 1..Len(files), l \in 1..2 :
                 l <= Len(files[f]) => Len(files[f][l]) = 2 /\ ~BadLine(files[f][l])
Apart(files) ==
  \A f, g \in 1..Len(files) : \A k, l \in 1..2 : \A i, j \in 1..2 :
    k <= Len(files[f]) /\ l <= Len(files[g]) =>
      LET u == files[f][k][i]
          v == files[g][l][j]
      IN u # v => ByKey(IntBytes(u), IntBytes(v)) # 0

(* Whatever the number of reduce tasks and however the pairs are spread over
   the files: word count gives every word once with its count, in order, grep
   the matching lines of each file in their order, vertex degree the degree of
   each vertex (of vertices that strncmp() tells apart, and of well-formed
   files); Rust's versions likewise.  A file that was cut short is read as the
   records that are complete, never as others. *)
AppsRight ==
  /\ (mrJob # <<>> /\ mrJob.kind = "texts") =>
       /\ ToSet(mrJob.wc) = WordCounts(mrJob.files, 2)
       /\ \A i \in 1..(Len(mrJob.wc) - 1) : WcLess(mrJob.wc[i], mrJob.wc[i + 1])
       /\ mrJob.rustWc = WordCounts(mrJob.files, 1)
       /\ LET hits == SelectSeq(<<1, 2>>, LAMBDA f : Matches(mrJob.files, f, mrJob.term, FALSE) # <<>>)
          IN mrJob.grep = [i \in 1..Len(hits) |-> KV(Name(hits[i]),
               Front(FlattenSeq([k \in 1..Len(Matches(mrJob.files, hits[i], mrJob.term, FALSE)) |->
                       Append(Matches(mrJob.files, hits[i], mrJob.term, FALSE)[k], Nl)])))]
       /\ \A kv \in mrJob.rustGrep :
            RustPackets(kv.value) = Matches(mrJob.files, kv.key[1], mrJob.term, TRUE)
  /\ (mrJob # <<>> /\ mrJob.kind = "edges") =>
       \/ ~Even(mrJob.files)
       \/ LET vs == UNION {UNION {ToSet(l) : l \in ToSet(mrJob.files[f])} : f \in 1..2}
             right == {KV(IntBytes(v), IntBytes(Degree(mrJob.files, v))) : v \in vs}
         IN /\ ~mrJob.rustFails /\ mrJob.rust = right
            /\ Apart(mrJob.files) => ToSet(mrJob.out) = right /\ Len(mrJob.out) = Cardinality(vs)
  /\ (mrJob # <<>> /\ mrJob.kind = "codec") =>
       /\ IsPrefix(mrJob.read, mrJob.bufs)
       /\ mrJob.whole => mrJob.read = mrJob.bufs
=============================================================================
