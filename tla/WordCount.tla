----------------------------- MODULE WordCount -----------------------------
(***************************************************************************)
(* The word count programs.  `words' (hw-intro/words) reads characters one  *)
(* at a time and keeps a list that allocation failures may cut short;        *)
(* `pwords' (hw-list) has one thread per file and a list under one mutex.    *)
(*                                                                           *)
(* A text is a sequence of characters (of none that reads as EOF); a file    *)
(* of `words' is [found, text].  Letter gives the lower-case letter of       *)
(* a character and 0 for one that is no letter.  A list entry is             *)
(* [word, count], with word = NoWord when new_string() failed.               *)
(***************************************************************************)
EXTENDS Integers, Sequences, FiniteSets, SequencesExt

CONSTANTS Letter,       \* character -> its letter, or 0
          Texts,        \* the inputs of `words', sequences of characters
          WordMax,      \* MAX_WORD_LEN: the bytes of the word's buffer
          Loads,        \* the file contents of `pwords', sequences of words
          Counters,     \* the threads of `pwords'
          NoOne         \* nobody holds the mutex

VARIABLES wordsRun,     \* `words': [at, mode, stdin, files]
          cursor,       \* characters read of the current file
          letters,      \* str[0..is_new_word-1]
          totalWords,   \* total_words
          wclist,       \* the list of `words'
          failedAlloc,  \* a malloc() failed
          tpc,          \* where each thread of `pwords' is
          todo,         \* the words it has still to count
          hit,          \* the index that find_word() returned to it, 0: NULL
          mutex,        \* wclist->lock
          plist,        \* the list of `pwords'
          printed,      \* what `pwords' printed
          given         \* history: the words of the files opened

wordsVars == <<wordsRun, cursor, letters, totalWords, wclist, failedAlloc>>
pwordsVars == <<tpc, todo, hit, mutex, plist, printed, given>>

NoWord == <<>>
Entry(w) == [word |-> w, count |-> 1]
FindWord(list, w) ==
  LET at == {i \in 1..Len(list) : list[i].word = w}
  IN IF at = {} THEN 0 ELSE CHOOSE i \in at : \A j \in at : i <= j
Counted(list, i, w) ==
  IF i = 0 THEN Append(list, Entry(w)) ELSE [list EXCEPT ![i].count = @ + 1]

---------------------------------------------------------------------------
(* hw-intro/words *)

WordsInit ==
  /\ wordsRun = [at |-> "start", mode |-> "count", stdin |-> FALSE, files |-> <<>>]
  /\ cursor = 0 /\ letters = <<>> /\ totalWords = 0 /\ wclist = <<>> /\ failedAlloc = FALSE

(* main(): the mode, and the files (one that stands for stdin, if none). *)
StartWords(mode, stdin, files) ==
  /\ wordsRun.at = "start"
  /\ wordsRun' = [at |-> "read", mode |-> mode, stdin |-> stdin, files |-> files]
  /\ UNCHANGED <<cursor, letters, totalWords, wclist, failedAlloc>>

Text == wordsRun.files[1].text
Reading == wordsRun.at = "read" /\ wordsRun.files # <<>> /\ wordsRun.files[1].found
Leaves(how) == wordsRun' = [wordsRun EXCEPT !.at = how]

(* What count_words() does when it returns 1: main() gives up, except that
   the result for stdin is not looked at. *)
CountWordsFails ==
  /\ failedAlloc' = TRUE
  /\ wordsRun' = [wordsRun EXCEPT !.at = IF wordsRun.stdin THEN "read" ELSE "gaveUp",
                                  !.files = IF wordsRun.stdin THEN <<>> ELSE @]
  /\ UNCHANGED <<cursor, letters, totalWords, wclist>>

(* fopen() failed, which main() does not look at: num_words() closes a null
   pointer, and count_words() returns 1. *)
NoFile ==
  /\ wordsRun.at = "read" /\ wordsRun.files # <<>> /\ ~wordsRun.files[1].found
  /\ Leaves(IF wordsRun.mode = "count" THEN "crashed" ELSE "gaveUp")
  /\ UNCHANGED <<cursor, letters, totalWords, wclist, failedAlloc>>

(* Mutant: a word of the buffer's length is taken to fit. *)
FitsFull == wordsRun.mode = "count" \/ Len(letters) <= WordMax

(* There is room for the word and its null in the buffer, which num_words()
   does not have. *)
Fits == wordsRun.mode = "count" \/ Len(letters) < WordMax

(* count_words() stores a letter, or add_word() reads, past the end of the
   buffer: what follows is undefined. *)
Overrun ==
  /\ Reading /\ ~Fits
  /\ Leaves("overrun")
  /\ UNCHANGED <<cursor, letters, totalWords, wclist, failedAlloc>>

(* isalpha(): the word grows. *)
ReadLetter ==
  /\ Reading /\ Fits /\ cursor < Len(Text) /\ Letter[Text[cursor + 1]] # 0
  /\ letters' = Append(letters, Letter[Text[cursor + 1]])
  /\ cursor' = cursor + 1
  /\ UNCHANGED <<wordsRun, totalWords, wclist, failedAlloc>>

AtWordEnd == Reading /\ (cursor < Len(Text) => Letter[Text[cursor + 1]] = 0)
IsWordOne == Len(letters) > 0
IsWord == Len(letters) > 1

(* After the character, or at the end of the file: the next file, or on. *)
NextChar ==
  IF cursor < Len(Text) THEN cursor' = cursor + 1 /\ UNCHANGED wordsRun
  ELSE cursor' = 0 /\ wordsRun' = [wordsRun EXCEPT !.files = Tail(@)]

(* num_words(): one more word; or nothing to count. *)
EndWord ==
  /\ AtWordEnd /\ (IsWord => wordsRun.mode = "count")
  /\ totalWords' = IF IsWord THEN totalWords + 1 ELSE totalWords
  /\ letters' = <<>> /\ NextChar
  /\ UNCHANGED <<wclist, failedAlloc>>

(* add_word(): a copy of the word that cannot be made is noticed for every
   entry but the first. *)
AddWord(copied) ==
  /\ AtWordEnd /\ IsWord /\ Fits /\ wordsRun.mode = "frequency"
  /\ copied \/ ~failedAlloc
  /\ \A i \in 1..Len(wclist) : wclist[i].word # NoWord
  /\ LET i == FindWord(wclist, letters)
     IN /\ i # 0 => copied
        /\ IF ~copied /\ wclist # <<>> THEN CountWordsFails
           ELSE /\ wclist' = Counted(wclist, i, IF copied THEN letters ELSE NoWord)
                /\ failedAlloc' = (failedAlloc \/ ~copied)
                /\ letters' = <<>> /\ NextChar
                /\ UNCHANGED totalWords

(* malloc() of the entry fails, or that of a buffer for the next word.  One
   allocation fails at most. *)
EntryFails ==
  /\ AtWordEnd /\ IsWord /\ (Fits \/ wclist = <<>>) /\ wordsRun.mode = "frequency" /\ ~failedAlloc
  /\ FindWord(wclist, letters) = 0
  /\ CountWordsFails

BufferFails ==
  /\ Reading /\ letters = <<>> /\ wordsRun.mode = "frequency" /\ ~failedAlloc
  /\ CountWordsFails

(* find_word() compares with the null pointer that add_word() left. *)
NullCompare ==
  /\ AtWordEnd /\ IsWord /\ Fits /\ wordsRun.mode = "frequency"
  /\ \E i \in 1..Len(wclist) : wclist[i].word = NoWord
  /\ Leaves("crashed")
  /\ UNCHANGED <<cursor, letters, totalWords, wclist, failedAlloc>>

PrintResult ==
  /\ wordsRun.at = "read" /\ wordsRun.files = <<>>
  /\ Leaves("printed")
  /\ UNCHANGED <<cursor, letters, totalWords, wclist, failedAlloc>>

Files == {[found |-> TRUE, text |-> t] : t \in Texts} \cup {[found |-> FALSE, text |-> <<>>]}

WordsNext ==
  \/ \E mode \in {"count", "frequency"}, a, b \in Files :
       \/ StartWords(mode, FALSE, <<a, b>>)
       \/ a.found /\ StartWords(mode, TRUE, <<a>>)
  \/ NoFile \/ Overrun \/ ReadLetter \/ EndWord \/ EntryFails \/ BufferFails \/ NullCompare \/ PrintResult
  \/ \E copied \in BOOLEAN : AddWord(copied)

---------------------------------------------------------------------------
(* hw-list/pwords *)

PwordsInit ==
  /\ tpc = [t \in Counters |-> "none"] /\ todo = [t \in Counters |-> <<>>]
  /\ hit = [t \in Counters |-> 0] /\ mutex = NoOne
  /\ plist = <<>> /\ printed = <<>> /\ given = <<>>

(* main(): one thread per file. *)
CreateThread(t, words) ==
  /\ tpc[t] = "none"
  /\ tpc' = [tpc EXCEPT ![t] = "lock"] /\ todo' = [todo EXCEPT ![t] = words]
  /\ given' = given \o words
  /\ UNCHANGED <<hit, mutex, plist, printed>>

(* Mutant: the list is not locked. *)
AddWordNoLock(t) ==
  /\ tpc[t] = "lock" /\ todo[t] # <<>>
  /\ tpc' = [tpc EXCEPT ![t] = "find"]
  /\ UNCHANGED <<todo, hit, mutex, plist, printed, given>>

AddWordLock(t) ==
  /\ tpc[t] = "lock" /\ todo[t] # <<>> /\ mutex = NoOne
  /\ mutex' = t /\ tpc' = [tpc EXCEPT ![t] = "find"]
  /\ UNCHANGED <<todo, hit, plist, printed, given>>

AddWordFind(t) ==
  /\ tpc[t] = "find" /\ tpc' = [tpc EXCEPT ![t] = "update"]
  /\ hit' = [hit EXCEPT ![t] = FindWord(plist, Head(todo[t]))]
  /\ UNCHANGED <<todo, mutex, plist, printed, given>>

AddWordUpdate(t) ==
  /\ tpc[t] = "update" /\ tpc' = [tpc EXCEPT ![t] = "unlock"]
  /\ plist' = Counted(plist, hit[t], Head(todo[t]))
  /\ todo' = [todo EXCEPT ![t] = Tail(@)]
  /\ UNCHANGED <<hit, mutex, printed, given>>

AddWordUnlock(t) ==
  /\ tpc[t] = "unlock" /\ tpc' = [tpc EXCEPT ![t] = "lock"]
  /\ mutex' = NoOne
  /\ UNCHANGED <<todo, hit, plist, printed, given>>

ThreadReturns(t) ==
  /\ tpc[t] = "lock" /\ todo[t] = <<>> /\ tpc' = [tpc EXCEPT ![t] = "joined"]
  /\ UNCHANGED <<todo, hit, mutex, plist, printed, given>>

(* pthread_join() for all, wordcount_sort() and fprint_words().  less_count()
   is in a library: it orders by count. *)
SortAndPrint ==
  /\ \A t \in Counters : tpc[t] = "joined"
  /\ printed = <<>> /\ plist # <<>>
  /\ printed' = SortSeq(plist, LAMBDA a, b : a.count < b.count)
  /\ UNCHANGED <<tpc, todo, hit, mutex, plist, given>>

PwordsNext ==
  \/ \E t \in Counters :
       \/ \E words \in Loads : CreateThread(t, words)
       \/ AddWordLock(t) \/ AddWordFind(t) \/ AddWordUpdate(t) \/ AddWordUnlock(t)
       \/ ThreadReturns(t)
  \/ SortAndPrint

---------------------------------------------------------------------------
(* The words of a text by their definition: maximal runs of two letters or
   more. *)
WordAt(text, i, j) ==
  /\ j > i /\ \A k \in i..j : Letter[text[k]] # 0
  /\ i > 1 => Letter[text[i - 1]] = 0
  /\ j < Len(text) => Letter[text[j + 1]] = 0
WordSpans(text) == {s \in (1..Len(text)) \X (1..Len(text)) : WordAt(text, s[1], s[2])}
Spelled(text, s) == [k \in 1..(s[2] - s[1] + 1) |-> Letter[text[s[1] + k - 1]]]
Occurs(list, w) == IF FindWord(list, w) = 0 THEN 0 ELSE list[FindWord(list, w)].count
Consistent(list) ==
  \A i, j \in 1..Len(list) : list[i].word = list[j].word => i = j
SumLeft(w) ==
  Cardinality({x \in Counters \X (1..Len(given)) :
                 x[2] <= Len(todo[x[1]]) /\ todo[x[1]][x[2]] = w})

(* What `words' has counted is what it has read: after every word of a single
   input the counts are those of the part read, as long as nothing failed; it
   crashes only if the copy of the first word failed or a file to count is not
   there.  It leaves its buffer only for a word of MAX_WORD_LEN letters or more,
   never when it only counts, and no such word gets onto the list (main.c,
   word_count.c).  `pwords': whatever the interleaving, the list never has a
   word twice, no occurrence is lost or made up, and the list is printed in
   order (word_count_p.c, pwords.c). *)
CountsRight ==
  /\ Reading /\ wordsRun.stdin /\ letters = <<>> /\ ~failedAlloc =>
       LET read == SubSeq(Text, 1, cursor)
           spans == WordSpans(read)
       IN IF wordsRun.mode = "count" THEN totalWords = Cardinality(spans)
          ELSE /\ Consistent(wclist)
               /\ \A i \in 1..Len(wclist) : wclist[i].count =
                    Cardinality({s \in spans : Spelled(read, s) = wclist[i].word})
               /\ \A s \in spans : FindWord(wclist, Spelled(read, s)) # 0
  /\ wordsRun.at = "crashed" =>
       \/ failedAlloc /\ wclist[1].word = NoWord
       \/ wordsRun.mode = "count" /\ ~wordsRun.files[1].found
  /\ wordsRun.at = "overrun" =>
       /\ wordsRun.mode = "frequency"
       /\ \E s \in WordSpans(Text) : (s[2] - s[1]) + 1 >= WordMax
  /\ \A i \in 1..Len(wclist) : Len(wclist[i].word) < WordMax
  /\ Consistent(plist)
  /\ \A w \in ToSet(given) :
       Occurs(plist, w) + SumLeft(w) = Cardinality({k \in 1..Len(given) : given[k] = w})
  /\ printed # <<>> =>
       /\ \A i \in 1..(Len(printed) - 1) : printed[i].count <= printed[i + 1].count
       /\ \A i \in 1..Len(plist) : Occurs(printed, plist[i].word) = plist[i].count
============================================================================
