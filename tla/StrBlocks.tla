----------------------------- MODULE StrBlocks -----------------------------
(***************************************************************************)
(* Strings cross between Racket and Rust as blocks of words: the length of *)
(* the block, then for one string its bytes' count and the bytes, and for  *)
(* a list the strings' count, one more offset than there are strings, and  *)
(* the bytes of all of them.  Both sides write and read the layout         *)
(* (polars/private/resource.rkt:166-220, rust/src/ffi/strings.rs).         *)
(*                                                                         *)
(* Memory is bytes, so a damaged count makes bytes of offsets and offsets  *)
(* of bytes, as it does in the program.  A byte is less than Base and a    *)
(* word is WordBytes of them.  Byte 0 pads and is a character too, 1 is a  *)
(* character, and 2 starts a character that 3 ends.                        *)
(***************************************************************************)
EXTENDS Integers, Sequences

CONSTANTS
  Texts,      \* the lists of strings that are packed; a string is its bytes
  WordBytes

Base == 4
Outside == Base   \* what a byte past the memory reads as: anything but a byte of it
NullBlock == <<>>      \* the block of no string, and of no strings

\* What one of the b-th byte of a word counts, and the largest word.
Power[b \in 0 .. WordBytes] == IF b = 0 THEN 1 ELSE Base * Power[b - 1]
Largest == Power[WordBytes] - 1

VARIABLES
  pc,       \* "start", "packed", "read", "answered", "heard" or "dropped"
  kind,     \* "one" string or a "list"
  said,     \* the strings Racket packs
  block,    \* the memory of the block that crosses
  damaged,  \* whether a word of it was not written by Racket
  outcome,  \* what Rust reads: the strings, or why the block is refused
  heard,    \* what Racket reads of Rust's answer
  freed     \* the words given back

blockVars == <<pc, kind, said, block, damaged, outcome, heard, freed>>

Refusals == {"Truncated", "FirstOffset", "OutOfOrder", "PastEnd", "NotUtf8"}
BlockRefused(why) == [error |-> why, strings |-> <<>>]
Read(strings) == [error |-> "none", strings |-> strings]

\* The type invariant of the module's state.
BlocksTypeOK ==
  /\ pc \in {"start", "packed", "read", "answered", "heard", "dropped"}
  /\ kind \in {"one", "list"}
  /\ \A i \in DOMAIN block : block[i] \in 0 .. Base - 1
  /\ damaged \in BOOLEAN
  /\ outcome.error \in Refusals \cup {"none"}

-----------------------------------------------------------------------------
(* Words of memory, as both sides number them: from 0.                     *)

Bytes(mem, word, from, to) ==
  [i \in 1 .. to - from |->
     LET at == word * WordBytes + from + i IN IF at \in DOMAIN mem THEN mem[at] ELSE Outside]
ValueOf(bytes) ==
  LET value[b \in 0 .. WordBytes] == IF b = 0 THEN 0 ELSE value[b - 1] + Power[b - 1] * bytes[b]
  IN value[WordBytes]
Word(mem, i) == ValueOf(Bytes(mem, i, 0, WordBytes))
WordOf(n) == [b \in 1 .. WordBytes |-> (n \div Power[b - 1]) % Base]
PaddedWords(bytes) == (bytes + WordBytes - 1) \div WordBytes
Padded(bytes, fill) ==
  bytes \o [i \in 1..(PaddedWords(Len(bytes)) * WordBytes - Len(bytes)) |-> fill]

Utf8(bytes) ==
  \A i \in DOMAIN bytes : /\ bytes[i] # Outside
                          /\ bytes[i] = 2 => i < Len(bytes) /\ bytes[i + 1] = 3
                          /\ bytes[i] = 3 => i > 1 /\ bytes[i - 1] = 2

\* The bytes of the first i strings, and of all of them.
Joined(strings) ==
  LET upTo[i \in 0 .. Len(strings)] == IF i = 0 THEN <<>> ELSE upTo[i - 1] \o strings[i] IN upTo
All(strings) == Joined(strings)[Len(strings)]

\* Fault: a string starts a byte before the one before it ends.
OffsetsShort(strings) ==
  [i \in 1..(Len(strings) + 1) |->
     LET past == Len(Joined(strings)[i - 1]) IN
     IF i = 1 \/ i = Len(strings) + 1 THEN past ELSE past - 1]
\* Where each string starts, and where the last one ends.
Offsets(strings) == [i \in 1..(Len(strings) + 1) |-> Len(Joined(strings)[i - 1])]

Numbers(ns) ==
  [at \in 1 .. Len(ns) * WordBytes |->
     WordOf(ns[((at - 1) \div WordBytes) + 1])[((at - 1) % WordBytes) + 1]]
Block(header, bytes, fill) ==
  Numbers(<<1 + Len(header) + PaddedWords(Len(bytes))>> \o header) \o Padded(bytes, fill)
PackOne(string, fill) == Block(<<Len(string)>>, string, fill)
PackList(strings, fill) ==
  Block(<<Len(strings)>> \o Offsets(strings), All(strings), fill)

\* A string is valid UTF-8, and what is allocated is counted in one word.
Fits(strings) ==
  /\ Len(All(strings)) <= Largest
  /\ 3 + Len(strings) + PaddedWords(Len(All(strings))) <= Largest
ASSUME TextsAssumption ==
  /\ WordBytes \in Nat \ {0}
  /\ \A text \in Texts : /\ text \in Seq(Seq(0 .. Base - 1)) /\ Fits(text)
                         /\ \A i \in DOMAIN text : Utf8(text[i])

\* Racket allocates without clearing, so its padding is anything, and it passes
\* NULL for no string and for an empty list.
StrArgument(k, strings, fill) ==
  IF strings = <<>> THEN NullBlock
  ELSE IF k = "one" THEN PackOne(strings[1], fill) ELSE PackList(strings, fill)
\* `str_out` and `str_list_out` clear; only no string is NULL.
StrOut(strings) == IF strings = <<>> THEN NullBlock ELSE PackOne(strings[1], 0)
StrListOut(strings) == PackList(strings, 0)

-----------------------------------------------------------------------------
(* Rust's readers.  Word 0 is trusted; nothing else is.                    *)

StrArg(mem) ==
  LET words == Word(mem, 0)
      len == Word(mem, 1) IN
  IF mem = NullBlock THEN Read(<<>>)
  ELSE IF words < 2 THEN BlockRefused("Truncated")
  ELSE IF len > (words - 2) * WordBytes THEN BlockRefused("Truncated")
  ELSE IF ~Utf8(Bytes(mem, 2, 0, len)) THEN BlockRefused("NotUtf8")
  ELSE Read(<<Bytes(mem, 2, 0, len)>>)

\* Fault: the last offset is not compared with the room there is.
StrListArgTrusting(mem) ==
  LET count == Word(mem, 1)
      offsets == [i \in 1..(count + 1) |-> Word(mem, 1 + i)] IN
  IF mem = NullBlock THEN Read(<<>>) ELSE Read([i \in 1..count |-> Bytes(mem, count + 3, offsets[i], offsets[i + 1])])

StrListArg(mem) ==
  LET words == Word(mem, 0)
      count == Word(mem, 1)
      data == count + 3
      room == (words - data) * WordBytes
      offsets == [i \in 1..(count + 1) |-> Word(mem, 1 + i)]
      strings == [i \in 1..count |-> Bytes(mem, data, offsets[i], offsets[i + 1])] IN
  IF mem = NullBlock THEN Read(<<>>)
  ELSE IF words < 2 \/ data > words THEN BlockRefused("Truncated")
  ELSE IF offsets[1] # 0 THEN BlockRefused("FirstOffset")
  ELSE IF \E i \in 1..count : offsets[i + 1] < offsets[i] THEN BlockRefused("OutOfOrder")
  ELSE IF offsets[count + 1] > room THEN BlockRefused("PastEnd")
  ELSE IF \E i \in 1..count : ~Utf8(strings[i]) THEN BlockRefused("NotUtf8")
  ELSE Read(strings)

(* Racket's readers trust the whole block.                                 *)

HearOne(mem) == IF mem = NullBlock THEN <<>> ELSE <<Bytes(mem, 2, 0, Word(mem, 1))>>
HearList(mem) ==
  LET count == Word(mem, 1) IN
  [i \in 1..count |-> Bytes(mem, count + 3, Word(mem, 1 + i), Word(mem, 2 + i))]

-----------------------------------------------------------------------------
BlocksInit ==
  /\ pc = "start" /\ kind \in {"one", "list"} /\ said \in Texts
  /\ kind = "one" => Len(said) <= 1
  /\ block = <<>> /\ damaged = FALSE
  /\ outcome = Read(<<>>) /\ heard = <<>> /\ freed = 0

\* Racket writes the block for the length of the call.
Write ==
  /\ pc = "start"
  /\ pc' = "packed" /\ \E fill \in 0 .. Base - 1 : block' = StrArgument(kind, said, fill)
  /\ UNCHANGED <<kind, said, damaged, outcome, heard, freed>>

\* A block some other caller of the C interface wrote: any word but the first,
\* or a first word that says less than the memory holds.
Damage ==
  /\ pc = "packed" /\ ~damaged
  /\ \E i \in 0 .. (Len(block) \div WordBytes - 1), n \in 0 .. Largest :
       /\ n # Word(block, i) /\ (i = 0 => n < Word(block, 0))
       /\ block' = [at \in DOMAIN block |->
                      IF (at - 1) \div WordBytes = i THEN WordOf(n)[((at - 1) % WordBytes) + 1]
                      ELSE block[at]]
  /\ damaged' = TRUE
  /\ UNCHANGED <<pc, kind, said, outcome, heard, freed>>

Decode ==
  /\ pc = "packed"
  /\ pc' = "read"
  /\ outcome' = IF kind = "one" THEN StrArg(block) ELSE StrListArg(block)
  /\ UNCHANGED <<kind, said, block, damaged, heard, freed>>

\* An entry point that returns the names it was given.
Answer ==
  /\ pc = "read" /\ outcome.error = "none"
  /\ pc' = "answered"
  /\ block' = IF kind = "one" THEN StrOut(outcome.strings) ELSE StrListOut(outcome.strings)
  /\ UNCHANGED <<kind, said, damaged, outcome, heard, freed>>

Hear ==
  /\ pc = "answered"
  /\ pc' = "heard" /\ heard' = IF kind = "one" THEN HearOne(block) ELSE HearList(block)
  /\ UNCHANGED <<kind, said, block, damaged, outcome, freed>>

\* `str_block_drop`: the first word is how much to free.
Drop ==
  /\ pc = "heard" /\ block # NullBlock
  /\ pc' = "dropped" /\ freed' = Word(block, 0)
  /\ UNCHANGED <<kind, said, block, damaged, outcome, heard>>

BlocksNext == Write \/ Damage \/ Decode \/ Answer \/ Hear \/ Drop
BlocksSpec == BlocksInit /\ [][BlocksNext]_blockVars

-----------------------------------------------------------------------------
\* What Racket packs Rust reads, whole and in order, empty strings, NULs and
\* characters of several bytes included; Racket reads back what Rust answers;
\* and an answer is freed at the size it was allocated
\* (ffi/strings.rs:105-204, resource.rkt:168-204).
StringsSurvive ==
  /\ outcome.error = "none" /\ pc = "read" /\ ~damaged => outcome.strings = said
  /\ pc = "read" /\ ~damaged => outcome.error = "none"
  /\ pc \in {"heard", "dropped"} => heard = outcome.strings
  /\ pc = "dropped" => freed * WordBytes = Len(block)

\* A block with any one word overwritten is refused, or is read within the
\* memory it claims as strings of valid UTF-8, one after another; it is never
\* read past its end (ffi/strings.rs:93-146).
DamageContained ==
  pc = "read" /\ outcome.error = "none" =>
    block = NullBlock \/
    LET read == All(outcome.strings)
        data == IF kind = "one" THEN 2 ELSE Word(block, 1) + 3 IN
    /\ \A i \in DOMAIN outcome.strings : Utf8(outcome.strings[i])
    /\ data * WordBytes + Len(read) <= Word(block, 0) * WordBytes
    /\ read = Bytes(block, data, 0, Len(read))
=============================================================================
