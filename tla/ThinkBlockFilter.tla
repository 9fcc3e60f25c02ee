--------------------------- MODULE ThinkBlockFilter ---------------------------
(***************************************************************************)
(* The filter that takes the reasoning of a thinking model out of its      *)
(* answer while the answer is being streamed (ThinkBlockFilter in          *)
(* streaming.py), and what it is meant to leave of a whole text.           *)
(*                                                                         *)
(* A text is a sequence of characters.  A filter is what was held back of  *)
(* the text so far and whether it stands inside a block; `out` is what the *)
(* last feed released.                                                     *)
(***************************************************************************)
EXTENDS Integers, Sequences, SequencesExt

CONSTANTS
  OpenTag,      \* "<think>"
  CloseTag      \* "</think>"

(* No tag can begin inside a tag, since the first character occurs once in *)
(* each, and neither tag is the beginning of the other.                    *)
ASSUME TagAssumption ==
  /\ \A tag \in {OpenTag, CloseTag} :
       /\ tag \in Seq(Range(OpenTag) \cup Range(CloseTag))
       /\ Len(tag) > 0
       /\ \A i \in 2..Len(tag) : tag[i] # OpenTag[1] /\ tag[i] # CloseTag[1]
  /\ ~IsPrefix(OpenTag, CloseTag) /\ ~IsPrefix(CloseTag, OpenTag)

-----------------------------------------------------------------------------
NewFilter == [think |-> FALSE, buffer |-> <<>>, out |-> <<>>]

(* str.find, with all its answers. *)
Occurrences(tag, text) ==
  {i \in 1..Len(text) - Len(tag) + 1 : SubSeq(text, i, i + Len(tag) - 1) = tag}

(* Mutant: a tag is looked for in one chunk at a time. *)
PartialTailNone(tag, text) == 0

(* How much of the end of the text may be the beginning of the tag. *)
PartialTail(tag, text) ==
  Max({n \in 0..Len(tag) - 1 : n <= Len(text) /\ IsSuffix(SubSeq(tag, 1, n), text)})

(* One round of the loop of feed.  It changes nothing any more once the    *)
(* tag it looks for is not in the buffer.                                  *)
Scan(f) ==
  LET tag   == IF f.think THEN CloseTag ELSE OpenTag
      found == Occurrences(tag, f.buffer)
      upto  == IF found = {} THEN Len(f.buffer) - PartialTail(tag, f.buffer)
                             ELSE Min(found) - 1
      skip  == IF found = {} THEN 0 ELSE Len(tag)
  IN  [think  |-> IF found = {} THEN f.think ELSE ~f.think,
       buffer |-> SubSeq(f.buffer, upto + skip + 1, Len(f.buffer)),
       out    |-> IF f.think THEN f.out ELSE f.out \o SubSeq(f.buffer, 1, upto)]

(* The filter after each round, and more rounds than it can need. *)
Rounds(f) ==
  LET after[n \in 0..Len(f.buffer)] == IF n = 0 THEN f ELSE Scan(after[n - 1])
  IN  after

Feed(f, text) ==
  LET start == [think |-> f.think, buffer |-> f.buffer \o text, out |-> <<>>]
  IN  Rounds(start)[Len(start.buffer)]

(* Mutant: what is held back when the text ends is forgotten. *)
FlushNothing(f) == <<>>

(* The text has ended: what was held back was no tag after all. *)
Flush(f) == IF f.think THEN <<>> ELSE f.buffer

(* strip_think_blocks: the same for a text that is there at once. *)
StripThinkBlocks(text) ==
  LET f == Feed(NewFilter, text) IN f.out \o Flush(f)

-----------------------------------------------------------------------------
(* What is meant to be visible of a whole text, character by character and *)
(* without a buffer.                                                       *)
EndsAt(tag, text, i) ==
  i >= Len(tag) /\ SubSeq(text, i - Len(tag) + 1, i) = tag

(* Whether the i-th character ends inside a block. *)
Inside(text) ==
  LET inside[i \in 0..Len(text)] ==
        IF i = 0 THEN FALSE
        ELSE IF inside[i - 1] THEN ~EndsAt(CloseTag, text, i)
        ELSE EndsAt(OpenTag, text, i)
  IN  inside

Opens(text, i) == Inside(text)[i] /\ ~Inside(text)[i - 1]

(* A character is visible when it lies outside and is no part of a tag     *)
(* that opens a block.                                                     *)
Shows(text, i) ==
  /\ ~Inside(text)[i - 1]
  /\ \A j \in i..Len(text) : Opens(text, j) => j - Len(OpenTag) >= i

(* What is visible of the first characters of the text. *)
Seen(text) ==
  LET seen[i \in 0..Len(text)] ==
        IF i = 0 THEN <<>>
        ELSE IF Shows(text, i) THEN Append(seen[i - 1], text[i])
        ELSE seen[i - 1]
  IN  seen

Visible(text) == Seen(text)[Len(text)]
=============================================================================
