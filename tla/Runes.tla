--------------------------------- MODULE Runes ---------------------------------
(***************************************************************************)
(* How cppjieba decodes a text into runes (utils/cppjieba/Unicode.hpp) and *)
(* cuts the string of a word out of it.  A byte is the number of bytes a   *)
(* character has that begins with it: 1 below 0x80, 2 up to 0xdf, which    *)
(* takes in the bytes that never begin one, 3 up to 0xef, 4 up to 0xf7,    *)
(* and 5 for the rest.                                                     *)
(***************************************************************************)
EXTENDS Integers, FiniteSetsExt, SequencesExt

\* The length of the rune at the front of rest bytes, 0 if it is not all there.
DecodeRune(byte, rest) == IF byte <= 4 /\ byte <= rest THEN byte ELSE 0

\* The runes of a text, by offset and length; none if any of it is malformed.
DecodeRunes(bytes) ==
  LET n == Len(bytes)
      Decoded[i \in 0 .. n] ==   \* the sets of runes of the text from i on, if it has any
        LET len == DecodeRune(bytes[i + 1], n - i)
        IN  IF i = n THEN {<< >>}
            ELSE IF len = 0 THEN {}
            ELSE {<<[offset |-> i, len |-> len]>> \o runes : runes \in Decoded[i + len]}
  IN  IF Decoded[0] = {} THEN << >> ELSE CHOOSE runes \in Decoded[0] : TRUE

\* Mutant: the bytes of the last rune are not counted.
GetWordFromRunesShort(runes, left, right) ==
  [offset |-> runes[left].offset, len |-> runes[right].offset - runes[left].offset]

\* The word of the runes left .. right, by the offset and length of its bytes.
GetWordFromRunes(runes, left, right) ==
  [offset |-> runes[left].offset,
   len |-> runes[right].offset - runes[left].offset + runes[right].len]

\* substr(0, size).
Cut(bytes, size) == SubSeq(bytes, 1, IF size < Len(bytes) THEN size ELSE Len(bytes))

-----------------------------------------------------------------------------
(* A text, given by the lengths of its characters, as it ought to decode.  *)

Encoded(text) ==
  FlattenSeq([k \in DOMAIN text |-> [i \in 1 .. text[k] |-> IF i = 1 THEN text[k] ELSE 2]])

Bytes(text, l, r) == FoldLeft(LAMBDA n, width : n + width, 0, SubSeq(text, l, r))

OffsetOf(text, k) == Bytes(text, 1, k - 1)

\* A sentence is cut after MAX_SEARCH_SENTENCE_SIZE bytes
\* (plain_search_strategy.hpp:47).  Where that is between two characters the
\* search goes on with those in front; where it is inside one the whole
\* sentence decodes to nothing.  The words made of its runes lie in its bytes
\* where the characters do.
CutDecodesWholeOrNot(text, size) ==
  LET bytes == Cut(Encoded(text), size)
      runes == DecodeRunes(bytes)
      whole == {k \in 0 .. Len(text) : OffsetOf(text, k + 1) = Len(bytes)}
  IN  /\ whole = {} => runes = << >>
      /\ \A n \in whole :
           /\ Len(runes) = n
           /\ \A l \in 1 .. n : \A r \in l .. n :
                GetWordFromRunes(runes, l, r)
                  = [offset |-> OffsetOf(text, l), len |-> Bytes(text, l, r)]

\* Bytes in any order either all decode, each in one rune, or none does.
RunesAreTheBytes(bytes) ==
  LET runes == DecodeRunes(bytes)
  IN  runes # << >> =>
        /\ runes[1].offset = 0
        /\ \A k \in 1 .. Len(runes) - 1 :
             runes[k + 1].offset = runes[k].offset + runes[k].len
        /\ Last(runes).offset + Last(runes).len = Len(bytes)
=============================================================================
