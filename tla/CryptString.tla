------------------------------ MODULE CryptString ------------------------------
(***************************************************************************)
(* The two codes under which texts travel: crypt and decrypt for what goes *)
(* into the database (utils/crypt_string.cc), escape_url and deescape_url  *)
(* for what comes with a request (utils/escape_url.cc).  Both write every  *)
(* byte that is not allowed as a mark and two hexadecimal digits.  A text  *)
(* is a sequence of bytes, 0 .. 255.                                       *)
(***************************************************************************)
EXTENDS Integers, SequencesExt

Digits == 48 .. 57
Capitals == 65 .. 90
Smalls == 97 .. 122
Alnum == Digits \cup Capitals \cup Smalls

dec2hex_char(n) == IF n <= 9 THEN 48 + n ELSE 65 + n - 10

\* Mutant: the capital letters dec2hex_char writes are not read.
hex_char2dec_small(c) ==
  CASE c \in Digits -> c - 48
    [] c \in 97 .. 102 -> c - 97 + 10
    [] OTHER -> -1

hex_char2dec(c) ==
  CASE c \in Digits -> c - 48
    [] c \in 97 .. 102 -> c - 97 + 10
    [] c \in 65 .. 70 -> c - 65 + 10
    [] OTHER -> -1

Encode(text, allowed, mark) ==
  FlattenSeq([i \in DOMAIN text |->
                IF text[i] \in allowed THEN <<text[i]>>
                ELSE <<mark, dec2hex_char(text[i] \div 16), dec2hex_char(text[i] % 16)>>])

\* The terminator stands behind the text, and behind that whatever it is.
ByteAt(text, i, behind) ==
  CASE i <= Len(text) -> text[i]
    [] i = Len(text) + 1 -> 0
    [] OTHER -> behind

Decode(text, mark, behind) ==
  LET From[i \in 1 .. Len(text) + 3] ==
        IF i > Len(text) THEN << >>
        ELSE IF text[i] # mark THEN <<text[i]>> \o From[i + 1]
        ELSE <<(hex_char2dec(ByteAt(text, i + 1, behind)) * 16
                + hex_char2dec(ByteAt(text, i + 2, behind))) % 256>> \o From[i + 3]
  IN  From[1]

crypt(text) == Encode(text, Alnum, 35)
decrypt(text, behind) == Decode(text, 35, behind)

escape_url(text) == Encode(text, Alnum \cup {47, 46}, 37)
deescape_url(text, behind) == Decode(text, 37, behind)

-----------------------------------------------------------------------------
\* What is stored or sent is read back as it was, whatever bytes it is made of;
\* nothing but letters, digits and # reaches a statement, so no text ends the
\* quotes it is put in (sql_db_operation.hpp).
IsReadBack(text, behind) ==
  /\ decrypt(crypt(text), behind) = text
  /\ deescape_url(escape_url(text), behind) = text
  /\ Range(crypt(text)) \subseteq Alnum \cup {35}

\* A request is decoded as its bytes say unless it ends in the middle of an
\* escape: behind a lone mark the code reads past the terminator.
IsDecodedAsSent(text) ==
  LET IsCutOff == Len(text) >= 1 /\ Last(text) = 37
  IN  \A behind \in {0, 48, 255} :
        deescape_url(text, behind) # deescape_url(text, 0) => IsCutOff
=============================================================================
