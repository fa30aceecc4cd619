------------------------------ MODULE IniParser ------------------------------
(***************************************************************************)
(* How the settings of all programs are read (utils/ini_parser.hpp).  A    *)
(* text is a sequence of characters; words stand for themselves.           *)
(***************************************************************************)
EXTENDS Integers, FiniteSetsExt, SequencesExt

Blank == {" "}   \* space and tab
EndOfLine == "\n"

\* The elements of s that pass, in order.
Passing(s, Passes(_)) ==
  FlattenSeq([i \in DOMAIN s |-> IF Passes(s[i]) THEN <<s[i]>> ELSE << >>])

\* The lines of a text; none for what would follow the last end of line.
LinesOfText(text) ==
  LET closed == IF text = << >> \/ Last(text) = EndOfLine THEN text ELSE Append(text, EndOfLine)
      ends == Passing([i \in DOMAIN closed |-> i], LAMBDA i : closed[i] = EndOfLine)
  IN  [k \in DOMAIN ends |->
         SubSeq(text, IF k = 1 THEN 1 ELSE ends[k - 1] + 1, ends[k] - 1)]

\* What init_from_file keeps of a file.
IsKept(line) == line # << >> /\ line[1] # "#"

Context(text) == Passing(LinesOfText(text), IsKept)

\* The first position from i on whose character is, or is not, in Class.
FirstIn(line, i, Class) == Min({j \in i .. Len(line) : line[j] \in Class} \cup {Len(line) + 1})
FirstNotIn(line, i, Class) == Min({j \in i .. Len(line) : line[j] \notin Class} \cup {Len(line) + 1})

\* What a line sets: the word before its first = and the word behind; nothing
\* if either the = or the value is missing.
Setting(line) ==
  LET i == FirstNotIn(line, 1, Blank)
      j == FirstIn(line, i, Blank \cup {"="})
      equals == FirstIn(line, j, {"="})
      v == FirstNotIn(line, equals + 1, Blank)
  IN  IF v > Len(line) THEN << >>
      ELSE <<[attr |-> SubSeq(line, i, j - 1),
              value |-> SubSeq(line, v, FirstIn(line, v, Blank) - 1)]>>

\* Mutant: the value of a word is the last one it is given.
WithSettingLast(result, setting) ==
  [attr \in DOMAIN result \cup {setting.attr} |->
     IF attr = setting.attr THEN setting.value ELSE result[attr]]

\* result.insert: a word that has a value keeps it.
WithSetting(result, setting) ==
  [attr \in DOMAIN result \cup {setting.attr} |->
     IF attr \in DOMAIN result THEN result[attr] ELSE setting.value]

parse(lines) ==
  FoldLeft(WithSetting, [attr \in {} |-> << >>],
           FlattenSeq([k \in DOMAIN lines |-> Setting(lines[k])]))

init_from_file(text) == parse(Context(text))

\* A word that was not set has the empty value.
get_value(result, key) == IF key \in DOMAIN result THEN result[key] ELSE << >>

-----------------------------------------------------------------------------
\* Before the = at e stand blanks, attr, and what follows it behind a blank.
IsNamed(line, e, attr) ==
  \E a \in 1 .. e :
    /\ a + Len(attr) <= e /\ attr = SubSeq(line, a, a + Len(attr) - 1)
    /\ Range(SubSeq(line, 1, a - 1)) \subseteq Blank /\ line[a] \notin Blank
    /\ Range(attr) \cap Blank = {} /\ line[a + Len(attr)] \in Blank \cup {"="}

\* Behind it stand blanks, value, and what follows that behind a blank.
IsGiven(line, e, value) ==
  \E v \in e + 1 .. Len(line) :
    /\ v + Len(value) - 1 <= Len(line) /\ value = SubSeq(line, v, v + Len(value) - 1)
    /\ Range(SubSeq(line, e + 1, v - 1)) \subseteq Blank
    /\ value # << >> /\ Range(value) \cap Blank = {}
    /\ v + Len(value) <= Len(line) => line[v + Len(value)] \in Blank

\* What a line says: nothing if it is empty or a comment, or without an =.
Says(line) ==
  LET pieces == {SubSeq(line, i, j) : i \in DOMAIN line, j \in 0 .. Len(line)}
      equals == {e \in DOMAIN line : line[e] = "=" /\ \A k \in 1 .. e - 1 : line[k] # "="}
  IN  IF ~IsKept(line) THEN {}
      ELSE UNION {{p \in pieces : IsNamed(line, e, p)} \X {p \in pieces : IsGiven(line, e, p)} :
                    e \in equals}

\* Whatever a file holds, a word has the value the first line that sets it says,
\* and no comment, empty line or line without a value sets or hides anything.
ReadsWhatTheFileSays(text) ==
  LET result == init_from_file(text)
      lines == LinesOfText(text)
  IN  /\ DOMAIN result = UNION {{s[1] : s \in Says(lines[k])} : k \in DOMAIN lines}
      /\ \A attr \in DOMAIN result :
           \E k \in DOMAIN lines :
             /\ <<attr, result[attr]>> \in Says(lines[k])
             /\ \A before \in 1 .. k - 1 : \A s \in Says(lines[before]) : s[1] # attr
=============================================================================
