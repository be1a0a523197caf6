------------------------------ MODULE TextEdit ------------------------------
(***************************************************************************)
(* Reading a source file page by page and replacing lines of it by their   *)
(* numbers (edit.rs, read_source and replace_lines).  A text is its lines, *)
(* each with its characters and whether a carriage return is its last, and *)
(* whether a newline ends the last line.  That the file is still the text  *)
(* the numbers are of is SourceWrite's.                                    *)
(***************************************************************************)
EXTENDS Integers, Sequences, SequencesExt

CONSTANTS
  Words,       \* what a line may say besides nothing
  MaxLines,    \* bound: lines of a text or a replacement
  PageLines    \* MAX_PAGE_LINES

ASSUME PageAssumption == MaxLines \in Nat /\ PageLines \in Nat \ {0}

VARIABLES
  source,      \* the file
  read,        \* the lines a client has read, page by page
  edited,      \* the file after its edit
  edit         \* the edit: first line, last line, replacement

textVars == <<source, read, edited, edit>>

Empty == ""
Lines == [says : Words \cup {Empty}, cr : BOOLEAN]
Blank == [says |-> Empty, cr |-> FALSE]

\* Writing lines and splitting them again: an empty last line without its
\* newline is not there, the newline before it then ends the text.
Written(lines, final) ==
  IF lines = <<>> THEN [lines |-> <<>>, final |-> FALSE]
  ELSE IF final \/ Last(lines) # Blank THEN [lines |-> lines, final |-> final]
  ELSE [lines |-> Front(lines), final |-> Len(lines) > 1]

TextsOf(n) == {Written(lines, final) : lines \in BoundedSeq(Lines, n), final \in BOOLEAN}
NoEdit == [first |-> 1, last |-> 0, by |-> Written(<<>>, FALSE)]

TextInit ==
  /\ source \in TextsOf(MaxLines)
  /\ read = <<>>
  /\ edited = source /\ edit = NoEdit

----------------------------------------------------------------------------
\* `Lines::of`: the lines that end with a newline, and whether all do so with a CR.
Ended(t)  == IF t.final THEN 1..Len(t.lines) ELSE 1..Len(t.lines) - 1
IsCrlf(t) == Ended(t) # {} /\ \A i \in Ended(t) : t.lines[i].cr

\* `bare`: the lines of a CRLF file without their CR.
Bare(lines, crlf) == [i \in DOMAIN lines |-> IF crlf THEN [lines[i] EXCEPT !.cr = FALSE] ELSE lines[i]]

\* A page ends at the line asked for, at the last line, or when it is full.
PageEnd(first, last, total) ==
  IF last < total /\ last < first + PageLines - 1 THEN last
  ELSE IF total < first + PageLines - 1 THEN total ELSE first + PageLines - 1

\* `read_source`, by a client that asks for the page after the last it got.
ReadPage(last) ==
  LET first == Len(read) + 1
      total == Len(source.lines)
      end   == PageEnd(first, last, total)
  IN /\ edited = source
     /\ (total > 0 => first <= total) /\ end >= first - 1
     /\ read' = read \o SubSeq(source.lines, first, end)
     /\ UNCHANGED <<source, edited, edit>>

\* Mutant: lines are joined with a newline whatever the file's ending.
JoinedPlainly(lines, crlf, final) == lines

\* Every line that a newline follows gets the file's ending.
Joined(lines, crlf, final) ==
  [i \in DOMAIN lines |-> IF crlf /\ (final \/ i < Len(lines)) THEN [lines[i] EXCEPT !.cr = TRUE] ELSE lines[i]]

Spliced(lines, first, last, by) ==
  SubSeq(lines, 1, first - 1) \o by \o SubSeq(lines, last + 1, Len(lines))

InRange(first, last, total) == first \in 1..total + 1 /\ last \in first - 1..total

\* `replace_lines`: last = first - 1 inserts before the first.
ReplaceLines(first, last, by) ==
  /\ edited = source
  /\ InRange(first, last, Len(source.lines))
  /\ LET crlf  == IsCrlf(source)
         lines == Spliced(Bare(source.lines, crlf), first, last, Bare(by.lines, crlf))
     IN edited' = Written(Joined(lines, crlf, source.final), source.final)
  /\ edit' = [first |-> first, last |-> last, by |-> by]
  /\ UNCHANGED <<source, read>>

TextNext ==
  \/ \E last \in 0..MaxLines + 1 : ReadPage(last)
  \/ \E first, last \in 0..MaxLines + 1, by \in TextsOf(1) : ReplaceLines(first, last, by)

TextSpec == TextInit /\ [][TextNext]_textVars

----------------------------------------------------------------------------
\* The line as an editor shows it: without the CR of a CRLF file's ending.
Shown(t) == Bare(t.lines, IsCrlf(t))

(* Line numbers mean what they say: page after page a client has read every
   line once, in order, and replacing lines touches no other line, writes the
   lines given and keeps the file's line ending, at either end of the file too
   (edit.rs, read_source and replace_lines).  Excepted are an empty line put
   last in a file without a final newline and a stray CR at the very end of a
   CRLF file. *)
LineNumbersHold ==
  LET crlf  == IsCrlf(source)
      asked == SubSeq(Shown(source), 1, edit.first - 1) \o Bare(edit.by.lines, crlf)
               \o SubSeq(Shown(source), edit.last + 1, Len(source.lines))
  IN /\ IsPrefix(read, source.lines)
     /\ (edited # source /\ asked # <<>> /\ (source.final \/ Last(asked) # Blank)) =>
          /\ edited.final = source.final
          /\ Bare(edited.lines, crlf) = asked
          /\ \A i \in Ended(edited) : crlf => edited.lines[i].cr
=============================================================================
