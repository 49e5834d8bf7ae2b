--------------------------- MODULE PrecisionText ---------------------------
(***************************************************************************)
(* The text algorithms of the precision file tools: how a file is cut into *)
(* lines, how a range is read or replaced, how text is appended, and how a *)
(* search is bounded.  The characters are "a" and "b" (any that end no     *)
(* line), "n" (line feed), "r" (carriage return) and "f" (any other at     *)
(* which str.splitlines cuts: form feed, next line, line separator, ...);  *)
(* "r" "n" is one line end.                                                *)
(***************************************************************************)
EXTENDS Naturals, FiniteSets, Sequences, SequencesExt

CONSTANTS
    Chars,        \* characters of the first text
    MaxLen,       \* length of the first text
    MaxEdits,     \* edits made of it
    Replacements, \* texts that replace a range
    Additions,    \* texts that are appended
    Ensure,       \* values of ensure_trailing_newline in use
    MaxFiles,     \* file limit of a search
    MaxMatches    \* match limit of a search

TextAssumption ==
    /\ Chars \subseteq {"a", "n", "r", "f"} /\ Ensure \subseteq BOOLEAN
    /\ MaxLen \in Nat /\ MaxEdits \in Nat /\ MaxFiles \in Nat /\ MaxMatches \in Nat

VARIABLES
    text,         \* the file's text
    last,         \* the last edit: its kind, input, result and the range it reported
    edits         \* edits made

vars == <<text, last, edits>>
-----------------------------------------------------------------------------
(* Lines.                                                                   *)

\* A line ends at each line feed, and at each carriage return no line feed follows.
Newlines(t) ==
    {i \in DOMAIN t : t[i] = "n" \/ (t[i] = "r" /\ ~(i < Len(t) /\ t[i + 1] = "n"))}

LineEnds(t) == Newlines(t) \cup {i \in DOMAIN t : t[i] = "f"}

\* Characters of the line end at position i.
EndWidth(t, i) == IF t[i] = "n" /\ i > 1 /\ t[i - 1] = "r" THEN 2 ELSE 1

EndsWithNewline(t) == t # <<>> /\ Last(t) \in {"n", "r"}

\* The lines without their ends; a final line end opens no line.
SplitLines(t) ==
    LET ends == SelectSeq([i \in DOMAIN t |-> i], LAMBDA i : i \in LineEnds(t))
        from(k) == IF k = 1 THEN 1 ELSE ends[k - 1] + 1
        closed == [k \in DOMAIN ends |-> SubSeq(t, from(k), ends[k] - EndWidth(t, ends[k]))]
        rest == SubSeq(t, from(Len(ends) + 1), Len(t))
    IN  IF rest = <<>> THEN closed ELSE Append(closed, rest)

Slice(s, first, upto) == SubSeq(s, first, IF upto > Len(s) THEN Len(s) ELSE upto)

JoinedLines(lines, newline) ==
    FlattenSeq([k \in DOMAIN lines |-> IF k = 1 THEN lines[k] ELSE newline \o lines[k]])

JoinLines(lines, newline, final) ==
    LET joined == JoinedLines(lines, newline)
    IN  IF final /\ joined # <<>> THEN joined \o newline ELSE joined

\* The most frequent line end; CRLF wins a tie, then LF.
DominantNewline(t) ==
    LET ends == Newlines(t)
        crlf == Cardinality({i \in ends : EndWidth(t, i) = 2})
        lf == Cardinality({i \in ends : t[i] = "n" /\ EndWidth(t, i) = 1})
        cr == Cardinality({i \in ends : t[i] = "r"})
    IN  IF crlf >= lf /\ crlf >= cr /\ crlf > 0 THEN <<"r", "n">>
        ELSE IF cr > lf THEN <<"r">> ELSE <<"n">>

\* Line feeds and carriage returns become newline; the other line ends stay.
NormalizeNewlines(t, newline) ==
    FlattenSeq([i \in DOMAIN t |-> IF i \in Newlines(t) THEN newline
                                  ELSE IF t[i] = "r" THEN <<>> ELSE <<t[i]>>])
-----------------------------------------------------------------------------
(* Edits.                                                                   *)

Cut(lines, first, upto, new) ==
    SubSeq(lines, 1, first - 1) \o new \o Slice(lines, upto + 1, Len(lines))

ReplaceRange(t, first, upto, r) ==
    LET new == SplitLines(NormalizeNewlines(r, <<"n">>))
        final == first + Len(new) - 1
    IN  [text |-> JoinLines(Cut(SplitLines(t), first, upto, new), DominantNewline(t),
                            EndsWithNewline(t)),
         from |-> first,
         to |-> IF final < first THEN first ELSE final]

AppendText(t, c, ensure) ==
    LET newline == DominantNewline(t)
        added == NormalizeNewlines(c, newline)     \* c # <<>>, so it has a line
        separator == IF ensure /\ t # <<>> /\ ~EndsWithNewline(t) THEN newline ELSE <<>>
    IN  [text |-> t \o separator \o added,
         from |-> Len(SplitLines(t)) + 1,
         to |-> Len(SplitLines(t)) + Len(SplitLines(added))]
-----------------------------------------------------------------------------
(* Reads and searches.                                                      *)

ReadRange(lines, start, count) ==
    [lines |-> Slice(lines, start, start + count - 1), truncated |-> start + count - 1 < Len(lines)]

\* Files are visited in order until one of the limits is reached; counts are the matches of each.
Search(counts) ==
    LET upTo(k) == FoldLeft(+, 0, Slice(counts, 1, k))
        full == {k \in 1..Len(counts) : k <= MaxFiles /\ upTo(k) >= MaxMatches}
    IN  [matches |-> IF full # {} THEN MaxMatches
                     ELSE upTo(IF Len(counts) > MaxFiles THEN MaxFiles ELSE Len(counts)),
         truncated |-> full # {} \/ Len(counts) > MaxFiles]
-----------------------------------------------------------------------------
(* A file that is edited again and again.                                   *)

None == [kind |-> "none", before |-> <<>>, input |-> <<>>, first |-> 1, upto |-> 0, from |-> 1,
         to |-> 0]

Init ==
    /\ text \in UNION {[1..n -> Chars] : n \in 0..MaxLen}
    /\ last = None
    /\ edits = 0

Replace ==
    /\ edits < MaxEdits
    /\ \E first \in 1..Len(SplitLines(text)), r \in Replacements :
       \E upto \in first..Len(SplitLines(text)) :
        LET e == ReplaceRange(text, first, upto, r)
        IN  /\ text' = e.text
            /\ last' = [kind |-> "replace", before |-> text, input |-> r, first |-> first,
                        upto |-> upto, from |-> e.from, to |-> e.to]
    /\ edits' = edits + 1

Add ==
    /\ edits < MaxEdits
    /\ \E c \in Additions, ensure \in Ensure :
        LET e == AppendText(text, c, ensure)
        IN  /\ text' = e.text
            /\ last' = [kind |-> IF ensure THEN "append" ELSE "append as it is", before |-> text, input |-> c,
                        first |-> Len(SplitLines(text)) + 1, upto |-> Len(SplitLines(text)),
                        from |-> e.from, to |-> e.to]
    /\ edits' = edits + 1

Next == Replace \/ Add

Spec == Init /\ [][Next]_vars
-----------------------------------------------------------------------------
(* Properties.                                                              *)

before == SplitLines(last.before)
after == SplitLines(text)
given == SplitLines(last.input)
Replaced == last.kind = "replace"
Appended == last.kind \in {"append", "append as it is"}

\* The lines a replacement asks for, and whether the last one is blank with no line end to show
\* it: such a line is lost when the lines are joined.
Wanted == Cut(before, last.first, last.upto, given)
BlankLost ==
    /\ Wanted # <<>> /\ Last(Wanted) = <<>>
    /\ ~EndsWithNewline(last.before) \/ Len(Wanted) = 1

\* Exactly the lines of the range change, to the lines of the input, whatever mix of line ends the
\* file and the input have, but for a blank last line (_replace_range_once); an append leaves
\* every line but the last as it is, and of the last one its beginning (_append_once).
OnlyTheRangeChanges ==
    /\ Replaced => after = IF BlankLost THEN Front(Wanted) ELSE Wanted
    /\ Appended /\ before # <<>> =>
          /\ Front(before) = Slice(after, 1, Len(before) - 1)
          /\ IsPrefix(Last(before), after[Len(before)])

\* A file with one kind of newline keeps that kind, also when an edit brings another.
NewlineKept ==
    \A kind \in {<<"n">>, <<"r">>, <<"r", "n">>} :
        LET uses(t) == \A i \in Newlines(t) :
                          Slice(t, i + 1 - EndWidth(t, i), i) = kind
        IN  (last.kind # "none" /\ Newlines(last.before) # {} /\ uses(last.before)) => uses(text)

\* A replacement keeps the file's final newline, or its absence, unless the file is emptied or
\* gets a blank last line.
FinalNewlineKept ==
    (Replaced /\ text # <<>> /\ ~BlankLost) =>
        EndsWithNewline(text) = EndsWithNewline(last.before)

\* The text appended starts a line: the file was empty, or ended in a newline that does not make
\* one line end with what comes, or in a letter and a newline was put in between.
StartsLine ==
    \/ last.before = <<>>
    \/ /\ EndsWithNewline(last.before)
       /\ ~(Last(last.before) = "r" /\ text[Len(last.before) + 1] = "n")
    \/ last.kind = "append" /\ Last(last.before) \notin {"n", "r", "f"}
    \/ last.kind = "append as it is" /\ Last(last.before) = "f"

\* "Every mutating operation records ... changed line ranges": the reported range holds the lines
\* the edit wrote, if it wrote one and an append started a line of its own.  Otherwise it may be a
\* line off, or name a line the file does not have.
RangeHoldsEdit ==
    \/ Replaced /\ given # <<>> /\ ~BlankLost
    \/ Appended /\ StartsLine
    => Slice(after, last.from, last.to) = given

\* A read that says it is not truncated has shown the file up to its last line.
ReadIsComplete ==
    \A start \in 1..(Len(SplitLines(text)) + 1), count \in 1..3 :
        LET lines == SplitLines(text)
            r == ReadRange(lines, start, count)
        IN  ~r.truncated => r.lines = Slice(lines, start, Len(lines))

\* A search that says it is not truncated has found every match, and it never passes its limit; the
\* files hold as many matches as the text has lines.
SearchIsComplete ==
    \A files \in 0..(MaxFiles + 1) :
        LET counts == [k \in 1..files |-> Len(SplitLines(text)) % 3]
            s == Search(counts)
        IN  /\ s.matches <= MaxMatches
            /\ ~s.truncated => s.matches = FoldLeft(+, 0, counts)

\* Edits, reads and searches of a text do what they report.
TextSound ==
    /\ OnlyTheRangeChanges /\ NewlineKept /\ FinalNewlineKept /\ RangeHoldsEdit
    /\ ReadIsComplete /\ SearchIsComplete
=============================================================================
