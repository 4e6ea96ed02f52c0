------------------------------- MODULE JournalTail -------------------------------
(***************************************************************************)
(* The two readers of journal.jsonl: all of it forward, and the last       *)
(* events backward in windows of a fixed size. A file is a sequence of     *)
(* bytes, NL among them; what a line is the event of is a parameter.       *)
(***************************************************************************)
EXTENDS Integers, Sequences, SequencesExt, FiniteSetsExt

CONSTANTS
    NL,
    EventOf(_)      \* the event of a line, as a sequence of one or none

\* The parts of a text between its newlines.
Split(text) ==
    FoldLeft(LAMBDA parts, b : IF b = NL THEN Append(parts, << >>)
                               ELSE [parts EXCEPT ![Len(parts)] = Append(@, b)],
             << << >> >>, text)

\* str::lines: a last newline ends the last line.
Lines(text) ==
    IF text = << >> THEN << >>
    ELSE IF Last(text) = NL THEN Split(Front(text)) ELSE Split(text)

\* The event of a line that is not blank, parses and is selected.
Match(line, kept) == SelectSeq(IF line = << >> THEN << >> ELSE EventOf(line), LAMBDA e : e \in kept)

Matches(lines, kept) == FlattenSeq([i \in DOMAIN lines |-> Match(lines[i], kept)])

\* read, filtered as show does without a limit.
Read(text, kept) == Matches(Lines(text), kept)

-----------------------------------------------------------------------------
(***************************************************************************)
(* The backward reader. Its state: the position it has come to, the piece  *)
(* of a line whose start is still to be read, and the events found, newest *)
(* first.                                                                  *)
(***************************************************************************)
Visited(found, lines, limit, kept) ==
    LET all == found \o Matches(Reverse(lines), kept)
    IN  SubSeq(all, 1, IF Len(all) < limit THEN Len(all) ELSE limit)

\* Mutant of ReadWindow: the piece of a line is not put behind the next window.
ReadWindowTorn(st, text, chunk, limit, kept) ==
    LET take == IF st.pos < chunk THEN st.pos ELSE chunk
        parts == Split(SubSeq(text, st.pos - take + 1, st.pos))
    IN  [pos |-> st.pos - take, carry |-> Head(parts), first |-> FALSE,
         found |-> Visited(st.found, Tail(parts), limit, kept)]

\* One window; only the first one read drops a last newline.
ReadWindow(st, text, chunk, limit, kept) ==
    LET take == IF st.pos < chunk THEN st.pos ELSE chunk
        window == SubSeq(text, st.pos - take + 1, st.pos) \o st.carry
        parts == Split(IF st.first /\ Last(window) = NL THEN Front(window) ELSE window)
    IN  [pos |-> st.pos - take, carry |-> Head(parts), first |-> FALSE,
         found |-> Visited(st.found, Tail(parts), limit, kept)]

\* read_recent. The window in which the limit is reached is the last.
ReadRecent(text, chunk, limit, kept) ==
    LET start == [pos |-> Len(text), carry |-> << >>, first |-> TRUE, found |-> << >>]
        end == FoldLeft(LAMBDA st, w : IF st.pos = 0 \/ Len(st.found) >= limit THEN st
                                       ELSE ReadWindow(st, text, chunk, limit, kept),
                        start, [w \in 1 .. Len(text) |-> w])
    IN  IF limit = 0 \/ text = << >> THEN << >>
        ELSE Reverse(Visited(end.found, <<end.carry>>, limit, kept))

=============================================================================
