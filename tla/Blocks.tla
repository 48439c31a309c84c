------------------------------- MODULE Blocks -------------------------------
(***************************************************************************)
(* The two layers that turn indentation into blocks.  parser/lex.go, the   *)
(* scanner of ParseFile, measures the white space before a line and keeps  *)
(* a count of DEDENTs it owes; lex/, below the v1 parser, is a scanner of  *)
(* physical tokens under a wrapper that compares columns and queues.  Both *)
(* read the same source to its end, a token at a time.                     *)
(*                                                                         *)
(* A source is a sequence of the characters the layers tell apart: "x" is  *)
(* a name, "s" a space, "t" a tab, "f" a form feed, "n" the end of a line, *)
(* "h" the sign that begins a comment, "b" a backslash, "(" and ")".       *)
(* A token is a kind and, for a name or a bracket, where it is.  Carriage  *)
(* returns and vertical tabs, which the layers do not treat alike, and     *)
(* strings are left out.                                                   *)
(***************************************************************************)
EXTENDS Naturals, Sequences, FiniteSetsExt

CONSTANT Sources  \* the files that are read

Chars == {"x", "s", "t", "f", "n", "h", "b", "(", ")"}

ASSUME SourcesAssumption == Sources \subseteq Seq(Chars)

VARIABLES
    src,    \* the file
    v2,     \* the scanner of parser/: its fields
    out2,   \* the tokens it has emitted
    v1,     \* lex.Scanner and lex.Indent over it: their fields
    out1    \* the tokens the wrapper has emitted

vars == <<src, v2, out2, v1, out1>>

Tok(kind) == <<kind, 0>>
Structure == {Tok("NEWLINE"), Tok("INDENT"), Tok("DEDENT"), Tok("END")}
IsStructure(tok) == tok \in Structure
Tokens == Structure \cup {Tok("error")} \cup (Chars \X Nat)

Top(stack) == stack[Len(stack)]
Pop(stack) == SubSeq(stack, 1, Len(stack) - 1)

\* The character at offset i; 1 is the first.
At(i) == IF i \in 1 .. Len(src) THEN src[i] ELSE "eof"
Continued(i) == At(i) = "b" /\ At(i + 1) = "n"

\* The end of the line that offset i is on.
EndOfLine(i) == Min({j \in i .. Len(src) + 1 : At(j) \in {"n", "eof"}})

\* The offset past a comment, a continued line or a character.
Past(i) ==
    CASE Continued(i) -> i + 2
      [] At(i) = "h" -> EndOfLine(i)
      [] OTHER -> i + 1

\* ( ), [ ] and { }: a closer that nothing opened counts for nothing.
Depth(depth, c) ==
    CASE c = "(" -> depth + 1
      [] c = ")" /\ depth > 0 -> depth - 1
      [] OTHER -> depth

-----------------------------------------------------------------------------
(* parser/lex.go: scanner in statement mode.                               *)

NewStmtScanner ==
    [off |-> 1, stack |-> <<0>>, depth |-> 0, atLineStart |-> TRUE, pending |-> 0,
     eofNewlineDone |-> FALSE, eofDedentsDone |-> FALSE, last |-> "none", state |-> "on"]

\* Where the scanner is in the white space before a line, and the width of what is behind it.
Leading == [off : Nat, width : Nat]
TabStop(w) == w + (8 - (w % 8))
Widened(m) ==
    [off |-> m.off + 1,
     width |-> CASE At(m.off) = "s" -> m.width + 1
                 [] At(m.off) = "t" -> TabStop(m.width)
                 [] OTHER -> 0]
Measure[m \in Leading] == IF At(m.off) \in {"s", "t", "f"} THEN Measure[Widened(m)] ELSE m

\* The first line from offset i on that is not blank, and its indentation.
FirstContent[i \in Nat] ==
    LET m == Measure[[off |-> i, width |-> 0]]
    IN  IF At(m.off) \in {"n", "h"} \/ Continued(m.off) THEN FirstContent[Past(m.off)] ELSE m

\* skipSpace: outside of brackets the end of the line stays where it is.
Place == [off : Nat, depth : Nat]
SkipSpace[p \in Place] ==
    IF \/ At(p.off) \in {"s", "t", "f", "h"} \/ Continued(p.off)
       \/ At(p.off) = "n" /\ p.depth > 0
    THEN SkipSpace[[p EXCEPT !.off = Past(@)]] ELSE p.off

\* How many levels a line of the given width closes: those down to the first that is no wider.
Closes(stack, width) ==
    Cardinality({k \in 2 .. Len(stack) : \A j \in k .. Len(stack) : stack[j] > width})

Emit2(s, tok) == [tok |-> tok, s |-> [s EXCEPT !.last = tok[1]]]
Fail2(s) == [tok |-> Tok("error"), s |-> [s EXCEPT !.state = "failed"]]

EmitDedentAgain(s, pending) == \* mutant: the one that is emitted stays in the count
    Emit2([s EXCEPT !.stack = Pop(@), !.pending = pending + 1], Tok("DEDENT"))
EmitDedent(s, pending) ==
    Emit2([s EXCEPT !.stack = Pop(@), !.pending = pending], Tok("DEDENT"))

NewlineDueFirst(s) == s.last # "NEWLINE" \* mutant: also before any token
NewlineDue(s) == s.last \notin {"none", "NEWLINE"}

\* The end of the file: a NEWLINE if one is missing, the DEDENTs, EOF.
AtEOF(s) ==
    LET nl == [s EXCEPT !.eofNewlineDone = TRUE]
        de == [nl EXCEPT !.eofDedentsDone = TRUE]
    IN  IF ~s.eofNewlineDone /\ NewlineDue(s) THEN Emit2(nl, Tok("NEWLINE"))
        ELSE IF ~s.eofDedentsDone /\ Len(s.stack) > 1 THEN EmitDedent(de, Len(s.stack) - 2)
        ELSE Emit2([de EXCEPT !.state = "ended"], Tok("END"))

\* The last part of nextInternal: the end of the file, an error, or a token.
InLine(s) ==
    CASE At(s.off) = "eof" -> AtEOF(s)
      [] At(s.off) = "b" -> Fail2(s)
      [] OTHER -> Emit2([s EXCEPT !.off = @ + 1, !.depth = Depth(@, At(s.off))],
                        <<At(s.off), s.off>>)

\* The first part, at the start of a line: the line is not blank, and skipSpace stays there.
AtLineStart(s) ==
    LET m == FirstContent[s.off]
        t == [s EXCEPT !.off = m.off]
        begun == [t EXCEPT !.atLineStart = FALSE]
        n == Closes(s.stack, m.width)
    IN  CASE At(m.off) = "eof" -> InLine(t)
          [] At(m.off) # "eof" /\ m.width > Top(s.stack) ->
                Emit2([begun EXCEPT !.stack = Append(@, m.width)], Tok("INDENT"))
          [] At(m.off) # "eof" /\ m.width = Top(s.stack) -> InLine(begun)
          [] At(m.off) # "eof" /\ m.width < Top(s.stack) ->
                IF s.stack[Len(s.stack) - n] # m.width THEN Fail2(begun)
                ELSE EmitDedent(begun, n - 1)

\* After a blank line nextInternal calls itself, and then finds itself at the start of one.
NextInternal(s) ==
    LET t == [s EXCEPT !.off = SkipSpace[[off |-> @, depth |-> s.depth]]]
        line == [t EXCEPT !.off = @ + 1, !.atLineStart = TRUE]
    IN  CASE s.pending > 0 -> EmitDedent(s, s.pending - 1)
          [] s.pending = 0 /\ s.atLineStart /\ s.depth = 0 -> AtLineStart(s)
          [] s.pending = 0 /\ ~(s.atLineStart /\ s.depth = 0) ->
                CASE At(t.off) = "n" /\ NewlineDue(s) -> Emit2(line, Tok("NEWLINE"))
                  [] At(t.off) = "n" /\ ~NewlineDue(s) -> AtLineStart(line)
                  [] At(t.off) # "n" -> InLine(t)

Scan2 ==
    /\ v2.state = "on"
    /\ LET r == NextInternal(v2) IN v2' = r.s /\ out2' = Append(out2, r.tok)
    /\ UNCHANGED <<src, v1, out1>>

-----------------------------------------------------------------------------
(* lex/scanner.go and, over it, lex/indent.go.                             *)

NewIndent ==
    [scan |-> [pos |-> 1, col |-> 0, lineStart |-> TRUE],
     indents |-> <<0>>, pending |-> <<>>, bracket |-> 0, lineStart |-> TRUE, state |-> "on"]

\* Horizontal space and continued lines; the column counts bytes.
Scanner == [pos : Nat, col : Nat, lineStart : BOOLEAN]
Advanced(c) ==
    IF Continued(c.pos) THEN [pos |-> c.pos + 2, col |-> 0, lineStart |-> TRUE]
    ELSE [c EXCEPT !.pos = @ + 1,
                   !.col = IF At(c.pos) = "f" /\ c.lineStart THEN 0 ELSE @ + 1]
SkipBlanks[c \in Scanner] ==
    IF At(c.pos) \in {"s", "t", "f"} \/ Continued(c.pos) THEN SkipBlanks[Advanced(c)] ELSE c

\* Scanner.Scan: the physical token, its column, and the scanner after it.
Scan(c) ==
    LET u == SkipBlanks[c]
        to == Past(u.pos)
    IN  [kind |-> At(u.pos), at |-> u.pos, col |-> u.col,
         scan |-> CASE At(u.pos) = "eof" -> u
                    [] At(u.pos) = "n" -> [pos |-> to, col |-> 0, lineStart |-> TRUE]
                    [] OTHER -> [pos |-> to, col |-> u.col + (to - u.pos), lineStart |-> FALSE]]

Times(n, tok) == [i \in 1 .. n |-> tok]

DequeueAll(t, toks) == \* mutant: the queue is emptied with its first token
    [tok |-> Head(toks), t |-> [t EXCEPT !.pending = <<>>]]
\* The first of toks is returned, the others wait in the queue.
Dequeue(t, toks) == [tok |-> Head(toks), t |-> [t EXCEPT !.pending = Tail(toks)]]
Fail1(t) == [tok |-> Tok("error"), t |-> [t EXCEPT !.state = "failed"]]

NoFinalNewline(t) == <<>> \* mutant: a last line without its end is not closed
FinalNewline(t) == IF t.lineStart THEN <<>> ELSE <<Tok("NEWLINE")>>
FlushAtEnd(t) ==
    Dequeue([t EXCEPT !.lineStart = TRUE, !.indents = <<0>>],
            FinalNewline(t) \o Times(Len(t.indents) - 1, Tok("DEDENT")) \o <<Tok("END")>>)

\* The first token of a logical line goes after the INDENT or the DEDENTs.
FirstOfLine(t, col, tok) ==
    LET n == Closes(t.indents, col)
        kept == SubSeq(t.indents, 1, Len(t.indents) - n)
    IN  CASE col > Top(t.indents) ->
                Dequeue([t EXCEPT !.indents = Append(@, col)], <<Tok("INDENT"), tok>>)
          [] col <= Top(t.indents) /\ Top(kept) # col -> Fail1(t)
          [] col <= Top(t.indents) /\ Top(kept) = col ->
                Dequeue([t EXCEPT !.indents = kept], Times(n, Tok("DEDENT")) \o <<tok>>)

\* The loop of Indent.Next: past the comments, and past the ends of lines that count for nothing.
Reader == [scan : Scanner, ignores : BOOLEAN]
Physical[p \in Reader] ==
    LET tok == Scan(p.scan)
    IN  IF tok.kind = "h" \/ (tok.kind = "n" /\ p.ignores)
        THEN Physical[[p EXCEPT !.scan = tok.scan]] ELSE tok

Logical(t) ==
    LET p == Physical[[scan |-> t.scan, ignores |-> t.bracket > 0 \/ t.lineStart]]
        u == [t EXCEPT !.scan = p.scan, !.bracket = Depth(@, p.kind)]
        begun == [u EXCEPT !.lineStart = FALSE]
        tok == <<p.kind, p.at>>
    IN  CASE p.kind = "b" -> Fail1(u)
          [] p.kind = "eof" -> FlushAtEnd(u)
          [] p.kind = "n" -> [tok |-> Tok("NEWLINE"), t |-> [u EXCEPT !.lineStart = TRUE]]
          [] p.kind \in {"x", "(", ")"} ->
                IF t.lineStart /\ t.bracket = 0 THEN FirstOfLine(begun, p.col, tok)
                ELSE [tok |-> tok, t |-> begun]

\* Indent.Next.
Next1(t) == IF t.pending # <<>> THEN Dequeue(t, t.pending) ELSE Logical(t)

Scan1 ==
    /\ v2.state # "on" /\ v1.state = "on"
    /\ LET r == Next1(v1)
       IN  /\ v1' = IF r.tok = Tok("END") THEN [r.t EXCEPT !.state = "ended"] ELSE r.t
           /\ out1' = Append(out1, r.tok)
    /\ UNCHANGED <<src, v2, out2>>

-----------------------------------------------------------------------------

\* Both layers are put before one of these sources.
Opens(sources) ==
    /\ src \in sources
    /\ v2 = NewStmtScanner /\ out2 = <<>>
    /\ v1 = NewIndent /\ out1 = <<>>
Init == Opens(Sources)

\* The layers share nothing but the source; the order they run in is a choice.
Next == Scan2 \/ Scan1

\* A caller asks for tokens until the end or an error.
Ended == v2.state # "on" /\ v1.state # "on"
Done == Ended /\ UNCHANGED vars

Spec == Init /\ [][Next \/ Done]_vars

TypeOK ==
    /\ src \in Seq(Chars)
    /\ v2.off \in 1 .. Len(src) + 1 /\ v2.pending < Len(v2.stack)
    /\ v1.scan.pos \in 1 .. Len(src) + 1
    /\ out2 \in Seq(Tokens) /\ out1 \in Seq(Tokens)

-----------------------------------------------------------------------------

\* Offsets at which the indentation of some line begins.
LineStarts == {1} \cup {i \in 2 .. Len(src) : src[i - 1] = "n"}

\* The white space at offset i: its width, and its bytes since the last form feed.
Width(i) == Measure[[off |-> i, width |-> 0]].width
Bytes[m \in Leading] ==
    IF At(m.off) \in {"s", "t", "f"}
    THEN Bytes[[off |-> m.off + 1, width |-> IF At(m.off) = "f" THEN 0 ELSE m.width + 1]]
    ELSE m.width
Column(i) == Bytes[[off |-> i, width |-> 0]]

\* Tabs and spaces are mixed only where every tab size gives the same order.
TabConsistent ==
    \A i, j \in LineStarts : Width(i) < Width(j) <=> Column(i) < Column(j)

(***************************************************************************)
(* The layers agree on every source with consistent tabs: on whether it    *)
(* can be read and on every NEWLINE, INDENT and DEDENT, though one counts  *)
(* tab stops and owes DEDENTs and the other counts bytes and queues them.  *)
(* The two parsers are told apart by nothing before the grammar.           *)
(***************************************************************************)
LayersAgree ==
    Ended /\ TabConsistent =>
        IF v2.state = "failed" THEN v1.state = "failed" ELSE out1 = out2

(***************************************************************************)
(* What a layer emits is a sequence of blocks: no more is closed than was  *)
(* opened, all of it is by the end, an INDENT or DEDENT only comes after a *)
(* NEWLINE or another one, and no logical line is empty.                   *)
(***************************************************************************)
Count(out, n, kind) == Cardinality({i \in 1 .. n : out[i] = Tok(kind)})
WellFormed(out) ==
    \A i \in 1 .. Len(out) :
        /\ Count(out, i, "DEDENT") <= Count(out, i, "INDENT")
        /\ out[i] = Tok("END") => Count(out, i, "DEDENT") = Count(out, i, "INDENT")
        /\ out[i] \in {Tok("INDENT"), Tok("DEDENT")} =>
              i = 1 \/ out[i - 1] \in {Tok("NEWLINE"), Tok("DEDENT")}
        /\ out[i] = Tok("NEWLINE") => i > 1 /\ ~IsStructure(out[i - 1])
BlocksWellFormed == WellFormed(out1) /\ WellFormed(out2)

(***************************************************************************)
(* No token is lost or read twice, be it before, in or after brackets,     *)
(* continued lines, comments or pending DEDENTs: when a layer ends, it has *)
(* emitted every name and bracket outside of comments, in order.           *)
(***************************************************************************)
InComment(i) == \E j \in 1 .. i : src[j] = "h" /\ EndOfLine(j) > i
Written ==
    {<<src[i], i>> : i \in {j \in 1 .. Len(src) : src[j] \in {"x", "(", ")"} /\ ~InComment(j)}}
HasAll(out) ==
    LET read == {i \in 1 .. Len(out) : ~IsStructure(out[i])}
    IN  /\ {out[i] : i \in read} = Written
        /\ \A i, j \in read : i < j => out[i][2] < out[j][2]
NoTokenLost ==
    /\ v1.state = "ended" => HasAll(out1)
    /\ v2.state = "ended" => HasAll(out2)
=============================================================================
