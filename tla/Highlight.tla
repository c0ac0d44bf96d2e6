----------------------------- MODULE Highlight -----------------------------
(***************************************************************************)
(* How the viewer turns Lean's text into styled lines                      *)
(* (lhv-viewer/src/lib.rs): one outer code fence is removed, then the      *)
(* events of tree-sitter's highlighter are folded into lines of spans.     *)
(* Characters are abstracted to the ones the code treats apart, and a fence*)
(* of three backticks is one of them.  The highlighter is external.        *)
(***************************************************************************)
EXTENDS Integers, Sequences, SequencesExt

CONSTANTS Markdown,    \* the texts that occur
          MaxNesting   \* highlights within highlights

Char == {"x", "space", "return", "newline", "turnstile", "fence", "tick"}

ASSUME HighlightAssumption == Markdown \subseteq Seq(Char) /\ MaxNesting \in Nat

VARIABLES
  markdown,   \* the text of a goal or of the expected type
  source,     \* without its fence
  taken,      \* the characters of source the events have covered
  lines,      \* finished lines, of spans
  spans,      \* the line under construction
  styles,     \* the stack of styles; "default" at its bottom
  phase       \* "strip", "events", or "done" with its lines complete

highlightVars == <<markdown, source, taken, lines, spans, styles, phase>>

HighlightInit ==
  /\ markdown \in Markdown
  /\ source = <<>> /\ taken = 0
  /\ lines = <<>> /\ spans = <<>> /\ styles = <<"default">>
  /\ phase = "strip"

----------------------------------------------------------------------------
(* Text *)

Indices(text, chars) == {i \in DOMAIN text : text[i] \in chars}
Lowest(indices)  == CHOOSE i \in indices : \A j \in indices : i <= j
Highest(indices) == CHOOSE i \in indices : \A j \in indices : j <= i

\* trim_end_matches and trim.
TrimEnd(text, chars) ==
  LET kept == Indices(text, Char \ chars)
  IN  IF kept = {} THEN <<>> ELSE SubSeq(text, 1, Highest(kept))
Trim(text) ==
  LET kept == Indices(text, Char \ {"space", "return", "newline"})
  IN  IF kept = {} THEN <<>> ELSE SubSeq(text, Lowest(kept), Highest(kept))

Before(text, i) == SubSeq(text, 1, i - 1)
After(text, i)  == SubSeq(text, i + 1, Len(text))
Newlines(text)  == Indices(text, {"newline"})

\* Three backticks and no fourth.
IsOpening(line) ==
  LET trimmed == Trim(line) IN
    /\ trimmed # <<>> /\ trimmed[1] = "fence"
    /\ Len(trimmed) > 1 => trimmed[2] \notin {"fence", "tick"}
IsClosing(line) == Trim(line) = <<"fence">>

\* A slip: a fence that is not closed is removed as well.
StripOuterCodeFenceOpen(text) ==
  LET rest == TrimEnd(After(text, Lowest(Newlines(text))), {"return", "newline"})
      last == Highest(Newlines(rest))
  IN  IF Newlines(text) = {} \/ ~IsOpening(Before(text, Lowest(Newlines(text)))) THEN text
      ELSE IF IsClosing(rest) THEN <<>>
      ELSE IF Newlines(rest) = {} THEN rest
      ELSE Before(rest, last)

\* strip_outer_code_fence
StripOuterCodeFence(text) ==
  LET rest == TrimEnd(After(text, Lowest(Newlines(text))), {"return", "newline"})
      last == Highest(Newlines(rest))
  IN  IF Newlines(text) = {} \/ ~IsOpening(Before(text, Lowest(Newlines(text)))) THEN text
      ELSE IF IsClosing(rest) THEN <<>>
      ELSE IF Newlines(rest) = {} \/ ~IsClosing(After(rest, last)) THEN text
      ELSE Before(rest, last)

\* split('\n')
Split(text) ==
  LET ends == Newlines(text) \cup {Len(text) + 1}
      begin(e) == LET before == {n \in ends : n < e}
                  IN  IF before = {} THEN 1 ELSE Highest(before) + 1
      nth(k) == CHOOSE e \in ends : Cardinality({n \in ends : n <= e}) = k
  IN  [k \in 1..Cardinality(ends) |-> SubSeq(text, begin(nth(k)), nth(k) - 1)]

\* plain_text: one unstyled span to a line.
Span(text, style) == [text |-> text, style |-> style]
PlainText(text) ==
  LET parts == Split(text)
  IN  [k \in DOMAIN parts |-> <<Span(TrimEnd(parts[k], {"return"}), "default")>>]

\* push_plain_operators: each turnstile is a span of its own.
PlainOperators(text) ==
  LET from[i \in 1..(Len(text) + 1)] ==
        LET next == {j \in i..Len(text) : text[j] = "turnstile"}
            raw(j) == IF j > i THEN <<Span(SubSeq(text, i, j - 1), "default")>> ELSE <<>>
        IN  IF next = {} THEN raw(Len(text) + 1)
            ELSE raw(Lowest(next)) \o <<Span(<<"turnstile">>, "operator")>>
                   \o from[Lowest(next) + 1]
  IN  from[1]

\* One part of a line in the style of the moment (push_source).
Spans(part, style) ==
  IF style = "default" THEN PlainOperators(part)
  ELSE IF part = <<>> THEN <<>> ELSE <<Span(part, style)>>

----------------------------------------------------------------------------
(* highlighted_lean *)

Strip ==
  /\ phase = "strip"
  /\ source' = StripOuterCodeFence(markdown)
  /\ phase' = "events"
  /\ UNCHANGED <<markdown, taken, lines, spans, styles>>

\* A slip: the spans of a finished line also begin the next.
SourceEventJoins(n) ==
  LET parts == Split(SubSeq(source, taken + 1, taken + n))
      styled(k) == Spans(TrimEnd(parts[k], {"return"}), Last(styles))
  IN  /\ phase = "events" /\ taken + n <= Len(source)
      /\ taken' = taken + n
      /\ spans' = IF Len(parts) = 1 THEN spans \o styled(1) ELSE spans \o styled(Len(parts))
      /\ lines' = IF Len(parts) = 1 THEN lines
                  ELSE Append(lines, spans \o styled(1))
                         \o [k \in 1..(Len(parts) - 2) |-> styled(k + 1)]
      /\ UNCHANGED <<markdown, source, styles, phase>>

\* HighlightEvent::Source: the next n characters, in the style on top.  Every
\* newline among them ends a line.
SourceEvent(n) ==
  LET parts == Split(SubSeq(source, taken + 1, taken + n))
      styled(k) == Spans(TrimEnd(parts[k], {"return"}), Last(styles))
  IN  /\ phase = "events" /\ taken + n <= Len(source)
      /\ taken' = taken + n
      /\ spans' = IF Len(parts) = 1 THEN spans \o styled(1) ELSE styled(Len(parts))
      /\ lines' = IF Len(parts) = 1 THEN lines
                  ELSE Append(lines, spans \o styled(1))
                         \o [k \in 1..(Len(parts) - 2) |-> styled(k + 1)]
      /\ UNCHANGED <<markdown, source, styles, phase>>

\* A style of its own, or none: the palette does not know every capture.
HighlightStart ==
  /\ phase = "events" /\ taken < Len(source) /\ Len(styles) <= MaxNesting
  /\ \E style \in {"default", "styled"} : styles' = Append(styles, style)
  /\ UNCHANGED <<markdown, source, taken, lines, spans, phase>>

HighlightEnd ==
  /\ phase = "events" /\ Len(styles) > 1
  /\ styles' = Front(styles)
  /\ UNCHANGED <<markdown, source, taken, lines, spans, phase>>

\* No grammar, or an error among the events: the text without colours.
HighlightFails ==
  /\ phase = "events"
  /\ lines' = PlainText(source) /\ phase' = "done"
  /\ UNCHANGED <<markdown, source, taken, spans, styles>>

\* The events are over.
HighlightDone ==
  /\ phase = "events" /\ taken = Len(source) /\ Len(styles) = 1
  /\ lines' = Append(lines, spans) /\ phase' = "done"
  /\ UNCHANGED <<markdown, source, taken, spans, styles>>

HighlightNext ==
  \/ Strip \/ \E n \in 1..Len(source) : SourceEvent(n)
  \/ HighlightStart \/ HighlightEnd \/ HighlightFails \/ HighlightDone

HighlightSpec == HighlightInit /\ [][HighlightNext]_highlightVars

----------------------------------------------------------------------------
(* Properties *)

Text(line) == FlattenSeq([i \in DOMAIN line |-> line[i].text])

\* Lean ends lines with a newline, after a carriage return or not; a carriage
\* return elsewhere may be trimmed where an event ends.
ReturnsEndLines ==
  \A i \in DOMAIN source :
    source[i] = "return" => i = Len(source) \/ source[i + 1] \in {"return", "newline"}

\* However the highlighter cuts the text, the lines shown are those of the text
\* without colours: none lost, split or joined (highlighted_lean, push_source;
\* test highlighted_goal_preserves_text_and_adds_styles).
KeepsText ==
  phase = "done" /\ ReturnsEndLines =>
    [k \in DOMAIN lines |-> Text(lines[k])]
      = [k \in DOMAIN PlainText(source) |-> Text(PlainText(source)[k])]

\* Only a complete outer fence goes, with its two lines and nothing else; any
\* other text stays as it is (strip_outer_code_fence and its test).  Of a fence
\* around blanks nothing is left.
Fenced(text, body) ==
  \E i, j \in Newlines(text) :
    /\ IsOpening(Before(text, i)) /\ \A k \in Newlines(text) : i <= k
    /\ i < j /\ body = SubSeq(text, i + 1, j - 1)
    /\ LET closing == TrimEnd(After(text, j), {"return", "newline"})
       IN  IsClosing(closing) /\ Newlines(closing) = {}
FencedBlank(text) ==
  \E i \in Newlines(text) :
    /\ IsOpening(Before(text, i)) /\ \A k \in Newlines(text) : i <= k
    /\ IsClosing(After(text, i))
Bodies(text) ==
  IF FencedBlank(text) THEN {<<>>}
  ELSE {b \in {SubSeq(text, i, j) : i, j \in 1..Len(text)} : Fenced(text, b)}
FenceGone ==
  phase = "events" =>
    IF Bodies(markdown) = {} THEN source = markdown ELSE source \in Bodies(markdown)
============================================================================
