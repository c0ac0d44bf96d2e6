------------------------------- MODULE Codec -------------------------------
(***************************************************************************)
(* The frame codec (lhv-lsp/src/codec.rs): read_frame on a byte stream that*)
(* arrives piece by piece and may end anywhere, in the loop of its callers,*)
(* which write every frame on as it came.  A symbol is a run of bytes that *)
(* read_frame treats alike, and Content-Length counts symbols.             *)
(***************************************************************************)
EXTENDS Naturals, Sequences, SequencesExt

CONSTANTS Lengths,     \* the values of Content-Length in a foreign stream
          Bodies,      \* the bodies of messages of our own
          MaxStream,   \* symbols of a foreign stream
          MaxSent,     \* messages of a stream of our own
          None         \* no Content-Length yet

ASSUME CodecAssumption ==
  Lengths \subseteq Nat /\ MaxStream \in Nat /\ MaxSent \in Nat /\ None \notin Nat

\* "Content-Length: n", another header's name and value, text without a colon,
\* a line feed, a carriage return, and bytes that are not UTF-8.
Plain  == {"header", "text", "newline", "return", "bad"}
Symbol == [kind : {"length"}, n : Nat] \cup [kind : Plain, n : {0}]
Sym(kind) == [kind |-> kind, n |-> 0]
Length(n) == [kind |-> "length", n |-> n]
ForeignSymbol == {Length(n) : n \in Lengths} \cup {Sym(kind) : kind \in Plain}

ASSUME BodiesAssumption == Bodies \subseteq Seq(Symbol)

VARIABLES
  got,     \* history: everything written to the stream
  sent,    \* history: the bodies of our messages, on a stream of our own
  closed,  \* the writer has closed the stream
  wire,    \* what the reader has not taken yet
  raw,     \* read_frame: the bytes of the frame so far
  length,  \* read_frame: content_length
  state,   \* header lines, body; or the result that ended the loop
  out,     \* what the caller wrote on
  bodies   \* history: the bodies of the frames it read

vars == <<got, sent, closed, wire, raw, length, state, out, bodies>>

Init == /\ got = <<>> /\ sent = <<>> /\ closed = FALSE
        /\ wire = <<>> /\ raw = <<>> /\ length = None /\ state = "head"
        /\ out = <<>> /\ bodies = <<>>

Running == state \in {"head", "body"}

----------------------------------------------------------------------------
(* The writing end. *)

\* Helix or Lean: any bytes, in pieces of any size.
Arrive(s) ==
  /\ ~closed /\ Running /\ sent = <<>> /\ Len(got) < MaxStream
  /\ got' = Append(got, s) /\ wire' = Append(wire, s)
  /\ UNCHANGED <<sent, closed, raw, length, state, out, bodies>>

\* A slip: the length counts the separator as well.
FromBodyCounts(body) == <<Length(Len(body) + 1), Sym("newline"), Sym("newline")>> \o body

\* Frame::from_body: the canonical header and the body.
FromBody(body) == <<Length(Len(body)), Sym("newline"), Sym("newline")>> \o body

\* The other end of a stream of our own (the viewer socket).
Write(body) ==
  /\ ~closed /\ Running /\ Len(sent) < MaxSent
  /\ sent = <<>> => got = <<>>
  /\ sent' = Append(sent, body)
  /\ got' = got \o FromBody(body) /\ wire' = wire \o FromBody(body)
  /\ UNCHANGED <<closed, raw, length, state, out, bodies>>

Close ==
  /\ ~closed /\ closed' = TRUE
  /\ UNCHANGED <<got, sent, wire, raw, length, state, out, bodies>>

----------------------------------------------------------------------------
(* read_frame, and its caller's loop. *)

inputs == <<got, sent, closed>>

\* Err ends the caller's loop, and the frame read so far is dropped.
Fail == /\ state' = "failed"
        /\ UNCHANGED <<inputs, wire, raw, length, out, bodies>>

\* The first n symbols are what read_line returns: a line, or what is left at
\* the end of the stream.
EndsLine(n) ==
  /\ wire[n].kind = "newline" \/ (closed /\ n = Len(wire))
  /\ \A i \in 1..(n - 1) : wire[i].kind # "newline"

\* A line without its line feed and carriage returns: those at its end are
\* trimmed, those before the name too, and others change no outcome.
Content(line) == {i \in DOMAIN line : line[i].kind \notin {"newline", "return"}}
IsBlank(line) == Content(line) = {}
HasColon(line) == \E i \in Content(line) : line[i].kind \in {"header", "length"}

\* Where a line whose name is content-length has its value.
LengthAt(line) ==
  {i \in Content(line) :
     line[i].kind = "length" /\ \A j \in Content(line) : i <= j}
HasLength(line) == LengthAt(line) # {}

\* Lines that end the loop with an error: not UTF-8, no colon, a
\* Content-Length that is no number, a blank line before any Content-Length.
Malformed(line) ==
  \/ \E i \in DOMAIN line : line[i].kind = "bad"
  \/ ~IsBlank(line) /\ ~HasColon(line)
  \/ HasLength(line) /\ \E i, j \in Content(line) : i # j
  \/ IsBlank(line) /\ length = None

\* Slips: other headers are not kept; the first Content-Length counts.
TakeLineDrops(n) ==
  LET line == SubSeq(wire, 1, n) IN
    /\ ~Malformed(line)
    /\ raw' = IF IsBlank(line) \/ HasLength(line) THEN raw \o line ELSE raw
    /\ wire' = SubSeq(wire, n + 1, Len(wire))
    /\ \/ \E i \in LengthAt(line) : length' = line[i].n
       \/ ~HasLength(line) /\ UNCHANGED length
    /\ state' = IF IsBlank(line) THEN "body" ELSE "head"
    /\ UNCHANGED <<inputs, out, bodies>>
TakeLineFirst(n) ==
  LET line == SubSeq(wire, 1, n) IN
    /\ ~Malformed(line)
    /\ raw' = raw \o line
    /\ wire' = SubSeq(wire, n + 1, Len(wire))
    /\ \/ length = None /\ \E i \in LengthAt(line) : length' = line[i].n
       \/ ~HasLength(line) /\ UNCHANGED length
       \/ length # None /\ UNCHANGED length
    /\ state' = IF IsBlank(line) THEN "body" ELSE "head"
    /\ UNCHANGED <<inputs, out, bodies>>

\* A header line is kept as it came; a blank one ends the header block.
TakeLine(n) ==
  LET line == SubSeq(wire, 1, n) IN
    /\ ~Malformed(line)
    /\ raw' = raw \o line
    /\ wire' = SubSeq(wire, n + 1, Len(wire))
    /\ \/ \E i \in LengthAt(line) : length' = line[i].n
       \/ ~HasLength(line) /\ UNCHANGED length
    /\ state' = IF IsBlank(line) THEN "body" ELSE "head"
    /\ UNCHANGED <<inputs, out, bodies>>

ReadLine ==
  /\ state = "head"
  /\ \E n \in 1..Len(wire) :
       /\ EndsLine(n)
       /\ \/ TakeLine(n)
          \/ Malformed(SubSeq(wire, 1, n)) /\ Fail

\* A slip: the end of the stream is always clean.
EndOfStreamLenient ==
  /\ state = "head" /\ closed /\ wire = <<>>
  /\ state' = "end"
  /\ UNCHANGED <<inputs, wire, raw, length, out, bodies>>

\* read_line returns 0 bytes: clean only between frames.
EndOfStream ==
  /\ state = "head" /\ closed /\ wire = <<>>
  /\ \/ /\ raw = <<>> /\ state' = "end"
        /\ UNCHANGED <<inputs, wire, raw, length, out, bodies>>
     \/ raw # <<>> /\ Fail

\* A slip: one byte more than the body is awaited.
ReadBodyWaits ==
  /\ state = "body" /\ Len(wire) > length
  /\ bodies' = Append(bodies, SubSeq(wire, 1, length))
  /\ out' = out \o raw \o SubSeq(wire, 1, length)
  /\ wire' = SubSeq(wire, length + 1, Len(wire))
  /\ raw' = <<>> /\ length' = None /\ state' = "head"
  /\ UNCHANGED inputs

\* read_exact fills the body; the caller writes the frame and reads the next.
ReadBody ==
  /\ state = "body" /\ Len(wire) >= length
  /\ bodies' = Append(bodies, SubSeq(wire, 1, length))
  /\ out' = out \o raw \o SubSeq(wire, 1, length)
  /\ wire' = SubSeq(wire, length + 1, Len(wire))
  /\ raw' = <<>> /\ length' = None /\ state' = "head"
  /\ UNCHANGED inputs

BodyCut == state = "body" /\ closed /\ Len(wire) < length /\ Fail

Reader == ReadLine \/ EndOfStream \/ ReadBody \/ BodyCut

\* The reader has returned for good.
Over == ~Running /\ UNCHANGED vars

Next == \/ \E s \in ForeignSymbol : Arrive(s)
        \/ \E body \in Bodies : Write(body)
        \/ Close \/ Reader \/ Over

Spec == Init /\ [][Next]_vars
============================================================================
