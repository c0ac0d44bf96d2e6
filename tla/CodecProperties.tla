-------------------------- MODULE CodecProperties --------------------------
(***************************************************************************)
(* What the frame codec promises, against a reference that looks at a whole*)
(* stream at once.                                                         *)
(***************************************************************************)
EXTENDS Codec

\* A frame under construction has a length exactly when its header block is
\* over or has a Content-Length line, and a fresh one has none
\* (codec.rs:58-60).
TypeOK ==
  /\ got \in Seq(Symbol) /\ wire \in Seq(Symbol) /\ raw \in Seq(Symbol)
  /\ out \in Seq(Symbol) /\ closed \in BOOLEAN
  /\ sent \in Seq(Seq(Symbol)) /\ bodies \in Seq(Seq(Symbol))
  /\ length \in Nat \cup {None}
  /\ state \in {"head", "body", "end", "failed"}
  /\ state = "body" => length # None
  /\ raw = <<>> => length = None

\* The transparency invariant of roundtrip_is_byte_exact (codec.rs:124-128):
\* what was written on is what came in, cut at a frame boundary or not yet
\* complete, never changed.
Transparent == out = SubSeq(got, 1, Len(out))

\* Ok(None) is returned on a clean end only (codec.rs:51-53): the stream is
\* closed and every byte of it was written on.
CleanEnd == state = "end" => closed /\ out = got

----------------------------------------------------------------------------
(* The reference: a stream is a sequence of frames, a frame is header lines *)
(* each with a colon, a blank line, and as many bytes as the last           *)
(* Content-Length says.                                                    *)

Newlines(s) == {i \in DOMAIN s : s[i].kind = "newline"}

\* The lines of a block that ends with a line feed, with where they begin.
LinesOf(s) ==
  LET begins == {1} \cup {i + 1 : i \in Newlines(s) \ {Len(s)}}
      end(i) == CHOOSE j \in Newlines(s) :
                  j >= i /\ \A k \in Newlines(s) : k >= i => k >= j
  IN  {<<i, SubSeq(s, i, end(i))>> : i \in begins}

IsHeaderLine(line) ==
  /\ HasColon(line)
  /\ HasLength(line) => Cardinality(Content(line)) = 1
  /\ \A i \in DOMAIN line : line[i].kind # "bad"

\* The header block s of a frame whose body has n symbols.
IsHead(s, n) ==
  /\ Last(s).kind = "newline"
  /\ \E l \in LinesOf(s) :
       /\ IsBlank(l[2]) /\ l[1] + Len(l[2]) = Len(s) + 1
       /\ \A k \in LinesOf(s) : k[1] # l[1] => IsHeaderLine(k[2])
  /\ \E l \in LinesOf(s) :
       /\ \E i \in LengthAt(l[2]) : l[2][i].n = n
       /\ \A k \in LinesOf(s) : k[1] > l[1] => ~HasLength(k[2])

IsFrame(s) == \E i \in 1..Len(s) : IsHead(SubSeq(s, 1, i), Len(s) - i)

\* Which prefixes of s are sequences of whole frames.
Boundary(s) ==
  LET b[n \in 0..Len(s)] ==
        n = 0 \/ \E m \in 0..(n - 1) : b[m] /\ IsFrame(SubSeq(s, m + 1, n))
  IN  b

\* The one stream read_frame takes for whole though it is not: after a header
\* with length 0, a lone CR at the end of the stream passes for the blank line.
CutAtReturn(s) ==
  LET whole == Append(s, Sym("newline"))
  IN  s # <<>> /\ Last(s).kind = "return" /\ Boundary(whole)[Len(whole)]

\* read_frame ends cleanly on the streams that are whole frames and fails on
\* every other, wherever the stream was cut and however it arrived.
SplitsAsReference ==
  /\ state = "end"    => Boundary(got)[Len(got)] \/ CutAtReturn(got)
  /\ state = "failed" => ~Boundary(got)[Len(got)]

\* The reader never waits for a byte beyond a frame: when it has to wait, every
\* frame that has arrived was written on.
NeverHoldsAFrame ==
  Running /\ ~ENABLED Reader =>
    \A n \in DOMAIN Boundary(got) : Boundary(got)[n] => n <= Len(out)

\* Messages of our own (from_body) come out at the other end body by body, even
\* when a body looks like a header, and a cleanly ended stream lost none.
ReadsBack ==
  sent # <<>> => /\ state # "failed" /\ IsPrefix(bodies, sent)
                 /\ state = "end" => bodies = sent
============================================================================
