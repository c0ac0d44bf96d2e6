---------------------------- MODULE CodecProofs ----------------------------
(***************************************************************************)
(* Proofs about the frame codec, for streams of any length and content:    *)
(* types, byte-exact copying, the clean end, messages of our own, that     *)
(* read_frame splits a stream as the reference does, and that it holds no  *)
(* frame back while it waits.                                              *)
(***************************************************************************)
EXTENDS CodecProperties, SequenceTheorems, FiniteSetTheorems,
        WellFoundedInduction, TLAPS

\* Every byte of the stream is written on, in the frame under construction or
\* not yet taken; a clean end leaves none behind.
CodecInv ==
  /\ TypeOK
  /\ got = out \o raw \o wire
  /\ state = "end" => closed /\ raw = <<>> /\ wire = <<>>

\* Pieces of a stream join in any grouping.
LEMMA Grouping ==
  \A r, s, t \in Seq(Symbol) : (r \o s) \o t = r \o (s \o t)
BY ConcatAssociative

\* What one piece of a sequence of symbols is.
LEMMA Cut ==
  ASSUME NEW s \in Seq(Symbol), NEW n \in Nat, n <= Len(s)
  PROVE  /\ SubSeq(s, 1, n) \in Seq(Symbol)
         /\ SubSeq(s, n + 1, Len(s)) \in Seq(Symbol)
         /\ s = SubSeq(s, 1, n) \o SubSeq(s, n + 1, Len(s))
         /\ Len(SubSeq(s, 1, n)) = n
<1>1. SubSeq(s, 1, n) \in Seq(Symbol) /\ Len(SubSeq(s, 1, n)) = n
  <2>1. \A i \in 1..n : i \in 1..Len(s)
    OBVIOUS
  <2> QED
    BY <2>1, SubSeqProperties
<1>2. SubSeq(s, n + 1, Len(s)) \in Seq(Symbol)
  BY SubSeqProperties
<1>3. SubSeq(s, 1, n) \o SubSeq(s, n + 1, Len(s)) = SubSeq(s, 1, Len(s))
  <2>1. 1 \in 1..(Len(s) + 1) /\ n \in (1 - 1)..Len(s) /\ Len(s) \in n..Len(s)
    OBVIOUS
  <2> QED
    BY <2>1, ConcatAdjacentSubSeq
<1>4. SubSeq(s, 1, Len(s)) = s
  BY SubSeqFull
<1> QED
  BY <1>1, <1>2, <1>3, <1>4

\* A Content-Length is a number of symbols.
LEMMA LengthIsNat ==
  ASSUME NEW line \in Seq(Symbol), NEW i \in LengthAt(line)
  PROVE  line[i].n \in Nat
<1>1. i \in 1..Len(line) /\ line[i].kind = "length"
  BY DEF LengthAt, Content
<1>2. line[i] \in Symbol
  BY <1>1
<1> QED
  BY <1>1, <1>2 DEF Symbol, Plain

LEMMA FromBodyType ==
  ASSUME NEW body \in Seq(Symbol)
  PROVE  FromBody(body) \in Seq(Symbol)
<1>1. /\ Length(Len(body)) \in Symbol
      /\ Sym("newline") \in Symbol
  BY DEF Symbol, Length, Sym, Plain
<1>2. <<Length(Len(body)), Sym("newline"), Sym("newline")>> \in Seq(Symbol)
  BY <1>1
<1> QED
  BY <1>2, ConcatProperties DEF FromBody

LEMMA ForeignType == ForeignSymbol \subseteq Symbol
BY CodecAssumption DEF ForeignSymbol, Symbol, Length, Sym, Plain

LEMMA InitInv == Init => CodecInv
<1> SUFFICES ASSUME Init PROVE CodecInv
  OBVIOUS
<1>1. TypeOK
  <2>1. <<>> \in Seq(Symbol) /\ <<>> \in Seq(Seq(Symbol))
    BY EmptySeq
  <2>2. state \in {"head", "body", "end", "failed"} /\ state # "body"
    BY DEF Init
  <2> QED
    BY <2>1, <2>2 DEF Init, TypeOK
<1>2. <<>> \o <<>> \o <<>> = <<>>
  OBVIOUS
<1> QED
  BY <1>1, <1>2 DEF Init, CodecInv

\* Something is written to the stream.
LEMMA WrittenInv ==
  ASSUME CodecInv, NEW piece \in Seq(Symbol),
         ~closed, got' = got \o piece, wire' = wire \o piece,
         sent' \in Seq(Seq(Symbol)),
         UNCHANGED <<closed, raw, length, state, out, bodies>>
  PROVE  CodecInv'
<1> USE DEF CodecInv
<1>1. got' \in Seq(Symbol) /\ wire' \in Seq(Symbol)
  BY ConcatProperties DEF TypeOK
<1>2. TypeOK'
  BY <1>1 DEF TypeOK
<1>3. out \o raw \in Seq(Symbol)
  BY ConcatProperties DEF TypeOK
<1>4. got \o piece = (out \o raw) \o (wire \o piece)
  <2>1. wire \in Seq(Symbol) /\ got = (out \o raw) \o wire
    BY DEF TypeOK
  <2> HIDE DEF CodecInv
  <2>2. ((out \o raw) \o wire) \o piece = (out \o raw) \o (wire \o piece)
    BY <1>3, <2>1, Grouping
  <2> QED
    BY <2>1, <2>2
<1>5. state # "end"
  OBVIOUS
<1> QED
  BY <1>2, <1>4, <1>5

LEMMA FailInv == ASSUME CodecInv, Fail PROVE CodecInv'
BY DEF CodecInv, TypeOK, Fail, inputs

LEMMA TakeLineInv ==
  ASSUME CodecInv, state = "head", NEW n \in 1..Len(wire), TakeLine(n)
  PROVE  CodecInv'
<1> DEFINE line == SubSeq(wire, 1, n)
<1> USE DEF CodecInv
<1>1. /\ line \in Seq(Symbol) /\ Len(line) = n
      /\ wire' \in Seq(Symbol) /\ wire = line \o wire'
  <2>1. n \in Nat /\ n <= Len(wire) /\ wire \in Seq(Symbol)
    BY DEF TypeOK
  <2>2. wire' = SubSeq(wire, n + 1, Len(wire))
    BY DEF TakeLine
  <2> QED
    BY <2>1, <2>2, Cut
<1>2. raw' = raw \o line /\ raw' \in Seq(Symbol) /\ raw' # <<>>
  <2>1. raw' = raw \o line
    BY DEF TakeLine
  <2>2. Len(raw \o line) = Len(raw) + n /\ raw \o line \in Seq(Symbol)
    BY <1>1, ConcatProperties DEF TypeOK
  <2>3. Len(raw) \in Nat /\ n \in Nat /\ n >= 1
    BY DEF TypeOK
  <2>4. Len(raw \o line) # 0 /\ Len(<<>>) = 0
    BY <2>2, <2>3
  <2>5. raw \o line # <<>>
    BY <2>4
  <2> HIDE DEF line
  <2> QED
    BY <2>1, <2>2, <2>5
<1>3. length' \in Nat \cup {None} /\ (IsBlank(line) => length' # None)
  <2>1. CASE \E i \in LengthAt(line) : length' = line[i].n
    BY <2>1, <1>1, LengthIsNat, CodecAssumption
  <2>2. CASE ~HasLength(line) /\ UNCHANGED length
    BY <2>2 DEF TypeOK, TakeLine, Malformed
  <2> HIDE DEF line
  <2> QED
    BY <2>1, <2>2 DEF TakeLine, line
<1>4. TypeOK'
  BY <1>1, <1>2, <1>3 DEF TypeOK, TakeLine, inputs
<1>5. got' = out' \o raw' \o wire'
  <2> HIDE DEF line
  <2>1. out \o raw \in Seq(Symbol)
    BY ConcatProperties DEF TypeOK
  <2>2. (out \o raw) \o (line \o wire') = ((out \o raw) \o line) \o wire'
    BY <2>1, <1>1, Grouping
  <2>3. (out \o raw) \o line = out \o (raw \o line)
    <3>1. out \in Seq(Symbol) /\ raw \in Seq(Symbol) /\ line \in Seq(Symbol)
      BY <1>1 DEF TypeOK
    <3> QED
      BY <3>1, Grouping
  <2>4. got' = got /\ out' = out
    BY DEF TakeLine, inputs
  <2> QED
    BY <1>1, <1>2, <2>2, <2>3, <2>4
<1>6. state' # "end"
  BY DEF TakeLine
<1> QED
  BY <1>4, <1>5, <1>6

LEMMA ReadBodyInv == ASSUME CodecInv, ReadBody PROVE CodecInv'
<1> DEFINE body == SubSeq(wire, 1, length)
<1> USE DEF CodecInv
<1>1. length \in Nat /\ length <= Len(wire)
  BY DEF ReadBody, TypeOK
<1>2. /\ body \in Seq(Symbol)
      /\ wire' \in Seq(Symbol) /\ wire = body \o wire'
  BY <1>1, Cut DEF TypeOK, ReadBody
<1> HIDE DEF body
<1>3. /\ out' = out \o raw \o body /\ raw' = <<>> /\ got' = got
      /\ bodies' = Append(bodies, body)
  BY DEF ReadBody, body, inputs
<1>4. out \o raw \in Seq(Symbol) /\ out' \in Seq(Symbol)
  BY <1>2, <1>3, ConcatProperties DEF TypeOK
<1>5. bodies' \in Seq(Seq(Symbol))
  BY <1>2, <1>3, AppendProperties DEF TypeOK
<1>6. TypeOK'
  <2>1. length' = None /\ state' = "head" /\ UNCHANGED <<got, sent, closed>>
    BY DEF ReadBody, inputs
  <2>2. <<>> \in Seq(Symbol)
    BY EmptySeq
  <2>3. state' \in {"head", "body", "end", "failed"} /\ state' # "body"
    BY <2>1
  <2> QED
    BY <1>2, <1>3, <1>4, <1>5, <2>1, <2>2, <2>3 DEF TypeOK
<1>7. got' = out' \o raw' \o wire'
  <2>1. (out \o raw) \o (body \o wire') = ((out \o raw) \o body) \o wire'
    BY <1>2, <1>4, Grouping
  <2>2. out' \o <<>> = out'
    BY <1>4, ConcatEmptySeq
  <2> QED
    BY <1>2, <1>3, <2>1, <2>2
<1>8. state' # "end"
  BY DEF ReadBody
<1> QED
  BY <1>6, <1>7, <1>8

LEMMA StepInv == ASSUME CodecInv, [Next]_vars PROVE CodecInv'
<1>1. ASSUME NEW s \in ForeignSymbol, Arrive(s) PROVE CodecInv'
  <2>1. s \in Symbol /\ <<s>> \in Seq(Symbol)
    BY ForeignType
  <2>2. Append(got, s) = got \o <<s>> /\ Append(wire, s) = wire \o <<s>>
    BY <2>1, AppendIsConcat DEF CodecInv, TypeOK
  <2>3. sent' \in Seq(Seq(Symbol))
    BY <1>1 DEF Arrive, CodecInv, TypeOK
  <2> QED
    BY <1>1, <2>1, <2>2, <2>3, WrittenInv DEF Arrive
<1>2. ASSUME NEW body \in Bodies, Write(body) PROVE CodecInv'
  <2>1. body \in Seq(Symbol)
    BY BodiesAssumption
  <2>2. FromBody(body) \in Seq(Symbol)
    BY <2>1, FromBodyType
  <2>3. sent' \in Seq(Seq(Symbol))
    BY <1>2, <2>1, AppendProperties DEF Write, CodecInv, TypeOK
  <2> QED
    BY <1>2, <2>2, <2>3, WrittenInv DEF Write
<1>3. CASE Close
  BY <1>3 DEF Close, CodecInv, TypeOK
<1>4. CASE ReadLine
  BY <1>4, TakeLineInv, FailInv DEF ReadLine
<1>5. CASE EndOfStream
  <2>1. CASE raw = <<>> /\ state' = "end" /\ UNCHANGED <<inputs, wire, raw, length, out, bodies>>
    BY <1>5, <2>1 DEF EndOfStream, CodecInv, TypeOK, inputs
  <2>2. CASE Fail
    BY <2>2, FailInv
  <2> QED
    BY <1>5, <2>1, <2>2 DEF EndOfStream
<1>6. CASE ReadBody
  BY <1>6, ReadBodyInv
<1>7. CASE BodyCut
  BY <1>7, FailInv DEF BodyCut
<1>8. CASE UNCHANGED vars
  BY <1>8 DEF vars, CodecInv, TypeOK
<1> QED
  BY <1>1, <1>2, <1>3, <1>4, <1>5, <1>6, <1>7, <1>8 DEF Next, Reader, Over

\* Types, whatever the stream holds.
THEOREM TypeCorrect == Spec => []TypeOK
<1>1. CodecInv => TypeOK
  BY DEF CodecInv
<1> QED
  BY InitInv, StepInv, <1>1, PTL DEF Spec

\* What was written on is a prefix of what came in, byte for byte.
THEOREM TransparentAlways == Spec => []Transparent
<1>1. CodecInv => Transparent
  <2> SUFFICES ASSUME CodecInv PROVE Transparent
    OBVIOUS
  <2> USE DEF CodecInv, TypeOK
  <2>1. raw \o wire \in Seq(Symbol)
    BY ConcatProperties
  <2>2. got = out \o (raw \o wire)
    BY Grouping
  <2>3. SubSeq(out, 1, Len(out)) = out
    BY SubSeqFull
  <2>4. CASE out = <<>>
    BY <2>4, SubSeqEmpty DEF Transparent
  <2>5. CASE out # <<>>
    <3>1. Len(out) \in 1..Len(out) /\ 1 \in 1..Len(out)
      BY <2>5
    <3>2. SubSeq(out \o (raw \o wire), 1, Len(out)) = SubSeq(out, 1, Len(out))
      BY <2>1, <3>1, SubSeqOfConcat1
    <3> QED
      BY <2>2, <2>3, <3>2 DEF Transparent
  <2> QED
    BY <2>4, <2>5
<1> QED
  BY InitInv, StepInv, <1>1, PTL DEF Spec

\* A clean end is reported only when every byte was written on.
THEOREM CleanEndAlways == Spec => []CleanEnd
<1>1. CodecInv => CleanEnd
  <2> SUFFICES ASSUME CodecInv, state = "end" PROVE closed /\ out = got
    BY DEF CleanEnd
  <2>1. out \o <<>> \o <<>> = out
    BY ConcatEmptySeq DEF CodecInv, TypeOK
  <2> QED
    BY <2>1 DEF CodecInv
<1> QED
  BY InitInv, StepInv, <1>1, PTL DEF Spec
----------------------------------------------------------------------------
(* Our own messages come out body by body. *)

\* off[k] is where message k ends in the stream.
EndsAt(off) ==
  /\ off \in [0..Len(sent) -> Nat] /\ off[0] = 0 /\ off[Len(sent)] = Len(got)
  /\ \A k \in 0..Len(sent) : off[k] <= Len(got)
  /\ \A k \in 1..Len(sent) :
       /\ off[k] = off[k - 1] + 3 + Len(sent[k])
       /\ got[off[k - 1] + 1] = Length(Len(sent[k]))
       /\ got[off[k - 1] + 2] = Sym("newline")
       /\ got[off[k - 1] + 3] = Sym("newline")
       /\ \A i \in 1..Len(sent[k]) : got[off[k - 1] + 3 + i] = sent[k][i]

\* The reader is in the message after those it has read: before its header,
\* between its two header lines, or before its body.
ReaderAt(off) ==
  LET k == Len(bodies) IN
  /\ k <= Len(sent) /\ \A i \in 1..k : bodies[i] = sent[i]
  /\ Len(out) = off[k]
  /\ \/ state \in {"head", "end"} /\ raw = <<>>
     \/ state = "head" /\ Len(raw) = 2
     \/ state = "body" /\ Len(raw) = 3
  /\ raw # <<>> => k < Len(sent) /\ length = Len(sent[k + 1])

\* A stream on which nothing foreign has arrived.
Ours == sent # <<>> \/ got = <<>>
OwnInv == Ours => \E off : EndsAt(off) /\ ReaderAt(off)

LEMMA InitOwn == Init => OwnInv
<1> SUFFICES ASSUME Init PROVE \E off : EndsAt(off) /\ ReaderAt(off)
  BY DEF OwnInv
<1> DEFINE off == [k \in 0..0 |-> 0]
<1>1. off \in [0..0 -> Nat] /\ off[0] = 0
  OBVIOUS
<1> HIDE DEF off
<1>2. EndsAt(off) /\ ReaderAt(off)
  BY <1>1 DEF Init, EndsAt, ReaderAt
<1> QED
  BY <1>2

\* What joining two pieces gives, symbol by symbol.
LEMMA Joined ==
  ASSUME NEW s \in Seq(Symbol), NEW t \in Seq(Symbol)
  PROVE  /\ s \o t \in Seq(Symbol)
         /\ Len(s) \in Nat /\ Len(t) \in Nat /\ Len(s \o t) = Len(s) + Len(t)
         /\ \A i \in 1..Len(s) : (s \o t)[i] = s[i]
         /\ \A i \in 1..Len(t) : (s \o t)[Len(s) + i] = t[i]
<1>1. /\ s \o t \in Seq(Symbol) /\ Len(s \o t) = Len(s) + Len(t)
      /\ \A i \in 1..Len(s) + Len(t) :
           (s \o t)[i] = IF i <= Len(s) THEN s[i] ELSE t[i - Len(s)]
  BY ConcatProperties
<1>2. Len(s) \in Nat /\ Len(t) \in Nat
  OBVIOUS
<1> DEFINE u == s \o t
           m == Len(s)
           n == Len(t)
<1>3. /\ m \in Nat /\ n \in Nat
      /\ \A i \in 1..m + n : u[i] = IF i <= m THEN s[i] ELSE t[i - m]
  BY <1>1, <1>2
<1> HIDE DEF u, m, n
<1>4. /\ \A i \in 1..m : i \in 1..m + n /\ i <= m
      /\ \A i \in 1..n : m + i \in 1..m + n /\ ~(m + i <= m) /\ (m + i) - m = i
  BY <1>3
<1>5. (\A i \in 1..m : u[i] = s[i]) /\ (\A i \in 1..n : u[m + i] = t[i])
  BY <1>3, <1>4
<1> QED
  BY <1>1, <1>2, <1>5 DEF u, m, n

\* Where the reader's next symbols are in the stream.
LEMMA AheadInStream ==
  ASSUME CodecInv
  PROVE  /\ Len(got) = Len(out) + Len(raw) + Len(wire)
         /\ \A i \in 1..Len(wire) : wire[i] = got[Len(out) + Len(raw) + i]
<1>1. /\ out \in Seq(Symbol) /\ raw \in Seq(Symbol) /\ wire \in Seq(Symbol)
      /\ got = (out \o raw) \o wire
  BY DEF CodecInv, TypeOK
<1>2. out \o raw \in Seq(Symbol) /\ Len(out \o raw) = Len(out) + Len(raw)
  BY <1>1, Joined
<1> DEFINE read == out \o raw
<1> HIDE DEF read
<1>3. /\ Len(read \o wire) = Len(read) + Len(wire)
      /\ \A i \in 1..Len(wire) : (read \o wire)[Len(read) + i] = wire[i]
  BY <1>1, <1>2, Joined DEF read
<1> QED
  BY <1>1, <1>2, <1>3 DEF read

\* The lengths involved are numbers.
LEMMA OwnTypes ==
  ASSUME CodecInv, NEW off, EndsAt(off), ReaderAt(off)
  PROVE  /\ Len(sent) \in Nat /\ Len(bodies) \in Nat /\ Len(bodies) <= Len(sent)
         /\ Len(got) \in Nat /\ Len(out) \in Nat /\ Len(raw) \in Nat /\ Len(wire) \in Nat
         /\ \A k \in 0..Len(sent) : off[k] \in Nat
         /\ \A k \in 1..Len(sent) : sent[k] \in Seq(Symbol) /\ Len(sent[k]) \in Nat
         /\ Len(bodies) < Len(sent) =>
              Len(out) + 3 + Len(sent[Len(bodies) + 1]) <= Len(got)
         /\ Len(bodies) = Len(sent) => Len(out) = Len(got)
<1> USE DEF CodecInv, TypeOK
<1>1. /\ Len(sent) \in Nat /\ Len(bodies) \in Nat /\ Len(bodies) <= Len(sent)
      /\ Len(got) \in Nat /\ Len(out) \in Nat /\ Len(raw) \in Nat /\ Len(wire) \in Nat
  BY DEF ReaderAt
<1>2. \A k \in 0..Len(sent) : off[k] \in Nat
  BY DEF EndsAt
<1>3. \A k \in 1..Len(sent) : sent[k] \in Seq(Symbol) /\ Len(sent[k]) \in Nat
  OBVIOUS
<1>4. ASSUME Len(bodies) < Len(sent)
      PROVE  Len(out) + 3 + Len(sent[Len(bodies) + 1]) <= Len(got)
  <2> DEFINE k == Len(bodies) + 1
  <2>1. k \in 1..Len(sent) /\ k \in 0..Len(sent) /\ k - 1 = Len(bodies)
    BY <1>1, <1>4
  <2>2. off[k] = off[k - 1] + 3 + Len(sent[k]) /\ off[k] <= Len(got)
    BY <2>1 DEF EndsAt
  <2>3. Len(out) = off[k - 1]
    BY <2>1 DEF ReaderAt
  <2> QED
    BY <2>2, <2>3
<1> QED
  BY <1>1, <1>2, <1>3, <1>4 DEF EndsAt, ReaderAt

\* A message is written.
LEMMA WriteOwn ==
  ASSUME CodecInv, OwnInv, NEW body \in Seq(Symbol), Write(body)
  PROVE  OwnInv'
<1>1. PICK off : EndsAt(off) /\ ReaderAt(off)
  BY DEF OwnInv, Ours, Write
<1>0. PICK n, m, b : n = Len(sent) /\ m = Len(got) /\ b = Len(body)
  OBVIOUS
<1> DEFINE piece == FromBody(body)
<1>2. /\ n \in Nat /\ m \in Nat /\ b \in Nat
      /\ \A k \in 0..n : off[k] \in Nat
      /\ sent \in Seq(Seq(Symbol)) /\ got \in Seq(Symbol)
  <2>1. sent \in Seq(Seq(Symbol)) /\ got \in Seq(Symbol)
    BY DEF CodecInv, TypeOK
  <2>2. n \in Nat /\ m \in Nat /\ \A k \in 0..n : off[k] \in Nat
    BY <1>1, <1>0, OwnTypes
  <2>3. b \in Nat
    BY <1>0
  <2> QED
    BY <2>1, <2>2, <2>3
<1>3. /\ Len(sent') = n + 1 /\ sent'[n + 1] = body
      /\ \A k \in 1..n : sent'[k] = sent[k]
  BY <1>2, <1>0, AppendProperties DEF Write
<1>4. /\ piece \in Seq(Symbol) /\ Len(piece) = 3 + b
      /\ piece[1] = Length(b) /\ piece[2] = Sym("newline")
      /\ piece[3] = Sym("newline")
      /\ \A i \in 1..b : piece[3 + i] = body[i]
  <2> DEFINE head == <<Length(b), Sym("newline"), Sym("newline")>>
  <2>1. /\ head \in Seq(Symbol) /\ Len(head) = 3 /\ head[1] = Length(b)
        /\ head[2] = Sym("newline") /\ head[3] = Sym("newline")
    BY <1>2 DEF Symbol, Length, Sym, Plain
  <2> HIDE DEF head
  <2>2. /\ head \o body \in Seq(Symbol) /\ Len(head \o body) = Len(head) + b
        /\ \A i \in 1..Len(head) : (head \o body)[i] = head[i]
        /\ \A i \in 1..b : (head \o body)[Len(head) + i] = body[i]
    BY <2>1, <1>0, Joined
  <2>3. 1 \in 1..Len(head) /\ 2 \in 1..Len(head) /\ 3 \in 1..Len(head)
    BY <2>1
  <2>4. piece = head \o body
    BY <1>0 DEF FromBody, head
  <2> HIDE DEF piece
  <2> QED
    BY <2>1, <2>2, <2>3, <2>4
<1> HIDE DEF piece
<1>5. /\ Len(got') = m + 3 + b
      /\ \A i \in 1..m : got'[i] = got[i]
      /\ \A i \in 1..3 + b : got'[m + i] = piece[i]
  <2>1. got' = got \o piece
    BY DEF Write, piece
  <2>2. /\ Len(got \o piece) = m + Len(piece)
        /\ \A i \in 1..m : (got \o piece)[i] = got[i]
        /\ \A i \in 1..Len(piece) : (got \o piece)[m + i] = piece[i]
    BY <1>2, <1>0, <1>4, Joined
  <2> QED
    BY <1>2, <1>4, <2>1, <2>2
<1>6. PICK new : /\ new \in [0..n + 1 -> Nat]
                 /\ new[n + 1] = m + 3 + b
                 /\ \A k \in 0..n : new[k] = off[k]
  <2> DEFINE new == [k \in 0..n + 1 |-> IF k = n + 1 THEN m + 3 + b
                                                   ELSE off[k]]
  <2>1. /\ new \in [0..n + 1 -> Nat]
        /\ new[n + 1] = m + 3 + b
        /\ \A k \in 0..n : new[k] = off[k]
    BY <1>2
  <2> HIDE DEF new
  <2> QED
    BY <2>1
<1>7. EndsAt(new)'
  <2>1. new[0] = 0 /\ off[n] = m
    BY <1>1, <1>2, <1>6, <1>0 DEF EndsAt
  <2>2. \A k \in 0..n + 1 : new[k] <= Len(got')
    <3>1. \A k \in 0..n : off[k] <= m
      BY <1>1, <1>0 DEF EndsAt
    <3>2. \A k \in 0..n + 1 : k = n + 1 \/ k \in 0..n
      BY <1>2
    <3>3. PICK size : size = Len(got')
      OBVIOUS
    <3>4. size = m + 3 + b
      BY <1>5, <3>3
    <3>5. ASSUME NEW k \in 0..n PROVE new[k] <= size
      <4>1. PICK at : at = off[k]
        OBVIOUS
      <4>2. new[k] = at /\ at \in Nat /\ at <= m
        BY <1>2, <1>6, <3>1, <4>1
      <4>3. m \in Nat /\ b \in Nat
        BY <1>2
      <4> QED
        BY <3>4, <4>2, <4>3
    <3>6. new[n + 1] <= size
      BY <1>2, <1>6, <3>4
    <3> QED
      BY <3>2, <3>3, <3>5, <3>6
  <2>3. ASSUME NEW k \in 1..n + 1
        PROVE  /\ new[k] = new[k - 1] + 3 + Len(sent'[k])
               /\ got'[new[k - 1] + 1] = Length(Len(sent'[k]))
               /\ got'[new[k - 1] + 2] = Sym("newline")
               /\ got'[new[k - 1] + 3] = Sym("newline")
               /\ \A i \in 1..Len(sent'[k]) : got'[new[k - 1] + 3 + i] = sent'[k][i]
    <3>1. CASE k = n + 1
      <4>1. new[k - 1] = m /\ new[k] = m + 3 + b /\ sent'[k] = body
        BY <1>2, <1>3, <1>6, <2>1, <3>1
      <4>2. \A i \in 1..b :
              /\ 3 + i \in 1..3 + b
              /\ got'[m + (3 + i)] = piece[3 + i]
              /\ m + (3 + i) = m + 3 + i
        <5>1. \A i \in 1..b : 3 + i \in 1..3 + b /\ m + (3 + i) = m + 3 + i
          BY <1>2
        <5> QED
          BY <1>5, <5>1
      <4>3. \A i \in 1..b : got'[m + 3 + i] = body[i]
        BY <1>4, <4>2
      <4> QED
        <5>1. {1, 2, 3} \subseteq 1..3 + b
          BY <1>2
        <5>2. /\ got'[m + 1] = Length(b) /\ got'[m + 2] = Sym("newline")
              /\ got'[m + 3] = Sym("newline")
          BY <1>4, <1>5, <5>1
        <5> QED
          BY <1>0, <4>1, <4>3, <5>2
    <3>2. CASE k # n + 1
      <4>1. /\ k \in 1..n /\ k \in 0..n /\ k - 1 \in 0..n /\ sent'[k] = sent[k]
            /\ new[k] = off[k] /\ new[k - 1] = off[k - 1]
        <5>1. k \in 1..n /\ k \in 0..n /\ k - 1 \in 0..n
          BY <1>2, <3>2
        <5> QED
          BY <1>3, <1>6, <5>1
      <4>2. /\ off[k] = off[k - 1] + 3 + Len(sent[k]) /\ off[k] <= m
            /\ got[off[k - 1] + 1] = Length(Len(sent[k]))
            /\ got[off[k - 1] + 2] = Sym("newline")
            /\ got[off[k - 1] + 3] = Sym("newline")
            /\ \A i \in 1..Len(sent[k]) : got[off[k - 1] + 3 + i] = sent[k][i]
        BY <1>1, <4>1, <1>0 DEF EndsAt
      <4>3. Len(sent[k]) \in Nat /\ off[k - 1] \in Nat
        BY <1>1, <1>2, <4>1, <1>0, OwnTypes
      <4>4. /\ {off[k - 1] + 1, off[k - 1] + 2, off[k - 1] + 3} \subseteq 1..m
            /\ \A i \in 1..Len(sent[k]) : off[k - 1] + 3 + i \in 1..m
        <5>1. PICK at, l : at = off[k - 1] /\ l = Len(sent[k])
          OBVIOUS
        <5>2. at \in Nat /\ l \in Nat /\ at + 3 + l <= m
          BY <4>2, <4>3, <5>1
        <5>3. {at + 1, at + 2, at + 3} \subseteq 1..m /\ \A i \in 1..l : at + 3 + i \in 1..m
          BY <1>2, <5>2
        <5> QED
          BY <5>1, <5>3
      <4> QED
        <5>1. \A i \in 1..m : got'[i] = got[i]
          BY <1>5
        <5>2. /\ got'[off[k - 1] + 1] = got[off[k - 1] + 1]
              /\ got'[off[k - 1] + 2] = got[off[k - 1] + 2]
              /\ got'[off[k - 1] + 3] = got[off[k - 1] + 3]
              /\ \A i \in 1..Len(sent[k]) : got'[off[k - 1] + 3 + i] = got[off[k - 1] + 3 + i]
          BY <4>4, <5>1
        <5> QED
          BY <4>1, <4>2, <5>2
    <3> QED
      BY <3>1, <3>2
  <2> QED
    BY <1>3, <1>5, <1>6, <2>1, <2>2, <2>3 DEF EndsAt
<1>8. ReaderAt(new)'
  <2>1. UNCHANGED <<bodies, out, raw, state, length>>
    BY DEF Write
  <2>2. /\ Len(bodies) \in 0..n /\ \A i \in 1..Len(bodies) : i \in 1..n
        /\ Len(bodies) < n => Len(bodies) + 1 \in 1..n
    <3>1. Len(bodies) \in Nat /\ Len(bodies) <= n
      BY <1>1, <1>0, OwnTypes
    <3>2. PICK k : k = Len(bodies)
      OBVIOUS
    <3>3. /\ k \in 0..n /\ \A i \in 1..k : i \in 1..n
          /\ k < n => k + 1 \in 1..n
      BY <1>2, <3>1, <3>2
    <3> QED
      BY <3>2, <3>3
  <2>3. new[Len(bodies)] = off[Len(bodies)] /\ n <= Len(sent')
    BY <1>2, <1>3, <1>6, <2>2
  <2>4. /\ \A i \in 1..Len(bodies) : bodies[i] = sent'[i]
        /\ raw # <<>> => Len(bodies) < n + 1 /\ length = Len(sent'[Len(bodies) + 1])
    BY <1>1, <1>2, <1>3, <2>2, <1>0 DEF ReaderAt
  <2> QED
    BY <1>1, <1>2, <1>3, <2>1, <2>2, <2>3, <2>4, <1>0 DEF ReaderAt
<1> QED
  BY <1>7, <1>8 DEF OwnInv

\* A line is taken: the length line before the header, a blank one after it.
LEMMA LineOwn ==
  ASSUME CodecInv, NEW off, EndsAt(off), ReaderAt(off), ReadLine
  PROVE  EndsAt(off)' /\ ReaderAt(off)'
<1> DEFINE k == Len(bodies) + 1
           size == Len(sent[k])
<1>1. PICK n \in 1..Len(wire) :
        /\ EndsLine(n)
        /\ \/ TakeLine(n)
           \/ Malformed(SubSeq(wire, 1, n)) /\ Fail
  BY DEF ReadLine
<1> DEFINE line == SubSeq(wire, 1, n)
<1>2. /\ Len(bodies) \in Nat /\ Len(sent) \in Nat /\ Len(out) \in Nat
      /\ Len(raw) \in Nat /\ Len(wire) \in Nat /\ Len(got) \in Nat
      /\ n \in Nat /\ n >= 1 /\ n <= Len(wire)
  BY <1>1, OwnTypes
<1>3. /\ k \in 1..Len(sent) /\ k - 1 = Len(bodies) /\ Len(bodies) < Len(sent)
      /\ off[k - 1] = Len(out) /\ size \in Nat
      /\ Len(raw) + Len(wire) >= 3 + size
  <2>1. Len(got) = Len(out) + Len(raw) + Len(wire)
    BY AheadInStream
  <2>2. Len(out) # Len(got)
    BY <1>2, <2>1
  <2>3. Len(bodies) < Len(sent)
    <3>1. /\ Len(bodies) <= Len(sent)
          /\ Len(bodies) = Len(sent) => Len(out) = Len(got)
      BY OwnTypes
    <3> QED
      BY <1>2, <2>2, <3>1
  <2>4. k \in 1..Len(sent) /\ k - 1 = Len(bodies)
    BY <1>2, <2>3
  <2>5. size \in Nat
    BY <2>4, OwnTypes
  <2>6. Len(out) + 3 + size <= Len(got)
    BY <2>3, OwnTypes
  <2>7. off[k - 1] = Len(out)
    BY <2>4 DEF ReaderAt
  <2> HIDE DEF k, size
  <2> QED
    BY <1>2, <2>1, <2>3, <2>4, <2>5, <2>6, <2>7
<1>4. /\ got[Len(out) + 1] = Length(size) /\ got[Len(out) + 2] = Sym("newline")
      /\ got[Len(out) + 3] = Sym("newline")
  BY <1>3 DEF EndsAt
<1> HIDE DEF size
<1>5. /\ line \in Seq(Symbol) /\ Len(line) = n /\ DOMAIN line = 1..n
      /\ \A i \in 1..n : line[i] = wire[i]
  <2>1. line \in Seq(Symbol) /\ Len(line) = n
    BY <1>2, Cut DEF CodecInv, TypeOK
  <2>2. \A i \in 1..n : wire[i] \in Symbol
    BY <1>2 DEF CodecInv, TypeOK
  <2>3. \A i \in 1..n : line[i] = wire[i]
    BY <1>2, <2>2, SubSeqProperties
  <2> QED
    BY <2>1, <2>3
<1> HIDE DEF line
<1>6. /\ state = "head" /\ (raw = <<>> \/ Len(raw) = 2)
      /\ raw # <<>> => length = size
  BY <1>3 DEF ReadLine, ReaderAt, size
<1>7. EndsAt(off)' /\ UNCHANGED <<bodies, sent, out>>
  <2>1. UNCHANGED <<bodies, sent, out, got>>
    BY <1>1 DEF TakeLine, Fail, inputs
  <2> QED
    BY <2>1 DEF EndsAt
<1>8. ASSUME TakeLine(n), length' = size,
             \/ state' = "head" /\ Len(raw') = 2
             \/ state' = "body" /\ Len(raw') = 3
      PROVE  ReaderAt(off)'
  BY <1>3, <1>7, <1>8 DEF ReaderAt, size
<1>9. CASE raw = <<>>
  <2>1. Len(raw) = 0 /\ Len(wire) >= 3
    BY <1>2, <1>3, <1>9
  <2>2. wire[1] = Length(size) /\ wire[2] = Sym("newline")
    BY <1>2, <1>4, <2>1, AheadInStream
  <2>3. n = 2
    <3>1. n # 1
      BY <1>1, <2>1, <2>2 DEF EndsLine, Length
    <3>2. n <= 2
      <4>1. 2 \in 1..(n - 1) => wire[2].kind # "newline"
        BY <1>1 DEF EndsLine
      <4> QED
        BY <1>2, <2>2, <4>1 DEF Sym
    <3> QED
      BY <1>2, <3>1, <3>2
  <2>4. DOMAIN line = {1, 2} /\ line[1] = Length(size) /\ line[2] = Sym("newline")
    BY <1>5, <2>2, <2>3
  <2>5. Content(line) = {1}
    BY <2>4 DEF Content, Length, Sym
  <2>6. LengthAt(line) = {1} /\ line[1].n = size
    BY <2>4, <2>5 DEF LengthAt, Length
  <2>7. HasLength(line) /\ HasColon(line) /\ ~IsBlank(line)
    BY <2>4, <2>5, <2>6 DEF HasLength, HasColon, IsBlank, Length
  <2>8. ~Malformed(line)
    BY <2>4, <2>5, <2>7 DEF Malformed, Length, Sym
  <2>9. TakeLine(n)
    BY <1>1, <2>8 DEF line
  <2>10. raw' = raw \o line /\ length' = size /\ state' = "head"
    BY <2>6, <2>7, <2>9 DEF TakeLine, line
  <2>11. Len(raw') = 2
    <3>1. raw \in Seq(Symbol)
      BY DEF CodecInv, TypeOK
    <3>2. Len(raw \o line) = Len(raw) + Len(line)
      BY <1>5, <3>1, Joined
    <3> QED
      BY <1>5, <2>1, <2>3, <2>10, <3>2
  <2> QED
    BY <1>7, <1>8, <2>9, <2>10, <2>11
<1>10. CASE Len(raw) = 2
  <2>1. raw # <<>> /\ length = size
    BY <1>6, <1>10
  <2>2. wire[1] = Sym("newline")
    BY <1>2, <1>4, <1>10, AheadInStream
  <2>3. n = 1
    <3>1. 1 \in 1..(n - 1) => wire[1].kind # "newline"
      BY <1>1 DEF EndsLine
    <3> QED
      BY <1>2, <2>2, <3>1 DEF Sym
  <2>4. DOMAIN line = {1} /\ line[1] = Sym("newline")
    BY <1>5, <2>2, <2>3
  <2>5. Content(line) = {}
    BY <2>4 DEF Content, Sym
  <2>6. IsBlank(line) /\ LengthAt(line) = {} /\ ~HasLength(line)
    BY <2>5 DEF IsBlank, LengthAt, HasLength
  <2>7. ~Malformed(line)
    <3>1. length # None
      BY <1>3, <2>1, CodecAssumption
    <3> QED
      BY <2>4, <2>6, <3>1 DEF Malformed, Sym
  <2>8. TakeLine(n)
    BY <1>1, <2>7 DEF line
  <2>9. raw' = raw \o line /\ length' = size /\ state' = "body"
    BY <2>1, <2>6, <2>8 DEF TakeLine, line
  <2>10. Len(raw') = 3
    <3>1. raw \in Seq(Symbol)
      BY DEF CodecInv, TypeOK
    <3>2. Len(raw \o line) = Len(raw) + Len(line)
      BY <1>5, <3>1, Joined
    <3> QED
      BY <1>5, <1>10, <2>3, <2>9, <3>2
  <2> QED
    BY <1>7, <1>8, <2>8, <2>9, <2>10
<1> QED
  BY <1>6, <1>9, <1>10

\* The end of the stream comes after the last message.
LEMMA EndOwn ==
  ASSUME CodecInv, NEW off, EndsAt(off), ReaderAt(off), EndOfStream
  PROVE  EndsAt(off)' /\ ReaderAt(off)'
<1>1. /\ Len(got) = Len(out) + Len(raw) + Len(wire)
      /\ Len(wire) = 0 /\ state = "head"
  BY AheadInStream DEF EndOfStream
<1>2. raw = <<>> \/ Len(raw) = 2
  BY <1>1 DEF ReaderAt
<1>3. ASSUME raw # <<>> PROVE FALSE
  <2>1. Len(bodies) < Len(sent)
    BY <1>3 DEF ReaderAt
  <2>2. Len(sent[Len(bodies) + 1]) \in Nat
    <3>1. Len(bodies) + 1 \in 1..Len(sent)
      BY <2>1, OwnTypes
    <3> QED
      BY <3>1, OwnTypes
  <2>3. /\ Len(out) + 3 + Len(sent[Len(bodies) + 1]) <= Len(got)
        /\ Len(out) \in Nat /\ Len(got) \in Nat
    BY <2>1, OwnTypes
  <2>4. PICK l : l = Len(sent[Len(bodies) + 1])
    OBVIOUS
  <2>5. l \in Nat /\ Len(out) + 3 + l <= Len(got) /\ Len(out) \in Nat /\ Len(got) \in Nat
    BY <2>2, <2>3, <2>4
  <2>6. Len(raw) = 2
    BY <1>2, <1>3
  <2>7. Len(got) = Len(out) + 2
    BY <1>1, <2>5, <2>6
  <2> QED
    BY <2>5, <2>7
<1>4. /\ raw = <<>> /\ state' = "end"
      /\ UNCHANGED <<inputs, wire, raw, length, out, bodies>>
  BY <1>3 DEF EndOfStream
<1> QED
  BY <1>4 DEF inputs, EndsAt, ReaderAt

\* In a body, as many symbols are there or still to come as it has.
LEMMA InBody ==
  ASSUME CodecInv, NEW off, EndsAt(off), ReaderAt(off), state = "body"
  PROVE  LET k == Len(bodies) + 1 IN
         /\ k \in 1..Len(sent) /\ k - 1 = Len(bodies) /\ Len(raw) = 3
         /\ length = Len(sent[k]) /\ length \in Nat /\ length <= Len(wire)
         /\ \A i \in 1..length : wire[i] = sent[k][i]
<1> DEFINE k == Len(bodies) + 1
<1>1. Len(raw) = 3 /\ raw # <<>>
  <2>1. Len(raw) = 3
    BY DEF ReaderAt
  <2> QED
    BY <2>1
<1>2. Len(bodies) < Len(sent) /\ length = Len(sent[k])
  BY <1>1 DEF ReaderAt
<1>3. /\ k \in 1..Len(sent) /\ k - 1 = Len(bodies)
      /\ Len(out) \in Nat /\ Len(got) \in Nat /\ Len(wire) \in Nat
  BY <1>2, OwnTypes
<1>4. Len(out) = off[k - 1] /\ length \in Nat
  BY <1>2, <1>3, OwnTypes DEF ReaderAt
<1>5. Len(got) = Len(out) + 3 + Len(wire)
  BY <1>1, AheadInStream
<1>6. Len(out) + 3 + length <= Len(got)
  BY <1>2, OwnTypes
<1>7. length <= Len(wire)
  BY <1>3, <1>4, <1>5, <1>6
<1>8. ASSUME NEW i \in 1..length PROVE wire[i] = sent[k][i]
  <2>1. i \in 1..Len(wire) /\ i \in 1..Len(sent[k])
    BY <1>2, <1>3, <1>4, <1>7
  <2>2. wire[i] = got[Len(out) + 3 + i]
    BY <1>1, <2>1, AheadInStream
  <2>3. got[off[k - 1] + 3 + i] = sent[k][i]
    BY <1>3, <2>1 DEF EndsAt
  <2> QED
    BY <1>4, <2>2, <2>3
<1> QED
  BY <1>1, <1>2, <1>3, <1>4, <1>7, <1>8

\* A body is read: it is that of the message the reader was in.
LEMMA BodyOwn ==
  ASSUME CodecInv, NEW off, EndsAt(off), ReaderAt(off), ReadBody
  PROVE  EndsAt(off)' /\ ReaderAt(off)'
<1> DEFINE k == Len(bodies) + 1
           body == SubSeq(wire, 1, length)
<1>1. /\ k \in 1..Len(sent) /\ k - 1 = Len(bodies) /\ Len(raw) = 3
      /\ length = Len(sent[k]) /\ length \in Nat /\ length <= Len(wire)
      /\ \A i \in 1..length : wire[i] = sent[k][i]
  BY InBody DEF ReadBody
<1>2. body \in Seq(Symbol) /\ Len(body) = length /\ sent[k] \in Seq(Symbol)
  BY <1>1, Cut, OwnTypes DEF CodecInv, TypeOK
<1>3. body = sent[k]
  <2>1. \A i \in 1..length : wire[i] \in Symbol
    BY <1>1 DEF CodecInv, TypeOK
  <2>2. \A i \in 1..length : body[i] = wire[i]
    BY <1>1, <2>1, SubSeqProperties
  <2> QED
    BY <1>1, <1>2, <2>2, SeqEqual
<1>4. /\ bodies' = Append(bodies, body) /\ out' = out \o raw \o body
      /\ raw' = <<>> /\ state' = "head" /\ UNCHANGED <<got, sent>>
  BY DEF ReadBody, inputs
<1> HIDE DEF body
<1>5. /\ Len(bodies') = k /\ bodies'[k] = body
      /\ \A i \in 1..Len(bodies) : bodies'[i] = bodies[i]
  BY <1>2, <1>4, AppendProperties DEF CodecInv, TypeOK
<1>6. Len(out') = off[k]
  <2>0. out \in Seq(Symbol) /\ raw \in Seq(Symbol)
    BY DEF CodecInv, TypeOK
  <2>1. out \o raw \in Seq(Symbol) /\ Len(out \o raw) = Len(out) + 3
    <3>1. out \o raw \in Seq(Symbol) /\ Len(out \o raw) = Len(out) + Len(raw)
      BY <2>0, Joined
    <3>2. Len(raw) = 3
      BY <1>1
    <3> QED
      BY <3>1, <3>2
  <2>2. Len(out') = Len(out) + 3 + length
    <3>1. Len((out \o raw) \o body) = Len(out \o raw) + Len(body)
      BY <1>2, <2>1, Joined
    <3> QED
      BY <1>2, <1>4, <2>1, <3>1
  <2>3. Len(out) = off[k - 1]
    BY <1>1 DEF ReaderAt
  <2>4. off[k] = off[k - 1] + 3 + Len(sent[k])
    BY <1>1 DEF EndsAt
  <2> QED
    BY <1>1, <2>2, <2>3, <2>4
<1>7. \A i \in 1..k : bodies'[i] = sent[i]
  <2>1. \A i \in 1..Len(bodies) : bodies[i] = sent[i]
    BY DEF ReaderAt
  <2>2. \A i \in 1..k : i = k \/ i \in 1..Len(bodies)
    BY <1>1, OwnTypes
  <2> QED
    BY <1>3, <1>5, <2>1, <2>2
<1> HIDE DEF k
<1>8. k <= Len(sent) /\ EndsAt(off)'
  BY <1>1, <1>4, OwnTypes DEF EndsAt
<1> QED
  BY <1>4, <1>5, <1>6, <1>7, <1>8 DEF ReaderAt

LEMMA StepOwn == ASSUME CodecInv, OwnInv, [Next]_vars PROVE OwnInv'
<1>1. ASSUME NEW s \in ForeignSymbol, Arrive(s) PROVE OwnInv'
  <2>1. s \in Symbol
    BY ForeignType
  <2>2. got' # <<>> /\ sent' = <<>>
    <3>1. got \in Seq(Symbol)
      BY DEF CodecInv, TypeOK
    <3> QED
      BY <1>1, <2>1, <3>1, AppendProperties DEF Arrive
  <2> QED
    BY <2>2 DEF OwnInv, Ours
<1>2. ASSUME NEW body \in Bodies, Write(body) PROVE OwnInv'
  BY <1>2, BodiesAssumption, WriteOwn
<1>3. CASE Close \/ UNCHANGED vars
  <2>1. UNCHANGED <<got, sent, raw, length, state, out, bodies>>
    BY <1>3 DEF Close, vars
  <2>2. Ours' = Ours /\ \A off : EndsAt(off) /\ ReaderAt(off) => EndsAt(off)' /\ ReaderAt(off)'
    BY <2>1 DEF Ours, EndsAt, ReaderAt
  <2> QED
    BY <2>2 DEF OwnInv
<1>4. CASE Reader
  <2>1. Ours' = Ours
    BY <1>4 DEF Reader, ReadLine, TakeLine, Fail, EndOfStream, ReadBody, BodyCut, inputs, Ours
  <2> SUFFICES ASSUME Ours PROVE \E off : EndsAt(off)' /\ ReaderAt(off)'
    BY <2>1 DEF OwnInv
  <2>2. PICK off : EndsAt(off) /\ ReaderAt(off)
    BY DEF OwnInv
  <2>3. ~BodyCut
    BY <2>2, InBody, OwnTypes DEF BodyCut
  <2>4. EndsAt(off)' /\ ReaderAt(off)'
    BY <1>4, <2>2, <2>3, LineOwn, EndOwn, BodyOwn DEF Reader
  <2> QED
    BY <2>4
<1> QED
  BY <1>1, <1>2, <1>3, <1>4 DEF Next, Over

\* Every message of ours that was read came out as it was sent, in order; a
\* clean end means that all did (codec.rs, from_body and read_frame).
THEOREM ReadsBackAlways == Spec => []ReadsBack
<1>1. CodecInv /\ OwnInv => ReadsBack
  <2> SUFFICES ASSUME CodecInv, OwnInv, sent # <<>>
               PROVE  /\ state # "failed" /\ IsPrefix(bodies, sent)
                      /\ state = "end" => bodies = sent
    BY DEF ReadsBack
  <2>1. PICK off : EndsAt(off) /\ ReaderAt(off)
    BY DEF OwnInv, Ours
  <2>2. /\ Len(bodies) \in Nat /\ Len(sent) \in Nat /\ Len(bodies) <= Len(sent)
        /\ bodies \in Seq(Seq(Symbol)) /\ sent \in Seq(Seq(Symbol))
        /\ \A i \in 1..Len(bodies) : bodies[i] = sent[i]
    BY <2>1, OwnTypes DEF ReaderAt, CodecInv, TypeOK
  <2>3. state # "failed"
    BY <2>1 DEF ReaderAt
  <2>4. IsPrefix(bodies, sent)
    <3>1. \A i \in 1..Len(bodies) : bodies[i] \in Seq(Symbol) /\ sent[i] \in Seq(Symbol)
      BY <2>2
    <3>2. /\ SubSeq(bodies, 1, Len(bodies)) \in Seq(Seq(Symbol))
          /\ SubSeq(sent, 1, Len(bodies)) \in Seq(Seq(Symbol))
          /\ Len(SubSeq(bodies, 1, Len(bodies))) = Len(bodies)
          /\ Len(SubSeq(sent, 1, Len(bodies))) = Len(bodies)
          /\ \A i \in 1..Len(bodies) : /\ SubSeq(bodies, 1, Len(bodies))[i] = bodies[i]
                                       /\ SubSeq(sent, 1, Len(bodies))[i] = sent[i]
      BY <2>2, <3>1, SubSeqProperties
    <3>3. SubSeq(bodies, 1, Len(bodies)) = SubSeq(sent, 1, Len(bodies))
      BY <2>2, <3>2, SeqEqual
    <3> QED
      BY <2>2, <3>3 DEF IsPrefix
  <2>5. ASSUME state = "end" PROVE bodies = sent
    <3>1. Len(got) = Len(out) /\ Len(out) \in Nat
      <4>1. Len(raw) = 0 /\ Len(wire) = 0
        BY <2>5 DEF CodecInv
      <4> QED
        BY <2>1, <4>1, AheadInStream, OwnTypes
    <3>2. ~(Len(bodies) < Len(sent))
      <4> SUFFICES ASSUME Len(bodies) < Len(sent) PROVE FALSE
        OBVIOUS
      <4>1. Len(bodies) + 1 \in 1..Len(sent)
        BY <2>2
      <4>2. Len(sent[Len(bodies) + 1]) \in Nat
        BY <2>1, <4>1, OwnTypes
      <4>3. Len(out) + 3 + Len(sent[Len(bodies) + 1]) <= Len(got)
        BY <2>1, OwnTypes
      <4> QED
        <5>1. PICK l, m : l = Len(sent[Len(bodies) + 1]) /\ m = Len(out)
          OBVIOUS
        <5>2. l \in Nat /\ m \in Nat /\ m + 3 + l <= m
          BY <3>1, <4>2, <4>3, <5>1
        <5> QED
          BY <5>2
    <3> QED
      BY <2>2, <3>2, SeqEqual
  <2> QED
    BY <2>3, <2>4, <2>5
<1> QED
  BY InitInv, StepInv, InitOwn, StepOwn, <1>1, PTL DEF Spec

----------------------------------------------------------------------------
(* read_frame and the reference split a stream alike.  Positions are those *)
(* of the whole stream, so that a longer stream has the same lines.        *)

\* A set of numbers has a least one: the inductions below go by it.
Smaller == {p \in Nat \X Nat : p[1] < p[2]}

LEMMA LeastExists ==
  ASSUME NEW ns, ns \subseteq Nat, ns # {}
  PROVE  \E k \in ns : \A n \in ns : k <= n
<1>0. IsWellFoundedOn(Smaller, Nat)
  <2>1. Smaller = OpToRel(<, Nat)
    BY DEF OpToRel, Smaller
  <2> QED
    BY <2>1, NatLessThanWellFounded
<1>1. PICK k \in ns : \A n \in ns : <<n, k>> \notin Smaller
  BY <1>0, WFMin
<1>2. ASSUME NEW n \in ns PROVE k <= n
  <2>1. k \in Nat /\ n \in Nat /\ <<n, k>> \notin Smaller
    BY <1>1
  <2>2. <<n, k>> \in Nat \X Nat /\ <<n, k>>[1] = n /\ <<n, k>>[2] = k
    BY <2>1
  <2>3. ~(n < k)
    BY <2>1, <2>2 DEF Smaller
  <2> QED
    BY <2>1, <2>3
<1> QED
  BY <1>2

\* A line from i to j of what comes after position m.
LineIn(g, m, i, j) ==
  /\ i <= j /\ g[j].kind = "newline" /\ \A k \in i..(j - 1) : g[k].kind # "newline"
  /\ i = m + 1 \/ g[i - 1].kind = "newline"

\* The lines up to e are header lines; the last of them with a length has n; none has.
Headers(g, m, e) ==
  \A i, j \in (m + 1)..e : LineIn(g, m, i, j) => IsHeaderLine(SubSeq(g, i, j))
LengthIs(g, m, e, n) ==
  \E i, j \in (m + 1)..e :
    /\ LineIn(g, m, i, j)
    /\ \E x \in LengthAt(SubSeq(g, i, j)) : SubSeq(g, i, j)[x].n = n
    /\ \A a, b \in (m + 1)..e :
         LineIn(g, m, a, b) /\ a > i => ~HasLength(SubSeq(g, a, b))
NoLength(g, m, e) ==
  \A i, j \in (m + 1)..e : LineIn(g, m, i, j) => ~HasLength(SubSeq(g, i, j))

\* IsHead and IsFrame, of what comes after position m up to e.
HeadAt(g, m, e, n) ==
  /\ \E i \in (m + 1)..e : LineIn(g, m, i, e) /\ IsBlank(SubSeq(g, i, e))
  /\ Headers(g, m, e - 1) /\ LengthIs(g, m, e, n)
FrameAt(g, m, e) == \E i \in (m + 1)..e : HeadAt(g, m, i, e - i)

\* There is more, but no frame.
Stuck(g, m) == m < Len(g) /\ \A e \in (m + 1)..Len(g) : ~FrameAt(g, m, e)

\* Where the frame under construction begins, and how far it has been read.
Base == Len(out)
Here == Len(out) + Len(raw)

\* Header lines were read; or the stream was cut, and its end passes for the
\* end of a line.
HeadSoFar ==
  /\ raw = <<>> \/ got[Here].kind = "newline"
  /\ Headers(got, Base, Here)
  /\ IF length = None THEN NoLength(got, Base, Here)
     ELSE LengthIs(got, Base, Here, length)
CutInHead == closed /\ wire = <<>> /\ raw # <<>> /\ Stuck(got, Base)
CutAtBlank ==
  /\ closed /\ wire = <<>> /\ Stuck(got, Base) /\ got[Here].kind = "return"
  /\ HeadAt(Append(got, Sym("newline")), Base, Here + 1, length)

\* What was written on ends at a boundary of the reference, and the frame under
\* construction is what the reference finds after it; a failed reader is where
\* no frame begins, so that the whole stream is not split either.
SplitInv ==
  /\ \/ Boundary(got)[Base]
     \/ /\ closed /\ raw = <<>> /\ wire = <<>> /\ state \in {"head", "end"}
        /\ CutAtReturn(got)
  /\ state = "head" => HeadSoFar \/ CutInHead
  /\ state = "body" => HeadAt(got, Base, Here, length) \/ CutAtBlank
  /\ state = "failed" => Stuck(got, Base)

\* A piece, symbol by symbol.
LEMMA PieceIs ==
  ASSUME NEW g \in Seq(Symbol), NEW m \in Nat, NEW e \in m..Len(g)
  PROVE  /\ SubSeq(g, m + 1, e) \in Seq(Symbol) /\ Len(SubSeq(g, m + 1, e)) = e - m
         /\ \A i \in 1..(e - m) : SubSeq(g, m + 1, e)[i] = g[m + i]
<1>0. PICK l : l = Len(g)
  OBVIOUS
<1>1. l \in Nat /\ e \in Nat /\ m <= e /\ e <= l
  BY <1>0
<1>2. \A i \in (m + 1)..e : i \in 1..l
  BY <1>1
<1>3. \A i \in (m + 1)..e : g[i] \in Symbol
  BY <1>0, <1>2
<1>4. /\ SubSeq(g, m + 1, e) \in Seq(Symbol)
      /\ Len(SubSeq(g, m + 1, e)) = IF m + 1 <= e THEN e - (m + 1) + 1 ELSE 0
      /\ \A i \in 1..(e - (m + 1) + 1) : SubSeq(g, m + 1, e)[i] = g[m + 1 + i - 1]
  BY <1>1, <1>3, SubSeqProperties
<1>5. e - (m + 1) + 1 = e - m /\ \A i \in 1..(e - m) : m + 1 + i - 1 = m + i
  BY <1>1
<1> QED
  BY <1>1, <1>4, <1>5

\* A piece of a piece.
LEMMA Within ==
  ASSUME NEW g \in Seq(Symbol), NEW m \in Nat, NEW e \in m..Len(g),
         NEW i \in Nat, NEW j \in Nat, m < i, i <= j, j <= e
  PROVE  SubSeq(SubSeq(g, m + 1, e), i - m, j - m) = SubSeq(g, i, j)
<1> DEFINE s == SubSeq(g, m + 1, e)
           a == i - m - 1
           b == j - m
<1>0. PICK l : l = Len(g)
  OBVIOUS
<1>1. /\ l \in Nat /\ e \in Nat /\ m <= e /\ e <= l
      /\ a \in Nat /\ b \in Nat /\ a + 1 = i - m /\ i - 1 \in Nat /\ (i - 1) + 1 = i
      /\ b \in a..(e - m) /\ j \in (i - 1)..l /\ b - a = j - (i - 1)
  BY <1>0
<1>2. s \in Seq(Symbol) /\ Len(s) = e - m /\ \A k \in 1..(e - m) : s[k] = g[m + k]
  BY PieceIs
<1> HIDE DEF s
<1> DEFINE t == SubSeq(s, a + 1, b)
           u == SubSeq(g, (i - 1) + 1, j)
<1>3. t \in Seq(Symbol) /\ Len(t) = b - a /\ \A k \in 1..(b - a) : t[k] = s[a + k]
  BY <1>1, <1>2, PieceIs
<1>4. /\ u \in Seq(Symbol) /\ Len(u) = j - (i - 1)
      /\ \A k \in 1..(j - (i - 1)) : u[k] = g[(i - 1) + k]
  BY <1>0, <1>1, PieceIs
<1>5. \A k \in 1..(b - a) : a + k \in 1..(e - m) /\ m + (a + k) = (i - 1) + k
  BY <1>1
<1> HIDE DEF t, u
<1>6. t = u
  <2>1. \A k \in 1..(b - a) : t[k] = g[(i - 1) + k]
    BY <1>2, <1>3, <1>5
  <2>2. \A k \in 1..Len(t) : t[k] = u[k]
    BY <1>1, <1>3, <1>4, <2>1
  <2> HIDE DEF a, b
  <2> QED
    BY <1>1, <1>3, <1>4, <2>2, SeqEqual
<1> QED
  BY <1>1, <1>6 DEF s, t, u

\* Of two streams that begin alike, the same pieces.
LEMMA SamePiece ==
  ASSUME NEW g \in Seq(Symbol), NEW h \in Seq(Symbol), Len(g) <= Len(h),
         \A k \in 1..Len(g) : h[k] = g[k],
         NEW m \in Nat, NEW e \in m..Len(g)
  PROVE  SubSeq(g, m + 1, e) = SubSeq(h, m + 1, e)
<1>0. PICK l, q : l = Len(g) /\ q = Len(h)
  OBVIOUS
<1>1. l \in Nat /\ q \in Nat /\ l <= q /\ e \in m..l /\ e \in m..q /\ e - m \in Nat
      /\ \A k \in 1..(e - m) : m + k \in 1..l
  BY <1>0
<1>2. \A k \in 1..(e - m) : h[m + k] = g[m + k]
  BY <1>0, <1>1
<1>3. /\ SubSeq(g, m + 1, e) \in Seq(Symbol) /\ Len(SubSeq(g, m + 1, e)) = e - m
      /\ \A i \in 1..(e - m) : SubSeq(g, m + 1, e)[i] = g[m + i]
  BY PieceIs
<1>4. /\ SubSeq(h, m + 1, e) \in Seq(Symbol) /\ Len(SubSeq(h, m + 1, e)) = e - m
      /\ \A i \in 1..(e - m) : SubSeq(h, m + 1, e)[i] = h[m + i]
  BY <1>0, <1>1, PieceIs
<1> QED
  BY <1>2, <1>3, <1>4, SeqEqual

\* Where the line that begins at i ends.
LineEnd(s, i) == CHOOSE j \in Newlines(s) :
                   j >= i /\ \A k \in Newlines(s) : k >= i => k >= j

\* The first newline from i on.
LEMMA LineEndIs ==
  ASSUME NEW s \in Seq(Symbol), NEW n \in Nat, n = Len(s), s[n].kind = "newline",
         NEW i \in 1..n
  PROVE  /\ LineEnd(s, i) \in i..n /\ s[LineEnd(s, i)].kind = "newline"
         /\ \A k \in i..(LineEnd(s, i) - 1) : s[k].kind # "newline"
<1> DEFINE ends == {k \in 1..n : k >= i /\ s[k].kind = "newline"}
<1>1. n \in ends /\ ends \subseteq Nat
  OBVIOUS
<1>2. PICK j \in ends : \A k \in ends : j <= k
  BY <1>1, LeastExists
<1>3. Newlines(s) = {k \in 1..n : s[k].kind = "newline"}
  BY DEF Newlines
<1>4. j \in Newlines(s) /\ j >= i /\ \A k \in Newlines(s) : k >= i => k >= j
  BY <1>2, <1>3
<1>5. /\ LineEnd(s, i) \in Newlines(s) /\ LineEnd(s, i) >= i
      /\ \A k \in Newlines(s) : k >= i => k >= LineEnd(s, i)
  BY <1>4, Zenon DEF LineEnd
<1>6. PICK d : d = LineEnd(s, i)
  OBVIOUS
<1>7. /\ d \in 1..n /\ s[d].kind = "newline" /\ d >= i
      /\ \A k \in 1..n : s[k].kind = "newline" /\ k >= i => k >= d
  BY <1>3, <1>5, <1>6
<1> HIDE DEF ends
<1>8. d \in i..n /\ \A k \in i..(d - 1) : k \in 1..n /\ k >= i /\ ~(k >= d)
  BY <1>7
<1> QED
  BY <1>6, <1>7, <1>8

\* The lines of a piece are lines of the stream.
LEMMA LinesAre ==
  ASSUME NEW g \in Seq(Symbol), NEW m \in Nat, NEW e \in (m + 1)..Len(g),
         g[e].kind = "newline"
  PROVE  LET s == SubSeq(g, m + 1, e) IN
         /\ \A l \in LinesOf(s) :
              \E i, j \in (m + 1)..e :
                LineIn(g, m, i, j) /\ l = <<i - m, SubSeq(g, i, j)>>
         /\ \A i, j \in (m + 1)..e :
              LineIn(g, m, i, j) => <<i - m, SubSeq(g, i, j)>> \in LinesOf(s)
<1> DEFINE s == SubSeq(g, m + 1, e)
           n == e - m
           begins == {1} \cup {k + 1 : k \in Newlines(s) \ {Len(s)}}
<1>0. PICK q : q = Len(g)
  OBVIOUS
<1>1. /\ q \in Nat /\ e \in Nat /\ m < e /\ e <= q /\ n \in Nat /\ n >= 1 /\ m + n = e
      /\ e \in m..Len(g)
  BY <1>0
<1>2. s \in Seq(Symbol) /\ Len(s) = n /\ \A k \in 1..n : s[k] = g[m + k]
  BY <1>1, PieceIs
<1>3. LinesOf(s) = {<<i, SubSeq(s, i, LineEnd(s, i))>> : i \in begins}
  BY Zenon DEF LinesOf, LineEnd
<1>w. \A i, j \in Nat : m < i /\ i <= j /\ j <= e => SubSeq(s, i - m, j - m) = SubSeq(g, i, j)
  BY <1>1, Within
<1> HIDE DEF s
<1>4. Newlines(s) = {k \in 1..n : s[k].kind = "newline"}
  BY <1>2 DEF Newlines
<1>5. s[n].kind = "newline"
  BY <1>1, <1>2
<1> HIDE DEF n
<1>6. ASSUME NEW b \in begins
      PROVE  b \in 1..n /\ (b = 1 \/ s[b - 1].kind = "newline")
  <2>1. CASE b = 1
    BY <1>1, <2>1
  <2>2. CASE \E k \in Newlines(s) \ {Len(s)} : b = k + 1
    <3>1. PICK k \in Newlines(s) \ {Len(s)} : b = k + 1
      BY <2>2
    <3>2. k \in 1..n /\ k # n /\ s[k].kind = "newline"
      BY <1>2, <1>4, <3>1
    <3>3. b - 1 = k /\ b \in 1..n
      BY <1>1, <3>1, <3>2
    <3> QED
      BY <3>2, <3>3
  <2> QED
    BY <1>6, <2>1, <2>2
<1>7. ASSUME NEW b \in 1..n, b = 1 \/ s[b - 1].kind = "newline"
      PROVE  b \in begins
  <2>1. CASE b # 1
    <3>1. b - 1 \in 1..n /\ b - 1 # n /\ (b - 1) + 1 = b
      BY <1>1, <2>1
    <3>2. b - 1 \in Newlines(s) \ {Len(s)}
      BY <1>2, <1>4, <1>7, <2>1, <3>1
    <3> QED
      BY <3>1, <3>2
  <2> QED
    BY <2>1
<1> HIDE DEF begins
<1>8. ASSUME NEW l \in LinesOf(s)
      PROVE  \E i, j \in (m + 1)..e :
               LineIn(g, m, i, j) /\ l = <<i - m, SubSeq(g, i, j)>>
  <2>1. PICK b \in begins : l = <<b, SubSeq(s, b, LineEnd(s, b))>>
    BY <1>3
  <2>2. b \in 1..n /\ (b = 1 \/ s[b - 1].kind = "newline")
    BY <1>6
  <2>3. PICK d : d = LineEnd(s, b)
    OBVIOUS
  <2>4. d \in b..n /\ s[d].kind = "newline" /\ \A k \in b..(d - 1) : s[k].kind # "newline"
    <3>1. b \in 1..n /\ n \in Nat /\ n = Len(s) /\ s \in Seq(Symbol)
      BY <1>1, <1>2, <2>2
    <3>2. /\ LineEnd(s, b) \in b..n /\ s[LineEnd(s, b)].kind = "newline"
          /\ \A k \in b..(LineEnd(s, b) - 1) : s[k].kind # "newline"
      BY <1>5, <3>1, Zenon, LineEndIs
    <3> QED
      BY <2>3, <3>2
  <2> DEFINE i == m + b
             j == m + d
  <2>5. /\ i \in (m + 1)..e /\ j \in (m + 1)..e /\ i - m = b /\ j - m = d
        /\ i \in Nat /\ j \in Nat /\ m < i /\ i <= j /\ j <= e
    BY <1>1, <2>2, <2>4
  <2>6. g[j].kind = "newline"
    BY <1>1, <1>2, <2>2, <2>4
  <2>7. ASSUME NEW k \in i..(j - 1) PROVE g[k].kind # "newline"
    <3>1. k - m \in b..(d - 1) /\ k - m \in 1..n /\ m + (k - m) = k
      BY <1>1, <2>2, <2>4
    <3> QED
      BY <1>2, <2>4, <3>1
  <2>8. i = m + 1 \/ g[i - 1].kind = "newline"
    <3>1. b # 1 => b - 1 \in 1..n /\ m + (b - 1) = i - 1
      BY <1>1, <2>2
    <3> QED
      BY <1>2, <2>2, <3>1
  <2>9. LineIn(g, m, i, j)
    BY <2>5, <2>6, <2>7, <2>8 DEF LineIn
  <2>10. SubSeq(s, b, d) = SubSeq(g, i, j)
    BY <1>w, <2>5
  <2> HIDE DEF i, j
  <2> QED
    BY <2>1, <2>3, <2>5, <2>9, <2>10
<1>9. ASSUME NEW i \in (m + 1)..e, NEW j \in (m + 1)..e, LineIn(g, m, i, j)
      PROVE  <<i - m, SubSeq(g, i, j)>> \in LinesOf(s)
  <2>0. PICK b, d : b = i - m /\ d = j - m
    OBVIOUS
  <2>1. /\ b \in 1..n /\ d \in b..n /\ m + b = i /\ m + d = j
        /\ i \in Nat /\ j \in Nat /\ m < i /\ i <= j /\ j <= e
    BY <1>1, <1>9, <2>0 DEF LineIn
  <2>2. b = 1 \/ s[b - 1].kind = "newline"
    <3>1. b # 1 => b - 1 \in 1..n /\ m + (b - 1) = i - 1 /\ i # m + 1
      BY <1>1, <2>1
    <3> QED
      BY <1>2, <1>9, <3>1 DEF LineIn
  <2>3. b \in begins
    BY <1>7, <2>1, <2>2
  <2>4. d = LineEnd(s, b)
    <3>1. PICK x : x = LineEnd(s, b)
      OBVIOUS
    <3>2. x \in b..n /\ s[x].kind = "newline" /\ \A k \in b..(x - 1) : s[k].kind # "newline"
      <4>1. b \in 1..n /\ n \in Nat /\ n = Len(s) /\ s \in Seq(Symbol)
        BY <1>1, <1>2, <2>1
      <4>2. /\ LineEnd(s, b) \in b..n /\ s[LineEnd(s, b)].kind = "newline"
            /\ \A k \in b..(LineEnd(s, b) - 1) : s[k].kind # "newline"
        BY <1>5, <4>1, Zenon, LineEndIs
      <4> QED
        BY <3>1, <4>2
    <3>3. ~(x < d)
      <4>1. x < d => m + x \in i..(j - 1) /\ x \in 1..n
        BY <1>1, <2>1, <3>2
      <4> QED
        BY <1>2, <1>9, <3>2, <4>1 DEF LineIn
    <3>4. ~(d < x)
      <4>1. d < x => d \in b..(x - 1) /\ d \in 1..n
        BY <1>1, <2>1, <3>2
      <4> QED
        BY <1>2, <1>9, <2>1, <3>2, <4>1 DEF LineIn
    <3> QED
      BY <1>1, <2>1, <3>1, <3>2, <3>3, <3>4
  <2>5. SubSeq(s, b, d) = SubSeq(g, i, j)
    BY <1>w, <2>0, <2>1
  <2>6. <<b, SubSeq(s, b, LineEnd(s, b))>> \in LinesOf(s)
    BY <1>3, <2>3
  <2> QED
    BY <2>0, <2>4, <2>5, <2>6
<1> QED
  BY <1>8, <1>9 DEF s


\* Two lines are the same or one comes after the other.
LEMMA LinesApart ==
  ASSUME NEW g, NEW m \in Nat, NEW i \in Nat, NEW j \in Nat, NEW a \in Nat, NEW b \in Nat,
         m < i, m < a, LineIn(g, m, i, j), LineIn(g, m, a, b)
  PROVE  (i = a /\ j = b) \/ j < a \/ b < i
<1>1. ASSUME NEW p \in Nat, NEW q \in Nat, NEW c \in Nat, NEW d \in Nat, m < p, m < c,
             LineIn(g, m, p, q), LineIn(g, m, c, d), p < c
      PROVE  q < c
  <2>1. c # m + 1 /\ g[c - 1].kind = "newline"
    BY <1>1 DEF LineIn
  <2>2. q >= c => c - 1 \in p..(q - 1)
    BY <1>1
  <2> QED
    BY <1>1, <2>1, <2>2 DEF LineIn
<1>2. ASSUME i = a, j < b PROVE FALSE
  BY <1>2 DEF LineIn
<1>3. ASSUME i = a, b < j PROVE FALSE
  BY <1>3 DEF LineIn
<1> QED
  BY <1>1, <1>2, <1>3

\* IsHead of a piece, by positions of the stream.
LEMMA HeadIs ==
  ASSUME NEW g \in Seq(Symbol), NEW m \in Nat, NEW e \in (m + 1)..Len(g), NEW n
  PROVE  IsHead(SubSeq(g, m + 1, e), n) <=> HeadAt(g, m, e, n)
<1> DEFINE s == SubSeq(g, m + 1, e)
<1>0. PICK q : q = Len(g)
  OBVIOUS
<1>1. /\ q \in Nat /\ e \in Nat /\ m < e /\ e <= q /\ e - m \in 1..(e - m)
      /\ m + (e - m) = e /\ e \in m..Len(g)
  BY <1>0
<1>2. s \in Seq(Symbol) /\ Len(s) = e - m /\ s[e - m] = g[e]
  BY <1>1, PieceIs
<1>3. Last(s) = g[e]
  BY <1>2 DEF Last
<1>4. ASSUME NEW i \in (m + 1)..e, NEW j \in (m + 1)..e, LineIn(g, m, i, j)
      PROVE  /\ i \in Nat /\ j \in Nat /\ m < i /\ i <= j /\ j <= e
             /\ Len(SubSeq(g, i, j)) = j - i + 1
  <2>1. /\ i \in Nat /\ j \in Nat /\ m < i /\ i <= j /\ j <= e /\ i - 1 \in Nat
        /\ j \in (i - 1)..Len(g) /\ (i - 1) + 1 = i /\ j - (i - 1) = j - i + 1
    BY <1>0, <1>1, <1>4 DEF LineIn
  <2> QED
    BY <2>1, PieceIs
<1>5. ASSUME g[e].kind = "newline"
      PROVE  /\ \A l \in LinesOf(s) :
                  \E i, j \in (m + 1)..e :
                    LineIn(g, m, i, j) /\ l = <<i - m, SubSeq(g, i, j)>>
             /\ \A i, j \in (m + 1)..e :
                  LineIn(g, m, i, j) => <<i - m, SubSeq(g, i, j)>> \in LinesOf(s)
  BY <1>5, LinesAre
<1> HIDE DEF s
<1>6. ASSUME IsHead(s, n) PROVE HeadAt(g, m, e, n)
  <2>1. g[e].kind = "newline"
    BY <1>3, <1>6 DEF IsHead
  <2>2. PICK l \in LinesOf(s) :
          /\ IsBlank(l[2]) /\ l[1] + Len(l[2]) = Len(s) + 1
          /\ \A k \in LinesOf(s) : k[1] # l[1] => IsHeaderLine(k[2])
    BY <1>6 DEF IsHead
  <2>3. PICK i, j \in (m + 1)..e : LineIn(g, m, i, j) /\ l = <<i - m, SubSeq(g, i, j)>>
    BY <1>5, <2>1
  <2>4. j = e
    BY <1>1, <1>2, <1>4, <2>2, <2>3
  <2>5. Headers(g, m, e - 1)
    <3> SUFFICES ASSUME NEW a \in (m + 1)..(e - 1), NEW b \in (m + 1)..(e - 1),
                        LineIn(g, m, a, b)
                 PROVE  IsHeaderLine(SubSeq(g, a, b))
      BY DEF Headers
    <3>1. a \in (m + 1)..e /\ b \in (m + 1)..e /\ a \in Nat /\ b \in Nat /\ b # e
          /\ i \in Nat /\ j \in Nat /\ m < a /\ m < i
      BY <1>1
    <3>2. a # i
      BY <2>3, <2>4, <3>1, LinesApart, <1>1 DEF LineIn
    <3>3. a - m # i - m
      BY <3>1, <3>2
    <3>4. <<a - m, SubSeq(g, a, b)>> \in LinesOf(s)
      BY <1>5, <2>1, <3>1
    <3> QED
      BY <2>2, <2>3, <3>3, <3>4
  <2>6. PICK l2 \in LinesOf(s) :
          /\ \E x \in LengthAt(l2[2]) : l2[2][x].n = n
          /\ \A k \in LinesOf(s) : k[1] > l2[1] => ~HasLength(k[2])
    BY <1>6 DEF IsHead
  <2>7. PICK c, d \in (m + 1)..e : LineIn(g, m, c, d) /\ l2 = <<c - m, SubSeq(g, c, d)>>
    BY <1>5, <2>1
  <2>8. ASSUME NEW a \in (m + 1)..e, NEW b \in (m + 1)..e, LineIn(g, m, a, b), a > c
        PROVE  ~HasLength(SubSeq(g, a, b))
    <3>1. <<a - m, SubSeq(g, a, b)>> \in LinesOf(s) /\ a - m > c - m
      BY <1>1, <1>5, <2>1, <2>8
    <3> QED
      BY <2>6, <2>7, <3>1
  <2>9. LengthIs(g, m, e, n)
    BY <2>6, <2>7, <2>8 DEF LengthIs
  <2> QED
    BY <2>2, <2>3, <2>4, <2>5, <2>9 DEF HeadAt
<1>7. ASSUME HeadAt(g, m, e, n) PROVE IsHead(s, n)
  <2>1. PICK i \in (m + 1)..e : LineIn(g, m, i, e) /\ IsBlank(SubSeq(g, i, e))
    BY <1>7 DEF HeadAt
  <2>2. g[e].kind = "newline"
    BY <2>1 DEF LineIn
  <2> DEFINE l == <<i - m, SubSeq(g, i, e)>>
  <2>3. e \in (m + 1)..e
    BY <1>1
  <2>4. l \in LinesOf(s)
    BY <1>5, <2>1, <2>2, <2>3
  <2>5. l[1] + Len(l[2]) = Len(s) + 1
    BY <1>1, <1>2, <1>4, <2>1, <2>3
  <2>6. ASSUME NEW k \in LinesOf(s), k[1] # l[1] PROVE IsHeaderLine(k[2])
    <3>1. PICK a, b \in (m + 1)..e : LineIn(g, m, a, b) /\ k = <<a - m, SubSeq(g, a, b)>>
      BY <1>5, <2>2
    <3>2. a # i
      BY <2>6, <3>1
    <3>3. a \in Nat /\ b \in Nat /\ i \in Nat /\ m < a /\ m < i /\ a <= b /\ b <= e /\ i <= e
      BY <1>1, <1>4, <2>1, <3>1
    <3>4. b # e
      BY <1>1, <2>1, <3>1, <3>2, <3>3, LinesApart
    <3>5. a \in (m + 1)..(e - 1) /\ b \in (m + 1)..(e - 1)
      BY <1>1, <3>3, <3>4
    <3> QED
      BY <1>7, <3>1, <3>5 DEF HeadAt, Headers
  <2>7. PICK c, d \in (m + 1)..e :
          /\ LineIn(g, m, c, d)
          /\ \E x \in LengthAt(SubSeq(g, c, d)) : SubSeq(g, c, d)[x].n = n
          /\ \A a, b \in (m + 1)..e :
               LineIn(g, m, a, b) /\ a > c => ~HasLength(SubSeq(g, a, b))
    BY <1>7 DEF HeadAt, LengthIs
  <2> DEFINE l2 == <<c - m, SubSeq(g, c, d)>>
  <2>8. l2 \in LinesOf(s)
    BY <1>5, <2>2, <2>7
  <2>9. ASSUME NEW k \in LinesOf(s), k[1] > l2[1] PROVE ~HasLength(k[2])
    <3>1. PICK a, b \in (m + 1)..e : LineIn(g, m, a, b) /\ k = <<a - m, SubSeq(g, a, b)>>
      BY <1>5, <2>2
    <3>2. a > c
      BY <1>1, <2>9, <3>1
    <3> QED
      BY <2>7, <3>1, <3>2
  <2>10. /\ IsBlank(l[2]) /\ l2[2] = SubSeq(g, c, d)
    BY <2>1
  <2>11. \E x \in LengthAt(l2[2]) : l2[2][x].n = n
    BY <2>7
  <2> HIDE DEF l, l2
  <2> QED
    BY <1>3, <2>2, <2>4, <2>5, <2>6, <2>8, <2>9, <2>10, <2>11 DEF IsHead
<1> QED
  BY <1>6, <1>7 DEF s


LEMMA FrameIs ==
  ASSUME NEW g \in Seq(Symbol), NEW m \in Nat, NEW e \in (m + 1)..Len(g)
  PROVE  IsFrame(SubSeq(g, m + 1, e)) <=> FrameAt(g, m, e)
<1> DEFINE s == SubSeq(g, m + 1, e)
<1>0. PICK q : q = Len(g)
  OBVIOUS
<1>1. q \in Nat /\ e \in Nat /\ m < e /\ e <= q /\ e \in m..Len(g)
  BY <1>0
<1>2. Len(s) = e - m
  BY <1>1, PieceIs
<1>3. ASSUME NEW i \in (m + 1)..e
      PROVE  IsHead(SubSeq(s, 1, i - m), e - i) <=> HeadAt(g, m, i, e - i)
  <2>1. m + 1 \in Nat /\ (m + 1) - m = 1 /\ i \in Nat /\ m < m + 1 /\ m + 1 <= i /\ i <= e
        /\ i \in (m + 1)..Len(g)
    BY <1>0, <1>1
  <2>2. SubSeq(s, (m + 1) - m, i - m) = SubSeq(g, m + 1, i)
    BY <1>1, <2>1, Within
  <2>3. SubSeq(s, 1, i - m) = SubSeq(g, m + 1, i)
    BY <2>1, <2>2
  <2> HIDE DEF s
  <2> QED
    BY <2>1, <2>3, HeadIs
<1> HIDE DEF s
<1>4. ASSUME IsFrame(s) PROVE FrameAt(g, m, e)
  <2>1. PICK k \in 1..Len(s) : IsHead(SubSeq(s, 1, k), Len(s) - k)
    BY <1>4 DEF IsFrame
  <2>2. PICK i : i = m + k
    OBVIOUS
  <2>3. i \in (m + 1)..e /\ k = i - m /\ Len(s) - k = e - i
    BY <1>1, <1>2, <2>1, <2>2
  <2> QED
    BY <1>3, <2>1, <2>3 DEF FrameAt
<1>5. ASSUME FrameAt(g, m, e) PROVE IsFrame(s)
  <2>1. PICK i \in (m + 1)..e : HeadAt(g, m, i, e - i)
    BY <1>5 DEF FrameAt
  <2>2. i - m \in 1..Len(s) /\ Len(s) - (i - m) = e - i
    BY <1>1, <1>2
  <2>3. IsHead(SubSeq(s, 1, i - m), Len(s) - (i - m))
    BY <1>3, <2>1, <2>2
  <2> QED
    BY <2>2, <2>3 DEF IsFrame
<1> QED
  BY <1>4, <1>5 DEF s

\* There is one header block at most after a position, and with one length.
LEMMA OneHead ==
  ASSUME NEW g \in Seq(Symbol), NEW m \in Nat, NEW e \in Nat, NEW f \in Nat,
         e <= Len(g), f <= Len(g), NEW n, NEW p, HeadAt(g, m, e, n), HeadAt(g, m, f, p)
  PROVE  e = f /\ n = p
<1>1. ASSUME NEW c \in Nat, NEW d \in Nat, NEW x, NEW y, HeadAt(g, m, c, x), HeadAt(g, m, d, y), c < d
      PROVE  FALSE
  <2>1. PICK i \in (m + 1)..c : LineIn(g, m, i, c) /\ IsBlank(SubSeq(g, i, c))
    BY <1>1 DEF HeadAt
  <2>2. i \in (m + 1)..(d - 1) /\ c \in (m + 1)..(d - 1)
    BY <1>1, <2>1
  <2>3. IsHeaderLine(SubSeq(g, i, c))
    BY <1>1, <2>1, <2>2 DEF HeadAt, Headers
  <2> QED
    BY <2>1, <2>3 DEF IsHeaderLine, IsBlank, HasColon
<1>2. e = f
  BY <1>1
<1>3. PICK i, j \in (m + 1)..e :
        /\ LineIn(g, m, i, j)
        /\ \E x \in LengthAt(SubSeq(g, i, j)) : SubSeq(g, i, j)[x].n = n
        /\ \A a, b \in (m + 1)..e : LineIn(g, m, a, b) /\ a > i => ~HasLength(SubSeq(g, a, b))
  BY DEF HeadAt, LengthIs
<1>4. PICK c, d \in (m + 1)..e :
        /\ LineIn(g, m, c, d)
        /\ \E x \in LengthAt(SubSeq(g, c, d)) : SubSeq(g, c, d)[x].n = p
        /\ \A a, b \in (m + 1)..e : LineIn(g, m, a, b) /\ a > c => ~HasLength(SubSeq(g, a, b))
  BY <1>2 DEF HeadAt, LengthIs
<1>5. HasLength(SubSeq(g, i, j)) /\ HasLength(SubSeq(g, c, d))
  BY <1>3, <1>4 DEF HasLength
<1>6. ~(c > i) /\ ~(i > c)
  BY <1>3, <1>4, <1>5
<1>7. i = c /\ j = d
  <2>1. i \in Nat /\ j \in Nat /\ c \in Nat /\ d \in Nat /\ m < i /\ m < c /\ i <= j /\ c <= d
    BY <1>3, <1>4 DEF LineIn
  <2> QED
    BY <1>3, <1>4, <1>6, <2>1, LinesApart
<1>8. PICK line : line = SubSeq(g, i, j)
  OBVIOUS
<1>9. PICK x, y \in LengthAt(line) : line[x].n = n /\ line[y].n = p
  BY <1>3, <1>4, <1>7, <1>8
<1>10. x = y
  <2>1. PICK q : q = Len(g)
    OBVIOUS
  <2>2. i - 1 \in Nat /\ j \in (i - 1)..Len(g) /\ (i - 1) + 1 = i
    BY <1>3, <2>1 DEF LineIn
  <2>3. line \in Seq(Symbol)
    BY <1>8, <2>2, PieceIs
  <2>4. x \in Nat /\ y \in Nat
    BY <1>9, <2>3 DEF LengthAt, Content
  <2> QED
    BY <1>9, <2>4 DEF LengthAt
<1> QED
  BY <1>2, <1>9, <1>10


----------------------------------------------------------------------------
(* The reference, without its recursion. *)

LEMMA BoundaryExists ==
  ASSUME NEW g \in Seq(Symbol)
  PROVE  \E b : b = [n \in 0..Len(g) |->
                       n = 0 \/ \E m \in 0..(n - 1) : b[m] /\ IsFrame(SubSeq(g, m + 1, n))]
<1> DEFINE F(m, n) == IsFrame(SubSeq(g, m + 1, n))
<1>0. PICK L : L = Len(g)
  OBVIOUS
<1>1. L \in Nat
  BY <1>0
<1> HIDE DEF F
<1> DEFINE Ends(ns, c) ==
             /\ ns \subseteq 0..L
             /\ \A n \in 0..L : n <= c =>
                  (n \in ns <=> n = 0 \/ \E m \in 0..(n - 1) : m \in ns /\ F(m, n))
           missing == {c \in Nat : ~\E ns : Ends(ns, c)}
<1>2. \E ns : Ends(ns, 0)
  <2>1. Ends({0}, 0)
    BY <1>1
  <2> QED
    BY <2>1
<1>3. ASSUME NEW c \in Nat, \E ns : Ends(ns, c) PROVE \E ns : Ends(ns, c + 1)
  <2>1. PICK ns : Ends(ns, c)
    BY <1>3
  <2> DEFINE next(n) == n = c + 1 /\ \E m \in 0..(n - 1) : m \in ns /\ F(m, n)
             longer == {n \in 0..L : (n <= c /\ n \in ns) \/ next(n)}
  <2>2. ASSUME NEW n \in 0..L, n <= c + 1
        PROVE  n \in longer <=> n = 0 \/ \E m \in 0..(n - 1) : m \in longer /\ F(m, n)
    <3>1. \A m \in 0..(n - 1) : m \in longer <=> m \in ns
      BY <1>1, <2>2
    <3>2. CASE n <= c
      <4>1. n \in longer <=> n \in ns
        BY <2>2, <3>2
      <4>2. n \in ns <=> n = 0 \/ \E m \in 0..(n - 1) : m \in ns /\ F(m, n)
        BY <2>1, <3>2
      <4> HIDE DEF longer
      <4> QED
        BY <3>1, <4>1, <4>2
    <3>3. CASE n = c + 1
      <4>1. n \in longer <=> \E m \in 0..(n - 1) : m \in ns /\ F(m, n)
        BY <2>2, <3>3
      <4>2. n # 0
        BY <3>3
      <4> HIDE DEF longer
      <4> QED
        BY <3>1, <4>1, <4>2
    <3> QED
      BY <2>2, <3>2, <3>3
  <2>3. longer \subseteq 0..L
    OBVIOUS
  <2> HIDE DEF longer
  <2>4. Ends(longer, c + 1)
    BY <2>2, <2>3
  <2> HIDE DEF Ends
  <2> QED
    BY <2>4
<1> HIDE DEF Ends
<1>4. missing = {}
  <2> SUFFICES ASSUME missing # {} PROVE FALSE
    OBVIOUS
  <2>1. PICK c \in missing : \A d \in missing : c <= d
    BY LeastExists
  <2>2. c \in Nat /\ c # 0
    BY <1>2, <2>1
  <2>3. c - 1 \in Nat /\ (c - 1) + 1 = c /\ ~(c <= c - 1)
    BY <2>2
  <2>4. \E ns : Ends(ns, c - 1)
    BY <2>1, <2>3
  <2>5. \E ns : Ends(ns, c)
    BY <1>3, <2>3, <2>4
  <2> QED
    BY <2>1, <2>5
<1>5. PICK ns : Ends(ns, L)
  BY <1>1, <1>4
<1>6. \A n \in 0..L : n \in ns <=> n = 0 \/ \E m \in 0..(n - 1) : m \in ns /\ F(m, n)
  BY <1>1, <1>5 DEF Ends
<1> DEFINE b == [n \in 0..L |-> n \in ns]
<1>7. \A n \in 0..L : b[n] = (n \in ns)
  OBVIOUS
<1> HIDE DEF missing
<1>8. \A n \in 0..L : (n \in ns) = (n = 0 \/ \E m \in 0..(n - 1) : b[m] /\ F(m, n))
  <2> SUFFICES ASSUME NEW n \in 0..L
               PROVE  (n \in ns) <=> (n = 0 \/ \E m \in 0..(n - 1) : b[m] /\ F(m, n))
    OBVIOUS
  <2>1. \A m \in 0..(n - 1) : m \in 0..L
    BY <1>1
  <2>2. \A m \in 0..(n - 1) : b[m] = (m \in ns)
    BY <1>7, <2>1
  <2> HIDE DEF b
  <2> QED
    BY <1>6, <2>2
<1>9. b = [n \in 0..L |-> n = 0 \/ \E m \in 0..(n - 1) : b[m] /\ F(m, n)]
  <2> DEFINE c == b
  <2>1. \A n \in 0..L : (n \in ns) = (n = 0 \/ \E m \in 0..(n - 1) : c[m] /\ F(m, n))
    BY <1>8
  <2> HIDE DEF c
  <2>2. [n \in 0..L |-> n \in ns] = [n \in 0..L |-> n = 0 \/ \E m \in 0..(n - 1) : c[m] /\ F(m, n)]
    BY <2>1, Zenon
  <2> QED
    BY <2>2 DEF c
<1> HIDE DEF b
<1> QED
  BY <1>0, <1>9 DEF F

LEMMA BoundaryIs ==
  ASSUME NEW g \in Seq(Symbol), NEW n \in 0..Len(g)
  PROVE  Boundary(g)[n] <=> n = 0 \/ \E m \in 0..(n - 1) : Boundary(g)[m] /\ FrameAt(g, m, n)
<1> DEFINE b == CHOOSE f : f = [i \in 0..Len(g) |->
                 i = 0 \/ \E m \in 0..(i - 1) : f[m] /\ IsFrame(SubSeq(g, m + 1, i))]
<1>1. b = [i \in 0..Len(g) |->
             i = 0 \/ \E m \in 0..(i - 1) : b[m] /\ IsFrame(SubSeq(g, m + 1, i))]
  BY BoundaryExists, Zenon
<1>2. Boundary(g) = b
  BY Zenon DEF Boundary
<1> HIDE DEF b
<1>3. b[n] = (n = 0 \/ \E m \in 0..(n - 1) : b[m] /\ IsFrame(SubSeq(g, m + 1, n)))
  BY <1>1, Zenon
<1>4. \A m \in 0..(n - 1) : IsFrame(SubSeq(g, m + 1, n)) <=> FrameAt(g, m, n)
  <2>1. PICK q : q = Len(g)
    OBVIOUS
  <2>2. \A m \in 0..(n - 1) : m \in Nat /\ n \in (m + 1)..Len(g)
    BY <2>1
  <2> QED
    BY <2>2, FrameIs
<1> QED
  BY <1>2, <1>3, <1>4


\* Of two streams that begin alike, the same lines, header blocks and frames.
LEMMA SameLines ==
  ASSUME NEW g \in Seq(Symbol), NEW h \in Seq(Symbol), Len(g) <= Len(h),
         \A k \in 1..Len(g) : h[k] = g[k],
         NEW m \in Nat, NEW e \in m..Len(g)
  PROVE  /\ \A i, j \in (m + 1)..e : LineIn(h, m, i, j) <=> LineIn(g, m, i, j)
         /\ \A i, j \in (m + 1)..e : i <= j => SubSeq(h, i, j) = SubSeq(g, i, j)
<1>0. PICK q : q = Len(g)
  OBVIOUS
<1>1. q \in Nat /\ e \in Nat /\ m <= e /\ e <= q
  BY <1>0
<1>2. ASSUME NEW i \in (m + 1)..e, NEW j \in (m + 1)..e
      PROVE  LineIn(h, m, i, j) <=> LineIn(g, m, i, j)
  <2>1. h[j] = g[j] /\ \A k \in i..(j - 1) : h[k] = g[k]
    <3>1. j \in 1..q /\ \A k \in i..(j - 1) : k \in 1..q
      BY <1>1
    <3> QED
      BY <1>0, <3>1
  <2>2. i # m + 1 => h[i - 1] = g[i - 1]
    <3>1. i # m + 1 => i - 1 \in 1..q
      BY <1>1
    <3> QED
      BY <1>0, <3>1
  <2> QED
    BY <2>1, <2>2 DEF LineIn
<1>3. ASSUME NEW i \in (m + 1)..e, NEW j \in (m + 1)..e, i <= j
      PROVE  SubSeq(h, i, j) = SubSeq(g, i, j)
  <2>1. PICK c : c = i - 1
    OBVIOUS
  <2>2. c \in Nat /\ j \in c..q /\ c + 1 = i
    BY <1>1, <1>3, <2>1
  <2>3. SubSeq(g, c + 1, j) = SubSeq(h, c + 1, j)
    BY <1>0, <2>2, SamePiece
  <2> QED
    BY <2>2, <2>3
<1> QED
  BY <1>2, <1>3

LEMMA SameHeaders ==
  ASSUME NEW g \in Seq(Symbol), NEW h \in Seq(Symbol), Len(g) <= Len(h),
         \A k \in 1..Len(g) : h[k] = g[k],
         NEW m \in Nat, NEW e \in m..Len(g), NEW n
  PROVE  /\ Headers(h, m, e) <=> Headers(g, m, e)
         /\ NoLength(h, m, e) <=> NoLength(g, m, e)
         /\ LengthIs(h, m, e, n) <=> LengthIs(g, m, e, n)
<1>1. /\ \A i, j \in (m + 1)..e : LineIn(h, m, i, j) <=> LineIn(g, m, i, j)
      /\ \A i, j \in (m + 1)..e : i <= j => SubSeq(h, i, j) = SubSeq(g, i, j)
  BY SameLines
<1>2. \A i, j \in (m + 1)..e : LineIn(g, m, i, j) => i <= j
  BY DEF LineIn
<1>3. \A i, j \in (m + 1)..e : LineIn(g, m, i, j) => SubSeq(h, i, j) = SubSeq(g, i, j)
  BY <1>1, <1>2
<1>4. Headers(h, m, e) <=> Headers(g, m, e)
  BY <1>1, <1>3 DEF Headers
<1>5. NoLength(h, m, e) <=> NoLength(g, m, e)
  BY <1>1, <1>3 DEF NoLength
<1>6. LengthIs(h, m, e, n) <=> LengthIs(g, m, e, n)
  <2> DEFINE Latest(s, i, j) ==
               /\ LineIn(s, m, i, j)
               /\ \E x \in LengthAt(SubSeq(s, i, j)) : SubSeq(s, i, j)[x].n = n
               /\ \A a, b \in (m + 1)..e :
                    LineIn(s, m, a, b) /\ a > i => ~HasLength(SubSeq(s, a, b))
  <2>1. \A s : LengthIs(s, m, e, n) <=> \E i, j \in (m + 1)..e : Latest(s, i, j)
    BY DEF LengthIs
  <2>2. ASSUME NEW i \in (m + 1)..e, NEW j \in (m + 1)..e
        PROVE  Latest(h, i, j) <=> Latest(g, i, j)
    <3>1. CASE LineIn(g, m, i, j)
      <4>1. SubSeq(h, i, j) = SubSeq(g, i, j) /\ LineIn(h, m, i, j)
        BY <1>1, <1>3, <3>1
      <4>2. \A a, b \in (m + 1)..e :
              (LineIn(h, m, a, b) /\ a > i => ~HasLength(SubSeq(h, a, b)))
                <=> (LineIn(g, m, a, b) /\ a > i => ~HasLength(SubSeq(g, a, b)))
        BY <1>1, <1>3
      <4> QED
        BY <3>1, <4>1, <4>2
    <3>2. CASE ~LineIn(g, m, i, j)
      BY <1>1, <3>2
    <3> QED
      BY <3>1, <3>2
  <2> HIDE DEF Last
  <2> QED
    BY <2>1, <2>2
<1> QED
  BY <1>4, <1>5, <1>6

LEMMA SameHead ==
  ASSUME NEW g \in Seq(Symbol), NEW h \in Seq(Symbol), Len(g) <= Len(h),
         \A k \in 1..Len(g) : h[k] = g[k],
         NEW m \in Nat, NEW e \in (m + 1)..Len(g), NEW n
  PROVE  HeadAt(h, m, e, n) <=> HeadAt(g, m, e, n)
<1>0. PICK q : q = Len(g)
  OBVIOUS
<1>1. e \in m..Len(g) /\ e - 1 \in m..Len(g) /\ e \in (m + 1)..e
  BY <1>0
<1>2. /\ Headers(h, m, e - 1) <=> Headers(g, m, e - 1)
      /\ LengthIs(h, m, e, n) <=> LengthIs(g, m, e, n)
  BY <1>1, SameHeaders
<1>3. /\ \A i \in (m + 1)..e : LineIn(h, m, i, e) <=> LineIn(g, m, i, e)
      /\ \A i \in (m + 1)..e : SubSeq(h, i, e) = SubSeq(g, i, e)
  BY <1>1, SameLines
<1> QED
  BY <1>2, <1>3 DEF HeadAt

LEMMA SameFrame ==
  ASSUME NEW g \in Seq(Symbol), NEW h \in Seq(Symbol), Len(g) <= Len(h),
         \A k \in 1..Len(g) : h[k] = g[k],
         NEW m \in Nat, NEW e \in (m + 1)..Len(g)
  PROVE  FrameAt(h, m, e) <=> FrameAt(g, m, e)
<1>0. PICK q : q = Len(g)
  OBVIOUS
<1>1. \A i \in (m + 1)..e : i \in (m + 1)..Len(g)
  BY <1>0
<1>2. \A i \in (m + 1)..e : HeadAt(h, m, i, e - i) <=> HeadAt(g, m, i, e - i)
  BY <1>1, SameHead
<1> QED
  BY <1>2 DEF FrameAt

LEMMA SameBoundary ==
  ASSUME NEW g \in Seq(Symbol), NEW h \in Seq(Symbol), Len(g) <= Len(h),
         \A k \in 1..Len(g) : h[k] = g[k]
  PROVE  \A n \in 0..Len(g) : Boundary(h)[n] <=> Boundary(g)[n]
<1>0. PICK q, r : q = Len(g) /\ r = Len(h)
  OBVIOUS
<1>1. q \in Nat /\ r \in Nat /\ q <= r
  BY <1>0
<1> DEFINE other == {n \in 0..q : ~(Boundary(h)[n] <=> Boundary(g)[n])}
<1> SUFFICES ASSUME other # {} PROVE FALSE
  BY <1>0
<1>2. other \subseteq Nat
  OBVIOUS
<1>3. PICK n \in other : \A k \in other : n <= k
  BY <1>2, LeastExists
<1>4. n \in 0..Len(g) /\ n \in 0..Len(h)
  BY <1>0, <1>1, <1>3
<1>5. ASSUME NEW m \in 0..(n - 1)
      PROVE  /\ Boundary(h)[m] <=> Boundary(g)[m]
             /\ FrameAt(h, m, n) <=> FrameAt(g, m, n)
  <2>1. m \in 0..q /\ m \in Nat /\ n \in (m + 1)..Len(g) /\ ~(n <= m)
    BY <1>0, <1>1, <1>4
  <2> QED
    BY <1>3, <2>1, SameFrame
<1>6. Boundary(h)[n] <=> n = 0 \/ \E m \in 0..(n - 1) : Boundary(h)[m] /\ FrameAt(h, m, n)
  BY <1>4, BoundaryIs
<1>7. Boundary(g)[n] <=> n = 0 \/ \E m \in 0..(n - 1) : Boundary(g)[m] /\ FrameAt(g, m, n)
  BY <1>4, BoundaryIs
<1>8. Boundary(h)[n] <=> Boundary(g)[n]
  BY <1>5, <1>6, <1>7
<1> QED
  BY <1>3, <1>8

\* No frame begins inside another: from a boundary to a later one there are frames.
LEMMA FrameBetween ==
  ASSUME NEW g \in Seq(Symbol), NEW o \in Nat, NEW n \in (o + 1)..Len(g),
         Boundary(g)[o], Boundary(g)[n]
  PROVE  \E e \in (o + 1)..n : FrameAt(g, o, e)
<1>0. PICK q : q = Len(g)
  OBVIOUS
<1> DEFINE Good(k) == \A m \in 0..(k - 1) :
                        Boundary(g)[m] /\ Boundary(g)[k] =>
                          \E e \in (m + 1)..k : FrameAt(g, m, e)
           bad == {k \in 0..q : ~Good(k)}
<1>1. bad \subseteq Nat
  OBVIOUS
<1>2. ASSUME bad # {} PROVE FALSE
  <2>1. PICK k \in bad : \A d \in bad : k <= d
    BY <1>1, <1>2, LeastExists
  <2>2. PICK m \in 0..(k - 1) :
          /\ Boundary(g)[m] /\ Boundary(g)[k]
          /\ ~\E e \in (m + 1)..k : FrameAt(g, m, e)
    BY <2>1
  <2>3. q \in Nat /\ k \in 0..q /\ k \in 0..Len(g) /\ m \in Nat /\ m < k
    BY <1>0, <2>1, <2>2
  <2>4. PICK c \in 0..(k - 1) : Boundary(g)[c] /\ FrameAt(g, c, k)
    <3>1. Boundary(g)[k] <=> k = 0 \/ \E d \in 0..(k - 1) : Boundary(g)[d] /\ FrameAt(g, d, k)
      BY <2>3, BoundaryIs
    <3> QED
      BY <2>2, <2>3, <3>1
  <2>5. CASE c = m
    <3>1. k \in (m + 1)..k
      BY <2>3
    <3> QED
      BY <2>2, <2>4, <2>5, <3>1
  <2>6. CASE m < c
    <3>1. c \in 0..q /\ m \in 0..(c - 1) /\ ~(k <= c)
      BY <2>3, <2>6
    <3>2. Good(c)
      BY <2>1, <3>1
    <3>3. PICK e \in (m + 1)..c : FrameAt(g, m, e)
      BY <2>2, <2>4, <3>1, <3>2
    <3>4. e \in (m + 1)..k
      BY <2>3, <3>3
    <3> QED
      BY <2>2, <3>3, <3>4
  <2>7. CASE c < m
    <3>1. m \in 0..q /\ c \in 0..(m - 1) /\ ~(k <= m)
      BY <2>3, <2>7
    <3>2. Good(m)
      BY <2>1, <3>1
    <3>3. PICK e \in (c + 1)..m : FrameAt(g, c, e)
      BY <2>2, <2>4, <3>1, <3>2
    <3>4. PICK i \in (c + 1)..e : HeadAt(g, c, i, e - i)
      BY <3>3 DEF FrameAt
    <3>5. PICK j \in (c + 1)..k : HeadAt(g, c, j, k - j)
      BY <2>4 DEF FrameAt
    <3>6. c \in Nat /\ i \in Nat /\ j \in Nat /\ i <= Len(g) /\ j <= Len(g)
      BY <1>0, <2>3, <3>3, <3>4, <3>5
    <3>7. i = j /\ e - i = k - j
      BY <3>4, <3>5, <3>6, OneHead
    <3> QED
      BY <2>3, <3>3, <3>6, <3>7
  <2> QED
    BY <2>3, <2>4, <2>5, <2>6, <2>7
<1>3. n \in 0..q /\ o \in 0..(n - 1)
  BY <1>0
<1>4. Good(n)
  BY <1>2, <1>3
<1> QED
  BY <1>3, <1>4

\* Where no frame begins, nothing after it makes the stream whole frames.
LEMMA StuckEnds ==
  ASSUME NEW g \in Seq(Symbol), NEW o \in Nat, Boundary(g)[o], Stuck(g, o)
  PROVE  ~Boundary(g)[Len(g)]
<1>0. PICK q : q = Len(g)
  OBVIOUS
<1>1. q \in Nat /\ q \in (o + 1)..Len(g)
  BY <1>0 DEF Stuck
<1> QED
  BY <1>0, <1>1, FrameBetween DEF Stuck


----------------------------------------------------------------------------
(* Lines that are added to a header block. *)

LEMMA WellFormed ==
  ASSUME NEW line \in Seq(Symbol)
  PROVE  /\ ~Malformed(line) /\ ~IsBlank(line) => IsHeaderLine(line)
         /\ Malformed(line) => ~IsHeaderLine(line)
         /\ Malformed(line) /\ IsBlank(line) => length = None
         /\ IsBlank(line) => ~HasLength(line) /\ ~IsHeaderLine(line)
<1>1. ASSUME ~Malformed(line), ~IsBlank(line) PROVE IsHeaderLine(line)
  <2>1. ASSUME HasLength(line) PROVE Cardinality(Content(line)) = 1
    <3>1. PICK x : x \in Content(line)
      BY <1>1 DEF IsBlank
    <3>2. Content(line) = {x}
      BY <1>1, <2>1, <3>1 DEF Malformed
    <3> QED
      BY <3>2, FS_Singleton
  <2> QED
    BY <1>1, <2>1 DEF Malformed, IsHeaderLine
<1>2. ASSUME Malformed(line), IsHeaderLine(line) PROVE FALSE
  <2>1. HasColon(line) /\ ~IsBlank(line)
    BY <1>2 DEF IsHeaderLine, HasColon, IsBlank
  <2>2. ASSUME HasLength(line), NEW i \in Content(line), NEW j \in Content(line)
        PROVE  i = j
    <3>1. Cardinality(Content(line)) = 1 /\ IsFiniteSet(Content(line))
      <4>1. Content(line) \subseteq 1..Len(line) /\ Len(line) \in Nat
        BY DEF Content
      <4>2. IsFiniteSet(1..Len(line))
        BY <4>1, FS_Interval
      <4> QED
        BY <1>2, <2>2, <4>1, <4>2, FS_Subset DEF IsHeaderLine
    <3>2. \E x : Content(line) = {x}
      BY <3>1, FS_Singleton
    <3> QED
      BY <2>2, <3>2
  <2> QED
    BY <1>2, <2>1, <2>2 DEF Malformed, IsHeaderLine
<1>3. ASSUME IsBlank(line) PROVE ~HasLength(line) /\ ~IsHeaderLine(line)
  BY <1>3 DEF IsBlank, HasLength, LengthAt, IsHeaderLine, HasColon
<1>4. ASSUME Malformed(line), IsBlank(line) PROVE length = None
  <2>1. \A i \in DOMAIN line : line[i].kind # "bad"
    BY <1>4 DEF IsBlank, Content
  <2> QED
    BY <1>3, <1>4, <2>1 DEF Malformed
<1> QED
  BY <1>1, <1>2, <1>3, <1>4

\* After r, where a line begins, there is no newline before q.
LEMMA NextLine ==
  ASSUME NEW g, NEW o \in Nat, NEW r \in Nat, NEW q \in Nat, o <= r, r < q,
         r = o \/ g[r].kind = "newline",
         \A k \in (r + 1)..(q - 1) : g[k].kind # "newline"
  PROVE  /\ \A i, j \in (o + 1)..q :
              LineIn(g, o, i, j) => \/ i = r + 1 /\ j = q
                                    \/ i \in (o + 1)..r /\ j \in (o + 1)..r
         /\ g[q].kind = "newline" => LineIn(g, o, r + 1, q)
<1>1. ASSUME NEW i \in (o + 1)..q, NEW j \in (o + 1)..q, LineIn(g, o, i, j)
      PROVE  \/ i = r + 1 /\ j = q
             \/ i \in (o + 1)..r /\ j \in (o + 1)..r
  <2>1. CASE j <= r
    BY <1>1, <2>1 DEF LineIn
  <2>2. CASE ~(j <= r)
    <3>1. j = q
      <4>1. j # q => j \in (r + 1)..(q - 1)
        BY <2>2
      <4> QED
        BY <1>1, <4>1 DEF LineIn
    <3>2. ~(i <= r)
      <4>1. i <= r => r # o /\ r \in i..(j - 1)
        BY <2>2
      <4> QED
        BY <1>1, <4>1 DEF LineIn
    <3>3. ~(i > r + 1)
      <4>1. i > r + 1 => i # o + 1 /\ i - 1 \in (r + 1)..(q - 1)
        OBVIOUS
      <4> QED
        BY <1>1, <4>1 DEF LineIn
    <3> QED
      BY <3>1, <3>2, <3>3
  <2> QED
    BY <2>1, <2>2
<1>2. g[q].kind = "newline" => LineIn(g, o, r + 1, q)
  <2>1. r + 1 <= q /\ (r + 1) - 1 = r /\ (r = o => r + 1 = o + 1)
    OBVIOUS
  <2> QED
    BY <2>1 DEF LineIn
<1> QED
  BY <1>1, <1>2

LEMMA HeadersGrow ==
  ASSUME NEW g, NEW o \in Nat, NEW r \in Nat, NEW q \in Nat, o <= r, r < q, NEW n,
         \A i, j \in (o + 1)..q :
           LineIn(g, o, i, j) => \/ i = r + 1 /\ j = q
                                 \/ i \in (o + 1)..r /\ j \in (o + 1)..r
  PROVE  LET line == SubSeq(g, r + 1, q)
             ends == LineIn(g, o, r + 1, q)
         IN
         /\ Headers(g, o, r) => Headers(g, o, q - 1)
         /\ Headers(g, o, r) /\ (ends => IsHeaderLine(line)) => Headers(g, o, q)
         /\ NoLength(g, o, r) /\ (ends => ~HasLength(line)) => NoLength(g, o, q)
         /\ LengthIs(g, o, r, n) /\ (ends => ~HasLength(line)) => LengthIs(g, o, q, n)
         /\ ends /\ (\E x \in LengthAt(line) : line[x].n = n) => LengthIs(g, o, q, n)
<1> DEFINE line == SubSeq(g, r + 1, q)
           ends == LineIn(g, o, r + 1, q)
<1>0. /\ \A i \in (o + 1)..(q - 1) : i \in (o + 1)..q /\ i # q
      /\ \A i \in (o + 1)..r : i \in (o + 1)..q
      /\ r + 1 \in (o + 1)..q /\ q \in (o + 1)..q
  OBVIOUS
<1>1. ASSUME Headers(g, o, r) PROVE Headers(g, o, q - 1)
  BY <1>0, <1>1 DEF Headers
<1>2. ASSUME Headers(g, o, r), ends => IsHeaderLine(line) PROVE Headers(g, o, q)
  BY <1>2 DEF Headers
<1>3. ASSUME NoLength(g, o, r), ends => ~HasLength(line) PROVE NoLength(g, o, q)
  BY <1>3 DEF NoLength
<1>4. ASSUME LengthIs(g, o, r, n), ends => ~HasLength(line) PROVE LengthIs(g, o, q, n)
  <2>1. PICK i, j \in (o + 1)..r :
          /\ LineIn(g, o, i, j)
          /\ \E x \in LengthAt(SubSeq(g, i, j)) : SubSeq(g, i, j)[x].n = n
          /\ \A a, b \in (o + 1)..r :
               LineIn(g, o, a, b) /\ a > i => ~HasLength(SubSeq(g, a, b))
    BY <1>4 DEF LengthIs
  <2>2. \A a, b \in (o + 1)..q : LineIn(g, o, a, b) /\ a > i => ~HasLength(SubSeq(g, a, b))
    BY <1>4, <2>1
  <2>3. i \in (o + 1)..q /\ j \in (o + 1)..q
    BY <1>0
  <2> QED
    BY <2>1, <2>2, <2>3 DEF LengthIs
<1>5. ASSUME ends, \E x \in LengthAt(line) : line[x].n = n PROVE LengthIs(g, o, q, n)
  <2>1. \A a, b \in (o + 1)..q : LineIn(g, o, a, b) => ~(a > r + 1)
    OBVIOUS
  <2> QED
    BY <1>0, <1>5, <2>1 DEF LengthIs
<1> QED
  BY <1>1, <1>2, <1>3, <1>4, <1>5

\* Where there are only header lines there is no frame.
LEMMA HeadersStuck ==
  ASSUME NEW g \in Seq(Symbol), NEW o \in Nat, o < Len(g), Headers(g, o, Len(g))
  PROVE  Stuck(g, o)
<1>0. PICK q : q = Len(g)
  OBVIOUS
<1> SUFFICES ASSUME NEW e \in (o + 1)..q, FrameAt(g, o, e) PROVE FALSE
  BY <1>0 DEF Stuck
<1>1. PICK i \in (o + 1)..e : HeadAt(g, o, i, e - i)
  BY DEF FrameAt
<1>2. PICK k \in (o + 1)..i : LineIn(g, o, k, i) /\ IsBlank(SubSeq(g, k, i))
  BY <1>1 DEF HeadAt
<1>3. q \in Nat /\ k \in (o + 1)..q /\ i \in (o + 1)..q
  BY <1>0, <1>1, <1>2
<1>4. IsHeaderLine(SubSeq(g, k, i))
  BY <1>0, <1>2, <1>3 DEF Headers
<1> QED
  BY <1>2, <1>4 DEF IsHeaderLine, IsBlank, HasColon


----------------------------------------------------------------------------
(* The steps of the reader. *)

LEMMA Positions ==
  ASSUME CodecInv
  PROVE  /\ Base \in Nat /\ Here \in Nat /\ Base <= Here /\ Here <= Len(got)
         /\ Len(wire) \in Nat /\ Len(got) = Here + Len(wire)
         /\ \A i \in 1..Len(wire) : wire[i] = got[Here + i]
         /\ raw = <<>> <=> Here = Base
         /\ wire = <<>> <=> Here = Len(got)
         /\ got \in Seq(Symbol) /\ raw \in Seq(Symbol) /\ wire \in Seq(Symbol)
<1>2. PICK o, a, w : o = Len(out) /\ a = Len(raw) /\ w = Len(wire)
  OBVIOUS
<1>3. /\ got \in Seq(Symbol) /\ raw \in Seq(Symbol) /\ wire \in Seq(Symbol) /\ out \in Seq(Symbol)
  BY DEF CodecInv, TypeOK
<1>1. Base = o /\ Here = o + a
  BY <1>2 DEF Base, Here
<1>4. /\ Len(got) = o + a + w /\ \A i \in 1..Len(wire) : wire[i] = got[o + a + i]
  BY <1>2, AheadInStream
<1>5. o \in Nat /\ a \in Nat /\ w \in Nat
  BY <1>2, <1>3
<1>6. (raw = <<>> <=> a = 0) /\ (wire = <<>> <=> w = 0)
  BY <1>2, <1>3
<1>7. /\ o + a \in Nat /\ o <= o + a /\ o + a <= Len(got)
      /\ (a = 0 <=> o + a = o) /\ (w = 0 <=> o + a = Len(got))
  BY <1>4, <1>5
<1> QED
  BY <1>1, <1>2, <1>3, <1>4, <1>5, <1>6, <1>7

\* The next line in the stream: whole, or what is left at the end.
LEMMA LineAhead ==
  ASSUME CodecInv, raw = <<>> \/ got[Here].kind = "newline",
         NEW n \in 1..Len(wire), EndsLine(n)
  PROVE  \E o, r, q \in Nat :
           /\ o = Base /\ r = Here /\ q = Here + n /\ o <= r /\ r < q /\ q <= Len(got)
           /\ SubSeq(wire, 1, n) = SubSeq(got, r + 1, q)
           /\ SubSeq(wire, 1, n) \in Seq(Symbol) /\ Len(SubSeq(wire, 1, n)) = n
           /\ \A k \in (r + 1)..(q - 1) : got[k].kind # "newline"
           /\ got[q].kind # "newline" => closed /\ q = Len(got) /\ n = Len(wire)
           /\ r = o \/ got[r].kind = "newline"
<1>0. PICK o, q, r, l, w :
        o = Base /\ q = Here + n /\ r = Here /\ l = Len(got) /\ w = Len(wire)
  OBVIOUS
<1>1. /\ o \in Nat /\ o <= r /\ r \in Nat /\ r <= l /\ w \in Nat /\ l = r + w
      /\ \A i \in 1..w : wire[i] = got[r + i]
      /\ raw = <<>> => r = o
      /\ got \in Seq(Symbol) /\ wire \in Seq(Symbol)
  BY <1>0, Positions
<1>3. /\ n \in 1..w /\ q \in Nat /\ r < q /\ q <= l /\ q \in r..l /\ q - r = n /\ q = r + n
  BY <1>0, <1>1
<1>4. /\ SubSeq(wire, 1, n) \in Seq(Symbol) /\ Len(SubSeq(wire, 1, n)) = n
      /\ \A i \in 1..n : SubSeq(wire, 1, n)[i] = wire[i]
  <2>1. 0 \in Nat /\ n \in 0..Len(wire) /\ n - 0 = n /\ 0 + 1 = 1 /\ \A i \in 1..n : 0 + i = i
    BY <1>0, <1>3
  <2> QED
    BY <1>1, <2>1, PieceIs
<1>5. /\ SubSeq(got, r + 1, q) \in Seq(Symbol) /\ Len(SubSeq(got, r + 1, q)) = n
      /\ \A i \in 1..n : SubSeq(got, r + 1, q)[i] = got[r + i]
  <2>1. /\ SubSeq(got, r + 1, q) \in Seq(Symbol) /\ Len(SubSeq(got, r + 1, q)) = q - r
        /\ \A i \in 1..(q - r) : SubSeq(got, r + 1, q)[i] = got[r + i]
    <3>1. r \in Nat /\ q \in r..Len(got) /\ got \in Seq(Symbol)
      BY <1>0, <1>1, <1>3
    <3> QED
      BY <3>1, PieceIs
  <2> QED
    BY <1>3, <2>1
<1>6. SubSeq(wire, 1, n) = SubSeq(got, r + 1, q)
  <2>1. \A i \in 1..n : i \in 1..w
    BY <1>1, <1>3
  <2>2. \A i \in 1..n : SubSeq(wire, 1, n)[i] = SubSeq(got, r + 1, q)[i]
    BY <1>1, <1>4, <1>5, <2>1
  <2> QED
    BY <1>4, <1>5, <2>2, SeqEqual
<1>7. ASSUME NEW k \in (r + 1)..(q - 1) PROVE got[k].kind # "newline"
  <2>1. k - r \in 1..(n - 1) /\ k - r \in 1..w /\ r + (k - r) = k
    BY <1>1, <1>3
  <2> QED
    BY <1>1, <2>1 DEF EndsLine
<1>8. ASSUME got[q].kind # "newline" PROVE closed /\ q = l /\ n = w
  <2>1. wire[n] = got[q]
    BY <1>1, <1>3
  <2>2. closed /\ n = w
    BY <1>0, <1>8, <2>1 DEF EndsLine
  <2> QED
    BY <1>1, <1>3, <2>2
<1>9. r = o \/ got[r].kind = "newline"
  BY <1>0, <1>1
<1>10. o \in Nat /\ r \in Nat /\ q \in Nat /\ o <= r /\ r < q /\ q <= Len(got)
  BY <1>0, <1>1, <1>3
<1> QED
  BY <1>0, <1>4, <1>6, <1>7, <1>8, <1>9, <1>10

\* A header line is taken, or what is left of one.
LEMMA TakeHeader ==
  ASSUME CodecInv, HeadSoFar, NEW n \in 1..Len(wire), EndsLine(n), TakeLine(n),
         ~IsBlank(SubSeq(wire, 1, n))
  PROVE  \/ /\ got[Here + n].kind = "newline" /\ Headers(got, Base, Here + n)
            /\ IF length' = None THEN NoLength(got, Base, Here + n)
               ELSE LengthIs(got, Base, Here + n, length')
         \/ closed /\ n = Len(wire) /\ Stuck(got, Base)
<1> DEFINE line == SubSeq(wire, 1, n)
<1>0. raw = <<>> \/ got[Here].kind = "newline"
  BY DEF HeadSoFar
<1>1. PICK o, r, q \in Nat :
        /\ o = Base /\ r = Here /\ q = Here + n /\ o <= r /\ r < q /\ q <= Len(got)
        /\ line = SubSeq(got, r + 1, q)
        /\ line \in Seq(Symbol) /\ Len(line) = n
        /\ \A k \in (r + 1)..(q - 1) : got[k].kind # "newline"
        /\ got[q].kind # "newline" => closed /\ q = Len(got) /\ n = Len(wire)
        /\ r = o \/ got[r].kind = "newline"
  BY <1>0, LineAhead
<1> HIDE DEF line
<1>2. /\ \A i, j \in (o + 1)..q :
           LineIn(got, o, i, j) => \/ i = r + 1 /\ j = q
                                   \/ i \in (o + 1)..r /\ j \in (o + 1)..r
      /\ got[q].kind = "newline" => LineIn(got, o, r + 1, q)
  <2>1. /\ o \in Nat /\ r \in Nat /\ q \in Nat /\ o <= r /\ r < q
        /\ r = o \/ got[r].kind = "newline"
    BY <1>1
  <2>2. \A k \in (r + 1)..(q - 1) : got[k].kind # "newline"
    BY <1>1
  <2> QED
    BY <2>1, <2>2, NextLine
<1>3. IsHeaderLine(line)
  BY <1>1, WellFormed DEF TakeLine, line
<1>s. /\ Headers(got, o, r)
      /\ IF length = None THEN NoLength(got, o, r) ELSE LengthIs(got, o, r, length)
  BY <1>1 DEF HeadSoFar
<1>4. Headers(got, o, q)
  BY <1>1, <1>2, <1>3, <1>s, HeadersGrow
<1>5. CASE got[q].kind = "newline"
  <2>1. CASE ~HasLength(line) /\ UNCHANGED length
    <3>1. IF length' = None THEN NoLength(got, o, q) ELSE LengthIs(got, o, q, length')
      BY <1>1, <1>2, <1>s, <2>1, HeadersGrow
    <3> QED
      BY <1>1, <1>4, <1>5, <3>1
  <2>2. CASE \E x \in LengthAt(line) : length' = line[x].n
    <3>1. length' \in Nat
      BY <1>1, <2>2, LengthIsNat
    <3>2. LengthIs(got, o, q, length')
      <4>1. \E x \in LengthAt(line) : line[x].n = length'
        BY <2>2
      <4> QED
        BY <1>1, <1>2, <1>5, <4>1, HeadersGrow
    <3> QED
      BY <1>1, <1>4, <1>5, <3>1, <3>2, CodecAssumption
  <2> QED
    BY <2>1, <2>2 DEF TakeLine, line
<1>6. CASE got[q].kind # "newline"
  <2>1. o < Len(got)
    BY <1>1, <1>6
  <2>2. Stuck(got, o)
    BY <1>1, <1>4, <1>6, <2>1, HeadersStuck DEF CodecInv, TypeOK
  <2> QED
    BY <1>1, <1>6, <2>2
<1> QED
  BY <1>5, <1>6


\* What an unfinished line would be with a newline after it.
LEMMA WithNewline ==
  ASSUME NEW g \in Seq(Symbol), NEW h, h = Append(g, Sym("newline"))
  PROVE  /\ h \in Seq(Symbol) /\ Len(h) = Len(g) + 1 /\ Len(g) <= Len(h)
         /\ h[Len(g) + 1] = Sym("newline") /\ \A k \in 1..Len(g) : h[k] = g[k]
<1>1. Sym("newline") \in Symbol
  BY DEF Symbol, Sym, Plain
<1>2. /\ h \in Seq(Symbol) /\ Len(h) = Len(g) + 1
      /\ h[Len(g) + 1] = Sym("newline") /\ \A k \in 1..Len(g) : h[k] = g[k]
  BY <1>1, AppendProperties
<1>3. Len(g) \in Nat
  OBVIOUS
<1> QED
  BY <1>2, <1>3

\* A blank line is taken, or carriage returns before the end of the stream.
LEMMA TakeBlank ==
  ASSUME CodecInv, HeadSoFar, NEW n \in 1..Len(wire), EndsLine(n), TakeLine(n),
         IsBlank(SubSeq(wire, 1, n))
  PROVE  /\ UNCHANGED length
         /\ \/ HeadAt(got, Base, Here + n, length)
            \/ /\ closed /\ n = Len(wire) /\ Stuck(got, Base)
               /\ got[Here + n].kind = "return"
               /\ HeadAt(Append(got, Sym("newline")), Base, Here + n + 1, length)
<1> DEFINE line == SubSeq(wire, 1, n)
<1>0. raw = <<>> \/ got[Here].kind = "newline"
  BY DEF HeadSoFar
<1>1. PICK o, r, q \in Nat :
        /\ o = Base /\ r = Here /\ q = Here + n /\ o <= r /\ r < q /\ q <= Len(got)
        /\ line = SubSeq(got, r + 1, q)
        /\ line \in Seq(Symbol) /\ Len(line) = n
        /\ \A k \in (r + 1)..(q - 1) : got[k].kind # "newline"
        /\ got[q].kind # "newline" => closed /\ q = Len(got) /\ n = Len(wire)
        /\ r = o \/ got[r].kind = "newline"
  BY <1>0, LineAhead
<1>2. ~HasLength(line)
  BY <1>1, WellFormed
<1>3. length # None /\ UNCHANGED length
  <2>1. ~Malformed(line) /\ (UNCHANGED length \/ \E i \in LengthAt(line) : length' = line[i].n)
    BY DEF TakeLine
  <2> QED
    BY <1>2, <2>1 DEF Malformed, HasLength
<1>b. IsBlank(line)
  OBVIOUS
<1> HIDE DEF line
<1>4. Headers(got, o, r) /\ LengthIs(got, o, r, length)
  BY <1>1, <1>3 DEF HeadSoFar
<1>5. /\ \A i, j \in (o + 1)..q :
           LineIn(got, o, i, j) => \/ i = r + 1 /\ j = q
                                   \/ i \in (o + 1)..r /\ j \in (o + 1)..r
      /\ got[q].kind = "newline" => LineIn(got, o, r + 1, q)
  <2>1. /\ o \in Nat /\ r \in Nat /\ q \in Nat /\ o <= r /\ r < q
        /\ r = o \/ got[r].kind = "newline"
    BY <1>1
  <2>2. \A k \in (r + 1)..(q - 1) : got[k].kind # "newline"
    BY <1>1
  <2> QED
    BY <2>1, <2>2, NextLine
<1>6. Headers(got, o, q - 1) /\ LengthIs(got, o, q, length)
  BY <1>1, <1>2, <1>4, <1>5, HeadersGrow
<1>7. CASE got[q].kind = "newline"
  <2>1. r + 1 \in (o + 1)..q /\ LineIn(got, o, r + 1, q) /\ IsBlank(SubSeq(got, r + 1, q))
    BY <1>1, <1>5, <1>7, <1>b
  <2>2. HeadAt(got, o, q, length)
    BY <1>6, <2>1 DEF HeadAt
  <2> QED
    BY <1>1, <1>3, <2>2
<1>8. CASE got[q].kind # "newline"
  <2>1. closed /\ q = Len(got) /\ n = Len(wire)
    BY <1>1, <1>8
  <2>2. got \in Seq(Symbol)
    BY DEF CodecInv, TypeOK
  <2>3. Headers(got, o, q)
    <3>1. ~LineIn(got, o, r + 1, q)
      BY <1>8 DEF LineIn
    <3> QED
      BY <1>1, <1>4, <1>5, <3>1, HeadersGrow
  <2>4. Stuck(got, o)
    <3>1. o < Len(got)
      BY <1>1, <2>1
    <3> QED
      BY <1>1, <2>1, <2>2, <2>3, <3>1, HeadersStuck
  <2>5. \A k \in (r + 1)..q : got[k].kind \in {"return", "newline"}
    <3>1. ASSUME NEW k \in (r + 1)..q PROVE got[k].kind \in {"return", "newline"}
      <4>1. k - r \in 1..n /\ r + (k - r) = k
        BY <1>1
      <4>2. k - r \notin Content(line) /\ k - r \in DOMAIN line
        BY <1>1, <1>b, <4>1 DEF IsBlank
      <4>3. line[k - r].kind \in {"return", "newline"}
        BY <4>2 DEF Content
      <4>4. line[k - r] = got[r + (k - r)]
        <5>1. q \in r..Len(got) /\ k - r \in 1..(q - r)
          BY <1>1, <2>1, <4>1
        <5> QED
          BY <1>1, <2>2, <5>1, PieceIs
      <4> QED
        BY <4>1, <4>3, <4>4
    <3> QED
      BY <3>1
  <2>6. got[q].kind = "return"
    <3>1. q \in (r + 1)..q
      BY <1>1
    <3> QED
      BY <1>8, <2>5, <3>1
  <2> DEFINE h == Append(got, Sym("newline"))
  <2>7. /\ h \in Seq(Symbol) /\ Len(h) = q + 1 /\ Len(got) <= Len(h)
        /\ h[q + 1] = Sym("newline") /\ \A k \in 1..Len(got) : h[k] = got[k]
        /\ \A k \in 1..q : h[k] = got[k]
    BY <2>1, <2>2, WithNewline
  <2> HIDE DEF h
  <2>8. Headers(h, o, r) /\ LengthIs(h, o, r, length)
    <3>1. r \in o..Len(got)
      BY <1>1, <2>1
    <3> QED
      BY <1>1, <1>4, <2>2, <2>7, <3>1, SameHeaders
  <2>9. /\ \A i, j \in (o + 1)..(q + 1) :
             LineIn(h, o, i, j) => \/ i = r + 1 /\ j = q + 1
                                   \/ i \in (o + 1)..r /\ j \in (o + 1)..r
        /\ LineIn(h, o, r + 1, q + 1)
    <3>1. r = o \/ h[r].kind = "newline"
      <4>1. r # o => r \in 1..q
        BY <1>1
      <4> QED
        BY <1>1, <2>7, <4>1
    <3>2. h[q + 1].kind = "newline"
      BY <2>7 DEF Sym
    <3>3. \A k \in (r + 1)..((q + 1) - 1) : h[k].kind # "newline"
      <4>1. ASSUME NEW k \in (r + 1)..q PROVE h[k].kind # "newline"
        <5>1. k \in 1..q /\ (k = q \/ k \in (r + 1)..(q - 1))
          BY <1>1
        <5> QED
          BY <1>1, <1>8, <2>7, <5>1
      <4>2. (q + 1) - 1 = q
        BY <1>1
      <4> QED
        BY <4>1, <4>2
    <3>4. /\ o \in Nat /\ r \in Nat /\ q + 1 \in Nat /\ o <= r /\ r < q + 1
      BY <1>1
    <3> QED
      BY <3>1, <3>2, <3>3, <3>4, NextLine
  <2> DEFINE blank == SubSeq(h, r + 1, q + 1)
  <2>10. IsBlank(blank) /\ blank \in Seq(Symbol)
    <3>1. q + 1 \in r..Len(h) /\ (q + 1) - r = q - r + 1
      BY <1>1, <2>7
    <3>2. /\ blank \in Seq(Symbol) /\ Len(blank) = (q + 1) - r
          /\ \A k \in 1..((q + 1) - r) : blank[k] = h[r + k]
      BY <1>1, <2>7, <3>1, PieceIs
    <3> HIDE DEF blank
    <3>3. ASSUME NEW k \in 1..((q + 1) - r) PROVE blank[k].kind \in {"return", "newline"}
      <4>1. r + k \in (r + 1)..q \/ r + k = q + 1
        BY <1>1
      <4>2. r + k \in (r + 1)..q => r + k \in 1..q
        BY <1>1
      <4>3. blank[k] = h[r + k]
        BY <3>2
      <4>4. r + k \in (r + 1)..q => h[r + k].kind \in {"return", "newline"}
        BY <2>5, <2>7, <4>2
      <4>5. h[q + 1].kind = "newline"
        BY <2>7 DEF Sym
      <4> QED
        BY <4>1, <4>3, <4>4, <4>5
    <3> QED
      BY <3>2, <3>3 DEF IsBlank, Content
  <2>11. ~HasLength(blank)
    BY <2>10, WellFormed
  <2>12. Headers(h, o, (q + 1) - 1) /\ LengthIs(h, o, q + 1, length)
    <3>1. q + 1 \in Nat /\ r < q + 1
      BY <1>1
    <3> QED
      BY <1>1, <2>8, <2>9, <2>11, <3>1, HeadersGrow
  <2>13. HeadAt(h, o, q + 1, length)
    <3>1. r + 1 \in (o + 1)..(q + 1)
      BY <1>1
    <3> QED
      BY <2>9, <2>10, <2>12, <3>1 DEF HeadAt
  <2> QED
    BY <1>1, <1>3, <2>1, <2>4, <2>6, <2>13 DEF h
<1> QED
  BY <1>7, <1>8

\* An erroneous line is none of a frame's.
LEMMA MalformedStuck ==
  ASSUME CodecInv, HeadSoFar, NEW n \in 1..Len(wire), EndsLine(n),
         Malformed(SubSeq(wire, 1, n))
  PROVE  Stuck(got, Base)
<1> DEFINE line == SubSeq(wire, 1, n)
<1>0. raw = <<>> \/ got[Here].kind = "newline"
  BY DEF HeadSoFar
<1>1. PICK o, r, q \in Nat :
        /\ o = Base /\ r = Here /\ q = Here + n /\ o <= r /\ r < q /\ q <= Len(got)
        /\ line = SubSeq(got, r + 1, q)
        /\ line \in Seq(Symbol) /\ Len(line) = n
        /\ \A k \in (r + 1)..(q - 1) : got[k].kind # "newline"
        /\ got[q].kind # "newline" => closed /\ q = Len(got) /\ n = Len(wire)
        /\ r = o \/ got[r].kind = "newline"
  BY <1>0, LineAhead
<1>2. /\ ~IsHeaderLine(line)
      /\ IsBlank(line) => length = None /\ ~HasLength(line)
  BY <1>1, WellFormed
<1> HIDE DEF line
<1>3. /\ Headers(got, o, r)
      /\ length = None => NoLength(got, o, r)
  BY <1>1 DEF HeadSoFar
<1>4. /\ \A i, j \in (o + 1)..q :
           LineIn(got, o, i, j) => \/ i = r + 1 /\ j = q
                                   \/ i \in (o + 1)..r /\ j \in (o + 1)..r
      /\ got[q].kind = "newline" => LineIn(got, o, r + 1, q)
  <2>1. /\ o \in Nat /\ r \in Nat /\ q \in Nat /\ o <= r /\ r < q
        /\ r = o \/ got[r].kind = "newline"
    BY <1>1
  <2>2. \A k \in (r + 1)..(q - 1) : got[k].kind # "newline"
    BY <1>1
  <2> QED
    BY <2>1, <2>2, NextLine
<1>5. got \in Seq(Symbol) /\ Len(got) \in Nat
  BY DEF CodecInv, TypeOK
<1>6. CASE got[q].kind = "newline"
  <2> SUFFICES ASSUME NEW e \in (o + 1)..Len(got), FrameAt(got, o, e) PROVE FALSE
    BY <1>1, <1>5 DEF Stuck
  <2>1. PICK i \in (o + 1)..e : HeadAt(got, o, i, e - i)
    BY DEF FrameAt
  <2>2. PICK k \in (o + 1)..i : LineIn(got, o, k, i) /\ IsBlank(SubSeq(got, k, i))
    BY <2>1 DEF HeadAt
  <2>3. CASE i > q
    <3>1. r + 1 \in (o + 1)..(i - 1) /\ q \in (o + 1)..(i - 1)
      <4>1. o \in Nat /\ r \in Nat /\ q \in Nat /\ o <= r /\ r < q
        BY <1>1
      <4>2. e \in Nat
        BY <1>5
      <4>3. i \in Nat
        BY <2>1, <4>1, <4>2
      <4> QED
        BY <2>3, <4>1, <4>3
    <3> QED
      BY <1>1, <1>2, <1>4, <1>6, <2>1, <3>1 DEF HeadAt, Headers
  <2>4. CASE i <= q
    <3>1. k \in (o + 1)..q /\ i \in (o + 1)..q
      BY <1>1, <2>1, <2>2, <2>4
    <3>2. (k = r + 1 /\ i = q) \/ (k \in (o + 1)..r /\ i \in (o + 1)..r)
      BY <1>4, <2>2, <3>1
    <3>3. CASE k \in (o + 1)..r /\ i \in (o + 1)..r
      <4>1. IsHeaderLine(SubSeq(got, k, i))
        BY <1>3, <2>2, <3>3 DEF Headers
      <4> QED
        BY <2>2, <4>1 DEF IsHeaderLine, IsBlank, HasColon
    <3>4. CASE k = r + 1 /\ i = q
      <4>1. length = None /\ ~HasLength(line)
        BY <1>1, <1>2, <2>2, <3>4
      <4>2. NoLength(got, o, q)
        BY <1>1, <1>3, <1>4, <4>1, HeadersGrow
      <4>3. LengthIs(got, o, q, e - i)
        BY <2>1, <3>4 DEF HeadAt
      <4> QED
        BY <4>2, <4>3 DEF LengthIs, NoLength, HasLength
    <3> QED
      BY <3>2, <3>3, <3>4
  <2> QED
    BY <1>1, <2>1, <2>3, <2>4
<1>7. CASE got[q].kind # "newline"
  <2>1. q = Len(got) /\ ~LineIn(got, o, r + 1, q) /\ o < Len(got)
    BY <1>1, <1>7 DEF LineIn
  <2>2. Headers(got, o, q)
    BY <1>1, <1>3, <1>4, <2>1, HeadersGrow
  <2> QED
    BY <1>1, <1>5, <2>1, <2>2, HeadersStuck
<1> QED
  BY <1>6, <1>7


LEMMA TakeLineSplit ==
  ASSUME CodecInv, SplitInv, state = "head", NEW n \in 1..Len(wire), EndsLine(n), TakeLine(n)
  PROVE  SplitInv'
<1> DEFINE line == SubSeq(wire, 1, n)
<1>1. wire # <<>> /\ n \in Nat /\ wire \in Seq(Symbol) /\ raw \in Seq(Symbol)
  BY Positions
<1>2. HeadSoFar /\ Boundary(got)[Base]
  BY <1>1 DEF SplitInv, CutInHead
<1>3. /\ raw' = raw \o line /\ wire' = SubSeq(wire, n + 1, Len(wire))
      /\ state' = IF IsBlank(line) THEN "body" ELSE "head"
      /\ UNCHANGED <<got, closed, out>>
  BY DEF TakeLine, inputs
<1>4. Len(line) = n /\ line \in Seq(Symbol)
  BY <1>1, Cut
<1> HIDE DEF line
<1>5. Base' = Base /\ Here' = Here + n /\ raw' # <<>>
  <2>1. Len(raw') = Len(raw) + n
    BY <1>1, <1>3, <1>4, Joined
  <2>2. PICK o, a : o = Len(out) /\ a = Len(raw)
    OBVIOUS
  <2>3. a \in Nat /\ o \in Nat
    BY <1>1, <2>2 DEF CodecInv, TypeOK
  <2>4. o + (a + n) = (o + a) + n /\ a + n # 0
    BY <1>1, <2>3
  <2>5. raw' # <<>>
    BY <2>1, <2>2, <2>4
  <2> QED
    BY <1>3, <2>1, <2>2, <2>4, <2>5 DEF Base, Here
<1>6. n = Len(wire) => wire' = <<>>
  <2>1. n = Len(wire) => n + 1 \in Int /\ Len(wire) \in Int /\ Len(wire) < n + 1
    BY <1>1
  <2> QED
    BY <1>3, <2>1, SubSeqEmpty
<1>7. CASE ~IsBlank(line)
  <2>1. \/ /\ got[Here + n].kind = "newline" /\ Headers(got, Base, Here + n)
           /\ IF length' = None THEN NoLength(got, Base, Here + n)
              ELSE LengthIs(got, Base, Here + n, length')
        \/ closed /\ n = Len(wire) /\ Stuck(got, Base)
    BY <1>2, <1>7, TakeHeader DEF line
  <2>2. HeadSoFar' \/ CutInHead'
    BY <1>3, <1>5, <1>6, <2>1 DEF HeadSoFar, CutInHead
  <2> QED
    BY <1>2, <1>3, <1>5, <1>7, <2>2 DEF SplitInv
<1>8. CASE IsBlank(line)
  <2>1. /\ UNCHANGED length
        /\ \/ HeadAt(got, Base, Here + n, length)
           \/ /\ closed /\ n = Len(wire) /\ Stuck(got, Base)
              /\ got[Here + n].kind = "return"
              /\ HeadAt(Append(got, Sym("newline")), Base, Here + n + 1, length)
    BY <1>2, <1>8, TakeBlank DEF line
  <2>2. HeadAt(got, Base, Here, length)' \/ CutAtBlank'
    BY <1>3, <1>5, <1>6, <2>1 DEF CutAtBlank
  <2> QED
    BY <1>2, <1>3, <1>5, <1>8, <2>2 DEF SplitInv
<1> QED
  BY <1>7, <1>8

LEMMA FailSplit ==
  ASSUME SplitInv, Boundary(got)[Base], Stuck(got, Base), Fail
  PROVE  SplitInv'
<1>1. UNCHANGED <<got, closed, raw, wire, out>> /\ state' = "failed"
  BY DEF Fail, inputs
<1>2. Base' = Base
  BY <1>1 DEF Base
<1> QED
  BY <1>1, <1>2 DEF SplitInv

LEMMA EndOfStreamSplit ==
  ASSUME CodecInv, SplitInv, EndOfStream
  PROVE  SplitInv'
<1>1. CASE raw = <<>> /\ state' = "end" /\ UNCHANGED <<inputs, wire, raw, length, out, bodies>>
  <2>1. UNCHANGED <<got, closed, raw, wire, out>> /\ state' = "end" /\ state = "head"
    BY <1>1 DEF EndOfStream, inputs
  <2>2. Base' = Base
    BY <2>1 DEF Base
  <2> QED
    BY <2>1, <2>2 DEF SplitInv
<1>2. CASE raw # <<>> /\ Fail
  <2>1. state = "head" /\ closed /\ wire = <<>>
    BY DEF EndOfStream
  <2>2. Stuck(got, Base)
    <3>1. CASE HeadSoFar
      <4>1. /\ got \in Seq(Symbol) /\ Base \in Nat /\ Here = Len(got) /\ Base < Len(got)
        BY <1>2, <2>1, Positions
      <4>2. Headers(got, Base, Len(got))
        BY <3>1, <4>1 DEF HeadSoFar
      <4> QED
        BY <4>1, <4>2, HeadersStuck
    <3> QED
      BY <2>1, <3>1 DEF SplitInv, CutInHead
  <2>3. Boundary(got)[Base]
    BY <1>2 DEF SplitInv
  <2> QED
    BY <1>2, <2>2, <2>3, FailSplit
<1> QED
  BY <1>1, <1>2 DEF EndOfStream

LEMMA BodyCutSplit ==
  ASSUME CodecInv, SplitInv, BodyCut
  PROVE  SplitInv'
<1>1. state = "body" /\ Len(wire) < length /\ Fail
  BY DEF BodyCut
<1>2. Boundary(got)[Base]
  BY <1>1 DEF SplitInv
<1>3. Stuck(got, Base)
  <2>1. CASE HeadAt(got, Base, Here, length)
    <3>1. PICK o, r, l, w : o = Base /\ r = Here /\ l = Len(got) /\ w = Len(wire)
      OBVIOUS
    <3>2. /\ o \in Nat /\ r \in Nat /\ w \in Nat /\ l = r + w /\ r <= Len(got)
          /\ got \in Seq(Symbol)
      BY <3>1, Positions
    <3>3. length \in Nat
      BY <1>1 DEF CodecInv, TypeOK
    <3>4. o < l
      <4>1. PICK i \in (o + 1)..r : TRUE
        BY <2>1, <3>1 DEF HeadAt
      <4> QED
        BY <3>2, <4>1
    <3>5. ASSUME NEW e \in (o + 1)..l, FrameAt(got, o, e) PROVE FALSE
      <4>1. PICK i \in (o + 1)..e : HeadAt(got, o, i, e - i)
        BY <3>5 DEF FrameAt
      <4>2. i \in Nat /\ i <= Len(got) /\ e <= l
        BY <3>1, <3>2, <3>5, <4>1
      <4>3. i = r /\ e - i = length
        BY <2>1, <3>1, <3>2, <4>1, <4>2, OneHead
      <4>4. w < length
        BY <1>1, <3>1
      <4> QED
        BY <3>2, <3>3, <3>5, <4>2, <4>3, <4>4
    <3> QED
      BY <3>1, <3>4, <3>5 DEF Stuck
  <2> QED
    BY <1>1, <2>1 DEF SplitInv, CutAtBlank
<1> QED
  BY <1>1, <1>2, <1>3, FailSplit

LEMMA ReadBodySplit ==
  ASSUME CodecInv, SplitInv, ReadBody
  PROVE  SplitInv'
<1>0. PICK o, r, l, w : o = Base /\ r = Here /\ l = Len(got) /\ w = Len(wire)
  OBVIOUS
<1>1. /\ o \in Nat /\ r \in Nat /\ o <= r /\ w \in Nat /\ l = r + w
      /\ got \in Seq(Symbol) /\ wire \in Seq(Symbol) /\ raw \in Seq(Symbol)
      /\ wire = <<>> <=> w = 0
  BY <1>0, Positions
<1>2. length \in Nat /\ length <= w /\ state = "body"
  BY <1>0 DEF ReadBody, CodecInv, TypeOK
<1>3. /\ out' = out \o raw \o SubSeq(wire, 1, length) /\ raw' = <<>> /\ length' = None
      /\ wire' = SubSeq(wire, length + 1, Len(wire))
      /\ state' = "head" /\ UNCHANGED <<got, closed>>
  BY DEF ReadBody, inputs
<1>4. Base' = r + length /\ Here' = r + length
  <2>1. out \in Seq(Symbol) /\ SubSeq(wire, 1, length) \in Seq(Symbol)
        /\ Len(SubSeq(wire, 1, length)) = length
    BY <1>0, <1>1, <1>2, Cut DEF CodecInv, TypeOK
  <2>2. out \o raw \in Seq(Symbol) /\ Len(out \o raw) = r
    BY <1>0, <1>1, <2>1, Joined DEF Here
  <2>3. Len(out') = r + length
    BY <1>3, <2>1, <2>2, Joined
  <2>4. Len(raw') = 0 /\ r + length + 0 = r + length
    BY <1>1, <1>2, <1>3
  <2> QED
    BY <2>3, <2>4 DEF Base, Here
<1>5. HeadSoFar'
  <2>1. \A i \in (r + length + 1)..(r + length) : FALSE
    BY <1>1, <1>2
  <2>2. Headers(got, r + length, r + length) /\ NoLength(got, r + length, r + length)
    BY <2>1 DEF Headers, NoLength
  <2> QED
    BY <1>3, <1>4, <2>2 DEF HeadSoFar
<1>6. Boundary(got)[o]
  BY <1>0, <1>2 DEF SplitInv
<1>7. CASE HeadAt(got, Base, Here, length)
  <2>1. r \in (o + 1)..(r + length) /\ (r + length) - r = length
    <3>1. PICK i \in (o + 1)..r : TRUE
      BY <1>0, <1>7 DEF HeadAt
    <3> QED
      BY <1>1, <1>2, <3>1
  <2>2. FrameAt(got, o, r + length)
    BY <1>0, <1>7, <2>1 DEF FrameAt
  <2>3. r + length \in 0..Len(got) /\ o \in 0..((r + length) - 1)
    BY <1>0, <1>1, <1>2, <2>1
  <2>4. Boundary(got)[r + length]
    BY <1>1, <1>6, <2>2, <2>3, BoundaryIs
  <2> QED
    BY <1>3, <1>4, <1>5, <2>4 DEF SplitInv
<1>8. CASE CutAtBlank
  <2>1. /\ closed /\ w = 0 /\ length = 0 /\ r = l /\ got[r].kind = "return"
    BY <1>0, <1>1, <1>2, <1>8 DEF CutAtBlank
  <2>2. wire' = <<>>
    BY <1>0, <1>3, <2>1, SubSeqEmpty
  <2> DEFINE h == Append(got, Sym("newline"))
  <2>3. /\ h \in Seq(Symbol) /\ Len(h) = l + 1 /\ Len(got) <= Len(h)
        /\ \A k \in 1..Len(got) : h[k] = got[k]
    <3>1. got \in Seq(Symbol) /\ Len(got) = l
      BY <1>0, <1>1
    <3> QED
      BY <3>1, WithNewline
  <2>4. HeadAt(h, o, r + 1, 0)
    BY <1>0, <1>8, <2>1 DEF CutAtBlank
  <2> HIDE DEF h
  <2>5. Boundary(h)[o]
    <3>1. o \in 0..Len(got)
      BY <1>0, <1>1
    <3> QED
      BY <1>1, <1>6, <2>3, <3>1, SameBoundary
  <2>6. FrameAt(h, o, r + 1)
    <3>1. r + 1 \in (o + 1)..(r + 1) /\ (r + 1) - (r + 1) = 0
      BY <1>1
    <3> QED
      BY <2>4, <3>1 DEF FrameAt
  <2>7. Boundary(h)[Len(h)]
    <3>1. r + 1 \in 0..Len(h) /\ o \in 0..((r + 1) - 1) /\ Len(h) = r + 1
      BY <1>1, <2>1, <2>3
    <3> QED
      BY <2>3, <2>5, <2>6, <3>1, BoundaryIs
  <2>8. got # <<>> /\ Last(got).kind = "return"
    <3>1. Len(got) # 0
      <4>1. PICK i \in (o + 1)..(r + 1) : LineIn(h, o, i, r + 1) /\ IsBlank(SubSeq(h, i, r + 1))
        BY <2>4 DEF HeadAt
      <4>2. \E c, d \in (o + 1)..(r + 1) : \E x \in LengthAt(SubSeq(h, c, d)) : LineIn(h, o, c, d)
        BY <2>4 DEF HeadAt, LengthIs
      <4>3. PICK a, b \in (o + 1)..(r + 1) : LineIn(h, o, a, b) /\ HasLength(SubSeq(h, a, b))
        BY <4>2 DEF HasLength
      <4>4. ASSUME r = 0 PROVE FALSE
        <5>1. o = 0 /\ a = 1 /\ b = 1 /\ i = 1
          BY <1>1, <4>1, <4>3, <4>4
        <5> QED
          BY <4>1, <4>3, <4>4, <5>1 DEF IsBlank, HasLength, LengthAt
      <4> QED
        BY <1>0, <1>1, <2>1, <4>4
    <3>2. got # <<>>
      BY <3>1
    <3> QED
      BY <1>0, <2>1, <3>2 DEF Last
  <2>9. CutAtReturn(got)
    BY <2>7, <2>8 DEF CutAtReturn, h
  <2> QED
    BY <1>3, <1>5, <2>1, <2>2, <2>9 DEF SplitInv
<1> QED
  BY <1>2, <1>7, <1>8 DEF SplitInv


LEMMA WrittenSplit ==
  ASSUME CodecInv, SplitInv, NEW piece \in Seq(Symbol), ~closed, Running,
         got' = got \o piece, UNCHANGED <<closed, raw, length, state, out>>
  PROVE  SplitInv'
<1>0. PICK o, r, h : o = Base /\ r = Here /\ h = got \o piece
  OBVIOUS
<1>1. /\ o \in Nat /\ r \in Nat /\ o <= r /\ r <= Len(got) /\ got \in Seq(Symbol)
      /\ raw = <<>> <=> r = o
  BY <1>0, Positions
<1>2. /\ h \in Seq(Symbol) /\ Len(got) <= Len(h) /\ \A k \in 1..Len(got) : h[k] = got[k]
  <2>1. Len(got) \in Nat /\ Len(piece) \in Nat /\ Len(h) = Len(got) + Len(piece)
    BY <1>0, <1>1, Joined
  <2> QED
    BY <1>0, <1>1, <2>1, Joined
<1>3. Base' = o /\ Here' = r /\ got' = h
  BY <1>0 DEF Base, Here
<1>4. Boundary(h)[o]
  <2>1. o \in 0..Len(got) /\ Boundary(got)[o]
    BY <1>0, <1>1 DEF SplitInv
  <2> QED
    BY <1>1, <1>2, <2>1, SameBoundary
<1>5. r \in o..Len(got)
  BY <1>1
<1>6. ASSUME state = "head" PROVE HeadSoFar'
  <2>1. /\ raw = <<>> \/ got[r].kind = "newline"
        /\ Headers(got, o, r)
        /\ IF length = None THEN NoLength(got, o, r) ELSE LengthIs(got, o, r, length)
    BY <1>0, <1>6 DEF SplitInv, HeadSoFar, CutInHead
  <2>2. raw = <<>> \/ h[r].kind = "newline"
    <3>1. raw # <<>> => r \in 1..Len(got)
      BY <1>1
    <3> QED
      BY <1>2, <2>1, <3>1
  <2>3. /\ Headers(h, o, r)
        /\ IF length = None THEN NoLength(h, o, r) ELSE LengthIs(h, o, r, length)
    BY <1>1, <1>2, <1>5, <2>1, SameHeaders
  <2> QED
    BY <1>3, <2>2, <2>3 DEF HeadSoFar
<1>7. ASSUME state = "body" PROVE HeadAt(h, o, r, length)
  <2>1. HeadAt(got, o, r, length)
    BY <1>0, <1>7 DEF SplitInv, CutAtBlank
  <2>2. r \in (o + 1)..Len(got)
    <3>1. PICK i \in (o + 1)..r : TRUE
      BY <2>1 DEF HeadAt
    <3> QED
      BY <1>1, <3>1
  <2> QED
    BY <1>1, <1>2, <2>1, <2>2, SameHead
<1> QED
  BY <1>3, <1>4, <1>6, <1>7 DEF SplitInv, Running

LEMMA InitSplit == Init => SplitInv
<1> SUFFICES ASSUME Init PROVE SplitInv
  OBVIOUS
<1>1. got = <<>> /\ raw = <<>> /\ out = <<>> /\ state = "head" /\ length = None
  BY DEF Init
<1>2. Base = 0 /\ Here = 0
  BY <1>1 DEF Base, Here
<1>3. Boundary(got)[Base]
  <2>1. got \in Seq(Symbol) /\ 0 \in 0..Len(got)
    BY <1>1
  <2> QED
    BY <1>2, <2>1, BoundaryIs
<1>4. HeadSoFar
  <2>1. \A i \in (0 + 1)..0 : FALSE
    OBVIOUS
  <2>2. Headers(got, 0, 0) /\ NoLength(got, 0, 0)
    BY <2>1 DEF Headers, NoLength
  <2> QED
    BY <1>1, <1>2, <2>2 DEF HeadSoFar
<1> QED
  BY <1>1, <1>3, <1>4 DEF SplitInv

LEMMA StepSplit == ASSUME CodecInv, SplitInv, [Next]_vars PROVE SplitInv'
<1>1. ASSUME NEW s \in ForeignSymbol, Arrive(s) PROVE SplitInv'
  <2>1. s \in Symbol /\ <<s>> \in Seq(Symbol)
    BY ForeignType
  <2>2. got' = got \o <<s>>
    BY <1>1, <2>1, AppendIsConcat DEF Arrive, CodecInv, TypeOK
  <2> QED
    BY <1>1, <2>1, <2>2, WrittenSplit DEF Arrive
<1>2. ASSUME NEW body \in Bodies, Write(body) PROVE SplitInv'
  <2>1. FromBody(body) \in Seq(Symbol)
    BY BodiesAssumption, FromBodyType
  <2> QED
    BY <1>2, <2>1, WrittenSplit DEF Write
<1>3. CASE Close
  <2>1. UNCHANGED <<got, wire, raw, length, state, out>> /\ closed'
    BY <1>3 DEF Close
  <2>2. Base' = Base /\ Here' = Here
    BY <2>1 DEF Base, Here
  <2>3. HeadSoFar' = HeadSoFar /\ (CutInHead => CutInHead') /\ (CutAtBlank => CutAtBlank')
    BY <2>1, <2>2 DEF HeadSoFar, CutInHead, CutAtBlank
  <2> QED
    BY <2>1, <2>2, <2>3 DEF SplitInv
<1>4. CASE ReadLine
  <2>1. PICK n \in 1..Len(wire) :
          /\ EndsLine(n)
          /\ TakeLine(n) \/ (Malformed(SubSeq(wire, 1, n)) /\ Fail)
    BY <1>4 DEF ReadLine
  <2>2. state = "head"
    BY <1>4 DEF ReadLine
  <2>3. wire # <<>>
    BY <2>1
  <2>4. Boundary(got)[Base] /\ HeadSoFar
    BY <2>2, <2>3 DEF SplitInv, CutInHead
  <2>5. CASE Malformed(SubSeq(wire, 1, n)) /\ Fail
    BY <2>1, <2>4, <2>5, MalformedStuck, FailSplit
  <2> QED
    BY <2>1, <2>2, <2>5, TakeLineSplit
<1>5. CASE EndOfStream
  BY <1>5, EndOfStreamSplit
<1>6. CASE ReadBody
  BY <1>6, ReadBodySplit
<1>7. CASE BodyCut
  BY <1>7, BodyCutSplit
<1>8. CASE UNCHANGED vars
  <2>1. UNCHANGED <<got, closed, wire, raw, length, state, out>>
    BY <1>8 DEF vars
  <2>2. Base' = Base /\ Here' = Here
    BY <2>1 DEF Base, Here
  <2>3. HeadSoFar' = HeadSoFar /\ CutInHead' = CutInHead /\ CutAtBlank' = CutAtBlank
    BY <2>1, <2>2 DEF HeadSoFar, CutInHead, CutAtBlank
  <2> QED
    BY <2>1, <2>2, <2>3 DEF SplitInv
<1> QED
  BY <1>1, <1>2, <1>3, <1>4, <1>5, <1>6, <1>7, <1>8 DEF Next, Reader, Over

\* Wherever the stream was cut and however it arrived, a clean end means that it
\* is whole frames (or was cut at a last carriage return) and an error means that
\* it is not (codec.rs, read_frame).
THEOREM SplitsAlways == Spec => []SplitsAsReference
<1>1. CodecInv /\ SplitInv => SplitsAsReference
  <2> SUFFICES ASSUME CodecInv, SplitInv PROVE SplitsAsReference
    OBVIOUS
  <2>1. Base \in Nat /\ got \in Seq(Symbol) /\ (raw = <<>> <=> Here = Base) /\ (wire = <<>> <=> Here = Len(got))
    BY Positions
  <2>2. ASSUME state = "end" PROVE Boundary(got)[Len(got)] \/ CutAtReturn(got)
    <3>1. Base = Len(got)
      BY <2>1, <2>2 DEF CodecInv
    <3> QED
      BY <3>1 DEF SplitInv
  <2>3. ASSUME state = "failed" PROVE ~Boundary(got)[Len(got)]
    <3>1. Boundary(got)[Base] /\ Stuck(got, Base)
      BY <2>3 DEF SplitInv
    <3> QED
      BY <2>1, <3>1, StuckEnds
  <2> QED
    BY <2>2, <2>3 DEF SplitsAsReference
<1> QED
  BY InitInv, StepInv, InitSplit, StepSplit, <1>1, PTL DEF Spec

----------------------------------------------------------------------------
(* Waiting *)

\* What the reader has to wait for: the rest of a line, or of a body.  (No guard
\* of Reader holds.)
WaitsForLine ==
  /\ state = "head" /\ ~(closed /\ wire = <<>>)
  /\ ~\E n \in 1..Len(wire) : EndsLine(n)
WaitsForBody == state = "body" /\ Len(wire) < length /\ ~closed

WaitsForMore ==
  WaitsForLine \/ WaitsForBody =>
    \A n \in 0..Len(got) : Boundary(got)[n] => n <= Len(out)

\* Without the end of a line there is no newline.
LEMMA NoLineYet ==
  ASSUME CodecInv, WaitsForLine
  PROVE  \A k \in (Here + 1)..Len(got) : got[k].kind # "newline"
<1>1. PICK r, l, w : r = Here /\ l = Len(got) /\ w = Len(wire)
  OBVIOUS
<1>2. r \in Nat /\ w \in Nat /\ l = r + w /\ \A i \in 1..w : wire[i] = got[r + i]
  BY <1>1, Positions
<1> DEFINE ends == {i \in 1..w : wire[i].kind = "newline"}
<1>3. ends \subseteq Nat
  BY <1>2
<1>4. ends = {}
  <2>1. SUFFICES ASSUME ends # {} PROVE FALSE
    OBVIOUS
  <2>2. PICK n \in ends : \A i \in ends : n <= i
    BY <1>3, <2>1, LeastExists
  <2>3. n \in 1..w /\ wire[n].kind = "newline"
    OBVIOUS
  <2>4. ASSUME NEW i \in 1..(n - 1) PROVE wire[i].kind # "newline"
    <3>1. i \in 1..w /\ ~(n <= i)
      BY <1>2, <2>3
    <3> QED
      BY <2>2, <3>1
  <2>5. EndsLine(n)
    BY <2>3, <2>4 DEF EndsLine
  <2> HIDE DEF ends
  <2> QED
    BY <1>1, <2>3, <2>5 DEF WaitsForLine
<1>5. ASSUME NEW k \in (r + 1)..l PROVE got[k].kind # "newline"
  <2>1. k - r \in 1..w /\ r + (k - r) = k
    BY <1>2
  <2> QED
    BY <1>2, <1>4, <2>1
<1> QED
  BY <1>1, <1>5

LEMMA NoFrameYet ==
  ASSUME CodecInv, SplitInv, WaitsForLine \/ WaitsForBody,
         NEW e \in (Base + 1)..Len(got)
  PROVE  ~FrameAt(got, Base, e)
<1>1. PICK o, r, l, w : o = Base /\ r = Here /\ l = Len(got) /\ w = Len(wire)
  OBVIOUS
<1>2. o \in Nat /\ r \in Nat /\ w \in Nat /\ l = r + w /\ o <= r /\ got \in Seq(Symbol)
  BY <1>1, Positions
<1> SUFFICES ASSUME FrameAt(got, o, e) PROVE FALSE
  BY <1>1
<1>3. e \in Nat /\ e <= l /\ o < e
  BY <1>1, <1>2
<1>4. PICK i \in (o + 1)..e : HeadAt(got, o, i, e - i)
  BY DEF FrameAt
<1>5. i \in Nat /\ i <= Len(got) /\ r <= Len(got)
  BY <1>1, <1>2, <1>3, <1>4
<1>6. CASE WaitsForBody
  <2>1. HeadAt(got, o, r, length) /\ length \in Nat /\ w < length
    BY <1>1, <1>6 DEF WaitsForBody, SplitInv, CutAtBlank, CodecInv, TypeOK
  <2>2. i = r /\ e - i = length
    BY <1>2, <1>4, <1>5, <2>1, OneHead
  <2> QED
    BY <1>2, <1>3, <2>1, <2>2
<1>7. CASE WaitsForLine
  <2>1. Headers(got, o, r)
    BY <1>1, <1>7 DEF WaitsForLine, SplitInv, HeadSoFar, CutInHead
  <2>2. PICK k \in (o + 1)..i : LineIn(got, o, k, i) /\ IsBlank(SubSeq(got, k, i))
    BY <1>4 DEF HeadAt
  <2>3. got[i].kind = "newline"
    BY <2>2 DEF LineIn
  <2>4. i <= r
    <3>1. ~(i <= r) => i \in (r + 1)..l
      BY <1>1, <1>2, <1>5
    <3> QED
      BY <1>1, <1>7, <2>3, <3>1, NoLineYet
  <2>5. k \in (o + 1)..r /\ i \in (o + 1)..r
    BY <1>2, <1>4, <1>5, <2>2, <2>4
  <2>6. IsHeaderLine(SubSeq(got, k, i))
    BY <2>1, <2>2, <2>5 DEF Headers
  <2> QED
    BY <2>2, <2>6 DEF IsHeaderLine, IsBlank, HasColon
<1> QED
  BY <1>6, <1>7

\* The reader never waits for a byte beyond a frame: where no guard of read_frame
\* holds, every whole frame that has arrived was written on, whatever the stream.
THEOREM HoldsNoFrame == Spec => []WaitsForMore
<1>1. CodecInv /\ SplitInv => WaitsForMore
  <2> SUFFICES ASSUME CodecInv, SplitInv, WaitsForLine \/ WaitsForBody,
                      NEW n \in 0..Len(got), Boundary(got)[n], ~(n <= Len(out))
               PROVE  FALSE
    BY DEF WaitsForMore
  <2>1. PICK o : o = Len(out)
    OBVIOUS
  <2>2. o \in Nat /\ n \in (o + 1)..Len(got) /\ got \in Seq(Symbol) /\ o = Base
    BY <2>1, Positions DEF Base
  <2>3. Boundary(got)[o]
    BY <2>2 DEF SplitInv, WaitsForLine, WaitsForBody
  <2>4. PICK e \in (o + 1)..n : FrameAt(got, o, e)
    BY <2>2, <2>3, FrameBetween
  <2>5. e \in (Base + 1)..Len(got)
    BY <2>2, <2>4
  <2> QED
    BY <2>2, <2>4, <2>5, NoFrameYet
<1> QED
  BY InitInv, StepInv, InitSplit, StepSplit, <1>1, PTL DEF Spec
============================================================================
