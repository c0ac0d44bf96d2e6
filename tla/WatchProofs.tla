---------------------------- MODULE WatchProofs ----------------------------
(***************************************************************************)
(* Proofs about Discovery and Highlight.  A viewer and a proxy come to one *)
(* socket exactly when they should, for all directories and all ways to    *)
(* write their paths.  Of a text of any length only a complete outer fence *)
(* is removed, and however the rest is cut into events its lines are kept. *)
(* Induction and what is least or greatest in a set of numbers are got from*)
(* the well-foundedness of the numbers.                                    *)
(***************************************************************************)
EXTENDS Discovery, Highlight, SequenceTheorems, FiniteSetTheorems, WellFoundedInduction, TLAPS

----------------------------------------------------------------------------
(* The least and the greatest of some positions. *)

Smaller == {p \in Nat \X Nat : p[1] < p[2]}

LEMMA SmallerWellFounded == IsWellFoundedOn(Smaller, Nat)
<1>1. Smaller = OpToRel(<, Nat)
  BY DEF OpToRel, Smaller
<1> QED
  BY <1>1, NatLessThanWellFounded

LEMMA LeastExists ==
  ASSUME NEW ns, ns \subseteq Nat, ns # {}
  PROVE  \E k \in ns : \A n \in ns : k <= n
<1>1. PICK k \in ns : \A n \in ns : <<n, k>> \notin Smaller
  BY SmallerWellFounded, WFMin
<1>2. ASSUME NEW n \in ns PROVE k <= n
  <2>1. k \in Nat /\ n \in Nat /\ <<n, k>> \notin Smaller
    BY <1>1
  <2>2. <<n, k>> \in Nat \X Nat /\ <<n, k>>[1] = n /\ <<n, k>>[2] = k
    BY <2>1
  <2>3. ~(n < k)
    BY <2>1, <2>2 DEF Smaller
  <2> QED
    BY <2>1, <2>3
<1> QED
  BY <1>2

LEMMA GreatestExists ==
  ASSUME NEW m \in Nat, NEW ns, ns \subseteq 1..m, ns # {}
  PROVE  \E k \in ns : \A n \in ns : n <= k
<1> DEFINE gaps == {m - n : n \in ns}
<1>1. gaps \subseteq Nat /\ gaps # {}
  <2>1. \A n \in ns : m - n \in Nat
    OBVIOUS
  <2> QED
    BY <2>1
<1>2. PICK gap \in gaps : \A other \in gaps : gap <= other
  BY <1>1, LeastExists
<1>3. PICK k \in ns : gap = m - k
  BY <1>2
<1>4. \A n \in ns : m - k <= m - n
  BY <1>2, <1>3
<1>5. \A n \in ns : n <= k
  BY <1>4
<1> QED
  BY <1>5

LEMMA Induction ==
  ASSUME NEW P, 0 \in P, \A n \in Nat : n \in P => n + 1 \in P
  PROVE  Nat \subseteq P
<1> SUFFICES ASSUME Nat \ P # {} PROVE FALSE
  OBVIOUS
<1>1. PICK n \in Nat \ P : \A m \in Nat \ P : n <= m
  BY LeastExists
<1>2. n # 0 /\ n - 1 \in Nat /\ n - 1 \in P
  BY <1>1
<1> QED
  BY <1>1, <1>2

----------------------------------------------------------------------------
(* The directories a directory is in. *)

LEMMA PrefixIs ==
  ASSUME NEW s \in Seq(Byte), NEW t \in Seq(Byte)
  PROVE  IsPrefix(s, t) <=> Len(s) <= Len(t) /\ \A i \in 1..Len(s) : s[i] = t[i]
<1> Len(s) \in Nat /\ Len(t) \in Nat
  OBVIOUS
<1>1. CASE Len(s) <= Len(t)
  <2>1. PICK a, b : a = SubSeq(s, 1, Len(s)) /\ b = SubSeq(t, 1, Len(s))
    OBVIOUS
  <2>2. /\ a \in Seq(Byte) /\ Len(a) = Len(s) /\ \A i \in 1..Len(s) : a[i] = s[i]
        /\ b \in Seq(Byte) /\ Len(b) = Len(s) /\ \A i \in 1..Len(s) : b[i] = t[i]
    BY <1>1, <2>1
  <2>3. a = b <=> \A i \in 1..Len(s) : a[i] = b[i]
    BY <2>2, SeqEqual
  <2> QED
    BY <1>1, <2>1, <2>2, <2>3 DEF IsPrefix
<1>2. CASE ~(Len(s) <= Len(t))
  BY <1>2 DEF IsPrefix
<1> QED
  BY <1>1, <1>2

LEMMA InsideIs ==
  ASSUME NEW d \in Dir
  PROVE  /\ d \in Seq(Byte) /\ Inside(d) \in Seq(Byte) /\ Len(d) \in Nat
         /\ Len(Inside(d)) \in Nat /\ Len(Inside(d)) >= Len(d)
         /\ Len(Inside(d)) <= Len(d) + 1 /\ Len(Inside(d)) >= 1
         /\ Len(Inside(d)) = Len(d) => d = <<47>>
         /\ d = <<47>> => Inside(d) = d
         /\ \A i \in 1..Len(d) : Inside(d)[i] = d[i]
<1>1. d \in Seq(Byte) /\ 47 \in Byte
  BY DirAssumption DEF Byte
<1>2. CASE d = <<47>>
  BY <1>1, <1>2 DEF Inside
<1>3. CASE d # <<47>>
  <2>1. Inside(d) = Append(d, 47)
    BY <1>3 DEF Inside
  <2> QED
    BY <1>1, <1>3, <2>1
<1> QED
  BY <1>2, <1>3

\* Those above are shorter and spelled alike.
LEMMA AboveIs ==
  ASSUME NEW d \in Dir, NEW e \in Above(d)
  PROVE  /\ e \in Dir /\ Len(e) \in Nat /\ Len(e) <= Len(d) /\ (Len(e) = Len(d) => e = d)
         /\ \A i \in 1..Len(e) : e[i] = d[i]
<1>1. e \in Dir /\ (e = d \/ IsPrefix(Inside(e), d))
  BY DEF Above
<1>2. CASE e = d
  BY <1>1, <1>2, InsideIs
<1>3. CASE e # d
  <2>1. Len(Inside(e)) <= Len(d) /\ \A i \in 1..Len(Inside(e)) : Inside(e)[i] = d[i]
    BY <1>1, <1>3, InsideIs, PrefixIs
  <2>2. Len(e) <= Len(d) /\ \A i \in 1..Len(e) : e[i] = d[i]
    BY <1>1, <2>1, InsideIs
  <2>3. Len(e) = Len(d) => e = d
    BY <1>1, <2>2, InsideIs, SeqEqual
  <2> QED
    BY <1>1, <2>2, <2>3, InsideIs
<1> QED
  BY <1>2, <1>3

LEMMA AboveLongest ==
  ASSUME NEW d \in Dir, NEW e \in Above(d), NEW f \in Above(d), Len(e) = Len(f)
  PROVE  e = f
<1>1. e \in Seq(Byte) /\ f \in Seq(Byte) /\ \A i \in 1..Len(e) : e[i] = f[i]
  BY AboveIs, InsideIs
<1> QED
  BY <1>1, SeqEqual

\* The parent is one of them, and has all the others.
LEMMA AboveParent ==
  ASSUME NEW d \in Dir
  PROVE  IF Parent[d] = None THEN Above(d) = {d}
         ELSE /\ Parent[d] \in Dir /\ Len(Parent[d]) < Len(d)
              /\ Above(d) = {d} \cup Above(Parent[d])
<1> DEFINE others == Above(d) \ {d}
           p == Parent[d]
<1>1. d \in Above(d)
  BY DEF Above
<1>2. CASE others = {}
  BY <1>1, <1>2, DirAssumption
<1>3. CASE others # {}
  <2>1. p \in others /\ \A e \in others : Len(e) <= Len(p)
    BY <1>3, DirAssumption
  <2>2. p \in Dir /\ p # None /\ p # d /\ p \in Above(d)
    BY <2>1, DirAssumption DEF Above
  <2>3. /\ Len(p) \in Nat /\ Len(d) \in Nat /\ Len(p) < Len(d)
        /\ Len(Inside(p)) <= Len(d) /\ \A i \in 1..Len(Inside(p)) : Inside(p)[i] = d[i]
    <3>1. IsPrefix(Inside(p), d)
      BY <2>2 DEF Above
    <3>2. Len(p) <= Len(d) /\ Len(p) # Len(d) /\ Len(p) \in Nat
      BY <2>2, AboveIs
    <3>3. Len(d) \in Nat
      BY InsideIs
    <3> HIDE DEF p
    <3> QED
      BY <2>2, <3>1, <3>2, <3>3, InsideIs, PrefixIs
  <2> HIDE DEF p
  <2>4. ASSUME NEW e \in others PROVE e \in Above(p)
    <3>1. /\ e \in Dir /\ e \in Above(d) /\ Len(e) \in Nat /\ Len(e) <= Len(p)
          /\ IsPrefix(Inside(e), d)
      BY <2>1, <2>4, AboveIs DEF Above
    <3>2. CASE Len(e) = Len(p)
      <4>1. e = p
        BY <2>2, <3>1, <3>2, AboveLongest
      <4> QED
        BY <2>2, <4>1 DEF Above
    <3>3. CASE Len(e) # Len(p)
      <4>1. Len(Inside(e)) <= Len(p)
        BY <2>3, <3>1, <3>3, InsideIs
      <4>2. \A i \in 1..Len(Inside(e)) : Inside(e)[i] = d[i]
        BY <3>1, InsideIs, PrefixIs
      <4>3. \A i \in 1..Len(p) : p[i] = d[i]
        BY <2>2, AboveIs
      <4>4. \A i \in 1..Len(Inside(e)) : Inside(e)[i] = p[i]
        BY <2>3, <3>1, <4>1, <4>2, <4>3, InsideIs
      <4>5. IsPrefix(Inside(e), p)
        BY <2>2, <3>1, <4>1, <4>4, InsideIs, PrefixIs
      <4> QED
        BY <3>1, <4>5 DEF Above
    <3> QED
      BY <3>2, <3>3
  <2>5. ASSUME NEW e \in Above(p) PROVE e \in Above(d)
    <3>1. e \in Dir /\ (e = p \/ IsPrefix(Inside(e), p))
      BY <2>5 DEF Above
    <3>2. CASE e = p
      BY <2>2, <3>2
    <3>3. CASE IsPrefix(Inside(e), p)
      <4>1. Len(Inside(e)) <= Len(p) /\ \A i \in 1..Len(Inside(e)) : Inside(e)[i] = p[i]
        BY <2>2, <3>1, <3>3, InsideIs, PrefixIs
      <4>2. \A i \in 1..Len(p) : p[i] = d[i]
        BY <2>2, AboveIs
      <4>3. /\ Len(Inside(e)) <= Len(d)
            /\ \A i \in 1..Len(Inside(e)) : Inside(e)[i] = d[i]
        BY <2>3, <3>1, <4>1, <4>2, InsideIs
      <4>4. IsPrefix(Inside(e), d)
        BY <3>1, <4>3, InsideIs, PrefixIs
      <4> QED
        BY <3>1, <4>4 DEF Above
    <3> QED
      BY <3>1, <3>2, <3>3
  <2>6. Above(d) = {d} \cup Above(p)
    BY <1>1, <2>4, <2>5
  <2> QED
    BY <2>2, <2>3, <2>6 DEF p
<1> QED
  BY <1>2, <1>3

----------------------------------------------------------------------------
(* The walk up to the first marker comes to the nearest marked directory.   *)

Around(d) == Above(d) \cap marked
Nearest(d) == CHOOSE e \in Around(d) : \A f \in Around(d) : Len(f) <= Len(e)
RootOf == [d \in Dir \cup {None} |->
             IF d = None THEN None ELSE IF Around(d) = {} THEN None ELSE Nearest(d)]

LEMMA NearestIs ==
  ASSUME NEW d \in Dir, Around(d) # {}
  PROVE  Nearest(d) \in Around(d) /\ \A f \in Around(d) : Len(f) <= Len(Nearest(d))
<1> DEFINE gaps == {Len(d) - Len(e) : e \in Around(d)}
<1>1. \A e \in Around(d) : Len(e) \in Nat /\ Len(e) <= Len(d)
  BY AboveIs DEF Around
<1>2. Len(d) \in Nat
  BY InsideIs
<1>3. gaps \subseteq Nat /\ gaps # {}
  <2>1. \A e \in Around(d) : Len(d) - Len(e) \in Nat
    BY <1>1, <1>2
  <2> QED
    BY <2>1
<1>4. PICK gap \in gaps : \A other \in gaps : gap <= other
  BY <1>3, LeastExists
<1>5. PICK e \in Around(d) : gap = Len(d) - Len(e)
  BY <1>4
<1>6. ASSUME NEW f \in Around(d) PROVE Len(f) <= Len(e)
  <2>1. Len(d) - Len(e) <= Len(d) - Len(f)
    BY <1>4, <1>5
  <2> QED
    BY <1>1, <1>2, <1>5, <2>1
<1> QED
  BY <1>5, <1>6 DEF Nearest

\* RootOf solves the equation of the walk,
LEMMA RootOfSolves ==
  ASSUME NEW d \in Dir \cup {None}
  PROVE  RootOf[d] = IF d = None \/ d \in marked THEN d ELSE RootOf[Parent[d]]
<1>1. CASE d = None
  BY <1>1 DEF RootOf
<1>2. CASE d # None /\ d \in marked
  <2>1. d \in Dir /\ d \in Around(d)
    BY <1>2 DEF Around, Above
  <2>2. Nearest(d) \in Above(d) /\ Len(d) <= Len(Nearest(d)) /\ d \in Above(d)
    BY <2>1, NearestIs DEF Around
  <2>3. Len(Nearest(d)) <= Len(d) /\ Len(Nearest(d)) \in Nat /\ Len(d) \in Nat
    BY <2>1, <2>2, AboveIs, InsideIs
  <2>4. Nearest(d) = d
    BY <2>1, <2>2, <2>3, AboveLongest
  <2> QED
    BY <1>2, <2>1, <2>4 DEF RootOf
<1>3. CASE d # None /\ d \notin marked
  <2>1. d \in Dir
    BY <1>3
  <2>2. CASE Parent[d] = None
    <3>1. Around(d) = {}
      BY <1>3, <2>1, <2>2, AboveParent DEF Around
    <3> QED
      BY <1>3, <2>1, <2>2, <3>1 DEF RootOf
  <2>3. CASE Parent[d] # None
    <3>1. Parent[d] \in Dir /\ Around(d) = Around(Parent[d])
      BY <1>3, <2>1, <2>3, AboveParent DEF Around
    <3>2. Nearest(d) = Nearest(Parent[d])
      BY <3>1 DEF Nearest
    <3> QED
      BY <1>3, <2>1, <2>3, <3>1, <3>2 DEF RootOf
  <2> QED
    BY <2>2, <2>3
<1> QED
  BY <1>1, <1>2, <1>3

\* and nothing else does, for the paths get shorter.
LEMMA RootOfUnique ==
  ASSUME NEW up, \A d \in Dir \cup {None} :
           up[d] = IF d = None \/ d \in marked THEN d ELSE up[Parent[d]]
  PROVE  \A d \in Dir : up[d] = RootOf[d]
<1> DEFINE wrong == {d \in Dir : up[d] # RootOf[d]}
           lengths == {Len(d) : d \in wrong}
<1> SUFFICES ASSUME wrong # {} PROVE FALSE
  OBVIOUS
<1>1. lengths \subseteq Nat /\ lengths # {}
  <2>1. \A d \in wrong : Len(d) \in Nat
    BY InsideIs
  <2> HIDE DEF wrong
  <2> QED
    BY <2>1
<1>2. PICK n \in lengths : \A m \in lengths : n <= m
  BY <1>1, LeastExists
<1>3. PICK d \in wrong : n = Len(d)
  BY <1>2
<1>4. d \in Dir /\ up[d] # RootOf[d] /\ Len(d) \in Nat
  BY <1>3, InsideIs
<1>5. d \notin marked /\ d # None /\ up[Parent[d]] # RootOf[Parent[d]]
  BY <1>4, RootOfSolves, DirAssumption
<1>6. up[None] = None /\ RootOf[None] = None
  BY RootOfSolves
<1>7. Parent[d] \in Dir /\ Len(Parent[d]) < Len(d)
  BY <1>4, <1>5, <1>6, AboveParent
<1>8. Len(Parent[d]) \in lengths
  BY <1>5, <1>7
<1> HIDE DEF lengths
<1> QED
  BY <1>2, <1>3, <1>4, <1>7, <1>8, InsideIs

LEMMA FindIs ==
  ASSUME NEW start \in Dir
  PROVE  FindWorkspaceRoot(start) = RootOf[start]
<1> DEFINE Solves(g) == g = [d \in Dir \cup {None} |->
                               IF d = None \/ d \in marked THEN d ELSE g[Parent[d]]]
           up == CHOOSE g : Solves(g)
<1>1. Solves(RootOf)
  <2> DEFINE same == [d \in Dir \cup {None} |->
                        IF d = None \/ d \in marked THEN d ELSE RootOf[Parent[d]]]
  <2>1. \A d \in Dir \cup {None} : RootOf[d] = same[d]
    BY RootOfSolves
  <2>2. DOMAIN RootOf = Dir \cup {None} /\ RootOf = [d \in DOMAIN RootOf |-> RootOf[d]]
    BY DEF RootOf
  <2> QED
    BY <2>1, <2>2
<1>2. Solves(up)
  BY <1>1
<1>3. FindWorkspaceRoot(start) = up[start]
  BY Zenon DEF FindWorkspaceRoot
<1>4. \A d \in Dir \cup {None} :
        up[d] = IF d = None \/ d \in marked THEN d ELSE up[Parent[d]]
  <2> HIDE DEF up
  <2> QED
    BY <1>2
<1> HIDE DEF up
<1> QED
  BY <1>3, <1>4, RootOfUnique

----------------------------------------------------------------------------
(* Recursion over sequences. *)

\* What percent_decode makes of the bytes from i on, given what it makes of
\* those after i.
DecodeStep(s, rest, i) ==
  CASE i > Len(s)     -> <<>>
    [] i <= Len(s) /\ EscapeAt(s, i) ->
         <<HexVal(s[i + 1]) * 16 + HexVal(s[i + 2])>> \o rest[i + 3]
    [] OTHER          -> <<s[i]>> \o rest[i + 1]

LEMMA StepLooksAhead ==
  ASSUME NEW s \in Seq(Byte), NEW i \in 1..(Len(s) + 1), NEW f, NEW g,
         \A j \in 1..(Len(s) + 1) : j > i => f[j] = g[j]
  PROVE  DecodeStep(s, f, i) = DecodeStep(s, g, i)
<1> Len(s) \in Nat
  OBVIOUS
<1>1. CASE i > Len(s)
  BY <1>1 DEF DecodeStep
<1>2. CASE i <= Len(s) /\ EscapeAt(s, i)
  <2>1. i + 3 \in 1..(Len(s) + 1) /\ i + 3 > i
    BY <1>2 DEF EscapeAt
  <2>2. f[i + 3] = g[i + 3] /\ ~(i > Len(s))
    BY <1>2, <2>1
  <2> QED
    BY <1>2, <2>2 DEF DecodeStep
<1>3. CASE i <= Len(s) /\ ~EscapeAt(s, i)
  <2>1. i + 1 \in 1..(Len(s) + 1) /\ i + 1 > i
    BY <1>3
  <2>2. f[i + 1] = g[i + 1] /\ ~(i > Len(s))
    BY <1>3, <2>1
  <2> QED
    BY <1>3, <2>2 DEF DecodeStep
<1> QED
  BY <1>1, <1>2, <1>3

LEMMA DecodeExists ==
  ASSUME NEW s \in Seq(Byte)
  PROVE  \E from : from = [i \in 1..(Len(s) + 1) |-> DecodeStep(s, from, i)]
<1> DEFINE L == Len(s) + 1
           Solves(f, m) == /\ f = [i \in 1..L |-> f[i]]
                           /\ \A i \in 1..L : i > L - m => f[i] = DecodeStep(s, f, i)
           P == {m \in Nat : \E f : Solves(f, m)}
<1>0. L \in Nat
  OBVIOUS
<1> HIDE DEF L
<1>1. 0 \in P
  <2>1. Solves([i \in 1..L |-> 0], 0)
    BY <1>0
  <2> QED
    BY <2>1
<1>2. ASSUME NEW m \in Nat, m \in P PROVE m + 1 \in P
  <2>1. PICK f : Solves(f, m)
    BY <1>2
  <2> DEFINE new == DecodeStep(s, f, L - m)
             g == [i \in 1..L |-> IF i = L - m THEN new ELSE f[i]]
  <2>2. \A i \in 1..L : g[i] = IF i = L - m THEN new ELSE f[i]
    BY <1>0
  <2>3. g = [i \in 1..L |-> g[i]]
    OBVIOUS
  <2>4. ASSUME NEW i \in 1..L, i > L - (m + 1)
        PROVE  g[i] = DecodeStep(s, g, i)
    <3>1. \A j \in 1..L : j > i => f[j] = g[j]
      <4>1. \A j \in 1..L : j > i => j # L - m
        BY <1>0, <2>4
      <4> HIDE DEF new, g
      <4> QED
        BY <2>2, <4>1
    <3>2. DecodeStep(s, f, i) = DecodeStep(s, g, i)
      <4> HIDE DEF g
      <4> QED
        BY <3>1, StepLooksAhead DEF L
    <3>3. i = L - m \/ i > L - m
      BY <1>0, <2>4
    <3>4. i # L - m => f[i] = DecodeStep(s, f, i)
      BY <2>1, <3>3
    <3> HIDE DEF g
    <3> QED
      BY <2>2, <3>2, <3>4
  <2> HIDE DEF g
  <2>5. Solves(g, m + 1)
    BY <2>3, <2>4
  <2> HIDE DEF Solves
  <2>6. m + 1 \in Nat /\ \E f2 : Solves(f2, m + 1)
    BY <2>5
  <2> QED
    BY <2>6
<1>3. L \in P
  <2> HIDE DEF P
  <2> QED
    BY <1>0, <1>1, <1>2, Induction
<1>4. PICK f : Solves(f, L)
  BY <1>3
<1>5. \A i \in 1..L : f[i] = DecodeStep(s, f, i)
  BY <1>0, <1>4
<1>6. f = [i \in 1..L |-> DecodeStep(s, f, i)]
  <2>1. [i \in 1..L |-> f[i]] = [i \in 1..L |-> DecodeStep(s, f, i)]
    BY <1>5
  <2> QED
    BY <1>4, <2>1
<1> QED
  BY <1>6 DEF L

LEMMA DecodeIs ==
  ASSUME NEW s \in Seq(Byte)
  PROVE  \E from : /\ from = [i \in 1..(Len(s) + 1) |-> DecodeStep(s, from, i)]
                   /\ PercentDecode(s) = from[1]
<1> DEFINE from == CHOOSE f : f = [i \in 1..(Len(s) + 1) |-> DecodeStep(s, f, i)]
<1>1. from = [i \in 1..(Len(s) + 1) |-> DecodeStep(s, from, i)]
  BY DecodeExists
<1>2. PercentDecode(s) = from[1]
  BY Zenon DEF PercentDecode, DecodeStep
<1> QED
  BY <1>1, <1>2

\* Bytes are decoded one by one: s stands for q if each byte of q is decoded from
\* where the one before it ends.
DecodesAt(s, q, at) ==
  /\ at[1] = 1 /\ at[Len(q) + 1] = Len(s) + 1
  /\ \A k \in 1..(Len(q) + 1) : at[k] \in 1..(Len(s) + 1)
  /\ \A k \in 1..Len(q) :
       /\ at[k] <= Len(s)
       /\ IF EscapeAt(s, at[k])
          THEN /\ at[k + 1] = at[k] + 3
               /\ HexVal(s[at[k] + 1]) * 16 + HexVal(s[at[k] + 2]) = q[k]
          ELSE at[k + 1] = at[k] + 1 /\ s[at[k]] = q[k]

LEMMA RestOf ==
  ASSUME NEW q \in Seq(Byte), NEW k \in 1..Len(q)
  PROVE  <<q[k]>> \o SubSeq(q, k + 1, Len(q)) = SubSeq(q, k, Len(q))
<1>1. PICK n, a, b : /\ n = Len(q) /\ a = SubSeq(q, k + 1, n) /\ b = SubSeq(q, k, n)
  OBVIOUS
<1>2. n \in Nat /\ k \in Nat /\ k >= 1 /\ k <= n /\ q[k] \in Byte
  BY <1>1
<1>3. /\ a \in Seq(Byte) /\ Len(a) = n - k /\ \A i \in 1..(n - k) : a[i] = q[k + i]
  <2>1. /\ a \in Seq(Byte) /\ Len(a) = IF k + 1 <= n THEN n - (k + 1) + 1 ELSE 0
        /\ \A i \in 1..Len(a) : a[i] = q[(k + 1) + i - 1]
    BY <1>1, <1>2
  <2>2. /\ (IF k + 1 <= n THEN n - (k + 1) + 1 ELSE 0) = n - k
        /\ \A i \in 1..(n - k) : (k + 1) + i - 1 = k + i
    BY <1>2
  <2> QED
    BY <2>1, <2>2
<1>4. /\ b \in Seq(Byte) /\ Len(b) = n - k + 1
      /\ \A i \in 1..(n - k + 1) : b[i] = q[k + i - 1]
  <2>1. /\ b \in Seq(Byte) /\ Len(b) = n - k + 1
        /\ \A i \in 1..Len(b) : b[i] = q[k + i - 1]
    BY <1>1, <1>2
  <2> QED
    BY <2>1
<1>5. PICK c : c = <<q[k]>> \o a
  OBVIOUS
<1>6. /\ c \in Seq(Byte) /\ Len(c) = n - k + 1 /\ c[1] = q[k]
      /\ \A i \in 1..(n - k) : c[1 + i] = q[k + i]
  <2>1. <<q[k]>> \in Seq(Byte) /\ Len(<<q[k]>>) = 1 /\ <<q[k]>>[1] = q[k]
    BY <1>2
  <2>2. /\ c \in Seq(Byte) /\ Len(c) = 1 + Len(a)
        /\ \A i \in 1..(1 + Len(a)) : c[i] = IF i <= 1 THEN <<q[k]>>[i] ELSE a[i - 1]
    BY <1>3, <1>5, <2>1, ConcatProperties
  <2>3. \A i \in 1..(n - k) : 1 + i \in 1..(1 + (n - k)) /\ ~(1 + i <= 1) /\ (1 + i) - 1 = i
    BY <1>2
  <2> QED
    BY <1>2, <1>3, <2>1, <2>2, <2>3
<1>7. \A i \in 1..Len(b) : b[i] = c[i]
  <2> TAKE i \in 1..Len(b)
  <2>1. i \in 1..(n - k + 1)
    BY <1>4
  <2>2. CASE i = 1
    BY <1>2, <1>4, <1>6, <2>1, <2>2
  <2>3. CASE i # 1
    <3>1. i - 1 \in 1..(n - k) /\ 1 + (i - 1) = i /\ k + (i - 1) = k + i - 1
      BY <1>2, <2>1, <2>3
    <3> QED
      BY <1>4, <1>6, <2>1, <3>1
  <2> QED
    BY <2>2, <2>3
<1>8. b = c
  BY <1>4, <1>6, <1>7, SeqEqual
<1> QED
  BY <1>1, <1>5, <1>8

LEMMA DecodeAlong ==
  ASSUME NEW s \in Seq(Byte), NEW q \in Seq(Byte), NEW at, DecodesAt(s, q, at)
  PROVE  PercentDecode(s) = q
<1>1. PICK from : /\ from = [i \in 1..(Len(s) + 1) |-> DecodeStep(s, from, i)]
                  /\ PercentDecode(s) = from[1]
  BY DecodeIs
<1> DEFINE P == {m \in Nat : m <= Len(q) =>
                   from[at[Len(q) + 1 - m]] = SubSeq(q, Len(q) + 1 - m, Len(q))}
<1>2. Len(q) \in Nat /\ Len(s) \in Nat
  OBVIOUS
<1>3. \A k \in 1..(Len(q) + 1) :
        at[k] \in 1..(Len(s) + 1) /\ from[at[k]] = DecodeStep(s, from, at[k])
  BY <1>1 DEF DecodesAt
<1>4. 0 \in P
  <2>1. Len(q) + 1 \in 1..(Len(q) + 1) /\ Len(q) + 1 - 0 = Len(q) + 1
    BY <1>2
  <2>2. at[Len(q) + 1] > Len(s)
    BY <1>2 DEF DecodesAt
  <2>3. from[at[Len(q) + 1]] = <<>>
    <3>1. from[at[Len(q) + 1]] = DecodeStep(s, from, at[Len(q) + 1])
      BY <1>3, <2>1
    <3>2. ASSUME NEW i \in Nat, i > Len(s) PROVE DecodeStep(s, from, i) = <<>>
      <4>1. ~(i <= Len(s))
        BY <1>2, <3>2
      <4> QED
        BY <3>2, <4>1 DEF DecodeStep
    <3>3. at[Len(q) + 1] \in Nat
      BY <1>2, <1>3, <2>1
    <3> QED
      BY <2>2, <3>1, <3>2, <3>3
  <2>4. SubSeq(q, Len(q) + 1, Len(q)) = <<>>
    BY <1>2
  <2> QED
    BY <2>1, <2>3, <2>4
<1>5. ASSUME NEW m \in Nat, m \in P PROVE m + 1 \in P
  <2> SUFFICES ASSUME m + 1 <= Len(q)
               PROVE  from[at[Len(q) + 1 - (m + 1)]]
                        = SubSeq(q, Len(q) + 1 - (m + 1), Len(q))
    OBVIOUS
  <2>1. PICK k : k = Len(q) - m
    OBVIOUS
  <2>2. /\ k \in 1..Len(q) /\ k \in 1..(Len(q) + 1) /\ m <= Len(q)
        /\ Len(q) + 1 - (m + 1) = k /\ Len(q) + 1 - m = k + 1
    BY <1>2, <2>1
  <2>3. from[at[k + 1]] = SubSeq(q, k + 1, Len(q))
    BY <1>5, <2>2
  <2>4. from[at[k]] = DecodeStep(s, from, at[k]) /\ at[k] \in Nat
    BY <1>2, <1>3, <2>2
  <2>5. at[k] <= Len(s) /\ ~(at[k] > Len(s))
    BY <1>2, <2>2, <2>4 DEF DecodesAt
  <2>6. CASE EscapeAt(s, at[k])
    <3>1. at[k + 1] = at[k] + 3 /\ HexVal(s[at[k] + 1]) * 16 + HexVal(s[at[k] + 2]) = q[k]
      BY <2>2, <2>6 DEF DecodesAt
    <3>2. from[at[k]] = <<q[k]>> \o from[at[k + 1]]
      BY <2>4, <2>5, <2>6, <3>1 DEF DecodeStep
    <3> QED
      BY <2>2, <2>3, <3>2, RestOf
  <2>7. CASE ~EscapeAt(s, at[k])
    <3>1. at[k + 1] = at[k] + 1 /\ s[at[k]] = q[k]
      BY <2>2, <2>7 DEF DecodesAt
    <3>2. from[at[k]] = <<q[k]>> \o from[at[k + 1]]
      BY <2>4, <2>5, <2>7, <3>1 DEF DecodeStep
    <3> QED
      BY <2>2, <2>3, <3>2, RestOf
  <2> QED
    BY <2>6, <2>7
<1>6. Len(q) \in P
  <2> HIDE DEF P
  <2> QED
    BY <1>2, <1>4, <1>5, Induction
<1>7. from[at[1]] = SubSeq(q, 1, Len(q))
  <2>1. Len(q) + 1 - Len(q) = 1
    BY <1>2
  <2> QED
    BY <1>2, <1>6, <2>1
<1> QED
  BY <1>1, <1>7, SubSeqFull DEF DecodesAt

\* A path without escapes means itself.
LEMMA DecodePlain ==
  ASSUME NEW path \in Seq(Byte), \A i \in DOMAIN path : ~EscapeAt(path, i)
  PROVE  PercentDecode(path) = path
<1> DEFINE at == [k \in 1..(Len(path) + 1) |-> k]
<1>1. Len(path) \in Nat /\ DOMAIN path = 1..Len(path)
  OBVIOUS
<1>2. \A k \in 1..(Len(path) + 1) : at[k] = k
  OBVIOUS
<1>3. \A k \in 1..Len(path) : k \in 1..(Len(path) + 1) /\ k + 1 \in 1..(Len(path) + 1)
  BY <1>1
<1> HIDE DEF at
<1>4. DecodesAt(path, path, at)
  BY <1>1, <1>2, <1>3 DEF DecodesAt
<1> QED
  BY <1>4, DecodeAlong

\* What flattening a sequence of sequences has put together up to each of them.
LEMMA FlattenExists ==
  ASSUME NEW S, NEW seqs \in Seq(Seq(S)), NEW n \in Nat
  PROVE  \E f : f = [i \in 1..n |-> IF i = 1 THEN seqs[i] ELSE f[i - 1] \o seqs[i]]
<1> DEFINE Solves(f, m) ==
             f = [i \in 1..m |-> IF i = 1 THEN seqs[i] ELSE f[i - 1] \o seqs[i]]
           P == {m \in Nat : \E f : Solves(f, m)}
<1>1. 0 \in P
  <2>1. Solves([i \in 1..0 |-> 0], 0)
    OBVIOUS
  <2> QED
    BY <2>1
<1>2. ASSUME NEW m \in Nat, m \in P PROVE m + 1 \in P
  <2>1. PICK f : Solves(f, m)
    BY <1>2
  <2> DEFINE new == IF m + 1 = 1 THEN seqs[m + 1] ELSE f[m] \o seqs[m + 1]
             g == [i \in 1..(m + 1) |-> IF i = m + 1 THEN new ELSE f[i]]
  <2>2. ASSUME NEW i \in 1..(m + 1)
        PROVE  g[i] = IF i = 1 THEN seqs[i] ELSE g[i - 1] \o seqs[i]
    <3>1. CASE i = m + 1
      <4>1. i # 1 => g[i - 1] = f[m]
        BY <3>1
      <4> QED
        BY <3>1, <4>1
    <3>2. CASE i # m + 1
      <4>1. /\ i \in 1..m /\ g[i] = f[i]
            /\ i # 1 => i - 1 \in 1..(m + 1) /\ i - 1 # m + 1
        BY <3>2
      <4>2. f[i] = IF i = 1 THEN seqs[i] ELSE f[i - 1] \o seqs[i]
        BY <2>1, <4>1
      <4>3. i # 1 => g[i - 1] = f[i - 1]
        BY <4>1
      <4> QED
        BY <4>1, <4>2, <4>3
    <3> QED
      BY <3>1, <3>2
  <2> HIDE DEF new
  <2>3. Solves(g, m + 1)
    <3>1. [i \in 1..(m + 1) |-> g[i]]
            = [i \in 1..(m + 1) |-> IF i = 1 THEN seqs[i] ELSE g[i - 1] \o seqs[i]]
      <4> HIDE DEF g
      <4> QED
        BY <2>2
    <3>2. g = [i \in 1..(m + 1) |-> g[i]]
      OBVIOUS
    <3> HIDE DEF g
    <3> QED
      BY <3>1, <3>2
  <2> HIDE DEF Solves, g
  <2>4. m + 1 \in Nat /\ \E h : Solves(h, m + 1)
    BY <2>3
  <2> QED
    BY <2>4
<1>3. n \in P
  <2> HIDE DEF P
  <2> QED
    BY <1>1, <1>2, Induction
<1> QED
  BY <1>3

\* So a flattened sequence is the last of its beginnings, each the one before it
\* with a piece more.
Builds(seqs, begin) ==
  /\ begin = [k \in 0..Len(seqs) |-> begin[k]] /\ begin[0] = <<>>
  /\ \A k \in 1..Len(seqs) : begin[k] = begin[k - 1] \o seqs[k]

LEMMA FlattenIs ==
  ASSUME NEW S, NEW seqs \in Seq(Seq(S))
  PROVE  \E begin : Builds(seqs, begin) /\ FlattenSeq(seqs) = begin[Len(seqs)]
<1> Len(seqs) \in Nat
  OBVIOUS
<1>1. CASE seqs = <<>>
  <2>1. Len(seqs) = 0 /\ FlattenSeq(seqs) = <<>>
    BY <1>1 DEF FlattenSeq
  <2>2. Builds(seqs, [k \in 0..0 |-> <<>>])
    BY <2>1 DEF Builds
  <2> QED
    BY <2>1, <2>2
<1>2. CASE seqs # <<>>
  <2> DEFINE f == CHOOSE g : g = [i \in 1..Len(seqs) |->
                                    IF i = 1 THEN seqs[i] ELSE g[i-1] \o seqs[i]]
             begin == [k \in 0..Len(seqs) |-> IF k = 0 THEN <<>> ELSE f[k]]
  <2>1. Len(seqs) # 0
    BY <1>2
  <2>2. f = [i \in 1..Len(seqs) |-> IF i = 1 THEN seqs[i] ELSE f[i-1] \o seqs[i]]
    BY <2>1, FlattenExists
  <2>3. FlattenSeq(seqs) = f[Len(seqs)]
    BY <2>1, Zenon DEF FlattenSeq
  <2> HIDE DEF f
  <2>4. ASSUME NEW k \in 1..Len(seqs) PROVE begin[k] = begin[k - 1] \o seqs[k]
    <3>1. k \in 0..Len(seqs) /\ k - 1 \in 0..Len(seqs) /\ (k - 1 = 0 <=> k = 1) /\ k # 0
      OBVIOUS
    <3>2. f[k] = IF k = 1 THEN seqs[k] ELSE f[k - 1] \o seqs[k]
      BY <2>2
    <3>3. begin[k] = f[k] /\ begin[k - 1] = IF k = 1 THEN <<>> ELSE f[k - 1]
      BY <3>1
    <3>4. seqs[k] \in Seq(S) /\ <<>> \o seqs[k] = seqs[k]
      OBVIOUS
    <3> HIDE DEF begin
    <3> QED
      BY <3>2, <3>3, <3>4
  <2>5. begin = [k \in 0..Len(seqs) |-> begin[k]] /\ begin[0] = <<>>
    OBVIOUS
  <2>6. begin[Len(seqs)] = f[Len(seqs)]
    BY <2>1
  <2> HIDE DEF begin
  <2>7. Builds(seqs, begin)
    BY <2>4, <2>5 DEF Builds
  <2> QED
    BY <2>3, <2>6, <2>7
<1> QED
  BY <1>1, <1>2

\* A beginning is as long as the one before it and the piece together, and all
\* of it is in the whole.
LEMMA BeginningsIn ==
  ASSUME NEW S, NEW seqs \in Seq(Seq(S)), NEW begin, Builds(seqs, begin)
  PROVE  /\ \A k \in 0..Len(seqs) : begin[k] \in Seq(S)
         /\ \A k \in 0..Len(seqs) :
              /\ Len(begin[k]) <= Len(begin[Len(seqs)])
              /\ \A i \in 1..Len(begin[k]) : begin[Len(seqs)][i] = begin[k][i]
<1> DEFINE n == Len(seqs)
           whole == begin[n]
           Typed == {k \in Nat : k <= n => begin[k] \in Seq(S)}
           In(s) == Len(s) <= Len(whole) /\ \A i \in 1..Len(s) : whole[i] = s[i]
           P == {m \in Nat : m <= n => In(begin[n - m])}
<1>0. n \in Nat
  OBVIOUS
<1>1. \A k \in 1..n : begin[k] = begin[k - 1] \o seqs[k] /\ seqs[k] \in Seq(S)
  <2>1. \A k \in 1..n : seqs[k] \in Seq(S)
    BY ElementOfSeq
  <2>2. \A k \in 1..n : begin[k] = begin[k - 1] \o seqs[k]
    BY DEF Builds
  <2> QED
    BY <2>1, <2>2
<1> HIDE DEF n
<1>2. Nat \subseteq Typed
  <2>1. 0 \in Typed
    <3>1. begin[0] = <<>>
      BY DEF Builds
    <3> QED
      BY <3>1, EmptySeq
  <2>2. ASSUME NEW k \in Nat, k \in Typed PROVE k + 1 \in Typed
    <3> SUFFICES ASSUME k + 1 <= n PROVE begin[k + 1] \in Seq(S)
      OBVIOUS
    <3>1. k + 1 \in 1..n /\ (k + 1) - 1 = k /\ k <= n
      BY <1>0
    <3>2. begin[k + 1] = begin[k] \o seqs[k + 1] /\ seqs[k + 1] \in Seq(S)
      BY <1>1, <3>1
    <3>3. begin[k] \in Seq(S)
      BY <2>2, <3>1
    <3> QED
      BY <3>2, <3>3, ConcatProperties
  <2> HIDE DEF Typed
  <2> QED
    BY <2>1, <2>2, Induction
<1>3. \A k \in 0..n : begin[k] \in Seq(S) /\ Len(begin[k]) \in Nat
  <2>1. \A k \in 0..n : begin[k] \in Seq(S)
    BY <1>0, <1>2
  <2> QED
    BY <2>1, LenProperties
<1>4. Nat \subseteq P
  <2>1. 0 \in P
    <3>1. n - 0 = n /\ Len(whole) \in Nat
      BY <1>0, <1>3
    <3>2. In(whole)
      BY <3>1
    <3> QED
      BY <3>1, <3>2
  <2>2. ASSUME NEW m \in Nat, m \in P PROVE m + 1 \in P
    <3> SUFFICES ASSUME m + 1 <= n PROVE In(begin[n - (m + 1)])
      OBVIOUS
    <3>1. PICK k : k = n - m
      OBVIOUS
    <3>2. k \in 1..n /\ k \in 0..n /\ n - (m + 1) = k - 1 /\ k - 1 \in 0..n /\ m <= n
      BY <1>0, <3>1
    <3>3. PICK a, b, c : a = begin[k - 1] /\ b = seqs[k] /\ c = begin[k]
      OBVIOUS
    <3>4. a \in Seq(S) /\ b \in Seq(S) /\ c = a \o b /\ Len(a) \in Nat /\ Len(b) \in Nat
      BY <1>1, <1>3, <3>2, <3>3, LenProperties
    <3>5. Len(c) = Len(a) + Len(b) /\ \A i \in 1..Len(a) : i \in 1..Len(c) /\ c[i] = a[i]
      BY <3>4, ConcatProperties
    <3>6. In(c)
      BY <2>2, <3>1, <3>2, <3>3
    <3>7. Len(whole) \in Nat
      BY <1>0, <1>3
    <3> HIDE DEF whole
    <3>8. In(a)
      <4>1. Len(a) <= Len(whole)
        BY <3>4, <3>5, <3>6, <3>7
      <4>2. \A i \in 1..Len(a) : whole[i] = a[i]
        BY <3>5, <3>6
      <4> QED
        BY <4>1, <4>2
    <3> QED
      BY <3>2, <3>3, <3>8
  <2> HIDE DEF P
  <2> QED
    BY <2>1, <2>2, Induction
<1>5. ASSUME NEW k \in 0..n PROVE In(begin[k])
  <2>1. n - k \in Nat /\ n - k <= n /\ n - (n - k) = k
    BY <1>0
  <2>2. n - k \in P
    BY <1>4, <2>1
  <2> HIDE DEF In
  <2> QED
    BY <2>1, <2>2
<1> QED
  BY <1>3, <1>5 DEF n

\* What percent_decode makes of a path as the client writes it is the path.
LEMMA DecodeEncoded ==
  ASSUME NEW path \in Seq(Byte)
  PROVE  PercentDecode(Encoded(path)) = path
<1> DEFINE pieces == [i \in DOMAIN path |-> Written[path[i]]]
           n == Len(path)
           s == Encoded(path)
<1>1. /\ n \in Nat /\ pieces \in Seq(Seq(Byte)) /\ Len(pieces) = n
      /\ \A k \in 1..n : path[k] \in Byte /\ pieces[k] = Written[path[k]]
  <2>1. \A k \in 1..n : path[k] \in Byte /\ Written[path[k]] \in Seq(Byte)
    BY WrittenAssumption
  <2>2. n \in Nat /\ DOMAIN path = 1..n
    OBVIOUS
  <2> HIDE DEF n
  <2> QED
    BY <2>1, <2>2
<1>2. PICK begin : Builds(pieces, begin) /\ FlattenSeq(pieces) = begin[n]
  BY <1>1, FlattenIs
<1>3. s = begin[n]
  BY <1>2 DEF Encoded
<1> HIDE DEF pieces, n, s
<1>4. /\ \A k \in 0..n : begin[k] \in Seq(Byte) /\ Len(begin[k]) \in Nat
      /\ \A k \in 0..n : /\ Len(begin[k]) <= Len(s)
                         /\ \A i \in 1..Len(begin[k]) : s[i] = begin[k][i]
      /\ begin[0] = <<>> /\ \A k \in 1..n : begin[k] = begin[k - 1] \o pieces[k]
  <2>1. \A k \in 0..n : begin[k] \in Seq(Byte)
    BY <1>1, <1>2, BeginningsIn
  <2>2. \A k \in 0..n : /\ Len(begin[k]) <= Len(s)
                        /\ \A i \in 1..Len(begin[k]) : s[i] = begin[k][i]
    BY <1>1, <1>2, <1>3, BeginningsIn
  <2> QED
    BY <1>1, <1>2, <2>1, <2>2, LenProperties DEF Builds
<1>5. s \in Seq(Byte) /\ Len(s) \in Nat
  BY <1>1, <1>3, <1>4
<1> DEFINE at == [k \in 1..(n + 1) |-> Len(begin[k - 1]) + 1]
<1>6. \A k \in 1..(n + 1) : at[k] = Len(begin[k - 1]) + 1 /\ k - 1 \in 0..n
  BY <1>1
<1> HIDE DEF at
\* Byte k stands in s as the client writes it.
<1>7. ASSUME NEW k \in 1..n
      PROVE  /\ at[k] \in Nat /\ at[k] >= 1 /\ at[k + 1] = at[k] + Len(pieces[k])
             /\ at[k] + Len(pieces[k]) <= Len(s) + 1 /\ Len(pieces[k]) \in Nat
             /\ \A i \in 1..Len(pieces[k]) : s[at[k] + i - 1] = pieces[k][i]
  <2>1. k - 1 \in 0..n /\ k \in 0..n /\ k \in 1..(n + 1) /\ k + 1 \in 1..(n + 1) /\ (k + 1) - 1 = k
    BY <1>1
  <2>2. PICK a, b, c : a = begin[k - 1] /\ b = pieces[k] /\ c = begin[k]
    OBVIOUS
  <2>3. a \in Seq(Byte) /\ b \in Seq(Byte) /\ c = a \o b /\ Len(a) \in Nat /\ Len(b) \in Nat
    <3>1. a \in Seq(Byte) /\ c = a \o b /\ Len(a) \in Nat
      BY <1>4, <2>1, <2>2
    <3>2. b \in Seq(Byte) /\ Len(b) \in Nat
      <4>1. b \in Seq(Byte)
        BY <1>1, <2>2, ElementOfSeq
      <4> QED
        BY <4>1
    <3> QED
      BY <3>1, <3>2
  <2>4. /\ Len(c) = Len(a) + Len(b)
        /\ \A i \in 1..Len(b) : Len(a) + i \in 1..Len(c) /\ c[Len(a) + i] = b[i]
    <3>1. /\ Len(c) = Len(a) + Len(b)
          /\ \A i \in 1..(Len(a) + Len(b)) :
               c[i] = IF i <= Len(a) THEN a[i] ELSE b[i - Len(a)]
      BY <2>3, ConcatProperties
    <3>2. \A i \in 1..Len(b) : /\ Len(a) + i \in 1..(Len(a) + Len(b)) /\ ~(Len(a) + i <= Len(a))
                               /\ (Len(a) + i) - Len(a) = i
      BY <2>3
    <3> QED
      BY <3>1, <3>2
  <2>5. Len(c) <= Len(s) /\ \A i \in 1..Len(c) : s[i] = c[i]
    BY <1>4, <2>1, <2>2
  <2>6. at[k] = Len(a) + 1 /\ at[k + 1] = Len(c) + 1
    BY <1>6, <2>1, <2>2
  <2>7. \A i \in 1..Len(b) : at[k] + i - 1 = Len(a) + i
    BY <2>3, <2>6
  <2>8. \A i \in 1..Len(b) : s[at[k] + i - 1] = b[i]
    BY <2>4, <2>5, <2>7
  <2>9. /\ Len(a) + 1 \in Nat /\ Len(a) + 1 >= 1
        /\ Len(c) + 1 = (Len(a) + 1) + Len(b)
        /\ (Len(a) + 1) + Len(b) <= Len(s) + 1
    BY <1>5, <2>3, <2>4, <2>5
  <2> QED
    BY <2>2, <2>3, <2>6, <2>8, <2>9
<1>8. ASSUME NEW k \in 1..n
      PROVE  /\ at[k] <= Len(s)
             /\ IF EscapeAt(s, at[k])
                THEN /\ at[k + 1] = at[k] + 3
                     /\ HexVal(s[at[k] + 1]) * 16 + HexVal(s[at[k] + 2]) = path[k]
                ELSE at[k + 1] = at[k] + 1 /\ s[at[k]] = path[k]
  <2>1. PICK e, w : e = at[k] /\ w = pieces[k]
    OBVIOUS
  <2>2. /\ e \in Nat /\ e >= 1 /\ at[k + 1] = e + Len(w) /\ e + Len(w) <= Len(s) + 1
        /\ \A i \in 1..Len(w) : s[e + i - 1] = w[i]
    BY <1>7, <2>1
  <2>3. (w = <<path[k]>> /\ path[k] # Percent) \/ EscapeOf(w, path[k])
    BY <1>1, <2>1, WrittenAssumption
  <2>4. CASE w = <<path[k]>> /\ path[k] # Percent
    <3>1. Len(w) = 1 /\ w[1] = path[k]
      BY <2>4
    <3>2. s[e] = path[k]
      <4>1. 1 \in 1..Len(w) /\ e + 1 - 1 = e
        BY <2>2, <3>1
      <4> QED
        BY <2>2, <3>1, <4>1
    <3>3. ~EscapeAt(s, e)
      BY <2>4, <3>2 DEF EscapeAt
    <3> QED
      BY <1>5, <2>1, <2>2, <3>1, <3>2, <3>3
  <2>5. CASE EscapeOf(w, path[k])
    <3>1. /\ Len(w) = 3 /\ w[1] = Percent /\ HexVal(w[2]) >= 0 /\ HexVal(w[3]) >= 0
          /\ HexVal(w[2]) * 16 + HexVal(w[3]) = path[k]
      BY <2>5 DEF EscapeOf, EscapeAt
    <3>2. s[e] = w[1] /\ s[e + 1] = w[2] /\ s[e + 2] = w[3]
      <4>1. /\ 1 \in 1..Len(w) /\ 2 \in 1..Len(w) /\ 3 \in 1..Len(w)
            /\ e + 1 - 1 = e /\ e + 2 - 1 = e + 1 /\ e + 3 - 1 = e + 2
        BY <2>2, <3>1
      <4> QED
        BY <2>2, <4>1
    <3>3. e + 2 <= Len(s) /\ e <= Len(s) /\ at[k + 1] = e + 3
      BY <1>5, <2>2, <3>1
    <3>4. EscapeAt(s, e)
      BY <3>1, <3>2, <3>3 DEF EscapeAt
    <3> QED
      BY <2>1, <3>1, <3>2, <3>3, <3>4
  <2> QED
    BY <2>3, <2>4, <2>5
<1>9. at[1] = 1 /\ at[n + 1] = Len(s) + 1 /\ \A k \in 1..(n + 1) : at[k] \in 1..(Len(s) + 1)
  <2>1. 1 \in 1..(n + 1) /\ n + 1 \in 1..(n + 1) /\ 1 - 1 = 0 /\ (n + 1) - 1 = n
    BY <1>1
  <2>2. at[1] = 1 /\ at[n + 1] = Len(s) + 1
    <3>1. Len(begin[0]) = 0
      BY <1>4
    <3>2. at[1] = Len(begin[0]) + 1 /\ at[n + 1] = Len(begin[n]) + 1
      BY <1>6, <2>1
    <3> QED
      BY <1>3, <3>1, <3>2
  <2>3. ASSUME NEW k \in 1..(n + 1) PROVE at[k] \in 1..(Len(s) + 1)
    <3>1. k - 1 \in 0..n /\ at[k] = Len(begin[k - 1]) + 1
      BY <1>6
    <3>2. Len(begin[k - 1]) \in Nat /\ Len(begin[k - 1]) <= Len(s)
      BY <1>4, <3>1
    <3> QED
      BY <1>5, <3>1, <3>2
  <2> QED
    BY <2>2, <2>3
<1>10. DecodesAt(s, path, at)
  BY <1>8, <1>9 DEF DecodesAt, n
<1> QED
  BY <1>5, <1>10, DecodeAlong DEF s

----------------------------------------------------------------------------
(* Where the two processes come to. *)

ProxyPath ==
  LET root == ExtractRootUri(params)
  IN  IF root = None THEN proxyDir ELSE RootPathFromUri(root)
ViewerPath ==
  LET root == FindWorkspaceRoot(viewerDir)
  IN  IF root = None THEN viewerDir ELSE Canonical(root)

DiscoveryInv ==
  /\ marked \subseteq Dir /\ params \in Params /\ proxyDir \in Dir /\ viewerDir \in Dir
  /\ proxySocket \in {None, ProxyPath} /\ viewerSocket \in {None, ViewerPath}

LEMMA AlwaysDiscovery == DiscoverySpec => []DiscoveryInv
<1>1. DiscoveryInit => DiscoveryInv
  BY DEF DiscoveryInit, DiscoveryInv
<1>2. ASSUME DiscoveryInv, [DiscoveryNext]_discoveryVars PROVE DiscoveryInv'
  <2>1. UNCHANGED <<marked, params, proxyDir, viewerDir>>
    BY <1>2 DEF DiscoveryNext, discoveryVars, ProxyBinds, ViewerDials
  <2>2. ProxyPath' = ProxyPath
    BY <2>1 DEF ProxyPath
  <2>3. ViewerPath' = ViewerPath
    BY <2>1 DEF ViewerPath, FindWorkspaceRoot
  <2>4. proxySocket' \in {proxySocket, ProxyPath} /\ viewerSocket' \in {viewerSocket, ViewerPath}
    BY <1>2 DEF DiscoveryNext, discoveryVars, ProxyBinds, ViewerDials, ProxyPath, ViewerPath
  <2> QED
    BY <1>2, <2>1, <2>2, <2>3, <2>4 DEF DiscoveryInv
<1> QED
  BY <1>1, <1>2, PTL DEF DiscoverySpec

LEMMA ProxyFinds ==
  ASSUME params \in Params, ~PlainEscape
  PROVE  ProxyPath = SessionRoot
<1>1. CASE params.names = None
  <2>1. params.rootUri = None /\ params.folder = None /\ params.rootPath = None
    BY <1>1, ParamsAssumption
  <2> QED
    BY <1>1, <2>1 DEF ProxyPath, SessionRoot, ExtractRootUri
<1>2. CASE params.names # None
  <2>1. PICK path \in Dir \cup DOMAIN Link :
          /\ Canonical(path) = params.names
          /\ params.rootUri \in {None, Encoded(path)} /\ params.folder \in {None, Encoded(path)}
          /\ params.rootPath \in {None, path}
          /\ {params.rootUri, params.folder, params.rootPath} \ {None} # {}
    BY <1>2, ParamsAssumption
  <2>2. path \in Seq(Byte)
    BY DirAssumption, LinkAssumption
  <2>3. RootPathFromUri(Encoded(path)) = params.names
    BY <2>1, <2>2, DecodeEncoded DEF RootPathFromUri
  <2>4. CASE params.rootUri # None
    <3>1. ExtractRootUri(params) = Encoded(path) /\ Encoded(path) # None
      BY <2>1, <2>4 DEF ExtractRootUri
    <3> QED
      BY <1>2, <2>3, <3>1 DEF ProxyPath, SessionRoot
  <2>5. CASE params.rootUri = None /\ params.folder # None
    <3>1. ExtractRootUri(params) = Encoded(path) /\ Encoded(path) # None
      BY <2>1, <2>5 DEF ExtractRootUri
    <3> QED
      BY <1>2, <2>3, <3>1 DEF ProxyPath, SessionRoot
  <2>6. CASE params.rootUri = None /\ params.folder = None
    <3>1. params.rootPath = path /\ path # None
      BY <2>1, <2>6
    <3>2. ExtractRootUri(params) = path
      BY <2>6, <3>1 DEF ExtractRootUri
    <3>3. PercentDecode(path) = path
      BY <2>2, <2>6, <3>1, DecodePlain DEF PlainEscape
    <3>4. RootPathFromUri(path) = params.names
      BY <2>1, <3>3 DEF RootPathFromUri
    <3> QED
      BY <1>2, <3>1, <3>2, <3>4 DEF ProxyPath, SessionRoot
  <2> QED
    BY <2>4, <2>5, <2>6
<1> QED
  BY <1>1, <1>2

LEMMA ViewerFinds ==
  ASSUME marked \subseteq Dir, viewerDir \in Dir
  PROVE  ViewerPath = ViewerRoot
<1>1. viewerDir # None /\ FindWorkspaceRoot(viewerDir) = RootOf[viewerDir]
  BY FindIs, DirAssumption
<1>2. CASE Around(viewerDir) = {}
  BY <1>1, <1>2 DEF RootOf, ViewerPath, ViewerRoot, Around
<1>3. CASE Around(viewerDir) # {}
  <2>1. RootOf[viewerDir] = Nearest(viewerDir)
    BY <1>1, <1>3 DEF RootOf
  <2>2. Nearest(viewerDir) \in Dir /\ Nearest(viewerDir) # None
    BY <1>3, NearestIs, DirAssumption DEF Around, Above
  <2>3. Canonical(Nearest(viewerDir)) = Nearest(viewerDir)
    BY <2>2, LinkAssumption DEF Canonical
  <2>4. ViewerPath = Nearest(viewerDir)
    BY <1>1, <2>1, <2>2, <2>3 DEF ViewerPath
  <2>5. ViewerRoot = Nearest(viewerDir)
    BY <1>3 DEF ViewerRoot, Nearest, Around
  <2> QED
    BY <2>4, <2>5
<1> QED
  BY <1>2, <1>3

\* Whatever directories are marked and however the client spells the root, the
\* viewer comes to the proxy's socket exactly when the session's root is the
\* workspace around it (root_path_from_uri, find_workspace_root).
THEOREM TheyMeet == DiscoverySpec => []Meet
<1>1. DiscoveryInv => Meet
  BY ProxyFinds, ViewerFinds DEF DiscoveryInv, Meet, Both
<1> QED
  BY <1>1, AlwaysDiscovery, PTL

----------------------------------------------------------------------------
(* Texts. *)

LEMMA LowestIs ==
  ASSUME NEW ns, ns \subseteq Nat, ns # {}
  PROVE  Lowest(ns) \in ns /\ \A n \in ns : Lowest(ns) <= n
BY LeastExists DEF Lowest

LEMMA HighestIs ==
  ASSUME NEW m \in Nat, NEW ns, ns \subseteq 1..m, ns # {}
  PROVE  Highest(ns) \in ns /\ \A n \in ns : n <= Highest(ns)
BY GreatestExists DEF Highest

----------------------------------------------------------------------------
(* Pieces of a text. *)

LEMMA Piece ==
  ASSUME NEW s \in Seq(Char), NEW a \in 1..(Len(s) + 1), NEW b \in 0..Len(s)
  PROVE  LET p == SubSeq(s, a, b) IN
         /\ p \in Seq(Char) /\ Len(p) \in Nat
         /\ Len(p) = IF a <= b THEN b - a + 1 ELSE 0
         /\ DOMAIN p = 1..Len(p)
         /\ \A i \in 1..Len(p) : p[i] = s[a + i - 1]
<1>1. Len(s) \in Nat /\ a \in Int /\ b \in Int
  OBVIOUS
<1>2. \A i \in a..b : s[i] \in Char
  <2>1. \A i \in a..b : i \in 1..Len(s)
    BY <1>1
  <2> QED
    BY <2>1
<1> DEFINE p == SubSeq(s, a, b)
<1>3. /\ p \in Seq(Char) /\ Len(p) = IF a <= b THEN b - a + 1 ELSE 0
      /\ \A i \in 1..(b - a + 1) : p[i] = s[a + i - 1]
  BY <1>1, <1>2, SubSeqProperties
<1> HIDE DEF p
<1>4. Len(p) \in Nat /\ DOMAIN p = 1..Len(p)
  BY <1>3
<1>5. \A i \in 1..Len(p) : i \in 1..(b - a + 1)
  <2>1. PICK l : l = Len(p)
    OBVIOUS
  <2>2. l = IF a <= b THEN b - a + 1 ELSE 0
    BY <1>3, <2>1
  <2>3. \A i \in 1..l : i \in 1..(b - a + 1)
    BY <1>1, <2>2
  <2> QED
    BY <2>1, <2>3
<1> QED
  BY <1>3, <1>4, <1>5 DEF p

LEMMA PieceOfPiece ==
  ASSUME NEW s \in Seq(Char), NEW a \in 1..(Len(s) + 1), NEW b \in 0..Len(s),
         a <= b + 1,
         NEW c \in 1..(b - a + 2), NEW d \in 0..(b - a + 1)
  PROVE  SubSeq(SubSeq(s, a, b), c, d) = SubSeq(s, a + c - 1, a + d - 1)
<1>1. Len(s) \in Nat
  OBVIOUS
<1> DEFINE p == SubSeq(s, a, b)
           q == SubSeq(p, c, d)
           r == SubSeq(s, a + c - 1, a + d - 1)
<1>2. /\ p \in Seq(Char) /\ Len(p) = b - a + 1
      /\ \A i \in 1..Len(p) : p[i] = s[a + i - 1]
  <2>1. Len(p) = IF a <= b THEN b - a + 1 ELSE 0
    BY Piece
  <2>2. (IF a <= b THEN b - a + 1 ELSE 0) = b - a + 1
    BY <1>1
  <2> QED
    BY <2>1, <2>2, Piece
<1> HIDE DEF p
<1>3. /\ q \in Seq(Char) /\ Len(q) = IF c <= d THEN d - c + 1 ELSE 0
      /\ \A i \in 1..Len(q) : q[i] = p[c + i - 1]
  <2>1. c \in 1..(Len(p) + 1) /\ d \in 0..Len(p)
    BY <1>1, <1>2
  <2> QED
    BY <1>2, <2>1, Piece
<1>4. a + c - 1 \in 1..(Len(s) + 1) /\ a + d - 1 \in 0..Len(s)
  BY <1>1
<1>5. /\ r \in Seq(Char)
      /\ Len(r) = IF a + c - 1 <= a + d - 1 THEN (a + d - 1) - (a + c - 1) + 1 ELSE 0
      /\ \A i \in 1..Len(r) : r[i] = s[(a + c - 1) + i - 1]
  BY <1>4, Piece
<1> HIDE DEF q, r
<1>6. Len(r) = Len(q)
  <2>1. (IF a + c - 1 <= a + d - 1 THEN (a + d - 1) - (a + c - 1) + 1 ELSE 0)
          = IF c <= d THEN d - c + 1 ELSE 0
    BY <1>1
  <2> QED
    BY <1>3, <1>5, <2>1
<1>7. ASSUME NEW i \in 1..Len(q) PROVE q[i] = r[i]
  <2>1. PICK l : l = Len(q)
    OBVIOUS
  <2>2. l = IF c <= d THEN d - c + 1 ELSE 0
    BY <1>3, <2>1
  <2>3. i \in 1..l
    BY <2>1
  <2>4. c + i - 1 \in 1..(b - a + 1) /\ a + (c + i - 1) - 1 = (a + c - 1) + i - 1
    BY <1>1, <2>2, <2>3
  <2>5. p[c + i - 1] = s[a + (c + i - 1) - 1]
    BY <1>2, <2>4
  <2> QED
    BY <1>3, <1>5, <1>6, <2>4, <2>5
<1>8. q = r
  BY <1>3, <1>5, <1>6, <1>7, SeqEqual
<1> QED
  BY <1>8 DEF p, q, r
----------------------------------------------------------------------------
(* Trimming. *)

LineEnds == {"return", "newline"}
Blanks   == {"space", "return", "newline"}

\* What follows position h of s is all in chars, and h is not.
EndsAfter(s, chars, h) ==
  /\ h \in 0..Len(s)
  /\ h # 0 => s[h] \notin chars
  /\ \A k \in (h + 1)..Len(s) : s[k] \in chars

LEMMA EndExists ==
  ASSUME NEW s \in Seq(Char), NEW chars
  PROVE  \E h : EndsAfter(s, chars, h)
<1>1. Len(s) \in Nat
  OBVIOUS
<1> DEFINE kept == {k \in 1..Len(s) : s[k] \notin chars}
<1>2. CASE kept = {}
  <2>1. \A k \in (0 + 1)..Len(s) : s[k] \in chars
    BY <1>2
  <2>2. EndsAfter(s, chars, 0)
    BY <1>1, <2>1 DEF EndsAfter
  <2> QED
    BY <2>2
<1>3. CASE kept # {}
  <2>1. PICK h \in kept : \A k \in kept : k <= h
    BY <1>1, <1>3, GreatestExists
  <2>2. \A k \in (h + 1)..Len(s) : k \in 1..Len(s) /\ ~(k <= h)
    BY <1>1, <2>1
  <2>3. EndsAfter(s, chars, h)
    BY <1>1, <2>1, <2>2 DEF EndsAfter
  <2> QED
    BY <2>3
<1> QED
  BY <1>2, <1>3

LEMMA TrimEndIs ==
  ASSUME NEW s \in Seq(Char), NEW chars, NEW h, EndsAfter(s, chars, h)
  PROVE  TrimEnd(s, chars) = SubSeq(s, 1, h)
<1> DEFINE kept == Indices(s, Char \ chars)
<1>1. Len(s) \in Nat /\ DOMAIN s = 1..Len(s) /\ \A k \in 1..Len(s) : s[k] \in Char
  OBVIOUS
<1>2. kept = {k \in 1..Len(s) : s[k] \notin chars}
  BY <1>1 DEF Indices
<1> HIDE DEF kept
<1>3. h \in 0..Len(s) /\ \A k \in kept : k <= h
  BY <1>1, <1>2 DEF EndsAfter
<1>4. CASE h = 0
  <2>1. kept = {}
    BY <1>1, <1>2, <1>3, <1>4
  <2>2. SubSeq(s, 1, 0) = <<>>
    BY SubSeqEmpty
  <2> QED
    BY <1>4, <2>1, <2>2 DEF TrimEnd, kept
<1>5. CASE h # 0
  <2>1. h \in kept
    BY <1>1, <1>2, <1>3, <1>5 DEF EndsAfter
  <2>2. kept \subseteq 1..Len(s)
    BY <1>2
  <2>3. Highest(kept) \in kept /\ \A k \in kept : k <= Highest(kept)
    BY <1>1, <2>1, <2>2, HighestIs
  <2>4. Highest(kept) = h
    <3>1. PICK x : x = Highest(kept)
      OBVIOUS
    <3>2. x \in 1..Len(s) /\ x <= h /\ h <= x
      BY <1>3, <2>1, <2>2, <2>3, <3>1
    <3> QED
      BY <1>1, <1>3, <3>1, <3>2
  <2> QED
    BY <2>1, <2>4 DEF TrimEnd, kept
<1> QED
  BY <1>4, <1>5

\* Trimming line ends first changes nothing that is trimmed.
LEMMA TrimOfTrimEnd ==
  ASSUME NEW s \in Seq(Char)
  PROVE  Trim(TrimEnd(s, LineEnds)) = Trim(s)
<1>1. PICK h : EndsAfter(s, LineEnds, h)
  BY EndExists
<1> DEFINE t == SubSeq(s, 1, h)
           inS == Indices(s, Char \ Blanks)
           inT == Indices(t, Char \ Blanks)
<1>2. TrimEnd(s, LineEnds) = t
  BY <1>1, TrimEndIs
<1>3. /\ Len(s) \in Nat /\ h \in 0..Len(s) /\ DOMAIN s = 1..Len(s)
      /\ \A k \in (h + 1)..Len(s) : s[k] \in LineEnds
  BY <1>1 DEF EndsAfter
<1>4. t \in Seq(Char) /\ DOMAIN t = 1..h /\ \A k \in 1..h : t[k] = s[k]
  <2>1. 1 \in 1..(Len(s) + 1)
    BY <1>3
  <2>2. /\ t \in Seq(Char) /\ DOMAIN t = 1..Len(t)
        /\ Len(t) = IF 1 <= h THEN h - 1 + 1 ELSE 0
        /\ \A k \in 1..Len(t) : t[k] = s[1 + k - 1]
    BY <1>3, <2>1, Piece
  <2>3. (IF 1 <= h THEN h - 1 + 1 ELSE 0) = h /\ \A k \in 1..h : 1 + k - 1 = k
    BY <1>3
  <2> QED
    BY <2>2, <2>3
<1>5. inT = inS
  <2>1. inT = {k \in 1..h : s[k] \in Char \ Blanks}
    BY <1>4 DEF Indices
  <2>2. inS = {k \in 1..Len(s) : s[k] \in Char \ Blanks}
    BY <1>3 DEF Indices
  <2>3. \A k \in 1..Len(s) : k \in 1..h \/ s[k] \in Blanks
    BY <1>3 DEF LineEnds, Blanks
  <2>4. 1..h \subseteq 1..Len(s)
    BY <1>3
  <2> QED
    BY <2>1, <2>2, <2>3, <2>4
<1>6. CASE inS = {}
  BY <1>2, <1>5, <1>6 DEF Trim, Blanks
<1>7. CASE inS # {}
  <2>1. inT \subseteq 1..h
    BY <1>4 DEF Indices
  <2> HIDE DEF inS, inT, t
  <2>2. inS \subseteq 1..h /\ inS \subseteq Nat /\ h \in Nat
    BY <1>3, <1>5, <2>1
  <2>3. PICK l, u : l = Lowest(inS) /\ u = Highest(inS)
    OBVIOUS
  <2>4. l \in 1..h /\ u \in 1..h
    <3>1. Lowest(inS) \in inS
      BY <1>7, <2>2, LowestIs
    <3>2. Highest(inS) \in inS
      BY <1>7, <2>2, HighestIs
    <3> QED
      BY <2>2, <2>3, <3>1, <3>2
  <2>5. SubSeq(t, l, u) = SubSeq(s, l, u)
    <3>1. /\ 1 \in 1..(Len(s) + 1) /\ 1 <= h + 1
          /\ l \in 1..(h - 1 + 2) /\ u \in 0..(h - 1 + 1)
          /\ 1 + l - 1 = l /\ 1 + u - 1 = u
      BY <1>3, <2>4
    <3>2. SubSeq(SubSeq(s, 1, h), l, u) = SubSeq(s, 1 + l - 1, 1 + u - 1)
      BY <1>3, <3>1, PieceOfPiece
    <3> QED
      BY <3>1, <3>2 DEF t
  <2>6. Trim(s) = SubSeq(s, l, u) /\ Trim(t) = SubSeq(t, l, u)
    BY <1>5, <1>7, <2>3 DEF Trim, inS, inT, Blanks
  <2> QED
    BY <1>2, <2>5, <2>6
<1> QED
  BY <1>6, <1>7

\* Nothing is no fence.
LEMMA EmptyCloses == ~IsClosing(<<>>)
<1>1. Indices(<<>>, Char \ Blanks) = {}
  BY DEF Indices
<1>2. Trim(<<>>) = <<>>
  BY <1>1 DEF Trim, Blanks
<1>3. Len(<<"fence">>) = 1 /\ Len(<<>>) = 0
  OBVIOUS
<1> QED
  BY <1>2, <1>3 DEF IsClosing

\* A rest of a text without its last line ends.
LEMMA TrimmedRest ==
  ASSUME NEW s \in Seq(Char), NEW a \in 0..Len(s), NEW h, EndsAfter(s, LineEnds, h)
  PROVE  TrimEnd(After(s, a), LineEnds) = IF h > a THEN SubSeq(s, a + 1, h) ELSE <<>>
<1> DEFINE t == After(s, a)
           n == IF h > a THEN h - a ELSE 0
<1>1. /\ Len(s) \in Nat /\ h \in 0..Len(s) /\ a \in Nat
      /\ h # 0 => s[h] \notin LineEnds
      /\ \A k \in (h + 1)..Len(s) : s[k] \in LineEnds
  BY DEF EndsAfter
<1>2. a + 1 \in 1..(Len(s) + 1) /\ Len(s) \in 0..Len(s) /\ a + 1 <= Len(s) + 1
  BY <1>1
<1>3. t \in Seq(Char) /\ Len(t) = Len(s) - a /\ \A k \in 1..Len(t) : t[k] = s[a + k]
  <2>1. /\ t \in Seq(Char)
        /\ Len(t) = IF a + 1 <= Len(s) THEN Len(s) - (a + 1) + 1 ELSE 0
        /\ \A k \in 1..Len(t) : t[k] = s[(a + 1) + k - 1]
    BY <1>2, Piece DEF After
  <2>2. (IF a + 1 <= Len(s) THEN Len(s) - (a + 1) + 1 ELSE 0) = Len(s) - a
    BY <1>1
  <2>3. \A k \in 1..(Len(s) - a) : (a + 1) + k - 1 = a + k
    BY <1>1
  <2> QED
    BY <2>1, <2>2, <2>3
<1> HIDE DEF t
<1>4. EndsAfter(t, LineEnds, n)
  <2>1. n \in 0..Len(t) /\ (n # 0 => n = h - a /\ h # 0 /\ n \in 1..Len(t) /\ a + n = h)
    BY <1>1, <1>3
  <2>2. n # 0 => t[n] \notin LineEnds
    BY <1>1, <1>3, <2>1
  <2>3. \A k \in (n + 1)..Len(t) : k \in 1..Len(t) /\ a + k \in (h + 1)..Len(s)
    BY <1>1, <1>3, <2>1
  <2>4. \A k \in (n + 1)..Len(t) : t[k] \in LineEnds
    BY <1>1, <1>3, <2>3
  <2> HIDE DEF n
  <2> QED
    BY <2>1, <2>2, <2>4 DEF EndsAfter
<1>5. TrimEnd(t, LineEnds) = SubSeq(t, 1, n)
  BY <1>3, <1>4, TrimEndIs
<1>6. CASE h > a
  <2>1. n = h - a
    BY <1>6
  <2> HIDE DEF n
  <2>2. /\ 1 \in 1..(Len(s) - (a + 1) + 2) /\ n \in 0..(Len(s) - (a + 1) + 1)
        /\ (a + 1) + 1 - 1 = a + 1 /\ (a + 1) + n - 1 = h
    BY <1>1, <1>6, <2>1
  <2>3. SubSeq(SubSeq(s, a + 1, Len(s)), 1, n) = SubSeq(s, (a + 1) + 1 - 1, (a + 1) + n - 1)
    BY <1>2, <2>2, PieceOfPiece
  <2> QED
    BY <1>5, <1>6, <2>2, <2>3 DEF t, After
<1>7. CASE ~(h > a)
  <2>1. SubSeq(t, 1, 0) = <<>>
    BY SubSeqEmpty
  <2> QED
    BY <1>5, <1>7, <2>1 DEF t
<1> QED
  BY <1>6, <1>7
----------------------------------------------------------------------------
(* The fence. *)

\* Line ends close at j: what follows it, without its line ends, closes a fence
\* and is one line.
Closes(text, j) ==
  LET closing == TrimEnd(After(text, j), LineEnds)
  IN  IsClosing(closing) /\ Newlines(closing) = {}

LEMMA NewlinesOf ==
  ASSUME NEW s \in Seq(Char)
  PROVE  /\ Len(s) \in Nat /\ DOMAIN s = 1..Len(s) /\ Newlines(s) \subseteq 1..Len(s)
         /\ \A k : k \in Newlines(s) <=> k \in 1..Len(s) /\ s[k] = "newline"
BY DEF Newlines, Indices

\* Only the first line of a text can open the fence.
LEMMA OpensFirst ==
  ASSUME NEW text \in Seq(Char), NEW i \in Newlines(text), \A k \in Newlines(text) : i <= k
  PROVE  i = Lowest(Newlines(text))
<1>1. Newlines(text) \subseteq Nat
  BY NewlinesOf
<1>2. PICK x : x = Lowest(Newlines(text))
  OBVIOUS
<1>3. x \in Newlines(text) /\ x <= i
  BY <1>1, <1>2, LowestIs
<1>4. i <= x /\ x \in Nat /\ i \in Nat
  BY <1>1, <1>3
<1> QED
  BY <1>2, <1>3, <1>4

\* A fence opened by the line before i closes at j exactly when j is the last
\* newline of the rest and a closing line follows it there.
LEMMA ClosesAt ==
  ASSUME NEW text \in Seq(Char), NEW i \in 1..Len(text),
         NEW rest, rest = TrimEnd(After(text, i), LineEnds)
  PROVE  /\ \A j \in Newlines(text) : i < j /\ Closes(text, j) =>
              /\ Newlines(rest) # {}
              /\ j = i + Highest(Newlines(rest))
              /\ IsClosing(After(rest, Highest(Newlines(rest))))
         /\ Newlines(rest) # {} /\ IsClosing(After(rest, Highest(Newlines(rest)))) =>
              LET j == i + Highest(Newlines(rest)) IN
              /\ j \in Newlines(text) /\ i < j /\ Closes(text, j)
              /\ Before(rest, Highest(Newlines(rest))) = SubSeq(text, i + 1, j - 1)
<1>1. PICK h : EndsAfter(text, LineEnds, h)
  BY EndExists
<1>2. Len(text) \in Nat /\ h \in 0..Len(text) /\ i \in Nat /\ i \in 0..Len(text)
  BY <1>1 DEF EndsAfter
<1>3. rest = IF h > i THEN SubSeq(text, i + 1, h) ELSE <<>>
  BY <1>1, <1>2, TrimmedRest
\* Nothing closes after the last character that is kept.
<1>4. ASSUME NEW j \in Newlines(text), Closes(text, j)
      PROVE  h > j
  <2>1. j \in 0..Len(text)
    BY NewlinesOf
  <2>2. TrimEnd(After(text, j), LineEnds) # <<>>
    BY <1>4, EmptyCloses DEF Closes
  <2> QED
    BY <1>1, <2>1, <2>2, TrimmedRest
<1>5. CASE ~(h > i)
  <2>1. rest = <<>> /\ Newlines(rest) = {}
    BY <1>3, <1>5 DEF Newlines, Indices
  <2>2. ASSUME NEW j \in Newlines(text), i < j, Closes(text, j) PROVE FALSE
    <3>1. h > j /\ j \in Nat
      BY <2>2, <1>4, NewlinesOf
    <3> QED
      BY <1>2, <1>5, <2>2, <3>1
  <2> QED
    BY <2>1, <2>2
<1>6. CASE h > i
  <2> DEFINE m == h - i
             last == Highest(Newlines(rest))
  <2>1. /\ rest = SubSeq(text, i + 1, h) /\ m \in Nat
        /\ i + 1 \in 1..(Len(text) + 1) /\ i + 1 <= h + 1
        /\ h - (i + 1) + 1 = m /\ h - (i + 1) + 2 = m + 1
    BY <1>2, <1>3, <1>6
  <2>2. rest \in Seq(Char) /\ Len(rest) = m /\ \A k \in 1..m : rest[k] = text[i + k]
    <3>1. /\ rest \in Seq(Char) /\ Len(rest) = IF i + 1 <= h THEN h - (i + 1) + 1 ELSE 0
          /\ \A k \in 1..Len(rest) : rest[k] = text[(i + 1) + k - 1]
      BY <1>2, <2>1, Piece
    <3>2. /\ (IF i + 1 <= h THEN h - (i + 1) + 1 ELSE 0) = m
          /\ \A k \in 1..m : (i + 1) + k - 1 = i + k
      BY <1>2, <1>6
    <3> QED
      BY <3>1, <3>2
  <2> HIDE DEF m
  \* Newlines of the rest and of the text.
  <2>3. \A k \in 1..m : k \in Newlines(rest) <=> i + k \in Newlines(text)
    <3>1. \A k \in 1..m : i + k \in 1..Len(text)
      BY <1>2, <1>6, <2>1 DEF m
    <3> QED
      BY <2>2, <3>1, NewlinesOf
  <2>4. Newlines(rest) \subseteq 1..m
    BY <2>2, NewlinesOf
  <2>5. Newlines(rest) # {} => last \in Newlines(rest) /\ \A k \in Newlines(rest) : k <= last
    BY <2>1, <2>4, HighestIs
  \* What closes at i + k.
  <2>6. ASSUME NEW k \in 1..m, k # m
        PROVE  /\ TrimEnd(After(text, i + k), LineEnds) = After(rest, k)
               /\ Newlines(After(rest, k)) = {} <=> \A n \in Newlines(rest) : n <= k
    <3>1. /\ i + k \in 0..Len(text) /\ h > i + k
          /\ k + 1 \in 1..(m + 1) /\ m \in 0..m
          /\ (i + 1) + (k + 1) - 1 = (i + k) + 1 /\ (i + 1) + m - 1 = h
      BY <1>2, <1>6, <2>1, <2>6 DEF m
    <3>2. TrimEnd(After(text, i + k), LineEnds) = SubSeq(text, (i + k) + 1, h)
      BY <1>1, <3>1, TrimmedRest
    <3>3. SubSeq(SubSeq(text, i + 1, h), k + 1, m)
            = SubSeq(text, (i + 1) + (k + 1) - 1, (i + 1) + m - 1)
      BY <1>2, <2>1, <3>1, PieceOfPiece
    <3>4. After(rest, k) = SubSeq(rest, k + 1, m)
      BY <2>2 DEF After
    <3>5. /\ After(rest, k) \in Seq(Char) /\ Len(After(rest, k)) = m - k
          /\ \A n \in 1..(m - k) : After(rest, k)[n] = rest[k + n]
      <4>1. k + 1 \in 1..(Len(rest) + 1) /\ m \in 0..Len(rest)
        BY <2>2, <3>1
      <4>2. PICK part : part = SubSeq(rest, k + 1, m)
        OBVIOUS
      <4>4. /\ part \in Seq(Char)
            /\ Len(part) = IF k + 1 <= m THEN m - (k + 1) + 1 ELSE 0
            /\ \A n \in 1..Len(part) : part[n] = rest[(k + 1) + n - 1]
        <5> QED
          BY <2>2, <4>1, <4>2, Piece
      <4>3. /\ (IF k + 1 <= m THEN m - (k + 1) + 1 ELSE 0) = m - k
            /\ \A n \in 1..(m - k) : (k + 1) + n - 1 = k + n
        BY <2>1, <2>6 DEF m
      <4>5. After(rest, k) = part
        BY <3>4, <4>2
      <4> QED
        BY <4>3, <4>4, <4>5
    <3>6. Newlines(After(rest, k)) = {} <=> \A n \in Newlines(rest) : n <= k
      <4>1. ASSUME NEW n \in Newlines(After(rest, k))
            PROVE  k + n \in Newlines(rest) /\ ~(k + n <= k)
        <5>1. n \in 1..(m - k) /\ After(rest, k)[n] = "newline"
          BY <3>5, <4>1, NewlinesOf
        <5>2. k + n \in 1..m /\ ~(k + n <= k)
          BY <2>1, <5>1
        <5> QED
          BY <2>2, <3>5, <5>1, <5>2, NewlinesOf
      <4>2. ASSUME NEW n \in Newlines(rest), ~(n <= k)
            PROVE  n - k \in Newlines(After(rest, k))
        <5>1. n \in 1..m /\ rest[n] = "newline"
          BY <2>2, NewlinesOf
        <5>2. n - k \in 1..(m - k) /\ k + (n - k) = n
          BY <2>1, <4>2, <5>1
        <5> QED
          BY <3>5, <5>1, <5>2, NewlinesOf
      <4> QED
        BY <4>1, <4>2
    <3> QED
      BY <2>1, <3>1, <3>2, <3>3, <3>4, <3>6
  \* A newline is not what is kept last.
  <2>7. \A k \in Newlines(rest) : k \in 1..m /\ k # m
    <3>1. text[h] # "newline" /\ i + m = h
      BY <1>1, <1>2, <1>6, <2>1 DEF EndsAfter, LineEnds, m
    <3> QED
      BY <2>2, <2>4, <3>1, NewlinesOf
  <2>8. ASSUME NEW j \in Newlines(text), i < j, Closes(text, j)
        PROVE  /\ Newlines(rest) # {} /\ j = i + last /\ IsClosing(After(rest, last))
    <3> DEFINE k == j - i
    <3>1. h > j /\ j \in Nat
      BY <2>8, <1>4, NewlinesOf
    <3>2. k \in 1..m /\ k # m /\ i + k = j
      BY <1>2, <2>1, <2>8, <3>1 DEF m
    <3>3. k \in Newlines(rest)
      BY <2>3, <3>2
    <3>4. IsClosing(After(rest, k)) /\ \A n \in Newlines(rest) : n <= k
      BY <2>6, <2>8, <3>2 DEF Closes
    <3>5. last = k
      <4>1. PICK x : x = last
        OBVIOUS
      <4>2. x \in 1..m /\ x <= k /\ k <= x
        BY <2>4, <2>5, <3>3, <3>4, <4>1
      <4> HIDE DEF last, k
      <4> QED
        BY <2>1, <3>2, <4>1, <4>2
    <3> HIDE DEF last, k
    <3> QED
      BY <3>2, <3>3, <3>4, <3>5
  <2>9. ASSUME Newlines(rest) # {}, IsClosing(After(rest, last))
        PROVE  /\ i + last \in Newlines(text) /\ i < i + last /\ Closes(text, i + last)
               /\ Before(rest, last) = SubSeq(text, i + 1, (i + last) - 1)
    <3>1. /\ last \in Newlines(rest) /\ last \in 1..m /\ last # m
          /\ \A n \in Newlines(rest) : n <= last
      BY <2>5, <2>7, <2>9
    <3> HIDE DEF last
    <3>2. i + last \in Newlines(text) /\ i < i + last
      <4>1. i < i + last
        BY <1>2, <2>1, <3>1
      <4> QED
        BY <2>3, <3>1, <4>1
    <3>3. Closes(text, i + last)
      BY <2>6, <2>9, <3>1 DEF Closes
    <3>4. Before(rest, last) = SubSeq(text, i + 1, (i + last) - 1)
      <4>1. /\ 1 \in 1..(m + 1) /\ last - 1 \in 0..m
            /\ (i + 1) + 1 - 1 = i + 1 /\ (i + 1) + (last - 1) - 1 = (i + last) - 1
        BY <1>2, <2>1, <3>1
      <4>2. SubSeq(SubSeq(text, i + 1, h), 1, last - 1)
              = SubSeq(text, (i + 1) + 1 - 1, (i + 1) + (last - 1) - 1)
        BY <1>2, <2>1, <4>1, PieceOfPiece
      <4> QED
        BY <2>1, <4>1, <4>2 DEF Before
    <3> QED
      BY <3>2, <3>3, <3>4
  <2> QED
    BY <2>8, <2>9
<1> QED
  BY <1>5, <1>6

\* What is left of a text is what the fence encloses, or the text.
LEMMA StripIsExact ==
  ASSUME NEW text \in Seq(Char)
  PROVE  LET left == StripOuterCodeFence(text) IN
         IF Bodies(text) = {} THEN left = text ELSE left \in Bodies(text)
<1> DEFINE i == Lowest(Newlines(text))
           rest == TrimEnd(After(text, i), LineEnds)
           last == Highest(Newlines(rest))
           left == StripOuterCodeFence(text)
           opens == Newlines(text) # {} /\ IsOpening(Before(text, i))
<1>1. left = IF ~opens THEN text
             ELSE IF IsClosing(rest) THEN <<>>
             ELSE IF Newlines(rest) = {} \/ ~IsClosing(After(rest, last)) THEN text
             ELSE Before(rest, last)
  BY DEF StripOuterCodeFence, LineEnds
<1>2. opens => i \in Newlines(text) /\ i \in 1..Len(text) /\ \A k \in Newlines(text) : i <= k
  <2>1. Newlines(text) \subseteq Nat /\ Newlines(text) \subseteq 1..Len(text)
    BY NewlinesOf
  <2> QED
    BY <2>1, LowestIs
<1>3. FencedBlank(text) <=> opens /\ IsClosing(After(text, i))
  <2>1. ASSUME NEW k \in Newlines(text), \A n \in Newlines(text) : k <= n PROVE k = i
    BY <2>1, OpensFirst
  <2> HIDE DEF i
  <2> QED
    BY <1>2, <2>1 DEF FencedBlank
<1>4. opens => (IsClosing(After(text, i)) <=> IsClosing(rest))
  <2>1. opens => After(text, i) \in Seq(Char)
    <3>1. opens => i + 1 \in 1..(Len(text) + 1) /\ Len(text) \in 0..Len(text)
      BY <1>2
    <3> QED
      BY <3>1, Piece DEF After
  <2> QED
    BY <2>1, TrimOfTrimEnd DEF IsClosing
<1>5. \A body : Fenced(text, body) <=>
        opens /\ \E j \in Newlines(text) : /\ i < j /\ Closes(text, j)
                                          /\ body = SubSeq(text, i + 1, j - 1)
  <2>1. ASSUME NEW k \in Newlines(text), \A n \in Newlines(text) : k <= n PROVE k = i
    BY <2>1, OpensFirst
  <2> HIDE DEF i
  <2> QED
    BY <1>2, <2>1 DEF Fenced, Closes, LineEnds
<1>6. opens =>
        /\ \A j \in Newlines(text) : i < j /\ Closes(text, j) =>
              Newlines(rest) # {} /\ j = i + last /\ IsClosing(After(rest, last))
        /\ Newlines(rest) # {} /\ IsClosing(After(rest, last)) =>
              /\ i + last \in Newlines(text) /\ i < i + last /\ Closes(text, i + last)
              /\ Before(rest, last) = SubSeq(text, i + 1, (i + last) - 1)
  <2> SUFFICES ASSUME opens
               PROVE  /\ \A j \in Newlines(text) : i < j /\ Closes(text, j) =>
                            Newlines(rest) # {} /\ j = i + last /\ IsClosing(After(rest, last))
                      /\ Newlines(rest) # {} /\ IsClosing(After(rest, last)) =>
                            /\ i + last \in Newlines(text) /\ i < i + last
                            /\ Closes(text, i + last)
                            /\ Before(rest, last) = SubSeq(text, i + 1, (i + last) - 1)
    OBVIOUS
  <2>1. i \in 1..Len(text)
    BY <1>2
  <2> HIDE DEF i
  <2> QED
    BY <2>1, ClosesAt
<1> HIDE DEF rest, last, left
<1>7. CASE ~opens \/ (~IsClosing(rest) /\ (Newlines(rest) = {} \/ ~IsClosing(After(rest, last))))
  <2>1. left = text
    BY <1>1, <1>7
  <2>2. ~FencedBlank(text) /\ \A body : ~Fenced(text, body)
    <3> HIDE DEF i
    <3> QED
      BY <1>3, <1>4, <1>5, <1>6, <1>7
  <2>3. Bodies(text) = {}
    BY <2>2 DEF Bodies
  <2> QED
    BY <2>1, <2>3 DEF left
<1>8. CASE opens /\ IsClosing(rest)
  <2>1. left = <<>> /\ FencedBlank(text)
    BY <1>1, <1>3, <1>4, <1>8
  <2> QED
    BY <2>1 DEF Bodies, left
<1>9. CASE opens /\ ~IsClosing(rest) /\ Newlines(rest) # {} /\ IsClosing(After(rest, last))
  <2>1. left = SubSeq(text, i + 1, (i + last) - 1) /\ ~FencedBlank(text)
    BY <1>1, <1>3, <1>4, <1>6, <1>9
  <2>2. Fenced(text, left)
    BY <1>5, <1>6, <1>9, <2>1
  <2>3. PICK a \in 1..Len(text), b \in 1..Len(text) : a = i + 1 /\ b = (i + last) - 1
    <3>1. PICK j : j = i + last
      OBVIOUS
    <3>2. j \in 1..Len(text) /\ i < j /\ i \in 1..Len(text) /\ Len(text) \in Nat
      BY <1>2, <1>6, <1>9, <3>1, NewlinesOf
    <3> HIDE DEF i
    <3>3. i + 1 \in 1..Len(text) /\ j - 1 \in 1..Len(text)
      BY <3>2
    <3> QED
      BY <3>1, <3>3
  <2> HIDE DEF i
  <2>4. left = SubSeq(text, a, b)
    BY <2>1, <2>3
  <2>5. left \in {SubSeq(text, c, d) : c, d \in 1..Len(text)}
    BY <2>3, <2>4
  <2>6. Bodies(text) = {body \in {SubSeq(text, c, d) : c, d \in 1..Len(text)} : Fenced(text, body)}
    BY <2>1 DEF Bodies
  <2>7. left \in Bodies(text)
    BY <2>2, <2>5, <2>6
  <2>8. Bodies(text) # {}
    BY <2>7
  <2> QED
    BY <2>7, <2>8 DEF left
<1> QED
  BY <1>7, <1>8, <1>9 DEF left

----------------------------------------------------------------------------

\* The events begin with what was left of the text.
StripInv ==
  /\ markdown \in Seq(Char)
  /\ phase = "events" => source = StripOuterCodeFence(markdown)

LEMMA AlwaysStrip == HighlightSpec => []StripInv
<1>1. HighlightInit => StripInv
  BY HighlightAssumption DEF HighlightInit, StripInv
<1>2. StripInv /\ [HighlightNext]_highlightVars => StripInv'
  BY DEF StripInv, HighlightNext, highlightVars, Strip, SourceEvent, HighlightStart,
         HighlightEnd, HighlightFails, HighlightDone
<1> QED
  BY <1>1, <1>2, PTL DEF HighlightSpec

\* Whatever the text, only a complete outer fence is removed, with its two lines
\* and nothing else (strip_outer_code_fence).
THEOREM OnlyTheFenceGoes == HighlightSpec => []FenceGone
<1>1. StripInv => FenceGone
  BY StripIsExact DEF StripInv, FenceGone
<1> QED
  BY <1>1, AlwaysStrip, PTL

----------------------------------------------------------------------------
(* The members of a set of positions by their rank. *)

UpTo(ns, x) == {n \in ns : n <= x}
Rank(ns, x) == Cardinality(UpTo(ns, x))

LEMMA RankIs ==
  ASSUME NEW m \in Nat, NEW ns, ns \subseteq 1..m, NEW x \in ns
  PROVE  /\ IsFiniteSet(ns) /\ Cardinality(ns) \in Nat /\ Rank(ns, x) \in Nat
         /\ 1 <= Rank(ns, x) /\ Rank(ns, x) <= Cardinality(ns)
         /\ (\A y \in ns : y <= x) => Rank(ns, x) = Cardinality(ns)
         /\ (\A y \in ns : x <= y) => Rank(ns, x) = 1
<1>1. IsFiniteSet(1..m) /\ ns \in SUBSET (1..m)
  BY FS_Interval
<1>2. IsFiniteSet(ns) /\ Cardinality(ns) \in Nat
  BY <1>1, FS_Subset, FS_CardinalityType
<1>3. UpTo(ns, x) \in SUBSET ns /\ x \in UpTo(ns, x)
  BY DEF UpTo
<1>4. /\ IsFiniteSet(UpTo(ns, x)) /\ Rank(ns, x) \in Nat
      /\ Rank(ns, x) <= Cardinality(ns)
  BY <1>2, <1>3, FS_Subset, FS_CardinalityType DEF Rank
<1>5. Rank(ns, x) # 0
  BY <1>3, <1>4, FS_EmptySet DEF Rank
<1>6. ASSUME \A y \in ns : y <= x PROVE Rank(ns, x) = Cardinality(ns)
  <2>1. UpTo(ns, x) = ns
    BY <1>6 DEF UpTo
  <2> QED
    BY <2>1 DEF Rank
<1>7. ASSUME \A y \in ns : x <= y PROVE Rank(ns, x) = 1
  <2>1. \A n \in ns : n <= x <=> n = x
    <3>1. x \in 1..m /\ \A n \in ns : n \in 1..m /\ x <= n
      BY <1>7
    <3> QED
      BY <3>1
  <2>2. UpTo(ns, x) = {x}
    BY <2>1 DEF UpTo
  <2> QED
    BY <2>2, FS_Singleton DEF Rank
<1> QED
  BY <1>2, <1>4, <1>5, <1>6, <1>7

\* The next member has the next rank.
LEMMA RankOfNext ==
  ASSUME NEW m \in Nat, NEW ns, ns \subseteq 1..m, NEW x \in ns, NEW y \in ns,
         x < y, \A n \in ns : n < y => n <= x
  PROVE  Rank(ns, y) = Rank(ns, x) + 1
<1>1. UpTo(ns, x) \in SUBSET ns /\ IsFiniteSet(ns)
  BY RankIs DEF UpTo
<1>2. IsFiniteSet(UpTo(ns, x))
  BY <1>1, FS_Subset
<1>3. \A n \in ns : n <= y <=> n <= x \/ n = y
  <2>1. x \in 1..m /\ y \in 1..m /\ \A n \in ns : n \in 1..m
    OBVIOUS
  <2> QED
    BY <2>1
<1>4. UpTo(ns, y) = UpTo(ns, x) \cup {y} /\ y \notin UpTo(ns, x)
  <2>1. ~(y <= x)
    OBVIOUS
  <2> QED
    BY <1>3, <2>1 DEF UpTo
<1> QED
  BY <1>2, <1>4, FS_AddElement DEF Rank

LEMMA RankGrows ==
  ASSUME NEW m \in Nat, NEW ns, ns \subseteq 1..m, NEW x \in ns, NEW y \in ns,
         x < y
  PROVE  Rank(ns, x) < Rank(ns, y)
<1>1. UpTo(ns, y) \in SUBSET ns /\ IsFiniteSet(ns)
  BY RankIs DEF UpTo
<1>2. IsFiniteSet(UpTo(ns, y))
  BY <1>1, FS_Subset
<1>3. ~(y <= x) /\ y <= y /\ \A n \in ns : n <= x => n <= y
  <2>1. x \in 1..m /\ y \in 1..m /\ \A n \in ns : n \in 1..m
    OBVIOUS
  <2> QED
    BY <2>1
<1>4. UpTo(ns, x) \in SUBSET UpTo(ns, y) /\ y \in UpTo(ns, y) /\ y \notin UpTo(ns, x)
  BY <1>3 DEF UpTo
<1>5. Rank(ns, x) <= Rank(ns, y) /\ Rank(ns, x) # Rank(ns, y)
  BY <1>2, <1>4, FS_Subset DEF Rank
<1>6. Rank(ns, x) \in Nat /\ Rank(ns, y) \in Nat
  BY RankIs
<1> QED
  BY <1>5, <1>6

\* Every rank has its member.
LEMMA Ranked ==
  ASSUME NEW m \in Nat, NEW ns, ns \subseteq 1..m, ns # {},
         NEW k \in 1..Cardinality(ns)
  PROVE  \E x \in ns : Rank(ns, x) = k
<1>0. PICK c : c = Cardinality(ns)
  OBVIOUS
<1>1. \E x \in ns : \A y \in ns : y <= x
  BY GreatestExists
<1>2. c \in Nat
  BY <1>0, <1>1, RankIs
<1> DEFINE P == {j \in Nat : j < c => \E x \in ns : Rank(ns, x) = c - j}
<1>3. 0 \in P
  <2>1. PICK x \in ns : \A y \in ns : y <= x
    BY <1>1
  <2>2. Rank(ns, x) = Cardinality(ns)
    BY <2>1, RankIs
  <2>3. Rank(ns, x) = c - 0
    BY <1>0, <1>2, <2>2
  <2> QED
    BY <2>3
<1>4. ASSUME NEW j \in Nat, j \in P PROVE j + 1 \in P
  <2>1. SUFFICES ASSUME j + 1 < c PROVE \E x \in ns : Rank(ns, x) = c - (j + 1)
    OBVIOUS
  <2>2. PICK y \in ns : Rank(ns, y) = c - j
    BY <1>2, <1>4, <2>1
  <2> DEFINE before == {n \in ns : n < y}
  <2>3. before # {}
    <3>1. SUFFICES ASSUME \A n \in ns : ~(n < y) PROVE FALSE
      OBVIOUS
    <3>2. \A n \in ns : y <= n
      BY <3>1
    <3>3. Rank(ns, y) = 1
      BY <3>2, RankIs
    <3> QED
      BY <1>2, <2>1, <2>2, <3>3
  <2>4. PICK x \in before : \A n \in before : n <= x
    BY <2>3, GreatestExists
  <2>5. x \in ns /\ x < y /\ \A n \in ns : n < y => n <= x
    BY <2>4
  <2>6. Rank(ns, y) = Rank(ns, x) + 1
    BY <2>5, RankOfNext
  <2>7. Rank(ns, x) \in Nat
    BY <2>5, RankIs
  <2>8. Rank(ns, x) = c - (j + 1)
    BY <1>2, <2>1, <2>2, <2>6, <2>7
  <2> QED
    BY <2>5, <2>8
<1>5. c - k \in P
  <2>1. c - k \in Nat
    BY <1>0, <1>2
  <2> HIDE DEF P
  <2> QED
    BY <1>3, <1>4, <2>1, Induction
<1> QED
  BY <1>0, <1>2, <1>5

----------------------------------------------------------------------------
(* Where the lines of a text end. *)

\* What follows position a of g up to b has m lines, and line k is what comes
\* between e[k - 1] and e[k].
Cuts(g, a, b, m, e) ==
  /\ m \in Nat \ {0} /\ e \in [0..m -> Nat] /\ e[0] = a /\ e[m] = b + 1
  /\ \A k \in 1..m : e[k - 1] < e[k]
  /\ \A k \in 1..(m - 1) : e[k] <= b /\ g[e[k]] = "newline"
  /\ \A k \in 1..m : \A i \in (e[k - 1] + 1)..(e[k] - 1) : g[i] # "newline"

\* There is one way only.
LEMMA CutsUnique ==
  ASSUME NEW g, NEW a \in Nat, NEW b \in Nat, NEW m, NEW e, NEW n, NEW f,
         Cuts(g, a, b, m, e), Cuts(g, a, b, n, f)
  PROVE  m = n /\ \A k \in 0..m : e[k] = f[k]
<1>1. /\ m \in Nat \ {0} /\ e \in [0..m -> Nat] /\ e[0] = a /\ e[m] = b + 1
      /\ n \in Nat \ {0} /\ f \in [0..n -> Nat] /\ f[0] = a /\ f[n] = b + 1
  BY DEF Cuts
<1> DEFINE P == {k \in Nat : k <= m /\ k <= n => e[k] = f[k]}
<1>2. 0 \in P
  BY <1>1
<1>3. ASSUME NEW k \in Nat, k \in P PROVE k + 1 \in P
  <2>1. SUFFICES ASSUME k + 1 <= m, k + 1 <= n PROVE e[k + 1] = f[k + 1]
    OBVIOUS
  <2>2. PICK x, y, z : x = e[k + 1] /\ y = f[k + 1] /\ z = e[k]
    OBVIOUS
  <2>3. f[k] = z /\ k + 1 \in 1..m /\ k + 1 \in 1..n /\ (k + 1) - 1 = k
    BY <1>1, <1>3, <2>1, <2>2
  <2>4. x \in Nat /\ y \in Nat /\ z \in Nat /\ z < x /\ z < y
    BY <1>1, <2>2, <2>3 DEF Cuts
  <2>5. /\ k + 1 = m => x = b + 1
        /\ k + 1 # m => x <= b /\ g[x] = "newline"
        /\ k + 1 = n => y = b + 1
        /\ k + 1 # n => y <= b /\ g[y] = "newline"
    <3>1. k + 1 # m => k + 1 \in 1..(m - 1)
      BY <1>1, <2>3
    <3>2. k + 1 # n => k + 1 \in 1..(n - 1)
      BY <1>1, <2>3
    <3> QED
      BY <1>1, <2>2, <3>1, <3>2 DEF Cuts
  <2>6. /\ \A i \in (z + 1)..(x - 1) : g[i] # "newline"
        /\ \A i \in (z + 1)..(y - 1) : g[i] # "newline"
    BY <2>2, <2>3 DEF Cuts
  <2>7. ~(x < y)
    <3>1. SUFFICES ASSUME x < y PROVE FALSE
      OBVIOUS
    <3>2. g[x] # "newline" /\ ~(x > b)
      BY <2>4, <2>5, <2>6, <3>1
    <3> QED
      BY <2>5, <2>4, <3>2
  <2>8. ~(y < x)
    <3>1. SUFFICES ASSUME y < x PROVE FALSE
      OBVIOUS
    <3>2. g[y] # "newline" /\ ~(y > b)
      BY <2>4, <2>5, <2>6, <3>1
    <3> QED
      BY <2>5, <2>4, <3>2
  <2> QED
    BY <2>2, <2>4, <2>7, <2>8
<1>4. \A k \in Nat : k <= m /\ k <= n => e[k] = f[k]
  <2> HIDE DEF P
  <2>1. Nat \subseteq P
    BY <1>2, <1>3, Induction
  <2> QED
    BY <2>1 DEF P
<1>5. ~(m < n)
  <2>1. SUFFICES ASSUME m < n PROVE FALSE
    OBVIOUS
  <2>2. m \in 1..(n - 1) /\ f[m] = b + 1
    BY <1>1, <1>4, <2>1
  <2>3. f[m] <= b
    BY <2>2 DEF Cuts
  <2> QED
    BY <2>2, <2>3
<1>6. ~(n < m)
  <2>1. SUFFICES ASSUME n < m PROVE FALSE
    OBVIOUS
  <2>2. n \in 1..(m - 1) /\ e[n] = b + 1
    BY <1>1, <1>4, <2>1
  <2>3. e[n] <= b
    BY <2>2 DEF Cuts
  <2> QED
    BY <2>2, <2>3
<1> QED
  BY <1>1, <1>4, <1>5, <1>6

\* Where one piece ends the next goes on with the same line.
LEMMA CutsJoin ==
  ASSUME NEW g, NEW a \in Nat, NEW b \in Nat, NEW c \in Nat,
         NEW m, NEW e, NEW n, NEW f, a <= b, b <= c,
         Cuts(g, a, b, m, e), Cuts(g, b, c, n, f)
  PROVE  Cuts(g, a, c, m + n - 1,
              [k \in 0..(m + n - 1) |-> IF k < m THEN e[k] ELSE f[k - (m - 1)]])
<1>1. /\ m \in Nat \ {0} /\ e \in [0..m -> Nat] /\ e[0] = a /\ e[m] = b + 1
      /\ n \in Nat \ {0} /\ f \in [0..n -> Nat] /\ f[0] = b /\ f[n] = c + 1
  BY DEF Cuts
<1> DEFINE q == m + n - 1
           h == [k \in 0..q |-> IF k < m THEN e[k] ELSE f[k - (m - 1)]]
<1>2. q \in Nat \ {0}
  BY <1>1
<1>3. /\ \A k \in 0..(m - 1) : h[k] = e[k]
      /\ \A k \in m..q : h[k] = f[k - (m - 1)] /\ k - (m - 1) \in 1..n
  BY <1>1
<1>4. h \in [0..q -> Nat]
  BY <1>1
<1>5. h[0] = a /\ h[q] = c + 1
  BY <1>1, <1>3
<1> HIDE DEF h
<1>6. ASSUME NEW k \in 1..q
      PROVE  /\ h[k - 1] < h[k]
             /\ \A i \in (h[k - 1] + 1)..(h[k] - 1) : g[i] # "newline"
             /\ k # q => h[k] <= c /\ g[h[k]] = "newline"
  <2>1. CASE k < m
    <3>1. k \in 1..m /\ k \in 1..(m - 1) /\ k - 1 \in 0..(m - 1) /\ k \in 0..(m - 1)
      BY <1>1, <2>1
    <3>2. h[k - 1] = e[k - 1] /\ h[k] = e[k]
      BY <1>3, <3>1
    <3>3. /\ e[k - 1] < e[k] /\ e[k] <= b /\ g[e[k]] = "newline"
          /\ \A i \in (e[k - 1] + 1)..(e[k] - 1) : g[i] # "newline"
      BY <3>1 DEF Cuts
    <3>4. e[k] \in Nat
      BY <1>1, <3>1
    <3> QED
      BY <3>2, <3>3, <3>4
  <2>2. CASE k = m
    <3>1. /\ k - 1 \in 0..(m - 1) /\ m \in m..q /\ m - (m - 1) = 1 /\ 1 \in 1..n /\ m \in 1..m
          /\ 1 - 1 = 0 /\ k # q => 1 \in 1..(n - 1)
      BY <1>1, <2>2
    <3>2. PICK x, y : x = e[m - 1] /\ y = f[1]
      OBVIOUS
    <3>3. h[k - 1] = x /\ h[k] = y
      BY <1>3, <2>2, <3>1, <3>2
    <3>4. x \in Nat /\ y \in Nat
      BY <1>1, <2>2, <3>1, <3>2
    <3>5. x < b + 1 /\ \A i \in (x + 1)..b : g[i] # "newline"
      <4>1. x < b + 1 /\ \A i \in (x + 1)..((b + 1) - 1) : g[i] # "newline"
        BY <1>1, <3>1, <3>2 DEF Cuts
      <4> QED
        BY <4>1
    <3>6. b < y /\ \A i \in (b + 1)..(y - 1) : g[i] # "newline"
      BY <1>1, <3>1, <3>2 DEF Cuts
    <3>7. k # q => y <= c /\ g[y] = "newline"
      <4>1. SUFFICES ASSUME k # q PROVE y <= c /\ g[y] = "newline"
        OBVIOUS
      <4>2. 1 \in 1..(n - 1)
        BY <3>1, <4>1
      <4>3. f[1] <= c /\ g[f[1]] = "newline"
        BY <4>2 DEF Cuts
      <4> QED
        BY <3>2, <4>3
    <3> QED
      BY <3>3, <3>4, <3>5, <3>6, <3>7
  <2>3. CASE m < k
    <3>1. PICK j \in Nat : j = k - (m - 1)
      BY <1>1, <2>3
    <3>2. /\ k \in m..q /\ k - 1 \in m..q /\ (k - 1) - (m - 1) = j - 1
          /\ j \in 1..n /\ k # q => j \in 1..(n - 1)
      BY <1>1, <2>3, <3>1
    <3>3. h[k - 1] = f[j - 1] /\ h[k] = f[j]
      BY <1>3, <3>1, <3>2
    <3>4. f[j - 1] < f[j] /\ \A i \in (f[j - 1] + 1)..(f[j] - 1) : g[i] # "newline"
      BY <3>2 DEF Cuts
    <3>5. k # q => f[j] <= c /\ g[f[j]] = "newline"
      BY <3>2 DEF Cuts
    <3> QED
      BY <3>3, <3>4, <3>5
  <2> QED
    BY <1>1, <2>1, <2>2, <2>3
<1>7. \A k \in 1..(q - 1) : k \in 1..q /\ k # q
  BY <1>2
<1>8. Cuts(g, a, c, q, h)
  BY <1>2, <1>4, <1>5, <1>6, <1>7 DEF Cuts
<1> QED
  BY <1>8 DEF h

\* The ends of the lines of a text, in their order.
LEMMA SplitIs ==
  ASSUME NEW s \in Seq(Char)
  PROVE  \E e : /\ Cuts(s, 0, Len(s), Len(Split(s)), e)
                /\ DOMAIN Split(s) = 1..Len(Split(s))
                /\ \A k \in 1..Len(Split(s)) :
                     Split(s)[k] = SubSeq(s, e[k - 1] + 1, e[k] - 1)
<1> DEFINE ends == Newlines(s) \cup {Len(s) + 1}
           begin(x) == LET before == {n \in ends : n < x}
                       IN  IF before = {} THEN 1 ELSE Highest(before) + 1
           nth(k) == CHOOSE x \in ends : Cardinality({n \in ends : n <= x}) = k
<1>1. Split(s) = [k \in 1..Cardinality(ends) |-> SubSeq(s, begin(nth(k)), nth(k) - 1)]
  BY DEF Split
<1>0. PICK q \in Nat : q = Len(s)
  OBVIOUS
<1>2. Newlines(s) = {k \in 1..q : s[k] = "newline"}
  BY <1>0 DEF Newlines, Indices
<1>3. /\ ends \subseteq 1..(q + 1) /\ q + 1 \in ends /\ ends # {} /\ q + 1 \in Nat
      /\ \A n \in ends : n <= q + 1
  BY <1>0, <1>2
<1>4. \A n \in 1..q : n \in ends <=> s[n] = "newline"
  BY <1>0, <1>2
<1> HIDE DEF ends
<1>5. PICK m : m = Cardinality(ends)
  OBVIOUS
<1>6. m \in Nat \ {0} /\ IsFiniteSet(ends) /\ Rank(ends, q + 1) = m
  <2>1. Rank(ends, q + 1) = Cardinality(ends) /\ Cardinality(ends) \in Nat /\ 1 <= Rank(ends, q + 1)
        /\ IsFiniteSet(ends)
    BY <1>3, RankIs
  <2> QED
    BY <1>5, <2>1
<1>7. ASSUME NEW k \in 1..m PROVE nth(k) \in ends /\ Rank(ends, nth(k)) = k
  <2>1. \E x \in ends : Rank(ends, x) = k
    BY <1>3, <1>5, Ranked
  <2>2. \E x \in ends : Cardinality({n \in ends : n <= x}) = k
    BY <2>1 DEF Rank, UpTo
  <2> QED
    BY <2>2 DEF Rank, UpTo
<1>8. \A x, y \in ends : Rank(ends, x) = Rank(ends, y) => x = y
  <2>1. SUFFICES ASSUME NEW x \in ends, NEW y \in ends, Rank(ends, x) = Rank(ends, y)
                 PROVE  x = y
    OBVIOUS
  <2>2. ~(x < y)
    <3>1. x < y => Rank(ends, x) < Rank(ends, y)
      BY <1>3, RankGrows
    <3>2. Rank(ends, x) \in Nat
      BY <1>3, RankIs
    <3> QED
      BY <2>1, <3>1, <3>2
  <2>3. ~(y < x)
    <3>1. y < x => Rank(ends, y) < Rank(ends, x)
      BY <1>3, RankGrows
    <3>2. Rank(ends, x) \in Nat
      BY <1>3, RankIs
    <3> QED
      BY <2>1, <3>1, <3>2
  <2>4. x \in 1..(q + 1) /\ y \in 1..(q + 1)
    BY <1>3
  <2> QED
    BY <2>2, <2>3, <2>4
<1> HIDE DEF nth
<1> DEFINE e == [k \in 0..m |-> IF k = 0 THEN 0 ELSE nth(k)]
<1>9. e[0] = 0 /\ \A k \in 1..m : e[k] = nth(k)
  BY <1>6
<1>10. e \in [0..m -> Nat]
  <2>1. \A k \in 1..m : nth(k) \in 1..(q + 1)
    BY <1>3, <1>7
  <2>2. \A k \in 0..m : e[k] \in Nat
    <3>1. \A k \in 0..m : k = 0 \/ k \in 1..m
      BY <1>6
    <3> QED
      BY <1>0, <1>9, <2>1, <3>1
  <2> QED
    BY <2>2
<1> HIDE DEF e
<1>11. e[m] = q + 1
  <2>1. m \in 1..m
    BY <1>6
  <2> QED
    BY <1>3, <1>6, <1>7, <1>8, <1>9, <2>1
\* The end before the k-th is the (k - 1)-th.
<1>12. ASSUME NEW k \in 1..m
       PROVE  /\ e[k - 1] < e[k] /\ begin(nth(k)) = e[k - 1] + 1
              /\ \A n \in ends : n < e[k] => n <= e[k - 1]
  <2> DEFINE y == nth(k)
             before == {n \in ends : n < y}
  <2>1. y \in ends /\ Rank(ends, y) = k /\ e[k] = y /\ y \in 1..(q + 1)
    BY <1>3, <1>7, <1>9
  <2> HIDE DEF y
  <2>2. CASE before = {}
    <3>1. \A n \in ends : ~(n < y)
      BY <2>2
    <3>2. \A n \in ends : n \in 1..(q + 1)
      BY <1>3
    <3>3. \A n \in ends : y <= n
      BY <2>1, <3>1, <3>2
    <3>4. k = 1
      BY <1>3, <2>1, <3>3, RankIs
    <3>5. begin(y) = 1 /\ e[k - 1] = 0
      BY <1>9, <2>2, <3>4
    <3> QED
      BY <2>1, <3>1, <3>5 DEF y
  <2>3. CASE before # {}
    <3>1. before \subseteq 1..(q + 1)
      BY <1>3
    <3>2. Highest(before) \in before /\ \A n \in before : n <= Highest(before)
      BY <1>3, <2>3, <3>1, HighestIs
    <3>3. PICK x : x = Highest(before)
      OBVIOUS
    <3>4. x \in ends /\ x < y /\ \A n \in ends : n < y => n <= x
      BY <3>2, <3>3
    <3>5. Rank(ends, y) = Rank(ends, x) + 1
      BY <1>3, <2>1, <3>4, RankOfNext
    <3>6. Rank(ends, x) \in Nat /\ 1 <= Rank(ends, x)
      BY <1>3, <3>4, RankIs
    <3>7. k - 1 \in 1..m /\ Rank(ends, x) = k - 1
      BY <1>6, <2>1, <3>5, <3>6
    <3>8. e[k - 1] = x
      <4>1. nth(k - 1) \in ends /\ Rank(ends, nth(k - 1)) = k - 1 /\ e[k - 1] = nth(k - 1)
        BY <1>7, <1>9, <3>7
      <4> QED
        BY <1>8, <3>4, <3>7, <4>1
    <3>9. begin(y) = x + 1
      BY <2>3, <3>3
    <3> QED
      BY <2>1, <3>4, <3>8, <3>9 DEF y
  <2> QED
    BY <2>2, <2>3
<1> HIDE DEF begin
<1>13. ASSUME NEW k \in 1..(m - 1) PROVE e[k] <= q /\ s[e[k]] = "newline"
  <2>1. k \in 1..m /\ k + 1 \in 1..m /\ (k + 1) - 1 = k
    BY <1>6
  <2>2. e[k] \in ends /\ e[k + 1] \in ends /\ e[k] < e[k + 1]
    BY <1>7, <1>9, <1>12, <2>1
  <2>3. e[k] \in 1..(q + 1) /\ e[k + 1] \in 1..(q + 1)
    BY <1>3, <2>2
  <2>4. e[k] \in 1..q
    BY <2>2, <2>3
  <2> QED
    BY <1>4, <2>2, <2>4
<1>14. ASSUME NEW k \in 1..m, NEW i \in (e[k - 1] + 1)..(e[k] - 1) PROVE s[i] # "newline"
  <2>1. PICK x, y : x = e[k - 1] /\ y = e[k]
    OBVIOUS
  <2>2. y \in ends /\ x \in Nat /\ \A n \in ends : n < y => n <= x
    <3>1. k - 1 \in 0..m
      BY <1>6
    <3> QED
      BY <1>7, <1>9, <1>10, <1>12, <2>1, <3>1
  <2>3. y \in 1..(q + 1)
    BY <1>3, <2>2
  <2>4. i \in 1..q /\ i < y /\ ~(i <= x)
    BY <2>1, <2>2, <2>3
  <2> QED
    BY <1>4, <2>2, <2>4
<1>15. Cuts(s, 0, q, m, e)
  BY <1>6, <1>9, <1>10, <1>11, <1>12, <1>13, <1>14 DEF Cuts
<1>16. /\ DOMAIN Split(s) = 1..m /\ Len(Split(s)) = m
       /\ \A k \in 1..m : Split(s)[k] = SubSeq(s, e[k - 1] + 1, e[k] - 1)
  <2>1. Split(s) = [k \in 1..m |-> SubSeq(s, begin(nth(k)), nth(k) - 1)]
    BY <1>1, <1>5
  <2>2. \A k \in 1..m : begin(nth(k)) = e[k - 1] + 1 /\ nth(k) = e[k]
    BY <1>9, <1>12
  <2>3. DOMAIN Split(s) = 1..m
    BY <2>1
  <2>4. Len(Split(s)) = m
    BY <1>6, <2>1
  <2> QED
    BY <2>1, <2>2, <2>3, <2>4
<1> QED
  BY <1>0, <1>15, <1>16

\* The lines of a piece, by positions of the text.
LEMMA SplitPiece ==
  ASSUME NEW g \in Seq(Char), NEW a \in Nat, NEW b \in Nat, a <= b, b <= Len(g)
  PROVE  LET parts == Split(SubSeq(g, a + 1, b)) IN
         /\ DOMAIN parts = 1..Len(parts)
         /\ \E e : /\ Cuts(g, a, b, Len(parts), e)
                   /\ \A k \in 1..Len(parts) : parts[k] = SubSeq(g, e[k - 1] + 1, e[k] - 1)
<1> DEFINE s == SubSeq(g, a + 1, b)
<1>0. PICK q \in Nat : q = Len(g)
  OBVIOUS
<1>1. s \in Seq(Char) /\ Len(s) = b - a /\ \A i \in 1..(b - a) : s[i] = g[a + i]
  <2>1. a + 1 \in 1..(Len(g) + 1) /\ b \in 0..Len(g)
    BY <1>0
  <2>2. /\ s \in Seq(Char) /\ Len(s) = IF a + 1 <= b THEN b - (a + 1) + 1 ELSE 0
        /\ \A i \in 1..Len(s) : s[i] = g[a + 1 + i - 1]
    BY <2>1, Piece
  <2>3. Len(s) = b - a
    BY <2>2
  <2>4. \A i \in 1..(b - a) : a + 1 + i - 1 = a + i
    OBVIOUS
  <2> QED
    BY <2>2, <2>3, <2>4
<1>2. PICK parts, m : parts = Split(s) /\ m = Len(parts)
  OBVIOUS
<1>3. PICK e : /\ Cuts(s, 0, b - a, m, e) /\ DOMAIN parts = 1..m
               /\ \A k \in 1..m : parts[k] = SubSeq(s, e[k - 1] + 1, e[k] - 1)
  <2>1. PICK e : /\ Cuts(s, 0, Len(s), Len(Split(s)), e)
                 /\ DOMAIN Split(s) = 1..Len(Split(s))
                 /\ \A k \in 1..Len(Split(s)) :
                      Split(s)[k] = SubSeq(s, e[k - 1] + 1, e[k] - 1)
    BY <1>1, SplitIs
  <2> QED
    BY <1>1, <1>2, <2>1
<1>4. m \in Nat \ {0} /\ e \in [0..m -> Nat] /\ e[0] = 0 /\ e[m] = b - a + 1
  BY <1>3 DEF Cuts
<1> DEFINE f == [k \in 0..m |-> a + e[k]]
<1>5. f \in [0..m -> Nat] /\ f[0] = a /\ f[m] = b + 1 /\ \A k \in 0..m : f[k] = a + e[k]
  BY <1>4
<1> HIDE DEF f
<1>6. ASSUME NEW k \in 1..m
      PROVE  /\ f[k - 1] < f[k]
             /\ \A i \in (f[k - 1] + 1)..(f[k] - 1) : g[i] # "newline"
             /\ k # m => f[k] <= b /\ g[f[k]] = "newline"
             /\ parts[k] = SubSeq(g, f[k - 1] + 1, f[k] - 1)
  <2>1. PICK x \in Nat, y \in Nat : x = e[k - 1] /\ y = e[k]
    <3>1. k - 1 \in 0..m /\ k \in 0..m
      BY <1>4
    <3> QED
      BY <1>4, <3>1
  <2>2. f[k - 1] = a + x /\ f[k] = a + y
    <3>1. k - 1 \in 0..m /\ k \in 0..m
      BY <1>4
    <3> QED
      BY <1>5, <2>1, <3>1
  <2>3. x < y /\ \A i \in (x + 1)..(y - 1) : s[i] # "newline"
    BY <1>3, <2>1 DEF Cuts
  <2>4. /\ k # m => y <= b - a /\ s[y] = "newline"
        /\ k = m => y = b - a + 1
    <3>1. k # m => k \in 1..(m - 1)
      BY <1>4
    <3> QED
      BY <1>3, <1>4, <2>1, <3>1 DEF Cuts
  <2>5. y <= b - a + 1
    BY <2>4
  <2>6. ASSUME NEW i \in (a + x + 1)..(a + y - 1) PROVE g[i] # "newline"
    <3>1. i - a \in (x + 1)..(y - 1) /\ i - a \in 1..(b - a) /\ a + (i - a) = i
      BY <2>5
    <3> QED
      BY <1>1, <2>3, <3>1
  <2>7. k # m => a + y <= b /\ g[a + y] = "newline"
    <3>1. k # m => y \in 1..(b - a)
      BY <2>3, <2>4
    <3> QED
      BY <1>1, <2>4, <3>1
  <2>8. SubSeq(s, x + 1, y - 1) = SubSeq(g, a + x + 1, a + y - 1)
    <3>1. /\ a + 1 \in 1..(Len(g) + 1) /\ b \in 0..Len(g) /\ a + 1 <= b + 1
          /\ x + 1 \in 1..(b - (a + 1) + 2) /\ y - 1 \in 0..(b - (a + 1) + 1)
          /\ (a + 1) + (x + 1) - 1 = a + x + 1 /\ (a + 1) + (y - 1) - 1 = a + y - 1
      BY <1>0, <2>3, <2>5
    <3>2. SubSeq(SubSeq(g, a + 1, b), x + 1, y - 1)
            = SubSeq(g, (a + 1) + (x + 1) - 1, (a + 1) + (y - 1) - 1)
      BY <3>1, PieceOfPiece
    <3> QED
      BY <3>1, <3>2
  <2>9. a + x < a + y
    BY <2>3
  <2>10. parts[k] = SubSeq(s, x + 1, y - 1)
    BY <1>3, <2>1
  <2> HIDE DEF s
  <2> QED
    BY <2>2, <2>6, <2>7, <2>8, <2>9, <2>10
<1>7. \A k \in 1..(m - 1) : k \in 1..m /\ k # m
  BY <1>4
<1>8. Cuts(g, a, b, m, f)
  BY <1>4, <1>5, <1>6, <1>7 DEF Cuts
<1> HIDE DEF s
<1>9. \E h : /\ Cuts(g, a, b, Len(parts), h)
             /\ \A k \in 1..Len(parts) : parts[k] = SubSeq(g, h[k - 1] + 1, h[k] - 1)
  BY <1>2, <1>6, <1>8
<1> QED
  BY <1>2, <1>3, <1>9 DEF s

----------------------------------------------------------------------------
(* The text of a line. *)

LEMMA FlattenJoins ==
  ASSUME NEW S, NEW a \in Seq(Seq(S)), NEW b \in Seq(Seq(S))
  PROVE  /\ FlattenSeq(a \o b) = FlattenSeq(a) \o FlattenSeq(b)
         /\ FlattenSeq(a) \in Seq(S)
<1> DEFINE ab == a \o b
<1>0. PICK m \in Nat, n \in Nat : m = Len(a) /\ n = Len(b)
  OBVIOUS
<1>1. /\ ab \in Seq(Seq(S)) /\ Len(ab) = m + n
      /\ \A i \in 1..m : ab[i] = a[i]
      /\ \A i \in 1..n : ab[m + i] = b[i]
  BY <1>0
<1> HIDE DEF ab
<1>2. PICK f : Builds(a, f) /\ FlattenSeq(a) = f[m]
  BY <1>0, FlattenIs
<1>3. PICK g : Builds(b, g) /\ FlattenSeq(b) = g[n]
  BY <1>0, FlattenIs
<1>4. PICK h : Builds(ab, h) /\ FlattenSeq(ab) = h[m + n]
  BY <1>1, FlattenIs
<1>5. /\ \A k \in 0..m : f[k] \in Seq(S)
      /\ \A k \in 0..n : g[k] \in Seq(S)
  BY <1>0, <1>2, <1>3, BeginningsIn
<1> DEFINE P == {k \in Nat : k <= m => h[k] = f[k]}
<1>6. 0 \in P
  BY <1>2, <1>4 DEF Builds
<1>7. ASSUME NEW k \in Nat, k \in P PROVE k + 1 \in P
  <2>1. SUFFICES ASSUME k + 1 <= m PROVE h[k + 1] = f[k + 1]
    OBVIOUS
  <2>2. k + 1 \in 1..Len(a) /\ k + 1 \in 1..Len(ab) /\ k + 1 \in 1..m /\ (k + 1) - 1 = k
        /\ h[k] = f[k]
    BY <1>0, <1>1, <1>7, <2>1
  <2>3. h[k + 1] = h[k] \o ab[k + 1] /\ f[k + 1] = f[k] \o a[k + 1]
    BY <1>2, <1>4, <2>2 DEF Builds
  <2> QED
    BY <1>1, <2>2, <2>3
<1>8. h[m] = f[m]
  <2> HIDE DEF P
  <2>1. Nat \subseteq P
    BY <1>6, <1>7, Induction
  <2> QED
    BY <2>1 DEF P
<1> HIDE DEF P
<1>q. PICK r : r = [k \in 0..n |-> f[m] \o g[k]]
  OBVIOUS
<1>r. r[0] = f[m]
  <2>1. g[0] = <<>> /\ f[m] \in Seq(S)
    BY <1>3, <1>5 DEF Builds
  <2>2. PICK x : x = f[m]
    OBVIOUS
  <2>3. x \o <<>> = x
    <3>1. x \in Seq(S)
      BY <2>1, <2>2
    <3> QED
      BY <3>1
  <2>4. 0 \in 0..n
    OBVIOUS
  <2>5. r[0] = f[m] \o g[0]
    BY <1>q, <2>4
  <2> QED
    BY <2>1, <2>2, <2>3, <2>5, Zenon
<1>s. ASSUME NEW k \in 1..n PROVE r[k] = r[k - 1] \o b[k]
  <2>1. k \in 1..Len(b) /\ k - 1 \in 0..n /\ k \in 0..n /\ m \in 0..m
    BY <1>0
  <2>2. r[k] = f[m] \o g[k] /\ r[k - 1] = f[m] \o g[k - 1]
    BY <1>q, <2>1
  <2>3. g[k] = g[k - 1] \o b[k]
    BY <1>3, <2>1 DEF Builds
  <2>4. f[m] \in Seq(S) /\ g[k - 1] \in Seq(S) /\ b[k] \in Seq(S)
    BY <1>5, <2>1
  <2>5. PICK x, y, z : x = f[m] /\ y = g[k - 1] /\ z = b[k]
    OBVIOUS
  <2>6. (x \o y) \o z = x \o (y \o z)
    <3>1. x \in Seq(S) /\ y \in Seq(S) /\ z \in Seq(S)
      BY <2>4, <2>5
    <3> QED
      BY <3>1, ConcatAssociative
  <2> QED
    BY <2>2, <2>3, <2>5, <2>6, Zenon
<1> DEFINE Q == {k \in Nat : k <= n => h[m + k] = r[k]}
<1>9. 0 \in Q
  BY <1>8, <1>r
<1>10. ASSUME NEW k \in Nat, k \in Q PROVE k + 1 \in Q
  <2>1. SUFFICES ASSUME k + 1 <= n PROVE h[m + (k + 1)] = r[k + 1]
    OBVIOUS
  <2>2. /\ m + (k + 1) \in 1..Len(ab) /\ k + 1 \in 1..n
        /\ (k + 1) - 1 = k /\ (m + (k + 1)) - 1 = m + k /\ h[m + k] = r[k]
    BY <1>1, <1>10, <2>1
  <2>3. h[m + (k + 1)] = h[m + k] \o ab[m + (k + 1)] /\ r[k + 1] = r[k] \o b[k + 1]
    BY <1>4, <1>s, <2>2 DEF Builds
  <2>4. ab[m + (k + 1)] = b[k + 1]
    BY <1>1, <2>2
  <2> QED
    BY <2>2, <2>3, <2>4
<1>11. h[m + n] = f[m] \o g[n]
  <2> HIDE DEF Q
  <2>1. Nat \subseteq Q
    BY <1>9, <1>10, Induction
  <2>2. h[m + n] = r[n]
    BY <2>1 DEF Q
  <2>3. n \in 0..n
    OBVIOUS
  <2>4. r[n] = f[m] \o g[n]
    BY <1>q, <2>3
  <2> QED
    BY <2>2, <2>4, Zenon
<1>12. f[m] \in Seq(S)
  BY <1>5
<1> QED
  BY <1>2, <1>3, <1>4, <1>11, <1>12 DEF ab

LEMMA FlattenOne ==
  ASSUME NEW S, NEW s \in Seq(S)
  PROVE  FlattenSeq(<<s>>) = s
<1>1. <<s>> \in Seq(Seq(S)) /\ Len(<<s>>) = 1 /\ <<s>>[1] = s
  OBVIOUS
<1>2. PICK f : Builds(<<s>>, f) /\ FlattenSeq(<<s>>) = f[1]
  BY <1>1, FlattenIs
<1>3. f[0] = <<>> /\ 1 \in 1..Len(<<s>>) /\ 1 - 1 = 0
  BY <1>1, <1>2 DEF Builds
<1>4. f[1] = <<>> \o s
  BY <1>1, <1>2, <1>3 DEF Builds
<1> QED
  BY <1>2, <1>4

\* Spans, and how their texts come together.
SpanSet == [text : Seq(Char), style : {"default", "operator", "styled"}]

LEMMA TextJoins ==
  ASSUME NEW a \in Seq(SpanSet), NEW b \in Seq(SpanSet)
  PROVE  /\ Text(a \o b) = Text(a) \o Text(b) /\ Text(a) \in Seq(Char)
         /\ a \o b \in Seq(SpanSet)
<1> DEFINE T(l) == [i \in DOMAIN l |-> l[i].text]
           ab == a \o b
<1>0. PICK m \in Nat, n \in Nat : m = Len(a) /\ n = Len(b)
  OBVIOUS
<1>1. /\ ab \in Seq(SpanSet) /\ Len(ab) = m + n /\ DOMAIN ab = 1..(m + n)
      /\ \A i \in 1..m : ab[i] = a[i]
      /\ \A i \in 1..n : ab[m + i] = b[i]
      /\ DOMAIN a = 1..m /\ DOMAIN b = 1..n
  BY <1>0
<1> HIDE DEF ab
<1>2. ASSUME NEW l \in Seq(SpanSet) PROVE T(l) \in Seq(Seq(Char)) /\ Len(T(l)) = Len(l)
  <2>1. DOMAIN l = 1..Len(l) /\ Len(l) \in Nat /\ \A i \in 1..Len(l) : l[i] \in SpanSet
    OBVIOUS
  <2>2. \A i \in 1..Len(l) : l[i].text \in Seq(Char)
    BY <2>1 DEF SpanSet
  <2>3. T(l) \in [1..Len(l) -> Seq(Char)]
    BY <2>1, <2>2
  <2> QED
    BY <2>1, <2>3
<1>3. T(ab) = T(a) \o T(b)
  <2>1. T(a) \in Seq(Seq(Char)) /\ Len(T(a)) = m /\ T(b) \in Seq(Seq(Char)) /\ Len(T(b)) = n
        /\ T(ab) \in Seq(Seq(Char)) /\ Len(T(ab)) = m + n
    BY <1>0, <1>1, <1>2
  <2>2. /\ \A i \in 1..m : T(a)[i] = a[i].text
        /\ \A i \in 1..n : T(b)[i] = b[i].text
        /\ \A i \in 1..(m + n) : T(ab)[i] = ab[i].text
    BY <1>1
  <2> HIDE DEF T
  <2>3. PICK c : c = T(a) \o T(b)
    OBVIOUS
  <2>4. /\ c \in Seq(Seq(Char)) /\ Len(c) = m + n
        /\ \A i \in 1..m : c[i] = T(a)[i]
        /\ \A i \in 1..n : c[m + i] = T(b)[i]
    <3>1. PICK x, y : x = T(a) /\ y = T(b)
      OBVIOUS
    <3>2. x \in Seq(Seq(Char)) /\ Len(x) = m /\ y \in Seq(Seq(Char)) /\ Len(y) = n /\ c = x \o y
      BY <2>1, <2>3, <3>1
    <3>3. /\ c \in Seq(Seq(Char)) /\ Len(c) = m + n
          /\ \A i \in 1..m : c[i] = x[i]
          /\ \A i \in 1..n : c[m + i] = y[i]
      <4>1. /\ x \o y \in Seq(Seq(Char)) /\ Len(x \o y) = m + n
            /\ \A i \in 1..(m + n) : (x \o y)[i] = IF i <= m THEN x[i] ELSE y[i - m]
        BY <3>2, ConcatProperties
      <4>2. c \in Seq(Seq(Char)) /\ Len(c) = m + n
        BY <3>2, <4>1
      <4>3. \A i \in 1..(m + n) : c[i] = IF i <= m THEN x[i] ELSE y[i - m]
        BY <3>2, <4>1
      <4>4. \A i \in 1..m : c[i] = x[i]
        BY <4>3
      <4>5. \A i \in 1..n : m + i \in 1..(m + n) /\ ~(m + i <= m) /\ (m + i) - m = i
        OBVIOUS
      <4> QED
        BY <4>2, <4>3, <4>4, <4>5
    <3> QED
      BY <3>1, <3>3
  <2>5. \A i \in 1..(m + n) : c[i] = T(ab)[i]
    <3>1. TAKE i \in 1..(m + n)
    <3>2. CASE i \in 1..m
      BY <1>1, <2>2, <2>4, <3>2
    <3>3. CASE i \notin 1..m
      <4>1. i - m \in 1..n /\ m + (i - m) = i
        BY <3>3
      <4>2. T(ab)[i] = ab[i].text /\ ab[m + (i - m)] = b[i - m]
        BY <1>1, <2>2, <4>1
      <4>3. c[m + (i - m)] = T(b)[i - m] /\ T(b)[i - m] = b[i - m].text
        BY <2>2, <2>4, <4>1
      <4> QED
        BY <4>1, <4>2, <4>3
    <3> QED
      BY <3>2, <3>3
  <2>6. c = T(ab)
    BY <2>1, <2>4, <2>5, SeqEqual
  <2> QED
    BY <2>3, <2>6
<1>4. T(a) \in Seq(Seq(Char)) /\ T(b) \in Seq(Seq(Char))
  BY <1>2
<1>5. Text(ab) = FlattenSeq(T(ab)) /\ Text(a) = FlattenSeq(T(a)) /\ Text(b) = FlattenSeq(T(b))
  BY DEF Text
<1> HIDE DEF T
<1>6. FlattenSeq(T(a) \o T(b)) = FlattenSeq(T(a)) \o FlattenSeq(T(b)) /\ FlattenSeq(T(a)) \in Seq(Char)
  BY <1>4, FlattenJoins
<1> QED
  BY <1>1, <1>3, <1>5, <1>6 DEF ab

LEMMA TextOfNone == Text(<<>>) = <<>>
<1>1. [i \in DOMAIN << >> |-> << >>[i].text] = << >>
  OBVIOUS
<1>2. FlattenSeq(<<>>) = <<>>
  BY DEF FlattenSeq
<1>3. Text(<<>>) = FlattenSeq(<<>>)
  BY <1>1, Zenon DEF Text
<1> QED
  BY <1>2, <1>3

LEMMA TextOfOne ==
  ASSUME NEW s \in Seq(Char), NEW style \in {"default", "operator", "styled"}
  PROVE  <<Span(s, style)>> \in Seq(SpanSet) /\ Text(<<Span(s, style)>>) = s
<1>1. [i \in DOMAIN <<Span(s, style)>> |-> <<Span(s, style)>>[i].text] = <<s>>
  BY DEF Span
<1>2. FlattenSeq(<<s>>) = s
  BY FlattenOne
<1>3. Text(<<Span(s, style)>>) = FlattenSeq(<<s>>)
  BY <1>1, Zenon DEF Text
<1>4. PICK x : x = Span(s, style)
  OBVIOUS
<1>5. x \in SpanSet
  BY <1>4 DEF Span, SpanSet
<1>6. <<x>> \in Seq(SpanSet)
  BY <1>5
<1> QED
  BY <1>2, <1>3, <1>4, <1>6, Zenon

\* PlainOperators from position i on, given what it makes of the text further on.
OperatorsStep(text, from, i) ==
  LET next == {j \in i..Len(text) : text[j] = "turnstile"}
      raw(j) == IF j > i THEN <<Span(SubSeq(text, i, j - 1), "default")>> ELSE <<>>
  IN  IF next = {} THEN raw(Len(text) + 1)
      ELSE raw(Lowest(next)) \o <<Span(<<"turnstile">>, "operator")>>
             \o from[Lowest(next) + 1]

\* The next turnstile, and the span before it.
Ahead(text, i) == {j \in i..Len(text) : text[j] = "turnstile"}
Raw(text, i, j) == IF j > i THEN <<Span(SubSeq(text, i, j - 1), "default")>> ELSE <<>>

LEMMA OperatorsStepIs ==
  ASSUME NEW text \in Seq(Char), NEW i \in 1..(Len(text) + 1)
  PROVE  \/ /\ \A f : OperatorsStep(text, f, i) = Raw(text, i, Len(text) + 1)
            /\ \A j \in i..Len(text) : text[j] # "turnstile"
         \/ \E j \in i..Len(text) :
              /\ text[j] = "turnstile"
              /\ \A f : OperatorsStep(text, f, i)
                          = Raw(text, i, j) \o <<Span(<<"turnstile">>, "operator")>> \o f[j + 1]
<1>0. PICK L \in Nat : L = Len(text)
  OBVIOUS
<1>1. CASE Ahead(text, i) = {}
  <2>1. \A f : OperatorsStep(text, f, i) = Raw(text, i, Len(text) + 1)
    BY <1>1 DEF OperatorsStep, Ahead, Raw
  <2> QED
    BY <1>1, <2>1 DEF Ahead
<1>2. CASE Ahead(text, i) # {}
  <2>1. Ahead(text, i) \subseteq Nat
    BY <1>0 DEF Ahead
  <2>2. PICK j : j = Lowest(Ahead(text, i))
    OBVIOUS
  <2>3. j \in Ahead(text, i)
    BY <1>2, <2>1, <2>2, LowestIs
  <2>4. \A f : OperatorsStep(text, f, i)
                 = Raw(text, i, j) \o <<Span(<<"turnstile">>, "operator")>> \o f[j + 1]
    BY <1>2, <2>2, Zenon DEF OperatorsStep, Ahead, Raw
  <2>5. j \in i..Len(text) /\ text[j] = "turnstile"
    BY <2>3 DEF Ahead
  <2> QED
    BY <2>4, <2>5
<1> QED
  BY <1>1, <1>2

LEMMA OperatorsLookAhead ==
  ASSUME NEW text \in Seq(Char), NEW i \in 1..(Len(text) + 1), NEW f, NEW g,
         \A j \in 1..(Len(text) + 1) : j > i => f[j] = g[j]
  PROVE  OperatorsStep(text, f, i) = OperatorsStep(text, g, i)
<1>0. PICK L \in Nat : L = Len(text)
  OBVIOUS
<1>1. CASE \E j \in i..Len(text) :
             \A h : OperatorsStep(text, h, i)
                      = Raw(text, i, j) \o <<Span(<<"turnstile">>, "operator")>> \o h[j + 1]
  <2>1. PICK j \in i..Len(text) :
               \A h : OperatorsStep(text, h, i)
                        = Raw(text, i, j) \o <<Span(<<"turnstile">>, "operator")>> \o h[j + 1]
    BY <1>1
  <2>2. f[j + 1] = g[j + 1]
    <3>1. j + 1 \in 1..(Len(text) + 1) /\ j + 1 > i
      BY <1>0
    <3> QED
      BY <3>1
  <2>3. /\ OperatorsStep(text, f, i)
             = Raw(text, i, j) \o <<Span(<<"turnstile">>, "operator")>> \o f[j + 1]
        /\ OperatorsStep(text, g, i)
             = Raw(text, i, j) \o <<Span(<<"turnstile">>, "operator")>> \o g[j + 1]
    BY <2>1
  <2> QED
    BY <2>2, <2>3, Zenon
<1>2. CASE \A h : OperatorsStep(text, h, i) = Raw(text, i, Len(text) + 1)
  <2>1. /\ OperatorsStep(text, f, i) = Raw(text, i, Len(text) + 1)
        /\ OperatorsStep(text, g, i) = Raw(text, i, Len(text) + 1)
    BY <1>2
  <2> QED
    BY <2>1
<1> QED
  BY <1>1, <1>2, OperatorsStepIs, Zenon

LEMMA OperatorsExist ==
  ASSUME NEW s \in Seq(Char)
  PROVE  \E from : from = [i \in 1..(Len(s) + 1) |-> OperatorsStep(s, from, i)]
<1> DEFINE L == Len(s) + 1
           Solves(f, m) == /\ f = [i \in 1..L |-> f[i]]
                           /\ \A i \in 1..L : i > L - m => f[i] = OperatorsStep(s, f, i)
           P == {m \in Nat : \E f : Solves(f, m)}
<1>0. L \in Nat
  OBVIOUS
<1> HIDE DEF L
<1>1. 0 \in P
  <2>1. Solves([i \in 1..L |-> 0], 0)
    BY <1>0
  <2> QED
    BY <2>1
<1>2. ASSUME NEW m \in Nat, m \in P PROVE m + 1 \in P
  <2>1. PICK f : Solves(f, m)
    BY <1>2
  <2> DEFINE new == OperatorsStep(s, f, L - m)
             g == [i \in 1..L |-> IF i = L - m THEN new ELSE f[i]]
  <2>2. \A i \in 1..L : g[i] = IF i = L - m THEN new ELSE f[i]
    BY <1>0
  <2>3. g = [i \in 1..L |-> g[i]]
    OBVIOUS
  <2>4. ASSUME NEW i \in 1..L, i > L - (m + 1)
        PROVE  g[i] = OperatorsStep(s, g, i)
    <3>1. \A j \in 1..L : j > i => f[j] = g[j]
      <4>1. \A j \in 1..L : j > i => j # L - m
        BY <1>0, <2>4
      <4> HIDE DEF new, g
      <4> QED
        BY <2>2, <4>1
    <3>2. OperatorsStep(s, f, i) = OperatorsStep(s, g, i)
      <4> HIDE DEF g
      <4> QED
        BY <3>1, OperatorsLookAhead DEF L
    <3>3. i = L - m \/ i > L - m
      BY <1>0, <2>4
    <3>4. i # L - m => f[i] = OperatorsStep(s, f, i)
      BY <2>1, <3>3
    <3> HIDE DEF g
    <3> QED
      BY <2>2, <3>2, <3>4
  <2> HIDE DEF g
  <2>5. Solves(g, m + 1)
    BY <2>3, <2>4
  <2> HIDE DEF Solves
  <2>6. m + 1 \in Nat /\ \E f2 : Solves(f2, m + 1)
    BY <2>5
  <2> QED
    BY <2>6
<1>3. L \in P
  <2> HIDE DEF P
  <2> QED
    BY <1>0, <1>1, <1>2, Induction
<1>4. PICK f : Solves(f, L)
  BY <1>3
<1>5. \A i \in 1..L : f[i] = OperatorsStep(s, f, i)
  BY <1>0, <1>4
<1>6. f = [i \in 1..L |-> OperatorsStep(s, f, i)]
  <2>1. [i \in 1..L |-> f[i]] = [i \in 1..L |-> OperatorsStep(s, f, i)]
    BY <1>5
  <2> QED
    BY <1>4, <2>1
<1> QED
  BY <1>6 DEF L

LEMMA OperatorsIs ==
  ASSUME NEW s \in Seq(Char)
  PROVE  \E from : /\ from = [i \in 1..(Len(s) + 1) |-> OperatorsStep(s, from, i)]
                   /\ PlainOperators(s) = from[1]
<1> DEFINE from == CHOOSE f : f = [i \in 1..(Len(s) + 1) |-> OperatorsStep(s, f, i)]
<1>1. from = [i \in 1..(Len(s) + 1) |-> OperatorsStep(s, from, i)]
  BY OperatorsExist
<1>2. PlainOperators(s) = from[1]
  BY Zenon DEF PlainOperators, OperatorsStep
<1> QED
  BY <1>1, <1>2

\* A text between two positions, in two pieces.
LEMMA Pieces ==
  ASSUME NEW s \in Seq(Char), NEW a \in 1..(Len(s) + 1), NEW b \in 0..Len(s),
         NEW c \in 0..Len(s), a <= b + 1, b <= c
  PROVE  SubSeq(s, a, b) \o SubSeq(s, b + 1, c) = SubSeq(s, a, c)
<1>0. PICK L \in Nat : L = Len(s)
  OBVIOUS
<1>1. PICK x, y, z : x = SubSeq(s, a, b) /\ y = SubSeq(s, b + 1, c) /\ z = SubSeq(s, a, c)
  OBVIOUS
<1>2. /\ x \in Seq(Char) /\ Len(x) = b - a + 1 /\ \A i \in 1..(b - a + 1) : x[i] = s[a + i - 1]
      /\ y \in Seq(Char) /\ Len(y) = c - b /\ \A i \in 1..(c - b) : y[i] = s[b + 1 + i - 1]
      /\ z \in Seq(Char) /\ Len(z) = c - a + 1 /\ \A i \in 1..(c - a + 1) : z[i] = s[a + i - 1]
  <2>1. b + 1 \in 1..(Len(s) + 1)
    BY <1>0
  <2>2. /\ Len(x) = (IF a <= b THEN b - a + 1 ELSE 0)
        /\ Len(y) = (IF b + 1 <= c THEN c - (b + 1) + 1 ELSE 0)
        /\ Len(z) = (IF a <= c THEN c - a + 1 ELSE 0)
    BY <1>1, <2>1, Piece
  <2>3. Len(x) = b - a + 1 /\ Len(y) = c - b /\ Len(z) = c - a + 1
    BY <2>2
  <2>4. /\ x \in Seq(Char) /\ \A i \in 1..Len(x) : x[i] = s[a + i - 1]
        /\ y \in Seq(Char) /\ \A i \in 1..Len(y) : y[i] = s[b + 1 + i - 1]
        /\ z \in Seq(Char) /\ \A i \in 1..Len(z) : z[i] = s[a + i - 1]
    BY <1>1, <2>1, Piece
  <2> QED
    BY <2>3, <2>4
<1>3. /\ x \o y \in Seq(Char) /\ Len(x \o y) = Len(x) + Len(y)
      /\ \A i \in 1..(Len(x) + Len(y)) :
           (x \o y)[i] = IF i <= Len(x) THEN x[i] ELSE y[i - Len(x)]
  BY <1>2, ConcatProperties
<1>4. Len(x \o y) = Len(z)
  BY <1>2, <1>3
<1>5. ASSUME NEW i \in 1..(c - a + 1) PROVE (x \o y)[i] = z[i]
  <2>1. (x \o y)[i] = IF i <= b - a + 1 THEN x[i] ELSE y[i - (b - a + 1)]
    <3>1. PICK p, q : p = Len(x) /\ q = Len(y)
      OBVIOUS
    <3>2. p = b - a + 1 /\ i \in 1..(p + q)
      BY <1>0, <1>2, <3>1
    <3>3. (x \o y)[i] = IF i <= p THEN x[i] ELSE y[i - p]
      BY <1>3, <3>1, <3>2
    <3> QED
      BY <3>2, <3>3
  <2>2. CASE i <= b - a + 1
    <3>1. i \in 1..(b - a + 1)
      BY <2>2
    <3> QED
      BY <1>2, <2>1, <2>2, <3>1
  <2>3. CASE ~(i <= b - a + 1)
    <3>1. PICK j : j = i - (b - a + 1)
      OBVIOUS
    <3>2. j \in 1..(c - b) /\ b + 1 + j - 1 = a + i - 1
      BY <2>3, <3>1
    <3>3. y[j] = s[b + 1 + j - 1]
      BY <1>2, <3>2
    <3> QED
      BY <1>2, <2>1, <2>3, <3>1, <3>2, <3>3
  <2> QED
    BY <2>2, <2>3
<1>6. \A i \in 1..Len(z) : (x \o y)[i] = z[i]
  BY <1>2, <1>5
<1>7. x \o y = z
  BY <1>2, <1>3, <1>4, <1>6, SeqEqual
<1> QED
  BY <1>1, <1>7

\* Turnstiles become spans of their own, and the text is the same.
LEMMA OperatorsKeep ==
  ASSUME NEW s \in Seq(Char)
  PROVE  PlainOperators(s) \in Seq(SpanSet) /\ Text(PlainOperators(s)) = s
<1>0. PICK L \in Nat : L = Len(s)
  OBVIOUS
<1>1. PICK from : /\ from = [i \in 1..(L + 1) |-> OperatorsStep(s, from, i)]
                  /\ PlainOperators(s) = from[1]
  BY <1>0, OperatorsIs
<1> DEFINE Good(i) == from[i] \in Seq(SpanSet) /\ Text(from[i]) = SubSeq(s, i, L)
           P == {d \in Nat : \A i \in 1..(L + 1) : L + 1 - i < d => Good(i)}
<1>2. 0 \in P
  OBVIOUS
<1>3. ASSUME NEW i \in 1..(L + 1), NEW j \in i..(L + 1)
      PROVE  Raw(s, i, j) \in Seq(SpanSet) /\ Text(Raw(s, i, j)) = SubSeq(s, i, j - 1)
  <2>1. i \in 1..(Len(s) + 1) /\ j - 1 \in 0..Len(s)
    BY <1>0
  <2>2. SubSeq(s, i, j - 1) \in Seq(Char)
    BY <2>1, Piece
  <2>3. CASE j > i
    <3>1. Raw(s, i, j) = <<Span(SubSeq(s, i, j - 1), "default")>>
      BY <2>3 DEF Raw
    <3> QED
      BY <2>2, <3>1, TextOfOne, Zenon
  <2>4. CASE ~(j > i)
    <3>1. Raw(s, i, j) = <<>> /\ j - 1 < i
      BY <2>4 DEF Raw
    <3>2. SubSeq(s, i, j - 1) = <<>>
      <4>1. Len(SubSeq(s, i, j - 1)) = IF i <= j - 1 THEN (j - 1) - i + 1 ELSE 0
        BY <2>1, Piece
      <4>2. Len(SubSeq(s, i, j - 1)) = 0
        BY <3>1, <4>1
      <4> QED
        BY <2>2, <4>2
    <3>3. <<>> \in Seq(SpanSet)
      OBVIOUS
    <3> QED
      BY <3>1, <3>2, <3>3, TextOfNone, Zenon
  <2> QED
    BY <2>3, <2>4
<1>4. ASSUME NEW d \in Nat, d \in P PROVE d + 1 \in P
  <2>1. SUFFICES ASSUME NEW i \in 1..(L + 1), L + 1 - i < d + 1 PROVE Good(i)
    OBVIOUS
  <2>2. from[i] = OperatorsStep(s, from, i)
    BY <1>1
  <2>3. CASE /\ \A f : OperatorsStep(s, f, i) = Raw(s, i, Len(s) + 1)
             /\ \A j \in i..Len(s) : s[j] # "turnstile"
    <3>1. from[i] = Raw(s, i, L + 1) /\ L + 1 \in i..(L + 1) /\ (L + 1) - 1 = L
      BY <1>0, <2>2, <2>3
    <3> QED
      BY <1>3, <3>1
  <2>4. CASE \E j \in i..Len(s) :
               /\ s[j] = "turnstile"
               /\ \A f : OperatorsStep(s, f, i)
                           = Raw(s, i, j) \o <<Span(<<"turnstile">>, "operator")>> \o f[j + 1]
    <3>1. PICK j \in i..L :
               /\ s[j] = "turnstile"
               /\ from[i] = Raw(s, i, j) \o <<Span(<<"turnstile">>, "operator")>> \o from[j + 1]
      BY <1>0, <2>2, <2>4
    <3>2. Good(j + 1)
      <4>1. j + 1 \in 1..(L + 1) /\ L + 1 - (j + 1) < d
        BY <2>1
      <4> QED
        BY <1>4, <4>1
    <3>3. PICK a, b, c : a = Raw(s, i, j) /\ b = <<Span(<<"turnstile">>, "operator")>> /\ c = from[j + 1]
      OBVIOUS
    <3>4. a \in Seq(SpanSet) /\ Text(a) = SubSeq(s, i, j - 1)
      <4>1. j \in i..(L + 1)
        OBVIOUS
      <4> QED
        BY <1>3, <3>3, <4>1
    <3>5. b \in Seq(SpanSet) /\ Text(b) = <<"turnstile">>
      <4>1. <<"turnstile">> \in Seq(Char)
        BY DEF Char
      <4> QED
        BY <3>3, <4>1, TextOfOne, Zenon
    <3>6. SubSeq(s, j, j) = <<"turnstile">>
      <4>1. j \in 1..(Len(s) + 1) /\ j \in 0..Len(s) /\ j <= j /\ j - j + 1 = 1
        BY <1>0
      <4>2. PICK p : p = SubSeq(s, j, j)
        OBVIOUS
      <4>3. p \in Seq(Char) /\ Len(p) = 1 /\ p[1] = s[j]
        <5>1. /\ p \in Seq(Char) /\ Len(p) = IF j <= j THEN j - j + 1 ELSE 0
              /\ \A k \in 1..Len(p) : p[k] = s[j + k - 1]
          BY <4>1, <4>2, Piece
        <5>2. Len(p) = 1
          BY <4>1, <5>1
        <5>3. 1 \in 1..Len(p) /\ j + 1 - 1 = j
          BY <5>2
        <5> QED
          BY <5>1, <5>2, <5>3
      <4>4. p = <<"turnstile">>
        BY <3>1, <4>3
      <4> QED
        BY <4>2, <4>4
    <3>7. c \in Seq(SpanSet) /\ Text(c) = SubSeq(s, j + 1, L)
      BY <3>2, <3>3
    <3>8. /\ a \o b \in Seq(SpanSet) /\ Text(a \o b) = Text(a) \o Text(b)
          /\ (a \o b) \o c \in Seq(SpanSet) /\ Text((a \o b) \o c) = Text(a \o b) \o Text(c)
      <4>1. a \o b \in Seq(SpanSet) /\ Text(a \o b) = Text(a) \o Text(b)
        BY <3>4, <3>5, TextJoins
      <4>2. PICK ab : ab = a \o b
        OBVIOUS
      <4>3. ab \o c \in Seq(SpanSet) /\ Text(ab \o c) = Text(ab) \o Text(c)
        BY <3>7, <4>1, <4>2, TextJoins
      <4> QED
        BY <4>1, <4>2, <4>3, Zenon
    <3>9. SubSeq(s, i, j - 1) \o SubSeq(s, j, j) = SubSeq(s, i, j)
      <4>1. /\ i \in 1..(Len(s) + 1) /\ j - 1 \in 0..Len(s) /\ j \in 0..Len(s)
            /\ i <= (j - 1) + 1 /\ j - 1 <= j /\ (j - 1) + 1 = j
        BY <1>0
      <4>2. SubSeq(s, i, j - 1) \o SubSeq(s, (j - 1) + 1, j) = SubSeq(s, i, j)
        BY <4>1, Pieces
      <4> QED
        BY <4>1, <4>2
    <3>10. SubSeq(s, i, j) \o SubSeq(s, j + 1, L) = SubSeq(s, i, L)
      <4>1. i \in 1..(Len(s) + 1) /\ j \in 0..Len(s) /\ L \in 0..Len(s) /\ i <= j + 1 /\ j <= L
        BY <1>0
      <4> QED
        BY <4>1, Pieces
    <3>11. from[i] = (a \o b) \o c
      BY <3>1, <3>3, Zenon
    <3>12. Text((a \o b) \o c) = SubSeq(s, i, L)
      BY <3>4, <3>5, <3>6, <3>7, <3>8, <3>9, <3>10, Zenon
    <3> QED
      BY <3>8, <3>11, <3>12, Zenon
  <2>5. i \in 1..(Len(s) + 1)
    BY <1>0
  <2> QED
    BY <2>3, <2>4, <2>5, OperatorsStepIs, Zenon
<1>5. Good(1)
  <2> HIDE DEF P
  <2>1. Nat \subseteq P
    BY <1>2, <1>4, Induction
  <2>2. L + 1 \in P
    BY <2>1
  <2> HIDE DEF Good
  <2> QED
    BY <2>2 DEF P
<1>6. SubSeq(s, 1, L) = s
  BY <1>0
<1> QED
  BY <1>1, <1>5, <1>6

\* A styled part of a line is that part.
LEMMA SpansKeep ==
  ASSUME NEW part \in Seq(Char), NEW style \in {"default", "styled"}
  PROVE  Spans(part, style) \in Seq(SpanSet) /\ Text(Spans(part, style)) = part
<1>1. CASE style = "default"
  <2>1. Spans(part, style) = PlainOperators(part)
    BY <1>1 DEF Spans
  <2> QED
    BY <2>1, OperatorsKeep, Zenon
<1>2. CASE style # "default" /\ part = <<>>
  <2>1. Spans(part, style) = <<>> /\ <<>> \in Seq(SpanSet)
    BY <1>2 DEF Spans
  <2> QED
    BY <1>2, <2>1, TextOfNone, Zenon
<1>3. CASE style # "default" /\ part # <<>>
  <2>1. Spans(part, style) = <<Span(part, style)>> /\ style \in {"default", "operator", "styled"}
    BY <1>3 DEF Spans
  <2> QED
    BY <2>1, TextOfOne, Zenon
<1> QED
  BY <1>1, <1>2, <1>3

----------------------------------------------------------------------------
(* Carriage returns. *)

Trimmed(g, a, b) == TrimEnd(SubSeq(g, a, b), {"return"})

\* Of what is between a and b the part up to h is left.
StopsAt(g, a, b, h) ==
  /\ h \in (a - 1)..b
  /\ h >= a => g[h] # "return"
  /\ \A k \in (h + 1)..b : g[k] = "return"

LEMMA TrimmedIs ==
  ASSUME NEW g \in Seq(Char), NEW a \in 1..(Len(g) + 1), NEW b \in 0..Len(g), a <= b + 1,
         NEW h, StopsAt(g, a, b, h)
  PROVE  Trimmed(g, a, b) = SubSeq(g, a, h)
<1>0. PICK L \in Nat : L = Len(g)
  OBVIOUS
<1>1. PICK s : s = SubSeq(g, a, b)
  OBVIOUS
<1>2. /\ s \in Seq(Char) /\ Len(s) = b - a + 1
      /\ \A i \in 1..(b - a + 1) : s[i] = g[a + i - 1]
  <2>1. /\ s \in Seq(Char) /\ Len(s) = IF a <= b THEN b - a + 1 ELSE 0
        /\ \A i \in 1..Len(s) : s[i] = g[a + i - 1]
    BY <1>1, Piece
  <2>2. Len(s) = b - a + 1
    BY <2>1
  <2> QED
    BY <2>1, <2>2
<1>3. h \in (a - 1)..b /\ (h >= a => g[h] # "return") /\ \A k \in (h + 1)..b : g[k] = "return"
  BY DEF StopsAt
<1>4. PICK j : j = h - a + 1
  OBVIOUS
<1>5. j \in 0..(b - a + 1) /\ a + j - 1 = h
  BY <1>3, <1>4
<1>6. j # 0 => s[j] # "return"
  <2>1. j # 0 => j \in 1..(b - a + 1) /\ h >= a
    BY <1>3, <1>5
  <2> QED
    BY <1>2, <1>3, <1>5, <2>1
<1>7. ASSUME NEW k \in (j + 1)..(b - a + 1) PROVE s[k] = "return"
  <2>1. k \in 1..(b - a + 1) /\ a + k - 1 \in (h + 1)..b
    BY <1>3, <1>5
  <2> QED
    BY <1>2, <1>3, <2>1
<1>8. EndsAfter(s, {"return"}, j)
  BY <1>2, <1>5, <1>6, <1>7 DEF EndsAfter
<1>9. TrimEnd(s, {"return"}) = SubSeq(s, 1, j)
  BY <1>2, <1>8, TrimEndIs
<1>10. SubSeq(SubSeq(g, a, b), 1, j) = SubSeq(g, a + 1 - 1, a + j - 1)
  <2>1. 1 \in 1..(b - a + 2) /\ j \in 0..(b - a + 1)
    BY <1>5
  <2> QED
    BY <2>1, PieceOfPiece
<1>11. a + 1 - 1 = a
  OBVIOUS
<1> QED
  BY <1>1, <1>5, <1>9, <1>10, <1>11 DEF Trimmed

LEMMA StopExists ==
  ASSUME NEW g \in Seq(Char), NEW a \in 1..(Len(g) + 1), NEW b \in 0..Len(g), a <= b + 1
  PROVE  \E h \in (a - 1)..b : StopsAt(g, a, b, h)
<1>0. PICK L \in Nat : L = Len(g)
  OBVIOUS
<1> DEFINE kept == {k \in a..b : g[k] # "return"}
<1>1. CASE kept = {}
  <2>1. a - 1 \in (a - 1)..b /\ ~(a - 1 >= a) /\ (a - 1) + 1 = a
    BY <1>0
  <2>2. StopsAt(g, a, b, a - 1)
    BY <1>1, <2>1 DEF StopsAt
  <2> QED
    BY <2>1, <2>2
<1>2. CASE kept # {}
  <2>0. \A k : k \in kept <=> k \in a..b /\ g[k] # "return"
    OBVIOUS
  <2>1. kept \subseteq 1..b /\ b \in Nat
    BY <1>0
  <2> HIDE DEF kept
  <2>2. PICK h \in kept : \A k \in kept : k <= h
    BY <1>2, <2>1, GreatestExists
  <2>3. h \in (a - 1)..b /\ h \in a..b
    BY <1>0, <2>0
  <2>4. \A k \in (h + 1)..b : k \in a..b /\ ~(k <= h)
    BY <1>0, <2>3
  <2>5. StopsAt(g, a, b, h)
    BY <2>0, <2>2, <2>3, <2>4 DEF StopsAt
  <2> QED
    BY <2>3, <2>5
<1> QED
  BY <1>1, <1>2

\* ReturnsEndLines, of a text.
EndLines(g) ==
  \A i \in DOMAIN g : g[i] = "return" => i = Len(g) \/ g[i + 1] \in {"return", "newline"}

\* A line that is cut anywhere is trimmed as it is in one piece.
LEMMA TrimmedJoins ==
  ASSUME NEW g \in Seq(Char), EndLines(g), NEW a \in 1..(Len(g) + 1), NEW m \in 0..Len(g),
         NEW b \in 0..Len(g), a <= m + 1, m <= b, \A i \in a..b : g[i] # "newline"
  PROVE  Trimmed(g, a, m) \o Trimmed(g, m + 1, b) = Trimmed(g, a, b)
<1>0. PICK L \in Nat : L = Len(g)
  OBVIOUS
<1>1. /\ m + 1 \in 1..(Len(g) + 1) /\ m + 1 <= b + 1 /\ a <= b + 1 /\ (m + 1) - 1 = m
  BY <1>0
<1>2. PICK h \in (a - 1)..m : StopsAt(g, a, m, h)
  BY <1>1, StopExists
<1>3. PICK i \in m..b : StopsAt(g, m + 1, b, i)
  BY <1>1, StopExists
<1>4. Trimmed(g, a, m) = SubSeq(g, a, h) /\ Trimmed(g, m + 1, b) = SubSeq(g, m + 1, i)
  BY <1>1, <1>2, <1>3, TrimmedIs
<1>5. /\ h >= a => g[h] # "return"
      /\ \A k \in (h + 1)..m : g[k] = "return"
      /\ i >= m + 1 => g[i] # "return"
      /\ \A k \in (i + 1)..b : g[k] = "return"
  BY <1>2, <1>3 DEF StopsAt
<1>6. CASE i >= m + 1
  <2>1. h = m
    <3>1. SUFFICES ASSUME h # m PROVE FALSE
      OBVIOUS
    <3> DEFINE returns == {k \in m..(i - 1) : g[k] = "return"}
    <3>2. m >= a /\ m \in returns
      BY <1>0, <1>5, <1>6, <3>1
    <3>0. \A k : k \in returns <=> k \in m..(i - 1) /\ g[k] = "return"
      OBVIOUS
    <3>3. returns \subseteq 1..b /\ b \in Nat
      BY <1>0, <3>2
    <3> HIDE DEF returns
    <3>4. PICK j \in returns : \A k \in returns : k <= j
      BY <3>2, <3>3, GreatestExists
    <3>5. j \in m..(i - 1) /\ j \in DOMAIN g /\ j # Len(g) /\ j + 1 \in a..b /\ j + 1 \in m..i
      BY <1>0, <3>0, <3>2
    <3>6. g[j + 1] = "return"
      BY <3>0, <3>4, <3>5 DEF EndLines
    <3>7. CASE j + 1 = i
      BY <1>5, <1>6, <3>6, <3>7
    <3>8. CASE j + 1 # i
      <4>1. j + 1 \in m..(i - 1)
        BY <3>5, <3>8
      <4>2. j + 1 <= j
        BY <3>0, <3>4, <3>6, <4>1
      <4> QED
        BY <3>5, <4>2
    <3> QED
      BY <3>7, <3>8
  <2>2. StopsAt(g, a, b, i)
    <3>1. i \in (a - 1)..b
      BY <1>0, <1>6
    <3> QED
      BY <1>5, <1>6, <3>1 DEF StopsAt
  <2>3. Trimmed(g, a, b) = SubSeq(g, a, i)
    BY <1>1, <2>2, TrimmedIs
  <2>4. SubSeq(g, a, m) \o SubSeq(g, m + 1, i) = SubSeq(g, a, i)
    <3>1. i \in 0..Len(g) /\ m <= i
      BY <1>0
    <3> QED
      BY <3>1, Pieces
  <2> QED
    BY <1>4, <2>1, <2>3, <2>4
<1>7. CASE ~(i >= m + 1)
  <2>1. i = m
    BY <1>7
  <2>2. SubSeq(g, m + 1, i) = <<>>
    <3>1. m \in 0..Len(g) /\ m + 1 \in 1..(Len(g) + 1)
      BY <1>1
    <3>2. /\ SubSeq(g, m + 1, m) \in Seq(Char)
          /\ Len(SubSeq(g, m + 1, m)) = IF m + 1 <= m THEN m - (m + 1) + 1 ELSE 0
      BY <3>1, Piece
    <3>3. Len(SubSeq(g, m + 1, m)) = 0
      BY <3>2
    <3> QED
      BY <2>1, <3>2, <3>3
  <2>3. StopsAt(g, a, b, h)
    <3>1. h \in (a - 1)..b /\ \A k \in (h + 1)..b : k \in (h + 1)..m \/ k \in (i + 1)..b
      BY <1>0, <2>1
    <3> QED
      BY <1>5, <3>1 DEF StopsAt
  <2>4. Trimmed(g, a, b) = SubSeq(g, a, h)
    BY <1>1, <2>3, TrimmedIs
  <2>5. PICK x : x = SubSeq(g, a, h)
    OBVIOUS
  <2>6. x \in Seq(Char)
    <3>1. h \in 0..Len(g)
      BY <1>0
    <3> QED
      BY <2>5, <3>1, Piece
  <2>7. x \o <<>> = x
    BY <2>6
  <2> QED
    BY <1>4, <2>2, <2>4, <2>5, <2>7, Zenon
<1> QED
  BY <1>6, <1>7

----------------------------------------------------------------------------
(* The lines of the highlighter are the lines of the text. *)

\* A trimmed piece of a text is a text.
LEMMA TrimmedType ==
  ASSUME NEW g \in Seq(Char), NEW a \in 1..(Len(g) + 1), NEW b \in 0..Len(g), a <= b + 1
  PROVE  Trimmed(g, a, b) \in Seq(Char)
<1>1. PICK h \in (a - 1)..b : StopsAt(g, a, b, h)
  BY StopExists
<1>2. Trimmed(g, a, b) = SubSeq(g, a, h)
  BY <1>1, TrimmedIs
<1>3. h \in 0..Len(g)
  OBVIOUS
<1> QED
  BY <1>2, <1>3, Piece

\* The pieces between cuts lie within the text.
LEMMA CutsWithin ==
  ASSUME NEW g \in Seq(Char), NEW a \in Nat, NEW b \in Nat, b <= Len(g), NEW m, NEW e,
         Cuts(g, a, b, m, e), NEW k \in 1..m
  PROVE  /\ e[k - 1] \in Nat /\ e[k] \in Nat
         /\ e[k - 1] + 1 \in 1..(Len(g) + 1) /\ e[k] - 1 \in 0..Len(g)
         /\ e[k - 1] + 1 <= (e[k] - 1) + 1 /\ e[k] <= b + 1
         /\ \A i \in (e[k - 1] + 1)..(e[k] - 1) : g[i] # "newline"
<1>1. /\ m \in Nat \ {0} /\ e \in [0..m -> Nat] /\ e[m] = b + 1
      /\ e[k - 1] < e[k]
      /\ k \in 1..(m - 1) => e[k] <= b
      /\ \A i \in (e[k - 1] + 1)..(e[k] - 1) : g[i] # "newline"
  BY DEF Cuts
<1>2. PICK x, y, L : x = e[k - 1] /\ y = e[k] /\ L = Len(g)
  OBVIOUS
<1>3. x \in Nat /\ y \in Nat /\ L \in Nat /\ x < y
  BY <1>1, <1>2
<1>4. y <= b + 1
  <2>1. k = m \/ k \in 1..(m - 1)
    BY <1>1
  <2> QED
    BY <1>1, <1>2, <1>3, <2>1
<1>5. b <= L
  BY <1>2
<1>6. x + 1 \in 1..(L + 1) /\ y - 1 \in 0..L /\ x + 1 <= (y - 1) + 1
  BY <1>3, <1>4, <1>5
<1> QED
  BY <1>1, <1>2, <1>3, <1>4, <1>6

\* The finished lines and the one under construction show g up to position t.
Kept(g, t, ls, ss) ==
  \E e : /\ Cuts(g, 0, t, Len(ls) + 1, e)
         /\ \A k \in 1..Len(ls) : Text(ls[k]) = Trimmed(g, e[k - 1] + 1, e[k] - 1)
         /\ Text(ss) = Trimmed(g, e[Len(ls)] + 1, t)

\* The text without colours, by positions.
LEMMA PlainTextIs ==
  ASSUME NEW g \in Seq(Char)
  PROVE  \E n, e : /\ Cuts(g, 0, Len(g), n, e) /\ DOMAIN PlainText(g) = 1..n
                   /\ \A k \in 1..n : Text(PlainText(g)[k]) = Trimmed(g, e[k - 1] + 1, e[k] - 1)
<1>1. PICK e : /\ Cuts(g, 0, Len(g), Len(Split(g)), e)
               /\ DOMAIN Split(g) = 1..Len(Split(g))
               /\ \A k \in 1..Len(Split(g)) : Split(g)[k] = SubSeq(g, e[k - 1] + 1, e[k] - 1)
  BY SplitIs
<1>2. PICK n : n = Len(Split(g))
  OBVIOUS
<1>3. DOMAIN PlainText(g) = 1..n
  BY <1>1, <1>2 DEF PlainText
<1>4. ASSUME NEW k \in 1..n PROVE Text(PlainText(g)[k]) = Trimmed(g, e[k - 1] + 1, e[k] - 1)
  <2>1. PICK s : s = Trimmed(g, e[k - 1] + 1, e[k] - 1)
    OBVIOUS
  <2>2. s \in Seq(Char)
    <3>1. Len(g) \in Nat /\ Len(g) <= Len(g) /\ 0 \in Nat
      OBVIOUS
    <3>2. /\ e[k - 1] + 1 \in 1..(Len(g) + 1) /\ e[k] - 1 \in 0..Len(g)
          /\ e[k - 1] + 1 <= (e[k] - 1) + 1
      BY <1>1, <1>2, <3>1, CutsWithin
    <3> QED
      BY <2>1, <3>2, TrimmedType
  <2>3. PlainText(g)[k] = <<Span(s, "default")>>
    BY <1>1, <1>2, <2>1 DEF PlainText, Trimmed
  <2> QED
    BY <2>1, <2>2, <2>3, TextOfOne
<1> QED
  BY <1>1, <1>2, <1>3, <1>4

\* When all of the text is taken, it is shown.
LEMMA KeptAtTheEnd ==
  ASSUME NEW g \in Seq(Char), NEW ls \in Seq(Seq(SpanSet)), NEW ss \in Seq(SpanSet),
         Kept(g, Len(g), ls, ss)
  PROVE  LET all == Append(ls, ss) IN
         [k \in DOMAIN all |-> Text(all[k])]
           = [k \in DOMAIN PlainText(g) |-> Text(PlainText(g)[k])]
<1> DEFINE all == Append(ls, ss)
<1>1. PICK m \in Nat : m = Len(ls)
  OBVIOUS
<1>2. PICK e : /\ Cuts(g, 0, Len(g), m + 1, e)
               /\ \A k \in 1..m : Text(ls[k]) = Trimmed(g, e[k - 1] + 1, e[k] - 1)
               /\ Text(ss) = Trimmed(g, e[m] + 1, Len(g))
  BY <1>1 DEF Kept
<1>3. PICK n, f : /\ Cuts(g, 0, Len(g), n, f) /\ DOMAIN PlainText(g) = 1..n
                  /\ \A k \in 1..n : Text(PlainText(g)[k]) = Trimmed(g, f[k - 1] + 1, f[k] - 1)
  BY PlainTextIs
<1>4. m + 1 = n /\ \A k \in 0..(m + 1) : e[k] = f[k]
  <2>1. PICK a, b, p : a = 0 /\ b = Len(g) /\ p = m + 1
    OBVIOUS
  <2>2. a \in Nat /\ b \in Nat /\ Cuts(g, a, b, p, e) /\ Cuts(g, a, b, n, f)
    BY <1>2, <1>3, <2>1
  <2>3. p = n /\ \A k \in 0..p : e[k] = f[k]
    BY <2>2, CutsUnique
  <2> QED
    BY <2>1, <2>3
<1>5. /\ DOMAIN all = 1..(m + 1) /\ all[m + 1] = ss
      /\ \A k \in 1..m : all[k] = ls[k]
  BY <1>1
<1>6. e[m + 1] = Len(g) + 1 /\ (Len(g) + 1) - 1 = Len(g)
  BY <1>2 DEF Cuts
<1> HIDE DEF all
<1>7. ASSUME NEW k \in 1..(m + 1) PROVE Text(all[k]) = Text(PlainText(g)[k])
  <2>1. Text(PlainText(g)[k]) = Trimmed(g, e[k - 1] + 1, e[k] - 1)
    <3>1. k - 1 \in 0..(m + 1) /\ k \in 0..(m + 1)
      OBVIOUS
    <3> QED
      BY <1>3, <1>4, <3>1
  <2>2. CASE k = m + 1
    <3>1. k - 1 = m
      BY <2>2
    <3> QED
      BY <1>2, <1>5, <1>6, <2>1, <2>2, <3>1
  <2>3. CASE k # m + 1
    <3>1. k \in 1..m
      BY <2>3
    <3> QED
      BY <1>2, <1>5, <2>1, <3>1
  <2> QED
    BY <2>2, <2>3
<1>8. DOMAIN all = DOMAIN PlainText(g) /\ DOMAIN all = 1..(m + 1)
  BY <1>3, <1>4, <1>5
<1>9. [k \in DOMAIN all |-> Text(all[k])] = [k \in DOMAIN PlainText(g) |-> Text(PlainText(g)[k])]
  BY <1>7, <1>8
<1> QED
  BY <1>9 DEF all

\* Before the first event there is one line, and nothing on it.
LEMMA KeptAtTheStart ==
  ASSUME NEW g \in Seq(Char)
  PROVE  Kept(g, 0, <<>>, <<>>)
<1> DEFINE e == [k \in 0..1 |-> k]
<1>1. Len(<<>>) = 0 /\ 1..Len(<<>>) = {} /\ Len(<<>>) + 1 = 1 /\ Len(g) \in Nat
  OBVIOUS
<1>2. Cuts(g, 0, 0, 1, e)
  BY DEF Cuts
<1>3. e[0] + 1 = 1
  OBVIOUS
<1>4. StopsAt(g, 1, 0, 0)
  BY DEF StopsAt
<1>5. Trimmed(g, 1, 0) = <<>>
  <2>1. 1 \in 1..(Len(g) + 1) /\ 0 \in 0..Len(g) /\ 1 <= 0 + 1
    BY <1>1
  <2>2. Trimmed(g, 1, 0) = SubSeq(g, 1, 0)
    BY <1>4, <2>1, TrimmedIs
  <2> QED
    BY <2>2, SubSeqEmpty
<1> HIDE DEF e
<1>6. Text(<<>>) = Trimmed(g, e[0] + 1, 0)
  BY <1>3, <1>5, TextOfNone
<1>7. \A k \in 1..Len(<<>>) : Text(<<>>[k]) = Trimmed(g, e[k - 1] + 1, e[k] - 1)
  BY <1>1
<1> QED
  BY <1>1, <1>2, <1>6, <1>7 DEF Kept

\* Part k is what is between two cuts, trimmed.
ShowPieces(g, p, f, styled) ==
  \A k \in 1..p : /\ styled[k] \in Seq(SpanSet)
                  /\ Text(styled[k]) = Trimmed(g, f[k - 1] + 1, f[k] - 1)

\* A piece of the text, divided, trimmed and styled.
Styled(parts, style) ==
  [k \in 1..Len(parts) |-> Spans(TrimEnd(parts[k], {"return"}), style)]

LEMMA StyledIs ==
  ASSUME NEW g \in Seq(Char), NEW t \in Nat, NEW u \in Nat, t <= u, u <= Len(g),
         NEW style \in {"default", "styled"}
  PROVE  LET parts == Split(SubSeq(g, t + 1, u)) IN
         \E f : /\ Cuts(g, t, u, Len(parts), f)
                /\ ShowPieces(g, Len(parts), f, Styled(parts, style))
<1>1. PICK parts : parts = Split(SubSeq(g, t + 1, u))
  OBVIOUS
<1>2. PICK f : /\ Cuts(g, t, u, Len(parts), f)
               /\ \A k \in 1..Len(parts) : parts[k] = SubSeq(g, f[k - 1] + 1, f[k] - 1)
  <2>1. \E f : /\ Cuts(g, t, u, Len(Split(SubSeq(g, t + 1, u))), f)
               /\ \A k \in 1..Len(Split(SubSeq(g, t + 1, u))) :
                    Split(SubSeq(g, t + 1, u))[k] = SubSeq(g, f[k - 1] + 1, f[k] - 1)
    BY SplitPiece
  <2> QED
    BY <1>1, <2>1, Zenon
<1>3. ASSUME NEW k \in 1..Len(parts)
      PROVE  /\ Styled(parts, style)[k] \in Seq(SpanSet)
             /\ Text(Styled(parts, style)[k]) = Trimmed(g, f[k - 1] + 1, f[k] - 1)
  <2>1. PICK s : s = Trimmed(g, f[k - 1] + 1, f[k] - 1)
    OBVIOUS
  <2>2. s \in Seq(Char)
    <3>1. /\ f[k - 1] + 1 \in 1..(Len(g) + 1) /\ f[k] - 1 \in 0..Len(g)
          /\ f[k - 1] + 1 <= (f[k] - 1) + 1
      BY <1>2, CutsWithin
    <3> QED
      BY <2>1, <3>1, TrimmedType
  <2>3. Styled(parts, style)[k] = Spans(s, style)
    BY <1>2, <2>1 DEF Styled, Trimmed
  <2> QED
    BY <2>1, <2>2, <2>3, SpansKeep
<1> QED
  BY <1>1, <1>2, <1>3 DEF ShowPieces

\* What an event of p parts makes of the lines.
Continues(ls, ss, p, styled, newls, newss) ==
  /\ newss = IF p = 1 THEN ss \o styled[1] ELSE styled[p]
  /\ Len(newls) = Len(ls) + p - 1
  /\ \A k \in 1..Len(ls) : newls[k] = ls[k]
  /\ p > 1 => newls[Len(ls) + 1] = ss \o styled[1]
  /\ \A k \in 2..(p - 1) : newls[Len(ls) + k] = styled[k]

\* An event continues the line under construction, and every newline in it ends
\* a line.
LEMMA EventKeeps ==
  ASSUME NEW g \in Seq(Char), EndLines(g), NEW t \in Nat, NEW u \in Nat, t <= u, u <= Len(g),
         NEW ls \in Seq(Seq(SpanSet)), NEW ss \in Seq(SpanSet), Kept(g, t, ls, ss),
         NEW p, NEW f, Cuts(g, t, u, p, f), NEW styled, ShowPieces(g, p, f, styled),
         NEW newls, NEW newss, Continues(ls, ss, p, styled, newls, newss)
  PROVE  Kept(g, u, newls, newss)
<1>0. p \in Nat /\ p >= 1
  BY DEF Cuts
<1>1. PICK m : m = Len(ls) + 1 /\ Len(ls) = m - 1 /\ m \in Nat /\ m >= 1
  <2>1. PICK l \in Nat : l = Len(ls)
    OBVIOUS
  <2>2. l + 1 \in Nat /\ l + 1 >= 1 /\ l = (l + 1) - 1
    OBVIOUS
  <2> QED
    BY <2>1, <2>2
<1>2. PICK e : /\ Cuts(g, 0, t, m, e)
               /\ \A k \in 1..(m - 1) : Text(ls[k]) = Trimmed(g, e[k - 1] + 1, e[k] - 1)
               /\ Text(ss) = Trimmed(g, e[m - 1] + 1, t)
  BY <1>1 DEF Kept
<1>3. PICK h : h = [k \in 0..(m + p - 1) |-> IF k < m THEN e[k] ELSE f[k - (m - 1)]]
  OBVIOUS
<1>4. Cuts(g, 0, u, m + p - 1, h)
  <2>1. PICK a \in Nat : a = 0
    OBVIOUS
  <2>2. a <= t /\ Cuts(g, a, t, m, e)
    BY <1>2, <2>1
  <2>3. Cuts(g, a, u, m + p - 1, [k \in 0..(m + p - 1) |-> IF k < m THEN e[k] ELSE f[k - (m - 1)]])
    BY <2>2, CutsJoin
  <2> QED
    BY <1>3, <2>1, <2>3
<1>5. /\ \A k \in 0..(m - 1) : h[k] = e[k]
      /\ \A k \in m..(m + p - 1) : h[k] = f[k - (m - 1)]
      /\ e[m] = t + 1 /\ f[0] = t /\ f[p] = u + 1 /\ f[1] \in Nat
  <2>1. \A k \in 0..(m - 1) : k \in 0..(m + p - 1) /\ k < m
    BY <1>0, <1>1
  <2>2. \A k \in m..(m + p - 1) : k \in 0..(m + p - 1) /\ ~(k < m)
    BY <1>0, <1>1
  <2>3. e[m] = t + 1 /\ f[0] = t /\ f[p] = u + 1 /\ f[1] \in Nat
    BY <1>0, <1>2 DEF Cuts
  <2> QED
    BY <1>3, <2>1, <2>2, <2>3
<1>6. PICK joined : joined = ss \o styled[1]
  OBVIOUS
<1>7. Text(joined) = Trimmed(g, h[m - 1] + 1, h[m] - 1)
  <2>0. m - 1 \in 0..(m - 1) /\ m \in m..(m + p - 1) /\ m - (m - 1) = 1
    BY <1>0, <1>1
  <2>1. h[m - 1] = e[m - 1] /\ h[m] = f[1]
    BY <1>5, <2>0
  <2>2. Text(joined) = Text(ss) \o Text(styled[1])
    <3>1. styled[1] \in Seq(SpanSet)
      BY <1>0 DEF ShowPieces
    <3> QED
      BY <1>6, <3>1, TextJoins
  <2>3. Text(styled[1]) = Trimmed(g, t + 1, f[1] - 1)
    <3>1. 1 \in 1..p /\ 1 - 1 = 0
      BY <1>0
    <3> QED
      BY <1>5, <3>1 DEF ShowPieces
  <2>4. PICK a, b : a = e[m - 1] + 1 /\ b = f[1] - 1
    OBVIOUS
  <2>5. a \in 1..(Len(g) + 1) /\ a <= t + 1
    <3>1. m \in 1..m /\ t <= Len(g)
      BY <1>1
    <3>2. e[m - 1] + 1 \in 1..(Len(g) + 1) /\ e[m - 1] + 1 <= (e[m] - 1) + 1
      BY <1>2, <3>1, CutsWithin
    <3> QED
      BY <1>5, <2>4, <3>2
  <2>6. b \in 0..Len(g) /\ t <= b
    <3>1. 1 \in 1..p /\ 1 - 1 = 0
      BY <1>0
    <3>2. f[0] + 1 <= (f[1] - 1) + 1 /\ f[1] - 1 \in 0..Len(g)
      BY <3>1, CutsWithin
    <3> QED
      BY <1>5, <2>4, <3>2
  <2>7. \A i \in a..b : g[i] # "newline"
    <3>1. m \in 1..(m + p - 1)
      BY <1>0, <1>1
    <3>2. \A i \in (h[m - 1] + 1)..(h[m] - 1) : g[i] # "newline"
      BY <1>4, <3>1 DEF Cuts
    <3> QED
      BY <2>1, <2>4, <3>2
  <2>8. Trimmed(g, a, t) \o Trimmed(g, t + 1, b) = Trimmed(g, a, b)
    <3>1. t \in 0..Len(g)
      OBVIOUS
    <3> QED
      BY <2>5, <2>6, <2>7, <3>1, TrimmedJoins
  <2> QED
    BY <1>2, <2>1, <2>2, <2>3, <2>4, <2>8, Zenon
<1>8. Len(newls) = m + p - 2 /\ Len(newls) + 1 = m + p - 1
  <2>1. Len(newls) = (m - 1) + p - 1
    BY <1>1 DEF Continues
  <2>2. (m - 1) + p - 1 = m + p - 2 /\ (m + p - 2) + 1 = m + p - 1
    BY <1>0, <1>1
  <2> QED
    BY <2>1, <2>2
<1>9. ASSUME NEW k \in 1..(m + p - 2)
      PROVE  Text(newls[k]) = Trimmed(g, h[k - 1] + 1, h[k] - 1)
  <2>1. CASE k < m
    <3>1. k \in 1..(m - 1) /\ k \in 0..(m - 1) /\ k - 1 \in 0..(m - 1)
      BY <1>0, <1>1, <2>1
    <3>2. newls[k] = ls[k]
      BY <1>1, <3>1 DEF Continues
    <3> QED
      BY <1>2, <1>5, <3>1, <3>2
  <2>2. CASE k = m
    <3>1. p > 1 /\ (m - 1) + 1 = m
      BY <1>0, <1>1, <2>2
    <3>2. newls[m] = joined
      BY <1>1, <1>6, <3>1 DEF Continues
    <3> QED
      BY <1>7, <2>2, <3>2
  <2>3. CASE k > m
    <3>1. PICK j : j = k - (m - 1)
      OBVIOUS
    <3>2. /\ j \in 2..(p - 1) /\ j \in 1..p /\ k = (m - 1) + j
          /\ k \in m..(m + p - 1) /\ k - 1 \in m..(m + p - 1) /\ (k - 1) - (m - 1) = j - 1
      BY <1>0, <1>1, <2>3, <3>1
    <3>3. newls[k] = styled[j]
      BY <1>1, <3>2 DEF Continues
    <3>4. h[k] = f[j] /\ h[k - 1] = f[j - 1]
      BY <1>5, <3>1, <3>2
    <3> QED
      BY <3>2, <3>3, <3>4 DEF ShowPieces
  <2> QED
    BY <1>1, <2>1, <2>2, <2>3
<1>10. Text(newss) = Trimmed(g, h[m + p - 2] + 1, u)
  <2>1. CASE p = 1
    <3>0. m + p - 2 = m - 1 /\ m \in m..(m + p - 1) /\ m - (m - 1) = 1 /\ (u + 1) - 1 = u
      BY <1>0, <1>1, <2>1
    <3>1. m + p - 2 = m - 1 /\ h[m] = f[1] /\ newss = joined
      BY <1>5, <1>6, <2>1, <3>0 DEF Continues
    <3>2. h[m] - 1 = u
      BY <1>5, <2>1, <3>0, <3>1
    <3> QED
      BY <1>7, <3>1, <3>2
  <2>2. CASE p # 1
    <3>1. /\ m + p - 2 \in m..(m + p - 1) /\ (m + p - 2) - (m - 1) = p - 1 /\ p \in 1..p
          /\ (u + 1) - 1 = u
      BY <1>0, <1>1, <2>2
    <3>2. h[m + p - 2] = f[p - 1]
      BY <1>5, <3>1
    <3>3. newss = styled[p] /\ Text(styled[p]) = Trimmed(g, f[p - 1] + 1, f[p] - 1)
      BY <2>2, <3>1 DEF Continues, ShowPieces
    <3> QED
      BY <1>5, <3>1, <3>2, <3>3
  <2> QED
    BY <2>1, <2>2
<1> QED
  BY <1>4, <1>8, <1>9, <1>10 DEF Kept

\* The line under construction, and the finished ones, after an event of p parts.
SpansAfter(ss, p, styled) == IF p = 1 THEN ss \o styled[1] ELSE styled[p]
LinesAfter(ls, ss, p, styled) ==
  IF p = 1 THEN ls
  ELSE Append(ls, ss \o styled[1]) \o [k \in 1..(p - 2) |-> styled[k + 1]]

LEMMA EventContinues ==
  ASSUME NEW ls \in Seq(Seq(SpanSet)), NEW ss \in Seq(SpanSet), NEW p \in Nat, p >= 1,
         NEW styled, \A k \in 1..p : styled[k] \in Seq(SpanSet),
         NEW newls, NEW newss,
         newss = SpansAfter(ss, p, styled), newls = LinesAfter(ls, ss, p, styled)
  PROVE  /\ newls \in Seq(Seq(SpanSet)) /\ newss \in Seq(SpanSet)
         /\ Continues(ls, ss, p, styled, newls, newss)
<1>0. /\ newss = IF p = 1 THEN ss \o styled[1] ELSE styled[p]
      /\ newls = IF p = 1 THEN ls
                 ELSE Append(ls, ss \o styled[1]) \o [k \in 1..(p - 2) |-> styled[k + 1]]
  BY DEF SpansAfter, LinesAfter
<1>1. PICK joined : joined = ss \o styled[1]
  OBVIOUS
<1>2. joined \in Seq(SpanSet)
  <2>1. styled[1] \in Seq(SpanSet)
    OBVIOUS
  <2> QED
    BY <1>1, <2>1, TextJoins
<1>3. newss \in Seq(SpanSet)
  <2>1. p \in 1..p
    OBVIOUS
  <2> QED
    BY <1>0, <1>1, <1>2, <2>1
<1>4. PICK l \in Nat : l = Len(ls)
  OBVIOUS
<1>5. CASE p = 1
  <2>1. newls = ls /\ l + p - 1 = l /\ ~(p > 1) /\ 2..(p - 1) = {}
    BY <1>0, <1>4, <1>5
  <2> QED
    BY <1>0, <1>3, <1>4, <2>1 DEF Continues
<1>6. CASE p # 1
  <2>1. PICK x : x = Append(ls, joined)
    OBVIOUS
  <2>2. PICK y : y = [k \in 1..(p - 2) |-> styled[k + 1]]
    OBVIOUS
  <2>3. newls = x \o y
    BY <1>0, <1>1, <1>6, <2>1, <2>2
  <2>4. /\ x \in Seq(Seq(SpanSet)) /\ Len(x) = l + 1 /\ x[l + 1] = joined
        /\ \A k \in 1..l : x[k] = ls[k]
    BY <1>2, <1>4, <2>1
  <2>5. y \in Seq(Seq(SpanSet)) /\ Len(y) = p - 2 /\ \A k \in 1..(p - 2) : y[k] = styled[k + 1]
    <3>1. p - 2 \in Nat /\ \A k \in 1..(p - 2) : k + 1 \in 1..p
      BY <1>6
    <3>2. \A k \in 1..(p - 2) : styled[k + 1] \in Seq(SpanSet)
      BY <3>1
    <3> QED
      BY <2>2, <3>1, <3>2
  <2>6. /\ newls \in Seq(Seq(SpanSet)) /\ Len(newls) = (l + 1) + (p - 2)
        /\ \A k \in 1..(l + 1) : newls[k] = x[k]
        /\ \A k \in 1..(p - 2) : newls[(l + 1) + k] = y[k]
    <3>0. PICK S : S = Seq(SpanSet)
      OBVIOUS
    <3>7. x \in Seq(S) /\ y \in Seq(S)
      BY <2>4, <2>5, <3>0
    <3>8. /\ x \o y \in Seq(S) /\ Len(x \o y) = Len(x) + Len(y)
          /\ \A k \in 1..(Len(x) + Len(y)) :
               (x \o y)[k] = IF k <= Len(x) THEN x[k] ELSE y[k - Len(x)]
      BY <3>7, ConcatProperties
    <3>1. /\ newls \in Seq(Seq(SpanSet)) /\ Len(newls) = Len(x) + Len(y)
          /\ \A k \in 1..(Len(x) + Len(y)) :
               newls[k] = IF k <= Len(x) THEN x[k] ELSE y[k - Len(x)]
      BY <2>3, <3>0, <3>8, Zenon
    <3>2. \A k \in 1..((l + 1) + (p - 2)) :
            newls[k] = IF k <= l + 1 THEN x[k] ELSE y[k - (l + 1)]
      BY <2>4, <2>5, <3>1
    <3>3. \A k \in 1..(l + 1) : k \in 1..((l + 1) + (p - 2)) /\ k <= l + 1
      BY <1>6
    <3>4. \A k \in 1..(p - 2) : /\ (l + 1) + k \in 1..((l + 1) + (p - 2))
                               /\ ~((l + 1) + k <= l + 1) /\ ((l + 1) + k) - (l + 1) = k
      BY <1>6
    <3>5. \A k \in 1..(l + 1) : newls[k] = x[k]
      BY <3>2, <3>3
    <3>6. \A k \in 1..(p - 2) : newls[(l + 1) + k] = y[k]
      BY <3>2, <3>4
    <3> QED
      BY <2>4, <2>5, <3>1, <3>5, <3>6
  <2>7. (l + 1) + (p - 2) = l + p - 1 /\ l + 1 \in 1..(l + 1) /\ \A k \in 1..l : k \in 1..(l + 1)
    OBVIOUS
  <2>8. ASSUME NEW k \in 2..(p - 1) PROVE newls[l + k] = styled[k]
    <3>1. k - 1 \in 1..(p - 2) /\ (l + 1) + (k - 1) = l + k /\ (k - 1) + 1 = k
      OBVIOUS
    <3> QED
      BY <2>5, <2>6, <3>1
  <2>9. newls[l + 1] = joined /\ \A k \in 1..l : newls[k] = ls[k]
    BY <2>4, <2>6, <2>7
  <2>10. newss = styled[p]
    BY <1>0, <1>6
  <2>11. /\ Len(newls) = l + p - 1
         /\ p > 1 => newls[l + 1] = ss \o styled[1]
    BY <1>1, <2>6, <2>7, <2>9
  <2>12. Continues(ls, ss, p, styled, newls, newss)
    BY <1>4, <1>6, <2>8, <2>9, <2>10, <2>11 DEF Continues
  <2> QED
    BY <1>3, <2>6, <2>12
<1> QED
  BY <1>5, <1>6

\* The fence removed from a text leaves a text.
LEMMA StripType ==
  ASSUME NEW text \in Seq(Char)
  PROVE  StripOuterCodeFence(text) \in Seq(Char)
<1>1. PICK left : left = StripOuterCodeFence(text)
  OBVIOUS
<1>2. IF Bodies(text) = {} THEN left = text ELSE left \in Bodies(text)
  BY <1>1, StripIsExact
<1>3. ASSUME left \in Bodies(text) PROVE left \in Seq(Char)
  <2>1. left = <<>> \/ \E i, j \in 1..Len(text) : left = SubSeq(text, i, j)
    <3>1. \/ Bodies(text) = {<<>>}
          \/ Bodies(text) = {b \in {SubSeq(text, i, j) : i, j \in 1..Len(text)} : Fenced(text, b)}
      BY DEF Bodies
    <3> QED
      BY <1>3, <3>1
  <2>2. ASSUME NEW i \in 1..Len(text), NEW j \in 1..Len(text)
        PROVE  SubSeq(text, i, j) \in Seq(Char)
    <3>1. i \in 1..(Len(text) + 1) /\ j \in 0..Len(text)
      OBVIOUS
    <3> QED
      BY <3>1, Piece
  <2>3. <<>> \in Seq(Char)
    OBVIOUS
  <2> QED
    BY <2>1, <2>2, <2>3, Zenon
<1> QED
  BY <1>1, <1>2, <1>3

\* While the events come, the finished lines and the one under construction show
\* what they have covered of the text.
KeepTyped ==
  /\ markdown \in Seq(Char) /\ source \in Seq(Char) /\ taken \in 0..Len(source)
  /\ lines \in Seq(Seq(SpanSet)) /\ spans \in Seq(SpanSet)
  /\ styles \in Seq({"default", "styled"}) /\ styles # <<>>
KeepInv ==
  /\ phase \in {"strip", "events"} => KeepTyped
  /\ phase = "strip" => taken = 0 /\ lines = <<>> /\ spans = <<>>
  /\ phase = "events" /\ EndLines(source) => Kept(source, taken, lines, spans)
  /\ KeepsText

LEMMA InitKeeps == HighlightInit => KeepInv
<1> SUFFICES ASSUME HighlightInit PROVE KeepInv
  OBVIOUS
<1>1. /\ markdown \in Seq(Char) /\ source = <<>> /\ taken = 0 /\ lines = <<>> /\ spans = <<>>
      /\ styles = <<"default">> /\ phase = "strip"
  BY HighlightAssumption DEF HighlightInit
<1>2. <<>> \in Seq(Char) /\ 0 \in 0..Len(<<>>) /\ <<>> \in Seq(Seq(SpanSet)) /\ <<>> \in Seq(SpanSet)
  OBVIOUS
<1>3. <<"default">> \in Seq({"default", "styled"}) /\ <<"default">> # <<>>
  OBVIOUS
<1> QED
  BY <1>1, <1>2, <1>3 DEF KeepInv, KeepTyped, KeepsText

LEMMA StripKeeps ==
  ASSUME KeepInv, Strip
  PROVE  KeepInv'
<1>1. /\ KeepTyped /\ taken = 0 /\ lines = <<>> /\ spans = <<>>
      /\ source' = StripOuterCodeFence(markdown) /\ phase' = "events"
      /\ markdown' = markdown /\ taken' = taken /\ lines' = lines /\ spans' = spans
      /\ styles' = styles
  BY DEF KeepInv, Strip
<1>2. source' \in Seq(Char) /\ 0 \in 0..Len(source')
  <2>1. source' \in Seq(Char)
    BY <1>1, StripType DEF KeepTyped
  <2> QED
    BY <2>1
<1>3. Kept(source', 0, <<>>, <<>>)
  BY <1>2, KeptAtTheStart
<1> QED
  BY <1>1, <1>2, <1>3 DEF KeepInv, KeepTyped, KeepsText

LEMMA SourceEventKeeps ==
  ASSUME KeepInv, NEW n \in 1..Len(source), SourceEvent(n)
  PROVE  KeepInv'
<1>1. PICK t, u : t = taken /\ u = taken + n
  OBVIOUS
<1>2. PICK parts : parts = Split(SubSeq(source, t + 1, u))
  BY <1>1
<1>3. PICK style : style = Last(styles)
  OBVIOUS
<1>4. PICK styled : styled = Styled(parts, style)
  OBVIOUS
<1>5. KeepTyped /\ phase = "events" /\ u <= Len(source) /\ taken' = u
      /\ source' = source /\ markdown' = markdown /\ styles' = styles /\ phase' = phase
  BY <1>1 DEF KeepInv, SourceEvent
<1>6. t \in Nat /\ u \in Nat /\ t <= u /\ u \in 0..Len(source)
  <2>1. PICK l \in Nat : l = Len(source)
    BY <1>5 DEF KeepTyped
  <2> QED
    BY <1>1, <1>5, <2>1 DEF KeepTyped
<1>7. style \in {"default", "styled"}
  BY <1>3, <1>5 DEF KeepTyped, Last
<1>8. PICK f : Cuts(source, t, u, Len(parts), f) /\ ShowPieces(source, Len(parts), f, styled)
  BY <1>2, <1>4, <1>5, <1>6, <1>7, StyledIs DEF KeepTyped
<1>9. PICK p : p = Len(parts)
  OBVIOUS
<1>10. p \in Nat /\ p >= 1 /\ Cuts(source, t, u, p, f) /\ ShowPieces(source, p, f, styled)
  BY <1>8, <1>9 DEF Cuts
<1>11. \A k \in 1..p : styled[k] = Spans(TrimEnd(parts[k], {"return"}), style)
  BY <1>4, <1>9 DEF Styled
<1>12. spans' = IF p = 1 THEN spans \o styled[1] ELSE styled[p]
  <2>1. 1 \in 1..p /\ p \in 1..p
    BY <1>10
  <2>2. spans' = IF Len(parts) = 1
                 THEN spans \o Spans(TrimEnd(parts[1], {"return"}), style)
                 ELSE Spans(TrimEnd(parts[Len(parts)], {"return"}), style)
    BY <1>1, <1>2, <1>3 DEF SourceEvent
  <2> QED
    BY <1>9, <1>11, <2>1, <2>2
<1>13. lines' = IF p = 1 THEN lines
                ELSE Append(lines, spans \o styled[1]) \o [k \in 1..(p - 2) |-> styled[k + 1]]
  <2>1. 1 \in 1..p /\ \A k \in 1..(p - 2) : k + 1 \in 1..p
    BY <1>10
  <2>2. lines' = IF Len(parts) = 1 THEN lines
                 ELSE Append(lines, spans \o Spans(TrimEnd(parts[1], {"return"}), style))
                        \o [k \in 1..(Len(parts) - 2) |->
                              Spans(TrimEnd(parts[k + 1], {"return"}), style)]
    BY <1>1, <1>2, <1>3 DEF SourceEvent
  <2>3. [k \in 1..(p - 2) |-> styled[k + 1]]
          = [k \in 1..(p - 2) |-> Spans(TrimEnd(parts[k + 1], {"return"}), style)]
    BY <1>11, <2>1
  <2>4. styled[1] = Spans(TrimEnd(parts[1], {"return"}), style)
    BY <1>11, <2>1
  <2> QED
    BY <1>9, <2>2, <2>3, <2>4, Zenon
<1>14. /\ lines' \in Seq(Seq(SpanSet)) /\ spans' \in Seq(SpanSet)
       /\ Continues(lines, spans, p, styled, lines', spans')
  <2>1. \A k \in 1..p : styled[k] \in Seq(SpanSet)
    BY <1>10 DEF ShowPieces
  <2> QED
    <3>1. lines \in Seq(Seq(SpanSet)) /\ spans \in Seq(SpanSet)
      BY <1>5 DEF KeepTyped
    <3>2. spans' = SpansAfter(spans, p, styled) /\ lines' = LinesAfter(lines, spans, p, styled)
      BY <1>12, <1>13, Zenon DEF SpansAfter, LinesAfter
    <3> QED
      BY <1>10, <2>1, <3>1, <3>2, EventContinues
<1>15. ASSUME EndLines(source) PROVE Kept(source, u, lines', spans')
  <2>1. Kept(source, t, lines, spans)
    BY <1>1, <1>5, <1>15 DEF KeepInv
  <2> QED
    BY <1>5, <1>6, <1>10, <1>14, <1>15, <2>1, EventKeeps DEF KeepTyped
<1> QED
  BY <1>5, <1>6, <1>14, <1>15 DEF KeepInv, KeepTyped, KeepsText

LEMMA StylesKeep ==
  ASSUME KeepInv, HighlightStart \/ HighlightEnd
  PROVE  KeepInv'
<1>1. /\ KeepTyped /\ phase = "events" /\ markdown' = markdown /\ source' = source
      /\ taken' = taken /\ lines' = lines /\ spans' = spans /\ phase' = phase
  BY DEF KeepInv, HighlightStart, HighlightEnd
<1>2. styles' \in Seq({"default", "styled"}) /\ styles' # <<>>
  <2>1. styles \in Seq({"default", "styled"})
    BY <1>1 DEF KeepTyped
  <2>2. CASE HighlightStart
    BY <2>1, <2>2 DEF HighlightStart
  <2>3. CASE HighlightEnd
    <3>1. PICK l \in Nat : l = Len(styles)
      BY <2>1
    <3>2. styles' = SubSeq(styles, 1, l - 1) /\ l > 1
      BY <2>3, <3>1 DEF HighlightEnd, Front
    <3>3. styles' \in Seq({"default", "styled"}) /\ Len(styles') = l - 1
      BY <2>1, <3>1, <3>2
    <3>4. l - 1 # 0 /\ Len(<<>>) = 0
      BY <3>1, <3>2
    <3> QED
      BY <3>3, <3>4
  <2> QED
    BY <2>2, <2>3
<1> QED
  BY <1>1, <1>2 DEF KeepInv, KeepTyped, KeepsText

LEMMA LastStepKeeps ==
  ASSUME KeepInv, HighlightFails \/ HighlightDone
  PROVE  KeepInv'
<1>1. /\ KeepTyped /\ phase = "events" /\ phase' = "done" /\ source' = source
  BY DEF KeepInv, HighlightFails, HighlightDone
<1>2. CASE HighlightFails
  <2>1. lines' = PlainText(source')
    BY <1>1, <1>2 DEF HighlightFails
  <2> QED
    BY <1>1, <2>1 DEF KeepInv, KeepsText
<1>3. CASE HighlightDone
  <2>1. lines' = Append(lines, spans) /\ taken = Len(source)
    BY <1>3 DEF HighlightDone
  <2>2. ASSUME EndLines(source)
        PROVE  [k \in DOMAIN lines' |-> Text(lines'[k])]
                 = [k \in DOMAIN PlainText(source) |-> Text(PlainText(source)[k])]
    <3>1. Kept(source, Len(source), lines, spans)
      BY <1>1, <2>1, <2>2 DEF KeepInv
    <3> QED
      BY <1>1, <2>1, <3>1, KeptAtTheEnd DEF KeepTyped
  <2>3. (ReturnsEndLines <=> EndLines(source))'
    BY DEF ReturnsEndLines, EndLines
  <2> QED
    BY <1>1, <2>2, <2>3 DEF KeepInv, KeepsText
<1> QED
  BY <1>2, <1>3

\* However the highlighter cuts the text, and however deep its styles nest, the
\* lines shown are those of the text without colours: none lost, split or joined
\* (highlighted_lean, push_source).
THEOREM TheTextIsKept == HighlightSpec => []KeepsText
<1>1. KeepInv /\ [HighlightNext]_highlightVars => KeepInv'
  <2> SUFFICES ASSUME KeepInv, [HighlightNext]_highlightVars PROVE KeepInv'
    OBVIOUS
  <2>1. CASE UNCHANGED highlightVars
    BY <2>1 DEF highlightVars, KeepInv, KeepTyped, KeepsText, ReturnsEndLines
  <2> QED
    BY <2>1, StripKeeps, SourceEventKeeps, StylesKeep, LastStepKeeps DEF HighlightNext
<1>2. KeepInv => KeepsText
  BY DEF KeepInv
<1> QED
  BY <1>1, <1>2, InitKeeps, PTL DEF HighlightSpec
============================================================================
