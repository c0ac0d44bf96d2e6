------------------------------ MODULE MCWatch ------------------------------
(***************************************************************************)
(* Two computations of `watch' that have no state in common, side by side: *)
(* a behaviour looks for the socket or turns one text into lines.          *)
(***************************************************************************)
EXTENDS Discovery, Highlight

\* /, /a, /a/<space>, /a/%20, /a/<space>/a, and a link /b to /a/<space>.
Root  == <<47>>
A     == <<47, 97>>
Space == A \o <<47, 32>>
Escape == A \o <<47, 37, 50, 48>>
Deep  == Space \o A
Dirs  == {Root, A, Space, Escape, Deep}
ParentOf == (Root :> None) @@ (A :> Root) @@ (Space :> A) @@ (Escape :> A) @@ (Deep :> Space)
LinkTo == <<47, 98>> :> Space

\* A client that escapes what it must: the space and the percent sign.
WrittenBy == [b \in Byte |-> CASE b = 32 -> <<37, 50, 48>> [] b = 37 -> <<37, 50, 53>>
                               [] OTHER  -> <<b>>]
Spellings == {<<d, d>> : d \in Dirs} \cup {<<p, LinkTo[p]>> : p \in DOMAIN LinkTo}
Field == {<<TRUE, FALSE, FALSE>>, <<TRUE, TRUE, TRUE>>, <<FALSE, TRUE, FALSE>>,
          <<FALSE, FALSE, TRUE>>, <<FALSE, TRUE, TRUE>>}
ParamsSome ==
  {[rootUri  |-> IF f[1] THEN Encoded(s[1]) ELSE None,
    folder   |-> IF f[2] THEN Encoded(s[1]) ELSE None,
    rootPath |-> IF f[3] THEN s[1] ELSE None,
    names    |-> s[2]] : f \in Field, s \in Spellings}
  \cup {[rootUri |-> None, folder |-> None, rootPath |-> None, names |-> None]}

\* Every short text, and longer ones for the fence.
MarkdownSome ==
  UNION {[1..n -> {"x", "return", "newline", "turnstile"}] : n \in 0..4}
    \cup UNION {[1..n -> {"fence", "tick", "space", "x", "newline"}] : n \in 2..3}
    \cup {<<"fence", "newline">> \o t : t \in
             UNION {[1..n -> {"fence", "space", "x", "newline"}] : n \in 2..4}}

NoDiscovery == /\ marked = {} /\ params = None /\ proxyDir = None /\ viewerDir = None
               /\ proxySocket = None /\ viewerSocket = None
NoHighlight == /\ markdown = <<>> /\ source = <<>> /\ taken = 0 /\ lines = <<>>
               /\ spans = <<>> /\ styles = <<>> /\ phase = "idle"

Init == \/ DiscoveryInit /\ NoHighlight
        \/ NoDiscovery /\ HighlightInit
Next == \/ phase = "idle" /\ DiscoveryNext /\ UNCHANGED highlightVars
        \/ phase # "idle" /\ HighlightNext /\ UNCHANGED discoveryVars
Spec == Init /\ [][Next]_<<discoveryVars, highlightVars>>
============================================================================
