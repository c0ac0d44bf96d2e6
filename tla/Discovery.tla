----------------------------- MODULE Discovery -----------------------------
(***************************************************************************)
(* How a proxy and a viewer come to the same socket (lhv-wire/src/lib.rs,  *)
(* extract_root_uri of snoop.rs, spawn_socket_server of run.rs): the proxy *)
(* keys its path off the root in Helix's initialize, the viewer off the    *)
(* workspace around its directory.  Paths are sequences of bytes.  A socket*)
(* path is the root it is hashed from: two roots with one FNV-1a hash are  *)
(* left out.                                                               *)
(***************************************************************************)
EXTENDS Integers, Sequences, SequencesExt

CONSTANTS Dir,       \* directories, by their canonical paths
          Parent,    \* the directory above each, or None
          Link,      \* other paths and the directories they resolve to
          Written,   \* the client: how it writes each byte of a path in a URI
          Params,    \* the params of initialize that occur
          None

VARIABLES
  marked,       \* directories that hold a lakefile or a lean-toolchain
  params,       \* initialize: rootUri, the first workspace folder, rootPath
  proxyDir, viewerDir,    \* the directories the two processes run in
  proxySocket, viewerSocket   \* the paths they came to, or None

discoveryVars == <<marked, params, proxyDir, viewerDir, proxySocket, viewerSocket>>

DiscoveryInit ==
  /\ marked \in SUBSET Dir
  /\ params \in Params
  /\ proxyDir \in Dir /\ viewerDir \in Dir
  /\ proxySocket = None /\ viewerSocket = None

----------------------------------------------------------------------------
(* Paths and URIs. *)

\* ASCII; a client escapes the other bytes, two digits each like these.
Byte == 0..127

Percent == 37

\* hex_val, or -1.
HexVal(b) == CASE b \in 48..57  -> b - 48
               [] b \in 97..102 -> b - 97 + 10
               [] b \in 65..70  -> b - 65 + 10
               [] OTHER -> -1

\* A slip: an escape that ends the path is not decoded.
EscapeAtShort(s, i) ==
  /\ s[i] = Percent /\ i + 2 < Len(s)
  /\ HexVal(s[i + 1]) >= 0 /\ HexVal(s[i + 2]) >= 0
EscapeAt(s, i) ==
  /\ s[i] = Percent /\ i + 2 <= Len(s)
  /\ HexVal(s[i + 1]) >= 0 /\ HexVal(s[i + 2]) >= 0

\* A byte as the client escapes it.
EscapeOf(s, b) ==
  /\ Len(s) = 3 /\ s[1] = Percent /\ HexVal(s[2]) >= 0 /\ HexVal(s[3]) >= 0
  /\ HexVal(s[2]) * 16 + HexVal(s[3]) = b

\* percent_decode: what follows from byte i on.
PercentDecode(s) ==
  LET from[i \in 1..(Len(s) + 1)] ==
        CASE i > Len(s)     -> <<>>
          [] i <= Len(s) /\ EscapeAt(s, i) ->
               <<HexVal(s[i + 1]) * 16 + HexVal(s[i + 2])>> \o from[i + 3]
          [] OTHER          -> <<s[i]>> \o from[i + 1]
  IN  from[1]

\* std::fs::canonicalize, or the literal path when there is nothing there.
Canonical(path) == IF path \in DOMAIN Link THEN Link[path] ELSE path

\* A path as the client writes it after file://.
Encoded(path) == FlattenSeq([i \in DOMAIN path |-> Written[path[i]]])

\* s is what comes after file://, or all of a string without that prefix.
RootPathFromUri(s) == Canonical(PercentDecode(s))

\* extract_root_uri
ExtractRootUri(p) ==
  CASE p.rootUri # None -> p.rootUri
    [] p.rootUri = None /\ p.folder # None -> p.folder
    [] OTHER -> p.rootPath

\* find_workspace_root: the first marked directory on the way up.
FindWorkspaceRoot(start) ==
  LET up[d \in Dir \cup {None}] ==
        IF d = None \/ d \in marked THEN d ELSE up[Parent[d]]
  IN  up[start]

----------------------------------------------------------------------------

\* spawn_socket_server, once the snoop has signalled the root.
ProxyBinds ==
  /\ proxySocket = None
  /\ proxySocket' = LET root == ExtractRootUri(params)
                    IN  IF root = None THEN proxyDir ELSE RootPathFromUri(root)
  /\ UNCHANGED <<marked, params, proxyDir, viewerDir, viewerSocket>>

\* workspace_socket_path
ViewerDials ==
  /\ viewerSocket = None
  /\ viewerSocket' = LET root == FindWorkspaceRoot(viewerDir)
                     IN  IF root = None THEN viewerDir ELSE Canonical(root)
  /\ UNCHANGED <<marked, params, proxyDir, viewerDir, proxySocket>>

DiscoveryNext == ProxyBinds \/ ViewerDials
DiscoverySpec == DiscoveryInit /\ [][DiscoveryNext]_discoveryVars

----------------------------------------------------------------------------
(* What is assumed of the file system and of the client. *)

\* A directory and those it is in; the path of the topmost is a slash.
Inside(d) == IF d = <<47>> THEN d ELSE Append(d, 47)
Above(d)  == {e \in Dir : e = d \/ IsPrefix(Inside(e), d)}

ASSUME DirAssumption ==
  /\ Dir \subseteq Seq(Byte) /\ None \notin Dir
  /\ Parent \in [Dir -> Dir \cup {None}]
  /\ \A d \in Dir :
       LET others == Above(d) \ {d}
       IN  IF others = {} THEN Parent[d] = None
           ELSE Parent[d] \in others /\ \A e \in others : Len(e) <= Len(Parent[d])

ASSUME LinkAssumption ==
  /\ DOMAIN Link \subseteq Seq(Byte) /\ DOMAIN Link \cap Dir = {}
  /\ \A p \in DOMAIN Link : Link[p] \in Dir

\* A byte stands for itself or is escaped; a percent sign is always escaped.
ASSUME WrittenAssumption ==
  /\ Written \in [Byte -> Seq(Byte)]
  /\ \A b \in Byte \ {Percent} : \/ Written[b] = <<b>>
                               \/ EscapeOf(Written[b], b)
  /\ EscapeOf(Written[Percent], Percent)

\* Whatever fields a client fills in spell one path, and it is that of a directory.
ASSUME ParamsAssumption ==
  \A p \in Params :
    LET given == {p.rootUri, p.folder, p.rootPath} \ {None}
    IN  IF p.names = None THEN given = {}
        ELSE \E path \in Dir \cup DOMAIN Link :
               /\ Canonical(path) = p.names
               /\ p.rootUri \in {None, Encoded(path)} /\ p.folder \in {None, Encoded(path)}
               /\ p.rootPath \in {None, path}
               /\ given # {}

----------------------------------------------------------------------------
(* Properties.  params.names is the directory Helix means, None if it names *)
(* none.                                                                    *)

SessionRoot == IF params.names = None THEN proxyDir ELSE params.names
ViewerRoot ==
  LET around == Above(viewerDir) \cap marked
  IN  IF around = {} THEN viewerDir
      ELSE CHOOSE d \in around : \A e \in around : Len(e) <= Len(d)

\* A legacy rootPath is decoded like a URI: in it an escape means itself, and
\* the proxy looks for a directory of another name.
PlainEscape ==
  /\ params.rootUri = None /\ params.folder = None /\ params.rootPath # None
  /\ \E i \in DOMAIN params.rootPath : EscapeAt(params.rootPath, i)

Both == proxySocket # None /\ viewerSocket # None /\ ~PlainEscape

\* A viewer comes to the proxy's socket exactly when the session's root is the
\* workspace around the viewer's directory, however Helix spells that root: from
\* anywhere below it with no other workspace in between, and never to the proxy
\* of another one (lib.rs, find_workspace_root).
Meet == Both => (proxySocket = viewerSocket <=> ViewerRoot = SessionRoot)
============================================================================
