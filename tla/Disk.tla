--------------------------------- MODULE Disk ---------------------------------
(***************************************************************************)
(* A disk, what the kernel does to it, and the guard in front of it        *)
(* (apps/server/src/fs/paths.ts).                                          *)
(*                                                                         *)
(* A path is the sequence of its components, the input of path.resolve     *)
(* already normalised.  A disk is a partial function from paths that go    *)
(* through no link to nodes; where a link leads is such a path too.  The   *)
(* kernel's part is external: modelled from the calls of node:fs/promises  *)
(* that the service makes.                                                 *)
(***************************************************************************)
EXTENDS Naturals, SequencesExt

\* A node: its kind, the file system it is on, whether it may be written.
Node(kind, dev, writable, to) == [kind |-> kind, dev |-> dev, writable |-> writable, to |-> to]
Dir(dev) == Node("dir", dev, TRUE, <<>>)
File(dev) == Node("file", dev, TRUE, <<>>)

Exists(disk, p) == p \in DOMAIN disk
HasKind(disk, p, kind) == Exists(disk, p) /\ disk[p].kind = kind
IsDir(disk, p) == HasKind(disk, p, "dir")
ParentOf(p) == IF p = <<>> THEN p ELSE Front(p)
Under(p, q) == IsPrefix(p, q)
Below(disk, p) == {q \in DOMAIN disk : IsStrictPrefix(p, q)}
Solid(disk) == {q \in DOMAIN disk : disk[q].kind # "link"}
Children(disk, p) == {q \in Below(disk, p) : ParentOf(q) = p}
Files(disk, p) == {q \in Below(disk, p) : disk[q].kind = "file"}
Writable(disk, p) == Exists(disk, p) /\ disk[p].writable
Without(disk, gone) == [q \in DOMAIN disk \ gone |-> disk[q]]
Plus(disk, new) == [q \in DOMAIN disk \cup DOMAIN new |-> IF q \in DOMAIN new THEN new[q] ELSE disk[q]]

-----------------------------------------------------------------------------
(* paths.ts                                                                *)

\* realpath: {} when it fails, and what it returns is no link (a chain of links
\* is not followed here).  From a folder to the entry n of it, links followed.
Enter(disk, p, n) ==
  LET c == Append(p, n)
  IN  IF ~IsDir(disk, p) \/ ~Exists(disk, c) THEN {}
      ELSE IF disk[c].kind = "link" THEN {disk[c].to} \cap DOMAIN disk
      ELSE {c}

Realpath(disk, p) ==
  Solid(disk) \cap FoldLeft(LAMBDA at, n : UNION {Enter(disk, q, n) : q \in at}, {<<>>}, p)

\* lstat of an unresolved path: the links on the way followed, the last name not.
Lstat(disk, p) ==
  \/ p = <<>>
  \/ \E q \in Realpath(disk, ParentOf(p)) : IsDir(disk, q) /\ Exists(disk, Append(q, Last(p)))

\* The deepest existing part and the missing tail after it.
SplitAtExisting(disk, p) ==
  LET n == CHOOSE k \in 0..Len(p) :
             Lstat(disk, SubSeq(p, 1, k)) /\ \A j \in (k + 1)..Len(p) : ~Lstat(disk, SubSeq(p, 1, j))
  IN  [existing |-> SubSeq(p, 1, n), tail |-> SubSeq(p, n + 1, Len(p))]

RealpathOf(disk, p) ==
  LET split == SplitAtExisting(disk, p)
  IN  {q \o split.tail : q \in Realpath(disk, split.existing)}

\* PathGuard.create: the configured roots that are folders, resolved.
UsableRoots(disk, configured) ==
  {q \in UNION {Realpath(disk, c) : c \in configured} : IsDir(disk, q)}

RootFor(roots, p) == {r \in roots : Under(r, p)}
IsRoot(roots, p) == p \in roots

\* The path an input stands for, or {} when it is refused: it does not resolve,
\* or it resolves outside the roots.
Resolve(disk, roots, input) ==
  {q \in IF input = <<>> THEN RealpathOf(disk, input)
         ELSE {Append(r, Last(input)) : r \in RealpathOf(disk, ParentOf(input))} :
     RootFor(roots, q) # {}}

IsMountPoint(disk, p) ==
  /\ Exists(disk, p) /\ Exists(disk, ParentOf(p))
  /\ disk[p].dev # disk[ParentOf(p)].dev

-----------------------------------------------------------------------------
(* The kernel: the disks a call may leave, and which of them are success.  *)

Outcome(disk, done) == [disk |-> disk, done |-> done]
Denied(disk) == {Outcome(disk, FALSE)}

Missing(disk, p) == {q \in Prefixes(p) : ~Exists(disk, q)}
Deepest(disk, p) ==
  CHOOSE q \in Prefixes(p) : /\ Exists(disk, q)
                             /\ \A r \in Prefixes(p) : Exists(disk, r) => Len(r) <= Len(q)

MakeDir(disk, p, recursive) ==
  LET base == Deepest(disk, p)
  IN  IF Exists(disk, p) THEN {Outcome(disk, recursive /\ IsDir(disk, p))}
      ELSE IF ~IsDir(disk, base) \/ ~Writable(disk, base) \/ (~recursive /\ base # ParentOf(p)) THEN Denied(disk)
      ELSE {Outcome(Plus(disk, [q \in Missing(disk, p) |-> Dir(disk[base].dev)]), TRUE)}

\* rename(2): atomic, within one file system, never into its own subtree, over
\* nothing but an empty folder (a folder) or a file (a file).
CanReplace(disk, from, to) ==
  \/ ~Exists(disk, to)
  \/ IsDir(disk, from) /\ IsDir(disk, to) /\ Children(disk, to) = {}
  \/ ~IsDir(disk, from) /\ ~IsDir(disk, to)

Rebase(p, from, to) == to \o SubSeq(p, Len(from) + 1, Len(p))

Moved(disk, from, to) ==
  LET moving == {q \in DOMAIN disk : Under(from, q)}
      landed == {Rebase(q, from, to) : q \in moving}
  IN  [q \in (DOMAIN disk \ (moving \cup {to})) \cup landed |->
         IF q \in landed THEN disk[Rebase(q, to, from)] ELSE disk[q]]

RenamePath(disk, from, to) ==
  IF from = to THEN {Outcome(disk, Exists(disk, from))}
  ELSE IF /\ Exists(disk, from) /\ ~IsMountPoint(disk, from) /\ ~IsStrictPrefix(from, to)
          /\ IsDir(disk, ParentOf(to)) /\ disk[from].dev = disk[ParentOf(to)].dev
          /\ Writable(disk, ParentOf(from)) /\ Writable(disk, ParentOf(to))
          /\ CanReplace(disk, from, to) /\ ~IsMountPoint(disk, to)
       THEN {Outcome(Moved(disk, from, to), TRUE)}
       ELSE Denied(disk)

RemoveDir(disk, p) ==
  IF IsDir(disk, p) /\ Children(disk, p) = {} /\ ~IsMountPoint(disk, p) /\ Writable(disk, ParentOf(p))
  THEN {Outcome(Without(disk, {p}), TRUE)}
  ELSE Denied(disk)

\* What an rm -r may take: no folder before what is in it, nothing out of a
\* folder that may not be written, no mount point.  It stops at the first
\* error, so it may have taken any part; it is done when all of it is gone.
Takable(disk, gone) ==
  \A q \in gone : /\ Children(disk, q) \subseteq gone
                  /\ Writable(disk, ParentOf(q)) /\ ~IsMountPoint(disk, q)

RemoveTree(disk, p) ==
  LET whole == {q \in DOMAIN disk : Under(p, q)}
      parts == {gone \in SUBSET whole : p \notin gone /\ Takable(disk, gone)}
  IN  {Outcome(Without(disk, gone), FALSE) : gone \in parts}
      \cup (IF whole # {} /\ Takable(disk, whole) THEN {Outcome(Without(disk, whole), TRUE)} ELSE {})

=============================================================================
