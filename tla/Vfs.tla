--------------------------------- MODULE Vfs ---------------------------------
(***************************************************************************)
(* The file system of a terminal session: class VFS of                     *)
(* src/runtime/hermit/src/main/spiral/vfs.js, and the shell commands that  *)
(* change it (commands/fs.js, the redirection of kernel.js).               *)
(*                                                                         *)
(* The tree is the set of its nodes, each at its path; a path is the       *)
(* sequence of the names that lead to it, resolved already.  Every         *)
(* operation charges the two quotas by what it adds and takes away, and    *)
(* nothing ever counts the tree again: usedBytes and nodeCount are true    *)
(* only if each operation is exact.  A command that fails throws before it *)
(* has changed anything, but for mkdir -p, which keeps the directories it  *)
(* had made, and for a move onto a directory that holds what is moved.     *)
(***************************************************************************)
EXTENDS Integers, SequencesExt

CONSTANTS
  Name,            \* names of files and directories
  NoName,          \* the empty name, the basename of the root
  FileSize,        \* bytes of what is written
  MaxBytes,        \* limits.maxBytes
  MaxNodes,        \* limits.maxNodes
  MaxDepth,        \* bound: names in a path
  Snapshots        \* the trees an import may bring

ASSUME QuotaAssumption == MaxBytes \in Nat /\ MaxNodes \in Nat \ {0}
ASSUME PathAssumption == FileSize \subseteq Nat /\ MaxDepth \in Nat

VARIABLES
  tree,            \* the nodes, by path
  usedBytes,
  nodeCount,
  upended          \* history: a move put a node over one that holds it

vfsVars == <<tree, usedBytes, nodeCount, upended>>

Path == UNION {[1..n -> Name] : n \in 0..MaxDepth}
Root == << >>

DirNode == [type |-> "dir", bytes |-> 0]
FileNode(n) == [type |-> "file", bytes |-> n]

(* The root once more, hung below itself. *)
RootAgain == [type |-> "root", bytes |-> 0]

(* Every node but the root hangs in a directory. *)
IsTree(t) ==
  /\ IsFiniteSet(DOMAIN t) /\ DOMAIN t \subseteq Seq(Name \cup {NoName})
  /\ \A p \in DOMAIN t : t[p].type \in {"dir", "file"} /\ t[p].bytes \in Nat
  /\ Root \in DOMAIN t /\ t[Root].type = "dir"
  /\ \A p \in DOMAIN t : p # Root => Front(p) \in DOMAIN t /\ t[Front(p)].type = "dir"

(* The records of a snapshot are nested, a directory at the top. *)
ASSUME SnapshotAssumption == \A s \in Snapshots : IsTree(s)

(* What a fresh session finds: _seed, cut down to the root. *)
VfsInit ==
  /\ tree = [p \in {Root} |-> DirNode]
  /\ usedBytes = 0 /\ nodeCount = 1 /\ upended = FALSE

-----------------------------------------------------------------------------
(* Paths and subtrees *)

DirName(p) == IF p = Root THEN Root ELSE Front(p)
BaseName(p) == IF p = Root THEN NoName ELSE Last(p)

Exists(p) == p \in DOMAIN tree
IsDir(p) == Exists(p) /\ tree[p].type = "dir"
Looped == \E p \in DOMAIN tree : tree[p].type = "root"
Under(p) == {q \in DOMAIN tree : IsPrefix(p, q)}
Entry(p) == Append(DirName(p), BaseName(p))

BytesIn(t, paths) == MapThenSumSet(LAMBDA p : t[p].bytes, paths)

(* subtreeCost. *)
CostOf(p) == [bytes |-> BytesIn(tree, Under(p)), nodes |-> Cardinality(Under(p))]

(* _reserve does not throw. *)
Reservable(bytes, nodes) ==
  usedBytes + bytes <= MaxBytes /\ nodeCount + nodes <= MaxNodes

Charge(bytes, nodes) ==
  /\ usedBytes' = usedBytes + bytes
  /\ nodeCount' = nodeCount + nodes

Put(p, node) == [q \in DOMAIN tree \cup {p} |-> IF q = p THEN node ELSE tree[q]]
Cut(paths) == [q \in DOMAIN tree \ paths |-> tree[q]]

-----------------------------------------------------------------------------
(* Operations *)

(* writeFile without append, or of a file that is not there. *)
Overwrite(p, n) ==
  LET old == IF Exists(p) THEN tree[p].bytes ELSE 0
      new == IF Exists(p) THEN 0 ELSE 1 IN
  /\ Reservable(n - old, new)
  /\ Charge(n - old, new)
  /\ tree' = Put(p, FileNode(n))

(* writeFile with append, of a file that is there. *)
Extend(p, n) ==
  /\ Reservable(n, 0)
  /\ Charge(n, 0)
  /\ tree' = Put(p, FileNode(tree[p].bytes + n))

WriteFile(p, n, append) ==
  /\ IsDir(DirName(p))
  /\ ~ IsDir(Entry(p))
  /\ IF append /\ Exists(Entry(p)) THEN Extend(Entry(p), n) ELSE Overwrite(Entry(p), n)
  /\ UNCHANGED upended

(* write, write -a, and the redirections > and >>. *)
Write(p, n, append) == WriteFile(p, n, append)

Touch(p) == ~ Exists(p) /\ WriteFile(p, 0, FALSE)

(* cp of one file, onto a path or into a directory. *)
Copy(from, to) ==
  /\ Exists(from) /\ tree[from].type = "file"
  /\ Len(to) < MaxDepth
  /\ WriteFile(IF IsDir(to) THEN Append(to, BaseName(from)) ELSE to, tree[from].bytes, FALSE)

MkDir(p) ==
  /\ IsDir(DirName(p))
  /\ ~ Exists(Entry(p))
  /\ Reservable(0, 1)
  /\ Charge(0, 1)
  /\ tree' = Put(Entry(p), DirNode)
  /\ UNCHANGED upended

(* mkdir -p: the directories of p that are missing, as far as the quota    *)
(* goes and no file is in the way.                                         *)
MkDirs(p) ==
  LET missing == {n \in 1..Len(p) : ~ Exists(SubSeq(p, 1, n))}
      made == {n \in missing : n < Min(missing) + MaxNodes - nodeCount}
      paths == {SubSeq(p, 1, n) : n \in made} IN
  /\ made # {}
  /\ IsDir(SubSeq(p, 1, Min(missing) - 1))
  /\ tree' = [q \in DOMAIN tree \cup paths |-> IF q \in paths THEN DirNode ELSE tree[q]]
  /\ Charge(0, Cardinality(made))
  /\ UNCHANGED upended

Refund(p) ==
  /\ usedBytes' = usedBytes - CostOf(p).bytes
  /\ nodeCount' = nodeCount - CostOf(p).nodes

Delete(p, recursive) ==
  /\ p # Root
  /\ Exists(p)
  /\ recursive \/ Under(p) = {p}
  /\ tree' = Cut(Under(p))
  /\ Refund(p)
  /\ UNCHANGED upended

(* Where mv puts what it moves: into a directory under its own name. *)
Target(from, to) == IF IsDir(to) THEN Append(to, BaseName(from)) ELSE to

(* Mutant: a directory may be moved into itself. *)
AnyMove(from, final) == final # from

(* move goes on: final is another place, and not inside of from. *)
Movable(from, final) ==
  /\ final # from
  /\ tree[from].type = "file" \/ ~ IsPrefix(from, final)

Standing(p) == IF Exists(p) THEN Under(p) ELSE {}

(* What stood in the way is given back. *)
GiveBack(gone) ==
  /\ usedBytes' = usedBytes - BytesIn(tree, gone)
  /\ nodeCount' = nodeCount - Cardinality(gone)

(* The node goes to its place with all it holds, over what stood there;    *)
(* then the name it had is looked up again and taken out of its directory. *)
(* The order matters when what stood there held the node itself, mv a/a .: *)
(* all of it is given back, the node that stays in use with it, and the    *)
(* second look goes through the new tree.  There it may find nothing, and  *)
(* throw with everything done, or find a child of the node that was moved, *)
(* and drop it, uncharged a second time or not.                            *)
Move(from, to) ==
  LET final == Target(from, to)
      Moved(q) == final \o SubSeq(q, Len(from) + 1, Len(q))
      moved == {Moved(q) : q \in Under(from)}
      placed == (DOMAIN tree \ Standing(final)) \cup moved IN
  /\ Exists(from)
  /\ Movable(from, final)
  /\ IsDir(DirName(final))
  /\ \A q \in moved : Len(q) <= MaxDepth
  /\ IsPrefix(final, from) => ~ upended  \* bound: once in a behaviour
  /\ tree' = [q \in {r \in placed : ~ IsPrefix(from, r)} |->
                IF q \in moved THEN tree[from \o SubSeq(q, Len(final) + 1, Len(q))] ELSE tree[q]]
  /\ GiveBack(Standing(final))
  /\ upended' = (upended \/ IsPrefix(final, from))

(* mv / x.  The test for a directory moved into itself compares "/x/" with *)
(* "//" and lets the root through: it is hung below itself, over what      *)
(* stood there, and the entry without a name is dropped from it.           *)
MoveRoot(to) ==
  LET gone == Standing(to) IN
  /\ to # Root
  /\ IsDir(DirName(to))
  /\ tree' = [q \in (DOMAIN tree \ (gone \cup Under(Entry(Root)))) \cup {to} |->
                IF q = to THEN RootAgain ELSE tree[q]]
  /\ GiveBack(gone)
  /\ upended' = TRUE

(* importSnapshot: the tree is read and counted apart, and then swapped in. *)
Import(snapshot) ==
  LET bytes == BytesIn(snapshot, DOMAIN snapshot)
      nodes == Cardinality(DOMAIN snapshot) IN
  /\ bytes <= MaxBytes /\ nodes <= MaxNodes
  /\ tree' = snapshot
  /\ usedBytes' = bytes /\ nodeCount' = nodes
  /\ upended' = FALSE

(* The commands.  One with several operands is a step for each of them: it *)
(* goes on after one that failed.                                          *)
Mkdir(p, parents) == IF parents THEN MkDirs(p) ELSE MkDir(p)

Rmdir(p) == IsDir(p) /\ Delete(p, FALSE)

Rm(p, recursive) == Delete(p, recursive)

Mv(from, to) == IF from = Root THEN MoveRoot(to) ELSE Move(from, to)

(* A tree with the root below itself has no end, and a path in it many     *)
(* names: what the commands do then is not modelled.                       *)
VfsNext ==
  /\ ~ Looped
  /\ \/ \E p \in Path, n \in FileSize, append \in BOOLEAN : Write(p, n, append)
     \/ \E p \in Path : Touch(p) \/ Rmdir(p)
     \/ \E p \in Path, parents \in BOOLEAN : Mkdir(p, parents)
     \/ \E p \in Path, recursive \in BOOLEAN : Rm(p, recursive)
     \/ \E from, to \in Path : Copy(from, to) \/ Mv(from, to)
     \/ \E s \in Snapshots : Import(s)

VfsSpec == VfsInit /\ [][VfsNext]_vfsVars

-----------------------------------------------------------------------------
(* Properties *)

Counted ==
  /\ usedBytes = BytesIn(tree, DOMAIN tree)
  /\ nodeCount = Cardinality(DOMAIN tree)

(* usage() is true: after any history of commands, failed ones included,   *)
(* every node hangs in a directory of the tree, usedBytes and nodeCount    *)
(* are what a count of the tree gives, and neither exceeds its quota; as   *)
(* long as no mv put a node over one that holds it (mv a/a .) or moved the *)
(* root, and again after an import.                                        *)
UsageIsTrue ==
  ~ upended =>
    /\ \A p \in DOMAIN tree : p # Root => IsDir(Front(p))
    /\ Counted /\ usedBytes <= MaxBytes /\ nodeCount <= MaxNodes
=============================================================================
