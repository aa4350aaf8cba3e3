----------------------------- MODULE FileSystem -----------------------------
(***************************************************************************)
(* The file system as the agent uses it, and the path resolution of the    *)
(* file service (agent/internal/files/files.go).                           *)
(*                                                                         *)
(* A path is the sequence of its names, and a file system maps the paths   *)
(* that exist to nodes: a directory, a file with its content or a link     *)
(* with the absolute path it points to.  A path that a system call is      *)
(* given is resolved through the links above its last name, so a call acts *)
(* on a place, the real path, which may be another one than it names.      *)
(* Modes, owners, hard links and special files are left out.               *)
(***************************************************************************)
EXTENDS Naturals, Sequences, Functions

CONSTANTS
    Order,      \* the names of entries, in lexical order
    Root,       \* the allowed root, resolved
    MaxLinks    \* bound on links that lead to links

Name == Range(Order)
Path == Seq(Name)

(* No path: what a resolution that fails gives.                            *)
Missing == <<"missing">>

ASSUME PathAssumption ==
    Order \in Seq(STRING) /\ Root \in Path /\ MaxLinks \in Nat \ {0} /\ "missing" \notin Name

Dir == [kind |-> "dir", data |-> <<>>]
File(data) == [kind |-> "file", data |-> data]
Link(path) == [kind |-> "link", data |-> path]

Kind(f, p) == IF p \in DOMAIN f THEN f[p].kind ELSE "none"

within(path, root) == Len(root) <= Len(path) /\ SubSeq(path, 1, Len(root)) = root
overlap(p, q) == within(p, q) \/ within(q, p)
Rel(path, root) == SubSeq(path, Len(root) + 1, Len(path))
Parent(path) == SubSeq(path, 1, Len(path) - 1)
PathsTo(path) == {SubSeq(path, 1, i) : i \in 0 .. Len(path)}
Longest(paths) == CHOOSE p \in paths : \A q \in paths : within(p, q)
Inside(f, root) == {p \in DOMAIN f : within(p, root)}

(* Every entry is in a directory, up to the one that always is there.      *)
FileSystem(f) ==
    /\ f = [p \in DOMAIN f |-> f[p]]
    /\ DOMAIN f \subseteq Path
    /\ Kind(f, <<>>) = "dir"
    /\ \A p \in DOMAIN f :
           /\ f[p].kind \in {"dir", "file", "link"}
           /\ f[p].kind = "dir" => f[p] = Dir
           /\ f[p].kind = "link" => f[p].data \in Path
           /\ \A q \in PathsTo(p) \ {p} : Kind(f, q) = "dir"

-----------------------------------------------------------------------------
(* System calls.                                                           *)

(* The real path, every link followed; eval[n] follows links that lead to  *)
(* links, n - 1 deep.                                                      *)
EvalSymlinks(f, path) ==
    LET eval[n \in 0 .. MaxLinks] ==
            [p \in Path |->
                IF n = 0 THEN Missing
                ELSE LET real[i \in 0 .. Len(p)] ==
                             IF i = 0 THEN <<>>
                             ELSE LET q == Append(real[i - 1], p[i]) IN
                                  IF Kind(f, real[i - 1]) # "dir" \/ Kind(f, q) = "none" THEN Missing
                                  ELSE IF Kind(f, q) = "link" THEN eval[n - 1][f[q].data]
                                  ELSE q
                     IN  real[Len(p)]]
    IN  eval[MaxLinks][path]

(* The place of a path, whether there is something or not: the last name   *)
(* is not followed.                                                        *)
Place(f, path) ==
    LET parent == EvalSymlinks(f, Parent(path)) IN
    CASE path = <<>> -> <<>>
      [] path # <<>> /\ Kind(f, parent) = "dir" -> Append(parent, path[Len(path)])
      [] OTHER -> Missing

Lstat(f, path) == Kind(f, Place(f, path))

Put(f, p, node) == [q \in DOMAIN f \cup {p} |-> IF q = p THEN node ELSE f[q]]
RemoveAll(f, p) == [q \in {r \in DOMAIN f : ~within(r, p) \/ r = <<>>} |-> f[q]]

(* Every directory of a path that is missing.                              *)
MakeDirs(f, p) == [q \in DOMAIN f \cup PathsTo(p) |-> IF q \in DOMAIN f THEN f[q] ELSE Dir]
InTheWay(f, p) == {q \in PathsTo(p) : Kind(f, q) \in {"file", "link"}}

(* What a call did: whether it went well, and the file system after it.    *)
Done(f) == [err |-> "none", fs |-> f]
Failed(w) == [w EXCEPT !.err = "failed"]
Ok(w) == w.err = "none"

(* Links are followed as far as they lead to something.                    *)
MkdirAll(f, path) ==
    LET known == Longest({q \in PathsTo(path) : EvalSymlinks(f, q) # Missing})
        full == EvalSymlinks(f, known) \o Rel(path, known)
    IN  IF InTheWay(f, full) = {} THEN Done(MakeDirs(f, full)) ELSE Failed(Done(f))

rename(f, from, to) ==
    LET empty == Inside(f, to) \subseteq {to}
        fits == Kind(f, from) # "none" /\ (Kind(f, to) = "none" \/ (Kind(f, to) = Kind(f, from) /\ empty))
        g == RemoveAll(RemoveAll(f, from), to)
        h == [q \in DOMAIN g \cup {to \o Rel(m, from) : m \in Inside(f, from)} |->
                 IF within(q, to) THEN f[from \o Rel(q, to)] ELSE g[q]]
    IN  CASE from = to -> Done(f)
          [] from # to /\ fits /\ ~within(to, from) -> Done(h)
          [] OTHER -> Failed(Done(f))

-----------------------------------------------------------------------------
(* The resolution of the file service.                                     *)

(* To create a path its parent is resolved and a link in its place is      *)
(* refused; any other path is resolved as a whole.                         *)
Resolve(f, path, forCreate) ==
    LET resolved ==
            IF ~forCreate THEN EvalSymlinks(f, path)
            ELSE IF Lstat(f, path) = "link" THEN Missing ELSE Place(f, path)
    IN  IF resolved # Missing /\ within(resolved, Root) THEN resolved ELSE Missing

(* Mutant: the closest ancestor is not resolved.                           *)
authorizeByName(f, path) == within(path, Root)

(* The closest ancestor that exists lies in the root.                      *)
authorizeParent(f, path) ==
    LET closest == Longest({q \in PathsTo(Parent(path)) : Lstat(f, q) # "none"})
        resolved == EvalSymlinks(f, closest)
    IN  resolved # Missing /\ within(resolved, Root)

=============================================================================
