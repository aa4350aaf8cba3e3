------------------------------ MODULE Archives ------------------------------
(***************************************************************************)
(* Archives and their extraction (agent/internal/files/files.go: the       *)
(* actions archive and extract of Manage), a service beside the            *)
(* synchronisation of FileTrees.  An archive is a file whose content is    *)
(* its format and its entries.  A link is stored as one, with the bytes of *)
(* what it points to: a tar refuses those, a zip cannot be extracted       *)
(* again.                                                                  *)
(***************************************************************************)
EXTENDS FileTrees, SequencesExt

CONSTANTS
    Archivable, \* paths clients make an archive of
    Archived,   \* paths and formats of archives
    ExtractTo   \* paths archives are extracted to

ASSUME ArchiveAssumption ==
    /\ Archivable \subseteq Path /\ ExtractTo \subseteq Path
    /\ \A a \in Archived : a.path \in Path /\ a.format \in {"zip", "tar"}

Base(path) == <<path[Len(path)]>>

(* The entries under a path in the order of filepath.Walk, each with the   *)
(* name it is stored under.                                                *)
walkArchive(f, from) ==
    LET walk[p \in Inside(f, from)] ==
            LET inside == SelectSeq(Order, LAMBDA n : Append(p, n) \in DOMAIN f)
                here == <<[name |-> Base(from) \o Rel(p, from), path |-> p, node |-> f[p]]>>
            IN  here \o FlattenSeq([i \in DOMAIN inside |-> walk[Append(p, inside[i])]])
    IN  walk[from]

(* The bytes of an entry are read through links.                           *)
storable(f, e, format) ==
    LET real == EvalSymlinks(f, e.path)
    IN  e.node.kind = "link" => Kind(f, real) = "file" /\ (format = "tar" => f[real].data = <<>>)

(* The archive is created, then written entry by entry, up to one that     *)
(* fails.                                                                  *)
archivePath(f, from, to, format) ==
    LET created == Put(f, to, File(<<>>))
        all == walkArchive(created, from)
        bad == {i \in DOMAIN all : ~storable(created, all[i], format)}
        last == IF bad = {} THEN Len(all) ELSE CHOOSE i \in bad : \A j \in bad : i <= j
        w == Done(Put(f, to, File(<<format, SubSeq(all, 1, last)>>)))
    IN  IF Kind(f, to) = "dir" THEN Failed(Done(f)) ELSE IF bad = {} THEN w ELSE Failed(w)

(* A file is opened through a link in its place, and made if there is      *)
(* none.                                                                   *)
WriteFile(f, path, node) ==
    LET real == EvalSymlinks(f, path)
        place == IF real # Missing THEN real
                 ELSE IF Lstat(f, path) = "link" THEN Place(f, f[Place(f, path)].data)
                 ELSE Place(f, path)
    IN  IF place # Missing /\ Kind(f, place) \in {"none", "file"}
        THEN Done(Put(f, place, node)) ELSE Failed(Done(f))

(* Mutant: links are skipped.                                              *)
extractOrSkip(w, root, e) ==
    CASE ~Ok(w) -> w
      [] Ok(w) /\ e.node.kind = "link" -> w
      [] Ok(w) /\ e.node.kind = "dir" -> MkdirAll(w.fs, root \o e.name)
      [] Ok(w) /\ e.node.kind = "file" -> WriteFile(MkdirAll(w.fs, Parent(root \o e.name)).fs, root \o e.name, e.node)

extractEntry(w, root, e) ==
    LET p == root \o e.name
        parents == MkdirAll(w.fs, Parent(p))
    IN  CASE ~Ok(w) -> w
          [] Ok(w) /\ e.node.kind = "link" -> Failed(w)
          [] Ok(w) /\ e.node.kind = "dir" -> MkdirAll(w.fs, p)
          [] Ok(w) /\ e.node.kind = "file" -> IF Ok(parents) THEN WriteFile(parents.fs, p, e.node) ELSE parents

extractPath(f, from, to) ==
    LET content == f[from].data
    IN  IF Kind(f, from) = "file" /\ Len(content) = 2
        THEN FoldLeft(LAMBDA w, e : extractEntry(w, to, e), Done(f), content[2])
        ELSE Failed(Done(f))

-----------------------------------------------------------------------------
VARIABLES
    archive,    \* the archive
    outcome,    \* how the last request ended: "none" or "failed"
    origin,     \* what the archive was made of
    unpacked,   \* where it was extracted
    saved,      \* history: the tree that the archive was made of
    before      \* history: what was in the place of it before the extraction

archiveVars == <<archive, outcome, origin, unpacked, saved, before>>
serviceVars == <<vars, archiveVars>>

Subtree(f, root) == {<<Rel(p, root), f[p]>> : p \in Inside(f, root)}

ServiceInit ==
    /\ Init
    /\ archive = [path |-> Missing, format |-> "zip"]
    /\ outcome = "none"
    /\ origin = Missing
    /\ unpacked = Missing
    /\ saved = {}
    /\ before = {}

(* No synchronisation takes part.                                          *)
NoSync == UNCHANGED <<delete, source, target, pending, entries, res, start, touched, strayed, others>>

(* An archive is not made in the tree that it stores.                      *)
Archive(s, a) ==
    LET from == Resolve(fs, s, FALSE)
        to == Resolve(fs, a.path, TRUE)
        w == archivePath(fs, from, to, a.format)
        ok == from # Missing /\ to # Missing
    IN  /\ pc = "idle"
        /\ ok => ~within(to, from)
        /\ fs' = IF ok THEN w.fs ELSE fs
        /\ outcome' = IF ok THEN w.err ELSE "failed"
        /\ pc' = "archived"
        /\ archive' = a
        /\ origin' = from
        /\ saved' = IF ok THEN Subtree(fs, from) ELSE {}
        /\ UNCHANGED <<unpacked, before>> /\ NoSync

(* Whatever became of the archive, it is extracted.                        *)
Extract(t) ==
    LET from == Resolve(fs, archive.path, FALSE)
        to == Resolve(fs, t, TRUE)
        made == MkdirAll(fs, to)
        ok == from # Missing /\ to # Missing /\ authorizeParent(fs, t)
        w == IF Ok(made) THEN extractPath(made.fs, from, to) ELSE made
    IN  /\ pc = "archived"
        /\ fs' = IF ok THEN w.fs ELSE fs
        /\ outcome' = IF ok THEN w.err ELSE "failed"
        /\ pc' = "extracted"
        /\ unpacked' = to
        /\ before' = IF ok /\ origin # Missing THEN Subtree(fs, to \o Base(origin)) ELSE {}
        /\ UNCHANGED <<archive, origin, saved>> /\ NoSync

ServiceNext ==
    \/ Next /\ UNCHANGED archiveVars
    \/ \E s \in Archivable, a \in Archived : Archive(s, a)
    \/ \E t \in ExtractTo : Extract(t)

ServiceSpec == ServiceInit /\ [][ServiceNext]_serviceVars

-----------------------------------------------------------------------------
(* What is extracted from an archive is the tree it was made of, among     *)
(* what was in its place before; an archive of a tree with a link is       *)
(* refused, at one end or the other (archivePath, extractPath).  Links     *)
(* that were in its place are another matter: entries go through them.     *)
ExtractsWhatWasStored ==
    pc = "extracted" /\ outcome = "none" /\ (\A item \in before : item[2].kind # "link") =>
        Subtree(fs, unpacked \o Base(origin)) =
            saved \cup {item \in before : \A s \in saved : s[1] # item[1]}

=============================================================================
