------------------------------ MODULE FileTrees ------------------------------
(***************************************************************************)
(* The copy and synchronisation of a tree, entry by entry, while other     *)
(* clients use Manage on the same files (agent/internal/files/files.go).   *)
(*                                                                         *)
(* A step is the work on one entry: what another process does between two  *)
(* system calls of it is not seen.  Between two entries the walk goes on   *)
(* by name: a directory that is a link by then is gone through.            *)
(***************************************************************************)
EXTENDS FileSystem, FiniteSets

CONSTANTS
    Sources,    \* paths clients name as the directory to synchronise
    Targets,    \* paths clients name as its target
    FileSystems,\* file systems to begin with
    Requests,   \* requests of the other clients
    MaxOther    \* bound on them

Creating == {"mkdir", "touch", "symlink"}
Pair == {"copy", "move", "symlink"}
Request == [action : Creating \cup Pair \cup {"delete", "truncate"}, path : Path, target : Path, recursive : BOOLEAN]

ASSUME TreeAssumption ==
    /\ Sources \subseteq Path /\ Targets \subseteq Path
    /\ \A f \in FileSystems : FileSystem(f)
    /\ Requests \subseteq Request
    /\ MaxOther \in Nat

-----------------------------------------------------------------------------
(* Manage: one request.  A path to change is resolved through links, so    *)
(* that a delete or a move of a link acts on what it points to.            *)
Manage(f, r) ==
    LET p == Resolve(f, r.path, r.action \in Creating)
        q == IF r.action \in Pair THEN Resolve(f, r.target, r.action # "symlink") ELSE <<>>
        kind == Kind(f, p)
        Do(allowed, g) == IF allowed THEN Done(g) ELSE Failed(Done(f))
    IN  IF p = Missing \/ q = Missing THEN Failed(Done(f)) ELSE
        CASE r.action = "delete" -> Do(r.recursive \/ Inside(f, p) \subseteq {p}, RemoveAll(f, p))
          [] r.action = "mkdir" -> Do(kind \in {"none", "dir"}, Put(f, p, Dir))
          [] r.action = "touch" -> Do(kind \in {"none", "file"}, IF kind = "file" THEN f ELSE Put(f, p, File(<<>>)))
          [] r.action = "truncate" -> Do(kind = "file", Put(f, p, File(<<>>)))
          [] r.action = "copy" -> Do(kind = "file" /\ Kind(f, q) # "dir", Put(f, q, f[p]))
          [] r.action = "move" -> rename(f, p, q)
          [] r.action = "symlink" -> Do(kind = "none", Put(f, p, Link(q)))

-----------------------------------------------------------------------------
(* The synchronisation.  w carries its result along: the entries that it   *)
(* deleted, by the names it used, and how often, the links it left out and *)
(* how many files and directories it made.                                 *)

NoResult == [deleted |-> {}, deletions |-> 0, skipped |-> {}, copied |-> 0, created |-> 0]

With(w, f, r) == [err |-> w.err, fs |-> f, res |-> r]
Listed(r, path) == LET once == [r EXCEPT !.deletions = @ + 1] IN [once EXCEPT !.deleted = @ \cup {path}]
Deleting(w, place, path) == With(w, RemoveAll(w.fs, place), Listed(w.res, path))
Making(w, p) == With(w, MakeDirs(w.fs, p), w.res)

(* Mutant: a file in the way is replaced without a word.                   *)
replaceQuietly(w, root, rel, replace) ==
    LET base == EvalSymlinks(w.fs, root)
        full == base \o rel
    IN  IF Kind(w.fs, base) # "dir" THEN Failed(w)
        ELSE Making([w EXCEPT !.fs = [p \in DOMAIN @ \ InTheWay(@, full) |-> @[p]]], full)

(* Every directory on the way down from the root exists, is made, or takes *)
(* the place of a file.  A link is never passed.                           *)
ensureTreeParent(w, root, rel, replace) ==
    LET base == EvalSymlinks(w.fs, root)
        full == base \o rel
        found == InTheWay(w.fs, full)
        first == CHOOSE p \in found : TRUE
    IN  IF rel = <<>> THEN w
        ELSE IF Kind(w.fs, base) # "dir" THEN Failed(w)
        ELSE IF found = {} THEN Making(w, full)
        ELSE IF Kind(w.fs, first) = "file" /\ replace
             THEN Making(Deleting(w, first, root \o Rel(first, base)), full)
        ELSE Failed(w)

(* The same walk; the result counts a directory that was made.             *)
ensureTreeDirectory(w, root, rel, replace) ==
    LET e == ensureTreeParent(w, root, rel, replace)
    IN  IF Ok(e) /\ e.fs # w.fs THEN With(e, e.fs, [e.res EXCEPT !.created = @ + 1]) ELSE e

prepareTreeFileDestination(w, root, rel, replace) ==
    LET e == ensureTreeParent(w, root, Parent(rel), replace)
        place == Place(e.fs, root \o rel)
        kind == Kind(e.fs, place)
    IN  IF ~Ok(e) THEN e
        ELSE IF place = Missing \/ kind = "link" \/ (kind = "dir" /\ ~replace) THEN Failed(e)
        ELSE IF kind = "dir" THEN Deleting(e, place, root \o rel)
        ELSE e

(* The source is looked at again, and must still be a file.  A file is     *)
(* renamed over what stands in the place, if that is not a directory.      *)
copyFileAtomic(w, from, to) ==
    LET file == Place(w.fs, from)
        place == Place(w.fs, to)
    IN  IF Ok(w) /\ Kind(w.fs, file) = "file" /\ place # Missing /\ Kind(w.fs, place) # "dir"
        THEN With(w, Put(w.fs, place, w.fs[file]), [w.res EXCEPT !.copied = @ + 1])
        ELSE Failed(w)

(* An existing target is a directory and not a link; a missing one is made *)
(* with its parents, if the closest one is in the root.                    *)
prepareTreeTarget(f, target) ==
    LET exists == Lstat(f, target) # "none"
        made == MkdirAll(f, target)
        allowed == IF exists THEN Lstat(f, target) = "dir" ELSE authorizeParent(f, target) /\ Ok(made)
        g == IF ~exists /\ allowed THEN made.fs ELSE f
        created == Resolve(g, target, TRUE)
        resolved == IF created = Missing THEN Missing ELSE Resolve(g, created, FALSE)
    IN  [fs |-> g, path |-> IF allowed /\ Kind(g, resolved) = "dir" THEN resolved ELSE Missing]

(* A directory is read by its name, through links.                         *)
ReadDir(f, path) ==
    LET real == EvalSymlinks(f, path)
    IN  {[path |-> Append(path, n), kind |-> f[Append(real, n)].kind] :
             n \in {m \in Name : Append(real, m) \in DOMAIN f}}

Earlier(m, n) == \E i, j \in DOMAIN Order : i < j /\ Order[i] = m /\ Order[j] = n
Precedes(p, q) ==
    \E i \in DOMAIN p \cap DOMAIN q : SubSeq(p, 1, i - 1) = SubSeq(q, 1, i - 1) /\ Earlier(p[i], q[i])

-----------------------------------------------------------------------------
VARIABLES
    fs,         \* the file system
    pc,         \* the synchronisation: "idle", "walk", "extras", "done" or "failed"
    delete,     \* it deletes what the source does not have
    source,     \* its resolved source
    target,     \* its resolved target
    pending,    \* entries of the walk that are still to come, as they were read
    entries,    \* entries of the source so far, relative to it
    res,        \* its result
    start,      \* history: the file system when the walk began
    touched,    \* history: paths that other clients have changed since
    strayed,    \* history: a step went by a name that led elsewhere
    others      \* requests of other clients so far

syncVars == <<pc, delete, source, target, pending, entries, res, start, strayed>>
vars == <<fs, syncVars, touched, others>>

Init ==
    /\ fs \in FileSystems
    /\ pc = "idle"
    /\ delete = FALSE
    /\ source = Missing
    /\ target = Missing
    /\ pending = {}
    /\ entries = {<<>>}
    /\ res = NoResult
    /\ start = fs
    /\ touched = {}
    /\ strayed = FALSE
    /\ others = 0

(* The part of SyncTreeWithOptions before its walk.  The overlap of source *)
(* and target is looked for before and after the target is prepared.       *)
Started(from, early, prepared, d) ==
    LET bad == from = Missing \/ Kind(fs, from) # "dir" \/ overlap(from, early)
        ok == ~bad /\ prepared.path # Missing /\ ~overlap(from, prepared.path)
    IN  /\ fs' = IF bad THEN fs ELSE prepared.fs
        /\ pc' = IF ok THEN "walk" ELSE "failed"
        /\ delete' = d
        /\ source' = IF ok THEN from ELSE Missing
        /\ target' = IF ok THEN prepared.path ELSE Missing
        /\ pending' = IF ok THEN {[path |-> from, kind |-> "dir"]} ELSE {}
        /\ start' = fs'
        /\ UNCHANGED <<entries, res, touched, strayed, others>>

Begin(s, t, d) ==
    LET early == IF Place(fs, t) = Missing THEN t ELSE Place(fs, t)
    IN  /\ pc = "idle"
        /\ Started(Resolve(fs, s, FALSE), early, prepareTreeTarget(fs, t), d)

(* The target and the entries in it are where their names say, or gone.    *)
Settled ==
    /\ target # Missing
    /\ EvalSymlinks(fs, target) \in {target, Missing}
    /\ \A e \in pending : within(e.path, target) => Place(fs, e.path) \in {e.path, Missing}

(* The first entry in lexical order is next.                               *)
Upcoming(e) == e \in pending /\ \A d \in pending : ~Precedes(d.path, e.path)

(* A step of a walk: what was done to the entry, and the entries in it, if *)
(* it is a directory to go into.  A directory that is gone is an error.    *)
Walked(w, e, into) ==
    LET ok == Ok(w) /\ (into => Kind(w.fs, EvalSymlinks(w.fs, e.path)) = "dir")
        inside == IF into THEN ReadDir(w.fs, e.path) ELSE {}
    IN  /\ fs' = w.fs
        /\ res' = w.res
        /\ pending' = IF ok THEN (pending \ {e}) \cup inside ELSE {}
        /\ pc' = IF ok THEN pc ELSE "failed"
        /\ strayed' = (strayed \/ ~Settled)
        /\ UNCHANGED <<delete, source, target, start, touched, others>>

Sync == [err |-> "none", fs |-> fs, res |-> res]

(* The walk over the source.  The kind of an entry is the one its          *)
(* directory was read with.                                                *)
Visit(e) ==
    LET rel == Rel(e.path, source)
        now == Lstat(fs, e.path)
    IN  /\ pc = "walk"
        /\ Upcoming(e)
        /\ entries' = entries \cup {rel}
        /\ \/ rel = <<>> /\ Walked(Sync, e, TRUE)
           \/ rel # <<>> /\ e.kind = "link" /\ Walked(With(Sync, fs, [res EXCEPT !.skipped = @ \cup {e.path}]), e, FALSE)
           \/ rel # <<>> /\ e.kind = "dir" /\
                  Walked(IF now = "none" THEN Failed(Sync) ELSE ensureTreeDirectory(Sync, target, rel, delete), e, TRUE)
           \/ rel # <<>> /\ e.kind = "file" /\
                  Walked(IF now # "file" THEN Failed(Sync)
                         ELSE copyFileAtomic(prepareTreeFileDestination(Sync, target, rel, delete),
                                             e.path, target \o rel), e, FALSE)

(* A copy that fails: its data cannot be written, or its directory not be  *)
(* synced, when the file is in its place already.                          *)
CopyFails(e) ==
    LET rel == Rel(e.path, source)
        ready == prepareTreeFileDestination(Sync, target, rel, delete)
        copied == copyFileAtomic(ready, e.path, target \o rel)
    IN  /\ pc = "walk"
        /\ Upcoming(e)
        /\ rel # <<>> /\ e.kind = "file" /\ Lstat(fs, e.path) = "file"
        /\ entries' = entries \cup {rel}
        /\ \/ Walked(Failed(ready), e, FALSE)
           \/ Ok(copied) /\ Walked(Failed(With(copied, copied.fs, ready.res)), e, FALSE)

(* At the end the directory of the target is synced, which may fail.       *)
Finish == pc' \in IF EvalSymlinks(fs, target) = Missing THEN {"failed"} ELSE {"done", "failed"}

EndWalk ==
    LET kind == Lstat(fs, target)
    IN  /\ pc = "walk"
        /\ pending = {}
        /\ \/ ~delete /\ Finish /\ pending' = {}
           \/ delete /\ kind = "none" /\ pc' = "failed" /\ pending' = {}
           \/ delete /\ kind # "none" /\ pc' = "extras" /\ pending' = {[path |-> target, kind |-> kind]}
        /\ UNCHANGED <<fs, delete, source, target, entries, res, start, touched, strayed, others>>

(* Mutant: only the top of the target is looked at.                        *)
deleteTopExtras(e) ==
    LET rel == Rel(e.path, target)
    IN  /\ pc = "extras"
        /\ Upcoming(e)
        /\ IF rel \in entries THEN Walked(Sync, e, rel = <<>>)
           ELSE Walked(Deleting(Sync, Place(fs, e.path), e.path), e, FALSE)
        /\ UNCHANGED entries

(* The walk over the target.  What is gone is deleted, too; where the way  *)
(* to it is no directory any more, that may be an error.                   *)
deleteTreeExtras(e) ==
    LET rel == Rel(e.path, target)
        place == Place(fs, e.path)
    IN  /\ pc = "extras"
        /\ Upcoming(e)
        /\ \/ rel \in entries /\ Walked(Sync, e, e.kind = "dir")
           \/ rel \notin entries /\ Walked(Deleting(Sync, place, e.path), e, FALSE)
           \/ rel \notin entries /\ place = Missing /\ Walked(Failed(Sync), e, FALSE)
        /\ UNCHANGED entries

EndExtras ==
    /\ pc = "extras"
    /\ pending = {}
    /\ Finish
    /\ UNCHANGED <<fs, delete, source, target, pending, entries, res, start, touched, strayed, others>>

Changed(f, g) == {p \in DOMAIN f \cup DOMAIN g : ~(p \in DOMAIN f \cap DOMAIN g /\ f[p] = g[p])}

(* Another client in the middle of a synchronisation.                      *)
Other(r) ==
    LET w == Manage(fs, r)
    IN  /\ pc \in {"walk", "extras"}
        /\ others < MaxOther
        /\ others' = others + 1
        /\ fs' = w.fs
        /\ touched' = touched \cup Changed(fs, w.fs)
        /\ UNCHANGED syncVars

Next ==
    \/ \E s \in Sources, t \in Targets, d \in BOOLEAN : Begin(s, t, d)
    \/ \E e \in pending : Visit(e) \/ CopyFails(e) \/ deleteTreeExtras(e)
    \/ EndWalk \/ EndExtras
    \/ \E r \in Requests : Other(r)

Spec == Init /\ [][Next]_vars

-----------------------------------------------------------------------------
(* A synchronisation that nobody disturbed and that reports success has    *)
(* copied every directory and every file, whatever was in their places,    *)
(* and reports exactly the links as skipped; with deletion, the target has *)
(* no entry that the source does not have (SyncTreeWithOptions).           *)
MirrorsSource ==
    pc = "done" /\ touched = {} =>
        /\ \A p \in Inside(start, source) :
               start[p].kind # "link" => LET q == target \o Rel(p, source) IN q \in DOMAIN fs /\ fs[q] = start[p]
        /\ res.skipped = {p \in Inside(start, source) : start[p].kind = "link"}
        /\ delete => \A q \in Inside(fs, target) : source \o Rel(q, target) \in DOMAIN start

(* Whether it ends well or breaks off in the middle: an entry of the       *)
(* target is gone, or of another kind, only with deletion asked for and    *)
(* only at or below a path that the result lists, once each (TreeOptions,  *)
(* "a sync cannot remove destination-only files unless the caller          *)
(* explicitly opts in").  This is as long as the names that the walk goes  *)
(* by lead where they did when it read them.                               *)
DeletionsAreListed ==
    /\ ~delete => res.deleted = {}
    /\ touched = {} => res.deletions = Cardinality(res.deleted)
    /\ target # Missing /\ ~strayed =>
           \A p \in Inside(start, target) \ touched :
               Kind(fs, p) # start[p].kind => \E d \in res.deleted : within(p, d)

(* No step changes anything outside the allowed root, although links in    *)
(* the trees point there and other clients add links, moves and copies in  *)
(* the middle of the walk (Resolve, authorizeParent, ensureTreeParent).    *)
(* The walk itself trusts its names: where another client has put a link   *)
(* in the place of a directory of the target, nothing is promised.         *)
StaysInRoot ==
    [][pc = "idle" \/ others' # others \/ Settled => \A p \in Changed(fs, fs') : within(p, Root)]_vars

=============================================================================
