------------------------------ MODULE Workspace ------------------------------
(***************************************************************************)
(* The run directory as data: what archive.rs does to it (extract, flatten,  *)
(* pack) and what provenance.rs reads from it (the digests of a plan).       *)
(*                                                                         *)
(* A tree is a function from paths (sequences of names, the root left out)   *)
(* to contents; a directory has the content Dir.  An archive is a sequence   *)
(* of entries.  Limits on sizes, depths and counts, file modes and the       *)
(* compression are left out; symbolic links do not occur in a tree, since    *)
(* extraction makes none.  A digest is taken to be as good as what it was    *)
(* computed from.                                                            *)
(***************************************************************************)
EXTENDS SequencesExt

Dir == "dir"
None == "none"

\* An entry of an archive: a file, a directory, or something else (a link).
Entry(path, kind, body) == [path |-> path, kind |-> kind, body |-> body]

\* What an archive is read as: every content but that of a directory.
Entries == [path : Seq(STRING), kind : STRING, body : STRING \ {Dir}]

\* (The proof system does not know that a literal is a string.)
ASSUME LiteralsAreStrings ==
  {Dir, None, "file", ".terraform", "providers", ".terraform.lock.hcl", "terraform.tfstate"}
    \subseteq STRING

Parents(p) == Prefixes(p) \ {<<>>, p}
IsFile(tree, p) == p \in DOMAIN tree /\ tree[p] # Dir
Files(tree) == {p \in DOMAIN tree : tree[p] # Dir}

\* One tree laid over another, and a tree of one path.  (@@ and :> of the module
\* TLC are not known to the proof system.)
Over(top, tree) ==
  [p \in DOMAIN top \union DOMAIN tree |-> IF p \in DOMAIN top THEN top[p] ELSE tree[p]]
At(path, content) == [p \in {path} |-> content]

\* create_dir_all: fails at a file in the way.
MayMakeDirs(tree, dirs) == \A p \in dirs : ~IsFile(tree, p)
MakeDirs(tree, dirs) == Over(tree, [p \in dirs |-> Dir])

\* Mutant of WriteFile: the directories above it are not made.
WriteFileAlone(tree, p, body) == Over(At(p, body), tree)

WriteFile(tree, p, body) == Over(At(p, body), MakeDirs(tree, Parents(p)))

\* What a program can write files at: nothing above them is a file, and they are
\* no directories.
Writable(tree, paths) ==
  \A p \in paths : MayMakeDirs(tree, Parents(p)) /\ (p \in DOMAIN tree => IsFile(tree, p))
WriteFiles(tree, files) == Over(files, MakeDirs(tree, UNION {Parents(p) : p \in DOMAIN files}))

-----------------------------------------------------------------------------
(* extract_tar_gz_file                                                       *)

\* validate_entry_path
IsSafe(path) == ".." \notin Range(path)

Refuse(s) == [s EXCEPT !.ok = FALSE]

\* Mutant of ExtractFile: a file that is there already is overwritten.
ExtractFileOver(s, e) ==
  IF MayMakeDirs(s.tree, Parents(e.path)) /\ e.path \notin s.seen
    THEN [s EXCEPT !.tree = WriteFile(s.tree, e.path, e.body),
                   !.seen = @ \union {e.path}]
    ELSE Refuse(s)

ExtractFile(s, e) ==
  IF /\ MayMakeDirs(s.tree, Parents(e.path))
     /\ e.path \notin s.seen
     /\ e.path \notin DOMAIN s.tree
    THEN [s EXCEPT !.tree = WriteFile(s.tree, e.path, e.body),
                   !.seen = @ \union {e.path}]
    ELSE Refuse(s)

ExtractDirectory(s, e) ==
  LET dirs == Parents(e.path) \union {e.path}
  IN  IF MayMakeDirs(s.tree, dirs) /\ e.path \notin s.seen
        THEN [s EXCEPT !.tree = MakeDirs(s.tree, dirs), !.seen = @ \union {e.path}]
        ELSE Refuse(s)

\* One turn of the loop over the entries, in the order of its checks.  What an
\* error leaves behind is removed with the run directory.
ExtractEntry(s, e) ==
  CASE ~s.ok -> s
    [] s.ok /\ ~IsSafe(e.path) -> Refuse(s)
    [] s.ok /\ e.path = <<>> -> s
    [] s.ok /\ e.path # <<>> /\ IsSafe(e.path) ->
         CASE e.kind = "dir" -> ExtractDirectory(s, e)
           [] e.kind = "file" -> ExtractFile(s, e)
           [] OTHER -> Refuse(s)

\* after[n]: the run directory after n entries.
Extract(archive, tree) ==
  LET after[n \in 0..Len(archive)] ==
        IF n = 0 THEN [tree |-> tree, seen |-> {}, ok |-> TRUE]
                 ELSE ExtractEntry(after[n - 1], archive[n])
  IN  after[Len(archive)]

\* flatten_single_directory: the content of a directory that is alone in the
\* tree moves up, unless it contains something of its own name.
Flatten(tree) ==
  LET roots == {p \in DOMAIN tree : Len(p) = 1}
      alone == CHOOSE p \in roots : TRUE
      below == {Tail(p) : p \in DOMAIN tree \ {alone}}
  IN  CASE Cardinality(roots) # 1 \/ Files(tree) \intersect roots # {} ->
             [ok |-> TRUE, tree |-> tree]
        [] OTHER ->
             [ok |-> alone \notin below, tree |-> [p \in below |-> tree[alone \o p]]]

-----------------------------------------------------------------------------
(* pack_tar_gz_file                                                          *)

\* is_excluded: the credentials and the run's own temporary files.
IsExcluded(p) == p[1] \in {"secrets", "tmp"}

\* The walk lists a directory before what is in it: next always comes a path with
\* no other one left above it.  (By name, in the code; Extract does not care.)
NextPath(paths) == CHOOSE p \in paths : Parents(p) \intersect paths = {}
Walk(paths) ==
  LET walk[n \in 0..Cardinality(paths)] ==
        IF n = 0 THEN <<>> ELSE Append(walk[n - 1], NextPath(paths \ Range(walk[n - 1])))
  IN  walk[Cardinality(paths)]

Pack(tree) ==
  LET paths == Walk({p \in DOMAIN tree : ~IsExcluded(p)})
  IN  [i \in 1..Len(paths) |->
         IF tree[paths[i]] = Dir THEN Entry(paths[i], "dir", None)
                                 ELSE Entry(paths[i], "file", tree[paths[i]])]

-----------------------------------------------------------------------------
(* The digests of provenance.rs                                              *)

Digest(tree, paths) == [p \in paths |-> tree[p]]

Providers(dir) == dir \o <<".terraform", "providers">>

\* excluded_snapshot_path; the manifest is kept beside the tree in this model.
IsUndigested(p) == IsExcluded(p) \/ IsPrefix(Providers(<<>>), p)

SnapshotDigest(tree) == Digest(tree, {p \in Files(tree) : ~IsUndigested(p)})

ProviderDigests(tree, dir) ==
  Digest(tree, {p \in Files(tree) : IsPrefix(Providers(dir), p)})

FileDigest(tree, p) == IF IsFile(tree, p) THEN tree[p] ELSE None

LockDigest(tree, dir) == FileDigest(tree, dir \o <<".terraform.lock.hcl">>)

\* input_state_digest looks in two places.
StateDigest(tree, dir) ==
  LET p == dir \o <<"terraform.tfstate">>
  IN  IF IsFile(tree, p) THEN tree[p]
      ELSE FileDigest(tree, dir \o <<".terraform", "terraform.tfstate">>)

-----------------------------------------------------------------------------
(* What extraction is to do, without an order                                *)

\* The paths of the entries that are not skipped, and those of their files.
Named(archive) == {archive[i].path : i \in DOMAIN archive} \ {<<>>}
NamedFiles(archive) ==
  {archive[i].path : i \in {j \in DOMAIN archive : archive[j].kind = "file"}} \ {<<>>}

\* Every entry is a file or a directory at a safe path, none is named twice,
\* and with what is in the tree no path is a file and something else.
Extractable(archive, tree) ==
  /\ \A i \in DOMAIN archive :
       /\ IsSafe(archive[i].path)
       /\ archive[i].path # <<>> => archive[i].kind \in {"file", "dir"}
       /\ \A j \in DOMAIN archive :
            archive[i].path = archive[j].path => i = j \/ archive[i].path = <<>>
  /\ NamedFiles(archive) \intersect DOMAIN tree = {}
  /\ Named(archive) \intersect Files(tree) = {}
  /\ \A p \in Named(archive) :
       Parents(p) \intersect (NamedFiles(archive) \union Files(tree)) = {}

Extracted(archive, tree) ==
  LET dirs == Named(archive) \union UNION {Parents(p) : p \in Named(archive)}
      files == NamedFiles(archive)
      Body(p) == (CHOOSE i \in DOMAIN archive : archive[i].path = p)
  IN  [p \in DOMAIN tree \union dirs |->
         IF p \in files THEN archive[Body(p)].body
         ELSE IF p \in DOMAIN tree THEN tree[p] ELSE Dir]
=============================================================================
