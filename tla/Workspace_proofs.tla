--------------------------- MODULE Workspace_proofs ---------------------------
(***************************************************************************)
(* Proofs about Workspace, for archives of any length and trees of any size: *)
(* extraction makes exactly what an archive names, and a run directory that  *)
(* was packed comes back as it was.                                          *)
(*                                                                         *)
(* The recursions of Extract and Walk are unfolded by induction over Nat in  *)
(* the form of NatSetInduction, which speaks of a set instead of a predicate.*)
(***************************************************************************)
EXTENDS Workspace, SequenceTheorems, FiniteSetTheorems, FunctionTheorems,
        WellFoundedInduction, TLAPS

-----------------------------------------------------------------------------
(* Induction                                                                 *)

\* A set that contains 0 and every successor of its elements contains Nat.
LEMMA NatSetInduction ==
  ASSUME NEW I, 0 \in I, \A n \in Nat : n \in I => n + 1 \in I
  PROVE  Nat \subseteq I
<1> DEFINE T == Nat \ I
<1>1. SUFFICES ASSUME T # {} PROVE FALSE
  OBVIOUS
<1>2. PICK x \in T : \A y \in T : ~ (<<y, x>> \in OpToRel(<, Nat))
  <2>1. T \subseteq Nat
    OBVIOUS
  <2> HIDE DEF T
  <2> QED
    BY <1>1, <2>1, WFMin, NatLessThanWellFounded
<1>3. \A y \in T : ~(y < x)
  BY <1>2 DEF OpToRel
<1>4. x # 0 /\ x - 1 \in Nat /\ x - 1 \notin T
  BY <1>3
<1> QED
  BY <1>4

\* The same up to a bound.
LEMMA UpToInduction ==
  ASSUME NEW N \in Nat, NEW I, 0 \in I, \A n \in 0..N : n # N /\ n \in I => n + 1 \in I
  PROVE  0..N \subseteq I
<1> DEFINE J == I \union {n \in Nat : n > N}
<1>1. 0 \in J
  OBVIOUS
<1>2. ASSUME NEW n \in Nat, n \in J PROVE n + 1 \in J
  <2>1. CASE n < N
    BY <1>2, <2>1
  <2>2. CASE n >= N
    BY <2>2
  <2> QED
    BY <2>1, <2>2
<1> HIDE DEF J
<1>3. Nat \subseteq J
  BY <1>1, <1>2, NatSetInduction
<1> QED
  BY <1>3 DEF J

-----------------------------------------------------------------------------
(* Writing                                                                   *)

IsFunction(f) == f = [p \in DOMAIN f |-> f[p]]

LaidOver(w, f, g) ==
  /\ DOMAIN w = DOMAIN f \union DOMAIN g
  /\ IsFunction(w)
  /\ \A p \in DOMAIN f : w[p] = f[p]
  /\ \A p \in DOMAIN g \ DOMAIN f : w[p] = g[p]

\* Over lays one tree over another.
LEMMA OverIs ==
  ASSUME NEW f, NEW g
  PROVE  LaidOver(Over(f, g), f, g)
BY DEF Over, IsFunction, LaidOver

\* What a directory tree is once directories are made, or a file is written, in t.
WithDirs(w, t, dirs) ==
  /\ DOMAIN w = DOMAIN t \union dirs
  /\ IsFunction(w)
  /\ \A p \in DOMAIN t : w[p] = t[p]
  /\ \A p \in dirs \ DOMAIN t : w[p] = Dir

WithFile(w, t, p, body) ==
  /\ DOMAIN w = {p} \union DOMAIN t \union Parents(p)
  /\ IsFunction(w)
  /\ w[p] = body
  /\ \A q \in DOMAIN t \ {p} : w[q] = t[q]
  /\ \A q \in Parents(p) \ (DOMAIN t \union {p}) : w[q] = Dir

\* And that is what MakeDirs returns.
LEMMA MakeDirsIs ==
  ASSUME NEW t, NEW dirs
  PROVE  WithDirs(MakeDirs(t, dirs), t, dirs)
BY DEF MakeDirs, Over, IsFunction, WithDirs

\* And WriteFile.
LEMMA WriteFileIs ==
  ASSUME NEW t, NEW p, NEW body
  PROVE  WithFile(WriteFile(t, p, body), t, p, body)
<1> DEFINE d == MakeDirs(t, Parents(p))
<1>1. WriteFile(t, p, body) = Over(At(p, body), d)
  BY DEF WriteFile
<1>2. DOMAIN At(p, body) = {p} /\ At(p, body)[p] = body
  BY DEF At
<1>3. /\ DOMAIN d = DOMAIN t \union Parents(p)
      /\ \A q \in DOMAIN t : d[q] = t[q]
      /\ \A q \in Parents(p) \ DOMAIN t : d[q] = Dir
  BY MakeDirsIs DEF WithDirs
<1> DEFINE w == Over(At(p, body), d)
<1>4. /\ DOMAIN w = DOMAIN At(p, body) \union DOMAIN d
      /\ IsFunction(w)
      /\ \A q \in DOMAIN At(p, body) : w[q] = At(p, body)[q]
      /\ \A q \in DOMAIN d \ DOMAIN At(p, body) : w[q] = d[q]
  <2>1. LaidOver(w, At(p, body), d)
    BY OverIs
  <2> HIDE DEF d, w
  <2> QED
    BY <2>1 DEF LaidOver
<1> HIDE DEF d, w
<1> QED
  BY <1>1, <1>2, <1>3, <1>4 DEF w, WithFile

-----------------------------------------------------------------------------
(* Extraction                                                                *)

\* The loop of Extract, step by step.
LEMMA ExtractRuns ==
  ASSUME NEW archive, NEW tree, Len(archive) \in Nat
  PROVE  \E after :
           /\ Extract(archive, tree) = after[Len(archive)]
           /\ after[0] = [tree |-> tree, seen |-> {}, ok |-> TRUE]
           /\ \A n \in 1..Len(archive) : after[n] = ExtractEntry(after[n - 1], archive[n])
<1> DEFINE N == Len(archive)
           first == [tree |-> tree, seen |-> {}, ok |-> TRUE]
           IsRun(g, m) == g = [n \in 0..m |-> IF n = 0 THEN first
                                             ELSE ExtractEntry(g[n - 1], archive[n])]
           I == {m \in Nat : \E g : IsRun(g, m)}
<1>1. 0 \in I
  <2>1. IsRun([n \in 0..0 |-> first], 0)
    OBVIOUS
  <2> QED
    BY <2>1
<1>2. ASSUME NEW m \in Nat, m \in I PROVE m + 1 \in I
  <2>1. PICK g : IsRun(g, m)
    BY <1>2
  <2> DEFINE h == [n \in 0..(m + 1) |-> IF n = m + 1 THEN ExtractEntry(g[m], archive[m + 1])
                                                     ELSE g[n]]
  <2>2. IsRun(h, m + 1)
    <3> SUFFICES ASSUME NEW n \in 0..(m + 1)
                 PROVE  h[n] = IF n = 0 THEN first ELSE ExtractEntry(h[n - 1], archive[n])
      OBVIOUS
    <3>1. CASE n = m + 1
      BY <3>1
    <3>2. CASE n \in 0..m
      <4>1. g[n] = IF n = 0 THEN first ELSE ExtractEntry(g[n - 1], archive[n])
        BY <2>1, <3>2
      <4>2. n # 0 => n - 1 \in 0..m
        BY <3>2
      <4> QED
        BY <3>2, <4>1, <4>2
    <3> QED
      BY <3>1, <3>2
  <2> HIDE DEF h
  <2>3. \E f : IsRun(f, m + 1)
    BY <2>2
  <2>4. m + 1 \in Nat
    OBVIOUS
  <2> HIDE DEF IsRun
  <2> QED
    BY <2>3, <2>4
<1>3. N \in I
  <2> HIDE DEF I
  <2> QED
    BY <1>1, <1>2, NatSetInduction
<1>4. \E g : IsRun(g, N)
  BY <1>3
<1> DEFINE after == CHOOSE g : g = [n \in 0..Len(archive) |->
                                     IF n = 0 THEN [tree |-> tree, seen |-> {}, ok |-> TRUE]
                                              ELSE ExtractEntry(g[n - 1], archive[n])]
<1>5. IsRun(after, N)
  BY <1>4
<1>6. Extract(archive, tree) = after[N]
  BY DEF Extract
<1> HIDE DEF after
<1>7. after[0] = first
  BY <1>5
<1>8. ASSUME NEW n \in 1..N PROVE after[n] = ExtractEntry(after[n - 1], archive[n])
  <2>1. n \in 0..N /\ n # 0
    OBVIOUS
  <2> QED
    BY <1>5, <2>1
<1> QED
  BY <1>6, <1>7, <1>8

\* What the first n entries of an archive name, and whether they can be unpacked.
NamedBy(archive, n) == {archive[i].path : i \in 1..n} \ {<<>>}
FilesBy(archive, n) ==
  {archive[i].path : i \in {j \in 1..n : archive[j].kind = "file"}} \ {<<>>}
ExtractableBy(archive, n, tree) ==
  /\ \A i \in 1..n :
       /\ IsSafe(archive[i].path)
       /\ archive[i].path # <<>> => archive[i].kind \in {"file", "dir"}
       /\ \A j \in 1..n : archive[i].path = archive[j].path => i = j \/ archive[i].path = <<>>
  /\ FilesBy(archive, n) \intersect DOMAIN tree = {}
  /\ NamedBy(archive, n) \intersect Files(tree) = {}
  /\ \A p \in NamedBy(archive, n) :
       Parents(p) \intersect (FilesBy(archive, n) \union Files(tree)) = {}

\* Paths with what leads to them.
Covered(paths) == paths \union UNION {Parents(p) : p \in paths}

\* What is covered by one path more.
LEMMA CoveredIs ==
  ASSUME NEW A
  PROVE  /\ A \subseteq Covered(A)
         /\ \A q : q \in Covered(A) <=> q \in A \/ \E p \in A : q \in Parents(p)
         /\ \A x : Covered(A \union {x}) = Covered(A) \union Parents(x) \union {x}
BY DEF Covered

\* What the loop has made of them.
Made(archive, n, tree, s) ==
  /\ s.seen = NamedBy(archive, n)
  /\ DOMAIN s.tree = DOMAIN tree \union Covered(NamedBy(archive, n))
  /\ IsFunction(s.tree)
  /\ \A i \in 1..n : archive[i].path # <<>> /\ archive[i].kind = "file"
                       => s.tree[archive[i].path] = archive[i].body
  /\ \A p \in DOMAIN tree : s.tree[p] = tree[p]
  /\ \A p \in DOMAIN s.tree \ (DOMAIN tree \union FilesBy(archive, n)) : s.tree[p] = Dir

Reached(archive, n, tree, s) ==
  /\ s = [tree |-> s.tree, seen |-> s.seen, ok |-> s.ok]
  /\ s.ok \in BOOLEAN /\ (s.ok <=> ExtractableBy(archive, n, tree))
  /\ s.ok => Made(archive, n, tree, s)

\* A content that is not a directory's is a file's.
LEMMA FilesMade ==
  ASSUME NEW archive, NEW n \in Nat, NEW tree, NEW s, Made(archive, n, tree, s),
         ExtractableBy(archive, n, tree),
         \A i \in 1..n : archive[i].body # Dir
  PROVE  Files(s.tree) = Files(tree) \union FilesBy(archive, n)
<1>1. ASSUME NEW p \in FilesBy(archive, n) PROVE p \in Files(s.tree)
  <2>1. PICK i \in 1..n : archive[i].kind = "file" /\ archive[i].path = p /\ p # <<>>
    BY <1>1 DEF FilesBy
  <2>2. p \in NamedBy(archive, n)
    BY <2>1 DEF NamedBy
  <2>3. p \in DOMAIN s.tree
    BY <2>2, CoveredIs DEF Made
  <2>4. s.tree[p] = archive[i].body
    BY <2>1 DEF Made
  <2> QED
    BY <2>3, <2>4 DEF Files
<1>2. Files(tree) \subseteq Files(s.tree)
  BY DEF Made, Files
<1>3. Files(s.tree) \subseteq Files(tree) \union FilesBy(archive, n)
  BY DEF Made, Files
<1> QED
  BY <1>1, <1>2, <1>3

\* One more entry.
LEMMA OneMore ==
  ASSUME NEW archive, NEW n \in Nat
  PROVE  /\ archive[n + 1].path # <<>> =>
              NamedBy(archive, n + 1) = NamedBy(archive, n) \union {archive[n + 1].path}
         /\ archive[n + 1].path = <<>> => NamedBy(archive, n + 1) = NamedBy(archive, n)
         /\ archive[n + 1].path # <<>> /\ archive[n + 1].kind = "file" =>
              FilesBy(archive, n + 1) = FilesBy(archive, n) \union {archive[n + 1].path}
         /\ archive[n + 1].path = <<>> \/ archive[n + 1].kind # "file" =>
              FilesBy(archive, n + 1) = FilesBy(archive, n)
<1>1. 1..(n + 1) = 1..n \union {n + 1}
  OBVIOUS
<1> QED
  BY <1>1 DEF NamedBy, FilesBy

\* What can be unpacked with one more entry can be unpacked without it.
LEMMA FewerAreExtractable ==
  ASSUME NEW archive, NEW n \in Nat, NEW tree, ExtractableBy(archive, n + 1, tree)
  PROVE  ExtractableBy(archive, n, tree)
<1>1. 1..n \subseteq 1..(n + 1)
  OBVIOUS
<1>2. NamedBy(archive, n) \subseteq NamedBy(archive, n + 1)
      /\ FilesBy(archive, n) \subseteq FilesBy(archive, n + 1)
  BY <1>1 DEF NamedBy, FilesBy
<1>3. \A i \in 1..n :
       /\ IsSafe(archive[i].path)
       /\ archive[i].path # <<>> => archive[i].kind \in {"file", "dir"}
       /\ \A j \in 1..n : archive[i].path = archive[j].path => i = j \/ archive[i].path = <<>>
  BY <1>1 DEF ExtractableBy
<1>4. /\ FilesBy(archive, n) \intersect DOMAIN tree = {}
      /\ NamedBy(archive, n) \intersect Files(tree) = {}
  BY <1>2 DEF ExtractableBy
<1>5. ASSUME NEW p \in NamedBy(archive, n)
      PROVE  Parents(p) \intersect (FilesBy(archive, n) \union Files(tree)) = {}
  BY <1>2 DEF ExtractableBy
<1> QED
  BY <1>3, <1>4, <1>5 DEF ExtractableBy

\* The three ways of one turn of the loop.
LEMMA SkippedTurn ==
  ASSUME NEW archive, NEW n \in Nat, NEW tree, NEW s, Reached(archive, n, tree, s), s.ok,
         archive[n + 1].path = <<>>, IsSafe(archive[n + 1].path)
  PROVE  Reached(archive, n + 1, tree, s)
<1>1. NamedBy(archive, n + 1) = NamedBy(archive, n) /\ FilesBy(archive, n + 1) = FilesBy(archive, n)
  BY OneMore
<1>2. \A i \in 1..(n + 1) : i \in 1..n \/ i = n + 1
  OBVIOUS
<1>3. ExtractableBy(archive, n, tree) /\ Made(archive, n, tree, s)
  BY DEF Reached
<1>4. ExtractableBy(archive, n + 1, tree)
  <2>1. ASSUME NEW i \in 1..(n + 1)
        PROVE  /\ IsSafe(archive[i].path)
               /\ archive[i].path # <<>> => archive[i].kind \in {"file", "dir"}
               /\ \A j \in 1..(n + 1) :
                    archive[i].path = archive[j].path => i = j \/ archive[i].path = <<>>
    BY <1>2, <1>3 DEF ExtractableBy
  <2> QED
    BY <1>1, <1>3, <2>1 DEF ExtractableBy
<1>5. Made(archive, n + 1, tree, s)
  BY <1>1, <1>2, <1>3 DEF Made
<1> QED
  BY <1>4, <1>5 DEF Reached

\* A turn for a directory makes it, or refuses.
LEMMA DirectoryTurn ==
  ASSUME NEW archive, NEW n \in Nat, NEW tree, NEW s, Reached(archive, n, tree, s), s.ok,
         \A i \in 1..(n + 1) : archive[i].body # Dir,
         archive[n + 1].path # <<>>, IsSafe(archive[n + 1].path), archive[n + 1].kind = "dir"
  PROVE  Reached(archive, n + 1, tree, ExtractDirectory(s, archive[n + 1]))
<1> DEFINE e == archive[n + 1]
           above == Parents(e.path) \union {e.path}
           may == MayMakeDirs(s.tree, above) /\ e.path \notin s.seen
           made == MakeDirs(s.tree, above)
           r == ExtractDirectory(s, e)
<1>1. /\ NamedBy(archive, n + 1) = NamedBy(archive, n) \union {e.path}
      /\ FilesBy(archive, n + 1) = FilesBy(archive, n)
  BY OneMore
<1>2. \A i \in 1..(n + 1) : i \in 1..n \/ i = n + 1
  OBVIOUS
<1>3. /\ ExtractableBy(archive, n, tree) /\ Made(archive, n, tree, s)
      /\ s = [tree |-> s.tree, seen |-> s.seen, ok |-> s.ok]
  BY DEF Reached
<1>4. Files(s.tree) = Files(tree) \union FilesBy(archive, n)
  BY <1>3, FilesMade
<1>5. may <=> ExtractableBy(archive, n + 1, tree)
  <2>1. may <=> above \intersect Files(s.tree) = {} /\ e.path \notin NamedBy(archive, n)
    BY <1>3 DEF MayMakeDirs, IsFile, Files, Made
  <2>2. ASSUME ExtractableBy(archive, n + 1, tree) PROVE may
    <3>1. e.path \notin NamedBy(archive, n)
      BY <1>2, <2>2 DEF ExtractableBy, NamedBy
    <3>2. e.path \notin Files(tree) /\ Parents(e.path) \intersect (FilesBy(archive, n) \union Files(tree)) = {}
      BY <1>1, <2>2 DEF ExtractableBy
    <3>3. FilesBy(archive, n) \subseteq NamedBy(archive, n)
      BY DEF FilesBy, NamedBy
    <3> QED
      BY <1>4, <2>1, <3>1, <3>2, <3>3
  <2>3. ASSUME may PROVE ExtractableBy(archive, n + 1, tree)
    <3>1. above \intersect (Files(tree) \union FilesBy(archive, n)) = {} /\ e.path \notin NamedBy(archive, n)
      BY <1>4, <2>1, <2>3
    <3>2. \A i \in 1..n : archive[i].path # e.path
      BY <3>1 DEF NamedBy
    <3>3. ASSUME NEW i \in 1..(n + 1)
          PROVE  /\ IsSafe(archive[i].path)
                 /\ archive[i].path # <<>> => archive[i].kind \in {"file", "dir"}
                 /\ \A j \in 1..(n + 1) :
                      archive[i].path = archive[j].path => i = j \/ archive[i].path = <<>>
      BY <1>2, <1>3, <3>2 DEF ExtractableBy
    <3>4. /\ FilesBy(archive, n + 1) \intersect DOMAIN tree = {}
          /\ NamedBy(archive, n + 1) \intersect Files(tree) = {}
      BY <1>1, <1>3, <3>1 DEF ExtractableBy
    <3>5. ASSUME NEW p \in NamedBy(archive, n + 1)
          PROVE  Parents(p) \intersect (FilesBy(archive, n + 1) \union Files(tree)) = {}
      BY <1>1, <1>3, <3>1 DEF ExtractableBy
    <3> QED
      BY <3>3, <3>4, <3>5 DEF ExtractableBy
  <2> QED
    BY <2>2, <2>3
<1>6. CASE ~may
  <2>1. r = Refuse(s)
    BY <1>6 DEF ExtractDirectory
  <2>2. r = [tree |-> s.tree, seen |-> s.seen, ok |-> FALSE]
    BY <1>3, <2>1 DEF Refuse
  <2>3. ~ExtractableBy(archive, n + 1, tree)
    BY <1>5, <1>6
  <2> HIDE DEF r, may
  <2>4. Reached(archive, n + 1, tree, r)
    BY <2>2, <2>3 DEF Reached
  <2> QED
    BY <2>4 DEF r
<1>7. CASE may
  <2>1. r = [s EXCEPT !.tree = made, !.seen = @ \union {e.path}]
    BY <1>7 DEF ExtractDirectory
  <2>2. r = [tree |-> made, seen |-> s.seen \union {e.path}, ok |-> s.ok]
    BY <1>3, <2>1
  <2>3. /\ DOMAIN made = DOMAIN s.tree \union above
        /\ IsFunction(made)
        /\ \A p \in DOMAIN s.tree : made[p] = s.tree[p]
        /\ \A p \in above \ DOMAIN s.tree : made[p] = Dir
    <3>1. WithDirs(made, s.tree, above)
      BY MakeDirsIs
    <3> HIDE DEF made, above
    <3> QED
      BY <3>1 DEF WithDirs
  <2>4. Made(archive, n + 1, tree, [tree |-> made, seen |-> s.seen \union {e.path}, ok |-> s.ok])
    <3> HIDE DEF made, may, r
    <3>1. /\ s.seen = NamedBy(archive, n)
          /\ DOMAIN s.tree = DOMAIN tree \union Covered(NamedBy(archive, n))
          /\ \A p \in DOMAIN tree : s.tree[p] = tree[p]
          /\ \A p \in DOMAIN s.tree \ (DOMAIN tree \union FilesBy(archive, n)) : s.tree[p] = Dir
      BY <1>3 DEF Made
    <3>2. s.seen \union {e.path} = NamedBy(archive, n + 1)
      BY <1>1, <3>1
    <3>3. DOMAIN made = DOMAIN tree \union Covered(NamedBy(archive, n + 1))
      BY <1>1, <2>3, <3>1, CoveredIs
    <3>4. ASSUME NEW i \in 1..(n + 1), archive[i].path # <<>>, archive[i].kind = "file"
          PROVE  made[archive[i].path] = archive[i].body
      <4>1. i \in 1..n
        BY <1>2, <3>4
      <4>2. archive[i].path \in NamedBy(archive, n) /\ s.tree[archive[i].path] = archive[i].body
        BY <1>3, <3>4, <4>1 DEF Made, NamedBy
      <4> QED
        BY <2>3, <3>1, <4>2, CoveredIs
    <3>5. \A p \in DOMAIN tree : made[p] = tree[p]
      BY <2>3, <3>1
    <3>6. \A p \in DOMAIN made \ (DOMAIN tree \union FilesBy(archive, n + 1)) : made[p] = Dir
      BY <1>1, <2>3, <3>1
    <3> QED
      BY <2>3, <3>2, <3>3, <3>4, <3>5, <3>6 DEF Made
  <2>5. ExtractableBy(archive, n + 1, tree)
    BY <1>5, <1>7
  <2> HIDE DEF made, may, r
  <2>6. Reached(archive, n + 1, tree, r)
    BY <2>2, <2>4, <2>5 DEF Reached
  <2> QED
    BY <2>6 DEF r
<1> QED
  BY <1>6, <1>7

\* A turn for a file writes it, or refuses.
LEMMA FileTurn ==
  ASSUME NEW archive, NEW n \in Nat, NEW tree, NEW s, Reached(archive, n, tree, s), s.ok,
         \A i \in 1..(n + 1) : archive[i].body # Dir,
         archive[n + 1].path # <<>>, IsSafe(archive[n + 1].path), archive[n + 1].kind = "file"
  PROVE  Reached(archive, n + 1, tree, ExtractFile(s, archive[n + 1]))
<1> DEFINE e == archive[n + 1]
           above == Parents(e.path)
           may == MayMakeDirs(s.tree, above) /\ e.path \notin s.seen /\ e.path \notin DOMAIN s.tree
           made == WriteFile(s.tree, e.path, e.body)
           r == ExtractFile(s, e)
<1>1. /\ NamedBy(archive, n + 1) = NamedBy(archive, n) \union {e.path}
      /\ FilesBy(archive, n + 1) = FilesBy(archive, n) \union {e.path}
  BY OneMore
<1>2. \A i \in 1..(n + 1) : i \in 1..n \/ i = n + 1
  OBVIOUS
<1>3. /\ ExtractableBy(archive, n, tree) /\ Made(archive, n, tree, s)
      /\ s = [tree |-> s.tree, seen |-> s.seen, ok |-> s.ok]
  BY DEF Reached
<1>4. Files(s.tree) = Files(tree) \union FilesBy(archive, n)
  BY <1>3, FilesMade
<1>5. e.path \notin above
  BY DEF Parents
<1>6. /\ s.seen = NamedBy(archive, n)
      /\ DOMAIN s.tree = DOMAIN tree \union Covered(NamedBy(archive, n))
      /\ \A p \in DOMAIN tree : s.tree[p] = tree[p]
      /\ \A p \in DOMAIN s.tree \ (DOMAIN tree \union FilesBy(archive, n)) : s.tree[p] = Dir
  BY <1>3 DEF Made
<1>7. may <=> ExtractableBy(archive, n + 1, tree)
  <2>1. may <=> /\ above \intersect Files(s.tree) = {}
                /\ e.path \notin NamedBy(archive, n)
                /\ e.path \notin DOMAIN tree
                /\ e.path \notin Covered(NamedBy(archive, n))
    BY <1>6 DEF MayMakeDirs, IsFile, Files
  <2>2. ASSUME ExtractableBy(archive, n + 1, tree) PROVE may
    <3>1. e.path \notin NamedBy(archive, n)
      BY <1>2, <2>2 DEF ExtractableBy, NamedBy
    <3>2. /\ e.path \notin DOMAIN tree
          /\ Parents(e.path) \intersect (FilesBy(archive, n) \union Files(tree)) = {}
          /\ \A p \in NamedBy(archive, n) : e.path \notin Parents(p)
      BY <1>1, <2>2 DEF ExtractableBy
    <3>3. e.path \notin Covered(NamedBy(archive, n))
      BY <3>1, <3>2, CoveredIs
    <3> QED
      BY <1>4, <2>1, <3>1, <3>2, <3>3
  <2>3. ASSUME may PROVE ExtractableBy(archive, n + 1, tree)
    <3>1. /\ above \intersect (Files(tree) \union FilesBy(archive, n)) = {}
          /\ e.path \notin NamedBy(archive, n) /\ e.path \notin DOMAIN tree
          /\ \A p \in NamedBy(archive, n) : e.path \notin Parents(p)
      <4>1. \A p \in NamedBy(archive, n) : e.path \notin Parents(p)
        BY <2>1, <2>3, CoveredIs
      <4> QED
        BY <1>4, <2>1, <2>3, <4>1
    <3>2. \A i \in 1..n : archive[i].path # e.path
      BY <3>1 DEF NamedBy
    <3>3. ASSUME NEW i \in 1..(n + 1)
          PROVE  /\ IsSafe(archive[i].path)
                 /\ archive[i].path # <<>> => archive[i].kind \in {"file", "dir"}
                 /\ \A j \in 1..(n + 1) :
                      archive[i].path = archive[j].path => i = j \/ archive[i].path = <<>>
      BY <1>2, <1>3, <3>2 DEF ExtractableBy
    <3>4. /\ FilesBy(archive, n + 1) \intersect DOMAIN tree = {}
          /\ NamedBy(archive, n + 1) \intersect Files(tree) = {}
      BY <1>1, <1>3, <3>1 DEF ExtractableBy, Files
    <3>5. ASSUME NEW p \in NamedBy(archive, n + 1)
          PROVE  Parents(p) \intersect (FilesBy(archive, n + 1) \union Files(tree)) = {}
      <4>1. CASE p = e.path
        BY <1>1, <1>5, <3>1, <4>1
      <4>2. CASE p \in NamedBy(archive, n)
        BY <1>1, <1>3, <3>1, <4>2 DEF ExtractableBy
      <4> QED
        BY <1>1, <4>1, <4>2
    <3> QED
      BY <3>3, <3>4, <3>5 DEF ExtractableBy
  <2> QED
    BY <2>2, <2>3
<1>8. CASE ~may
  <2>1. r = Refuse(s)
    BY <1>8 DEF ExtractFile
  <2>2. r = [tree |-> s.tree, seen |-> s.seen, ok |-> FALSE]
    BY <1>3, <2>1 DEF Refuse
  <2>3. ~ExtractableBy(archive, n + 1, tree)
    BY <1>7, <1>8
  <2> HIDE DEF r, may
  <2>4. Reached(archive, n + 1, tree, r)
    BY <2>2, <2>3 DEF Reached
  <2> QED
    BY <2>4 DEF r
<1>9. CASE may
  <2>1. r = [s EXCEPT !.tree = made, !.seen = @ \union {e.path}]
    BY <1>9 DEF ExtractFile
  <2>2. r = [tree |-> made, seen |-> s.seen \union {e.path}, ok |-> s.ok]
    BY <1>3, <2>1
  <2>3. /\ DOMAIN made = {e.path} \union DOMAIN s.tree \union above
        /\ IsFunction(made)
        /\ made[e.path] = e.body
        /\ \A p \in DOMAIN s.tree \ {e.path} : made[p] = s.tree[p]
        /\ \A p \in above \ (DOMAIN s.tree \union {e.path}) : made[p] = Dir
    <3>1. WithFile(made, s.tree, e.path, e.body)
      BY WriteFileIs
    <3> HIDE DEF made
    <3> QED
      BY <3>1 DEF WithFile
  <2>4. Made(archive, n + 1, tree, [tree |-> made, seen |-> s.seen \union {e.path}, ok |-> s.ok])
    <3>0. e.path \notin DOMAIN s.tree
      BY <1>9
    <3> HIDE DEF made, may, r
    <3>2. s.seen \union {e.path} = NamedBy(archive, n + 1)
      BY <1>1, <1>6
    <3>3. DOMAIN made = DOMAIN tree \union Covered(NamedBy(archive, n + 1))
      BY <1>1, <2>3, <1>6, CoveredIs
    <3>4. ASSUME NEW i \in 1..(n + 1), archive[i].path # <<>>, archive[i].kind = "file"
          PROVE  made[archive[i].path] = archive[i].body
      <4>1. CASE i \in 1..n
        <5>1. archive[i].path \in NamedBy(archive, n) /\ s.tree[archive[i].path] = archive[i].body
          BY <1>3, <3>4, <4>1 DEF Made, NamedBy
        <5>2. archive[i].path \in DOMAIN s.tree
          BY <5>1, <1>6, CoveredIs
        <5> QED
          BY <2>3, <3>0, <5>1, <5>2
      <4>2. CASE i = n + 1
        BY <2>3, <4>2
      <4> QED
        BY <1>2, <4>1, <4>2
    <3>5. \A p \in DOMAIN tree : made[p] = tree[p]
      BY <2>3, <1>6, <3>0
    <3>6. \A p \in DOMAIN made \ (DOMAIN tree \union FilesBy(archive, n + 1)) : made[p] = Dir
      BY <1>1, <2>3, <1>6
    <3> QED
      BY <2>3, <3>2, <3>3, <3>4, <3>5, <3>6 DEF Made
  <2>5. ExtractableBy(archive, n + 1, tree)
    BY <1>7, <1>9
  <2> HIDE DEF made, may, r
  <2>6. Reached(archive, n + 1, tree, r)
    BY <2>2, <2>4, <2>5 DEF Reached
  <2> QED
    BY <2>6 DEF r
<1> QED
  BY <1>8, <1>9

\* An entry that is refused cannot be unpacked.
LEMMA RefusedTurn ==
  ASSUME NEW archive, NEW n \in Nat, NEW tree, NEW s, Reached(archive, n, tree, s),
         ~ExtractableBy(archive, n + 1, tree)
  PROVE  Reached(archive, n + 1, tree, Refuse(s))
<1>1. s = [tree |-> s.tree, seen |-> s.seen, ok |-> s.ok]
  BY DEF Reached
<1>2. Refuse(s) = [tree |-> s.tree, seen |-> s.seen, ok |-> FALSE]
  <2> DEFINE r == Refuse(s)
  <2>1. r = [s EXCEPT !.ok = FALSE]
    BY DEF Refuse
  <2> HIDE DEF r
  <2>2. r = [tree |-> s.tree, seen |-> s.seen, ok |-> FALSE]
    BY <1>1, <2>1
  <2> QED
    BY <2>2 DEF r
<1> QED
  BY <1>2 DEF Reached

\* Every turn keeps what the loop has reached.
LEMMA Turn ==
  ASSUME NEW archive, NEW n \in Nat, NEW tree, NEW s, Reached(archive, n, tree, s),
         \A i \in 1..(n + 1) : archive[i].body # Dir
  PROVE  Reached(archive, n + 1, tree, ExtractEntry(s, archive[n + 1]))
<1> DEFINE e == archive[n + 1]
           r == ExtractEntry(s, e)
<1>1. n + 1 \in 1..(n + 1)
  OBVIOUS
<1>2. CASE ~s.ok
  <2>1. r = s
    BY <1>2 DEF ExtractEntry
  <2>2. ~ExtractableBy(archive, n + 1, tree)
    BY <1>2, FewerAreExtractable DEF Reached
  <2>3. Reached(archive, n + 1, tree, s)
    BY <1>2, <2>2 DEF Reached
  <2> QED
    BY <2>1, <2>3
<1>3. CASE s.ok /\ ~IsSafe(e.path)
  <2>0. IsSafe(<<>>)
    BY DEF IsSafe, Range
  <2>1. r = Refuse(s)
    BY <1>3, <2>0 DEF ExtractEntry
  <2>2. ~ExtractableBy(archive, n + 1, tree)
    BY <1>1, <1>3 DEF ExtractableBy
  <2> QED
    BY <2>1, <2>2, RefusedTurn
<1>4. CASE s.ok /\ IsSafe(e.path) /\ e.path = <<>>
  <2>1. r = s
    BY <1>4 DEF ExtractEntry
  <2> QED
    BY <1>4, <2>1, SkippedTurn
<1>5. CASE s.ok /\ IsSafe(e.path) /\ e.path # <<>>
  <2>1. CASE e.kind = "dir"
    <3>1. r = ExtractDirectory(s, e)
      BY <1>5, <2>1 DEF ExtractEntry
    <3> QED
      BY <1>5, <2>1, <3>1, DirectoryTurn
  <2>2. CASE e.kind = "file"
    <3>1. r = ExtractFile(s, e)
      BY <1>5, <2>2 DEF ExtractEntry
    <3> QED
      BY <1>5, <2>2, <3>1, FileTurn
  <2>3. CASE e.kind \notin {"file", "dir"}
    <3>1. r = Refuse(s)
      BY <1>5, <2>3 DEF ExtractEntry
    <3>2. ~ExtractableBy(archive, n + 1, tree)
      BY <1>1, <1>5, <2>3 DEF ExtractableBy
    <3> QED
      BY <3>1, <3>2, RefusedTurn
  <2> QED
    BY <2>1, <2>2, <2>3
<1> QED
  BY <1>2, <1>3, <1>4, <1>5

\* What the loop leaves after the whole archive.
LEMMA ExtractReaches ==
  ASSUME NEW archive \in Seq(Entries), NEW tree, IsFunction(tree)
  PROVE  Reached(archive, Len(archive), tree, Extract(archive, tree))
<1> DEFINE N == Len(archive)
<1>1. N \in Nat
  OBVIOUS
<1>2. \A i \in 1..N : archive[i].body # Dir
  <2>1. \A i \in 1..N : archive[i] \in Entries
    OBVIOUS
  <2> QED
    BY <2>1 DEF Entries
<1>3. PICK after : /\ Extract(archive, tree) = after[N]
                   /\ after[0] = [tree |-> tree, seen |-> {}, ok |-> TRUE]
                   /\ \A n \in 1..N : after[n] = ExtractEntry(after[n - 1], archive[n])
  BY <1>1, ExtractRuns
<1> HIDE DEF N
<1> DEFINE I == {n \in 0..N : Reached(archive, n, tree, after[n])}
<1>4. 0 \in I
  <2>1. NamedBy(archive, 0) = {} /\ FilesBy(archive, 0) = {}
    BY DEF NamedBy, FilesBy
  <2>2. ExtractableBy(archive, 0, tree)
    BY <2>1 DEF ExtractableBy
  <2>3. Covered({}) = {}
    BY DEF Covered
  <2> DEFINE s == [tree |-> tree, seen |-> {}, ok |-> TRUE]
  <2>4. Made(archive, 0, tree, s)
    <3>1. s.tree = tree /\ s.seen = {}
      OBVIOUS
    <3>2. \A i \in 1..0 : FALSE
      OBVIOUS
    <3> HIDE DEF s
    <3> QED
      BY <2>1, <2>3, <3>1, <3>2 DEF Made
  <2>5. Reached(archive, 0, tree, [tree |-> tree, seen |-> {}, ok |-> TRUE])
    BY <2>2, <2>4 DEF Reached
  <2> QED
    BY <1>1, <1>3, <2>5
<1>5. ASSUME NEW n \in 0..(N - 1), n \in I PROVE n + 1 \in I
  <2>1. n \in Nat /\ n + 1 \in 0..N /\ n + 1 \in 1..N /\ (n + 1) - 1 = n
    BY <1>1
  <2>2. \A i \in 1..(n + 1) : archive[i].body # Dir
    BY <1>1, <1>2, <2>1
  <2>3. Reached(archive, n, tree, after[n])
    BY <1>5
  <2>4. Reached(archive, n + 1, tree, ExtractEntry(after[n], archive[n + 1]))
    BY <2>1, <2>2, <2>3, Turn
  <2>5. after[n + 1] = ExtractEntry(after[n], archive[n + 1])
    BY <1>3, <2>1
  <2> QED
    BY <2>1, <2>4, <2>5
<1>6. N \in I
  <2> HIDE DEF I
  <2>1. 0..N \subseteq I
    BY <1>1, <1>4, <1>5, UpToInduction
  <2> QED
    BY <1>1, <2>1
<1>7. Reached(archive, N, tree, after[N])
  BY <1>6
<1> QED
  BY <1>3, <1>7 DEF N

\* After the last turn, that is the declarative definition.
LEMMA WholeArchive ==
  ASSUME NEW archive \in Seq(Entries), NEW tree
  PROVE  /\ DOMAIN archive = 1..Len(archive)
         /\ Named(archive) = NamedBy(archive, Len(archive))
         /\ NamedFiles(archive) = FilesBy(archive, Len(archive))
         /\ Extractable(archive, tree) <=> ExtractableBy(archive, Len(archive), tree)
<1>1. DOMAIN archive = 1..Len(archive)
  OBVIOUS
<1>2. Named(archive) = NamedBy(archive, Len(archive))
  BY <1>1 DEF Named, NamedBy
<1>3. NamedFiles(archive) = FilesBy(archive, Len(archive))
  BY <1>1 DEF NamedFiles, FilesBy
<1>4. Extractable(archive, tree) <=> ExtractableBy(archive, Len(archive), tree)
  BY <1>1, <1>2, <1>3 DEF Extractable, ExtractableBy
<1> QED
  BY <1>1, <1>2, <1>3, <1>4

\* Theorem: for every archive and every tree, whatever the order of the entries,
\* extract_tar_gz_file succeeds exactly when no two entries collide with each
\* other or with the tree, and then leaves what the entries say, and no more.
THEOREM ExtractIsExact ==
  ASSUME NEW archive \in Seq(Entries), NEW tree, IsFunction(tree)
  PROVE  /\ Extract(archive, tree).ok \in BOOLEAN
         /\ Extract(archive, tree).ok <=> Extractable(archive, tree)
         /\ Extract(archive, tree).ok =>
              Extract(archive, tree).tree = Extracted(archive, tree)
<1> DEFINE N == Len(archive)
           s == Extract(archive, tree)
<1>1. Reached(archive, N, tree, s)
  BY ExtractReaches
<1>2. /\ DOMAIN archive = 1..N
      /\ Named(archive) = NamedBy(archive, N)
      /\ NamedFiles(archive) = FilesBy(archive, N)
      /\ Extractable(archive, tree) <=> ExtractableBy(archive, N, tree)
  BY WholeArchive
<1> HIDE DEF N, s
<1>3. s.ok \in BOOLEAN /\ (s.ok <=> Extractable(archive, tree))
  BY <1>1, <1>2 DEF Reached
<1>4. ASSUME s.ok PROVE s.tree = Extracted(archive, tree)
  <2> DEFINE Body(p) == CHOOSE i \in DOMAIN archive : archive[i].path = p
             dirs == Named(archive) \union UNION {Parents(p) : p \in Named(archive)}
             Content(p) == IF p \in NamedFiles(archive) THEN archive[Body(p)].body
                           ELSE IF p \in DOMAIN tree THEN tree[p] ELSE Dir
  <2>1. Made(archive, N, tree, s) /\ Extractable(archive, tree)
    BY <1>1, <1>3, <1>4 DEF Reached
  <2>2. DOMAIN s.tree = DOMAIN tree \union dirs
    <3>1. Covered(Named(archive)) = dirs
      BY DEF Covered
    <3>2. DOMAIN s.tree = DOMAIN tree \union Covered(Named(archive))
      BY <1>2, <2>1 DEF Made
    <3> HIDE DEF dirs
    <3> QED
      BY <3>1, <3>2
  <2>3. ASSUME NEW p \in DOMAIN s.tree PROVE s.tree[p] = Content(p)
    <3>1. CASE p \in NamedFiles(archive)
      <4>1. PICK i \in DOMAIN archive : archive[i].kind = "file" /\ archive[i].path = p /\ p # <<>>
        BY <3>1 DEF NamedFiles
      <4>2. Body(p) \in DOMAIN archive /\ archive[Body(p)].path = p
        BY <4>1
      <4> HIDE DEF Body
      <4>3. Body(p) = i
        BY <4>1, <4>2, <2>1 DEF Extractable
      <4>4. s.tree[p] = archive[i].body
        BY <1>2, <2>1, <4>1 DEF Made
      <4> QED
        BY <3>1, <4>3, <4>4
    <3>2. CASE p \notin NamedFiles(archive)
      BY <1>2, <2>1, <3>2 DEF Made
    <3> QED
      BY <3>1, <3>2
  <2>4. s.tree = [p \in DOMAIN s.tree |-> s.tree[p]]
    BY <2>1 DEF Made, IsFunction
  <2>5. Extracted(archive, tree) = [p \in DOMAIN tree \union dirs |-> Content(p)]
    BY DEF Extracted
  <2> HIDE DEF dirs, Content
  <2> QED
    BY <2>2, <2>3, <2>4, <2>5
<1> QED
  BY <1>3, <1>4 DEF s

-----------------------------------------------------------------------------
(* Paths                                                                     *)

Paths == Seq(STRING) \ {<<>>}

\* Paths have a name.
LEMMA PathLength ==
  ASSUME NEW p \in Paths
  PROVE  p \in Seq(STRING) /\ Len(p) \in Nat \ {0}
BY EmptySeq DEF Paths

\* And what has a name is one.
LEMMA LongIsPath ==
  ASSUME NEW p \in Seq(STRING), Len(p) > 0
  PROVE  p \in Paths
BY EmptySeq DEF Paths

\* A parent is shorter and begins in the same way, and whatever does is a parent.
LEMMA ParentIs ==
  ASSUME NEW p \in Seq(STRING), NEW q \in Parents(p)
  PROVE  q \in Paths /\ Len(q) \in 1..(Len(p) - 1) /\ \A i \in 1..Len(q) : q[i] = p[i]
<1>1. PICK l \in 0..Len(p) : q = SubSeq(p, 1, l)
  BY DEF Parents, Prefixes
<1>2. q # <<>> /\ q # p
  BY DEF Parents
<1>3. Len(p) \in Nat
  OBVIOUS
<1>4. l # 0
  BY <1>1, <1>2, SubSeqEmpty
<1>5. l # Len(p)
  BY <1>1, <1>2, SubSeqFull
<1>6. \A i \in 1..l : p[i] \in STRING
  BY <1>1, <1>3
<1>7. /\ q \in Seq(STRING)
      /\ Len(q) = l
      /\ \A i \in 1..l : q[i] = p[i]
  BY <1>1, <1>4, <1>6, SubSeqProperties
<1> QED
  BY <1>2, <1>3, <1>4, <1>5, <1>7 DEF Paths

\* And what is shorter and begins in the same way is a parent.
LEMMA ParentWhen ==
  ASSUME NEW p \in Seq(STRING), NEW q \in Seq(STRING), Len(q) \in 1..(Len(p) - 1),
         \A i \in 1..Len(q) : q[i] = p[i]
  PROVE  q \in Parents(p)
<1>1. Len(p) \in Nat /\ Len(q) \in Nat /\ Len(q) \in 0..Len(p) /\ Len(q) # Len(p)
  OBVIOUS
<1> DEFINE r == SubSeq(p, 1, Len(q))
<1>2. \A i \in 1..Len(q) : p[i] \in STRING
  BY <1>1
<1>3. /\ r \in Seq(STRING)
      /\ Len(r) = Len(q)
      /\ \A i \in 1..Len(q) : r[i] = p[i]
  BY <1>1, <1>2, SubSeqProperties
<1>4. r = q
  BY <1>3, SeqEqual
<1>5. q # <<>> /\ q # p
  BY <1>1, EmptySeq
<1>6. q \in Prefixes(p)
  BY <1>1, <1>4 DEF Prefixes
<1> QED
  BY <1>5, <1>6 DEF Parents

\* Parents of parents are parents.
LEMMA ParentsClosed ==
  ASSUME NEW p \in Seq(STRING), NEW q \in Parents(p)
  PROVE  q \in Paths /\ q \notin Parents(q) /\ Parents(q) \subseteq Parents(p)
<1>1. q \in Paths /\ Len(q) \in 1..(Len(p) - 1) /\ \A i \in 1..Len(q) : q[i] = p[i]
  BY ParentIs
<1>2. q \in Seq(STRING) /\ Len(p) \in Nat
  BY <1>1, PathLength
<1>3. ASSUME NEW r \in Parents(q) PROVE r \in Parents(p)
  <2>1. r \in Paths /\ Len(r) \in 1..(Len(q) - 1) /\ \A i \in 1..Len(r) : r[i] = q[i]
    BY <1>2, ParentIs
  <2>2. r \in Seq(STRING) /\ Len(r) \in 1..(Len(p) - 1)
    BY <1>1, <1>2, <2>1, PathLength
  <2>3. \A i \in 1..Len(r) : r[i] = p[i]
    BY <1>1, <1>2, <2>1
  <2> QED
    BY <2>2, <2>3, ParentWhen
<1> QED
  BY <1>1, <1>3 DEF Parents

\* They are as safe as the path they lead to, and start like it.
LEMMA ParentsSafe ==
  ASSUME NEW p \in Seq(STRING), NEW q \in Parents(p)
  PROVE  (IsSafe(p) => IsSafe(q)) /\ q[1] = p[1]
<1>1. q \in Paths /\ Len(q) \in 1..(Len(p) - 1) /\ \A i \in 1..Len(q) : q[i] = p[i]
  BY ParentIs
<1>2. q \in Seq(STRING) /\ Len(p) \in Nat /\ Len(q) \in Nat \ {0}
  BY <1>1, PathLength
<1>3. Range(p) = {p[i] : i \in 1..Len(p)} /\ Range(q) = {q[i] : i \in 1..Len(q)}
  BY <1>2, RangeEquality
<1> QED
  BY <1>1, <1>2, <1>3 DEF IsSafe

\* The image of a finite set is finite.
LEMMA FiniteImage ==
  ASSUME NEW S, IsFiniteSet(S), NEW f, DOMAIN f = S
  PROVE  IsFiniteSet({f[x] : x \in S})
<1> DEFINE T == {f[x] : x \in S}
           g == [x \in S |-> f[x]]
<1>1. g \in Surjection(S, T)
  BY DEF Surjection
<1> HIDE DEF g, T
<1>2. IsFiniteSet(T)
  BY <1>1, FS_Surjection
<1> QED
  BY <1>2 DEF T

\* A path has finitely many parents.
LEMMA ParentsFinite ==
  ASSUME NEW p \in Seq(STRING)
  PROVE  IsFiniteSet(Parents(p)) /\ IsFiniteSet(Prefixes(p))
<1> DEFINE f == [l \in 0..Len(p) |-> SubSeq(p, 1, l)]
           S == 0..Len(p)
<1>1. IsFiniteSet(S)
  BY FS_Interval
<1>2. DOMAIN f = S
  OBVIOUS
<1>3. IsFiniteSet({f[l] : l \in S})
  <2> HIDE DEF f, S
  <2> QED
    BY <1>1, <1>2, FiniteImage
<1>4. Prefixes(p) = {f[l] : l \in S}
  BY DEF Prefixes
<1>5. IsFiniteSet(Prefixes(p))
  BY <1>3, <1>4
<1>6. Parents(p) \in SUBSET Prefixes(p)
  BY DEF Parents
<1> QED
  BY <1>5, <1>6, FS_Subset

-----------------------------------------------------------------------------
(* Directory trees                                                           *)

\* What a run directory is: what a path leads through are directories.
IsTree(t) ==
  /\ IsFunction(t) /\ IsFiniteSet(DOMAIN t)
  /\ \A p \in DOMAIN t : p \in Paths /\ IsSafe(p) /\ t[p] \in STRING
  /\ \A p \in DOMAIN t : \A q \in Parents(p) : q \in DOMAIN t /\ t[q] = Dir

\* A set of paths with what leads to them.
AreDirs(dirs) ==
  IsFiniteSet(dirs) /\ \A p \in dirs : p \in Paths /\ IsSafe(p) /\ Parents(p) \subseteq dirs

\* Making them keeps a tree, and its files.
LEMMA MakeDirsTree ==
  ASSUME NEW t, IsTree(t), NEW dirs, AreDirs(dirs), MayMakeDirs(t, dirs)
  PROVE  /\ IsTree(MakeDirs(t, dirs))
         /\ \A p \in dirs : p \in DOMAIN MakeDirs(t, dirs) /\ MakeDirs(t, dirs)[p] = Dir
         /\ Files(MakeDirs(t, dirs)) = Files(t)
         /\ \A p \in Files(t) : MakeDirs(t, dirs)[p] = t[p]
<1> DEFINE w == MakeDirs(t, dirs)
<1>1. WithDirs(w, t, dirs)
  BY MakeDirsIs
<1> HIDE DEF w
<1>2. /\ DOMAIN w = DOMAIN t \union dirs
      /\ IsFunction(w)
      /\ \A p \in DOMAIN t : w[p] = t[p]
      /\ \A p \in dirs \ DOMAIN t : w[p] = Dir
  BY <1>1 DEF WithDirs
<1>3. /\ IsFiniteSet(DOMAIN t)
      /\ \A p \in DOMAIN t : p \in Paths /\ IsSafe(p) /\ t[p] \in STRING
      /\ \A p \in DOMAIN t : \A q \in Parents(p) : q \in DOMAIN t /\ t[q] = Dir
      /\ IsFiniteSet(dirs)
      /\ \A p \in dirs : p \in Paths /\ IsSafe(p) /\ Parents(p) \subseteq dirs
  BY DEF IsTree, AreDirs
<1>4. ASSUME NEW p \in dirs PROVE p \in DOMAIN w /\ w[p] = Dir
  BY <1>2 DEF MayMakeDirs, IsFile
<1>5. IsFiniteSet(DOMAIN w)
  BY <1>2, <1>3, FS_Union
<1>6. ASSUME NEW p \in DOMAIN w
      PROVE  /\ p \in Paths /\ IsSafe(p) /\ w[p] \in STRING
             /\ \A q \in Parents(p) : q \in DOMAIN w /\ w[q] = Dir
  <2>1. CASE p \in DOMAIN t
    BY <1>2, <1>3, <2>1
  <2>2. CASE p \in dirs
    <3>1. Dir \in STRING
      BY LiteralsAreStrings DEF LiteralsAreStrings
    <3> QED
      BY <1>1, <1>3, <1>4, <2>2, <3>1 DEF WithDirs
  <2> QED
    BY <1>2, <2>1, <2>2
<1>7. Files(w) = Files(t) /\ \A p \in Files(t) : w[p] = t[p]
  BY <1>2 DEF Files
<1>8. IsTree(w)
  BY <1>2, <1>5, <1>6 DEF IsTree
<1> QED
  BY <1>4, <1>7, <1>8 DEF w

\* Files that may be written together: none lies above another one.
AreFiles(files) ==
  /\ IsFunction(files) /\ IsFiniteSet(DOMAIN files)
  /\ \A p \in DOMAIN files : p \in Paths /\ IsSafe(p) /\ files[p] \in STRING \ {Dir}
  /\ \A p, q \in DOMAIN files : p \notin Parents(q)

\* Writing files that are in nobody's way keeps a tree.
LEMMA WriteFilesTree ==
  ASSUME NEW t, IsTree(t), NEW files, AreFiles(files), Writable(t, DOMAIN files)
  PROVE  /\ IsTree(WriteFiles(t, files))
         /\ Files(WriteFiles(t, files)) = Files(t) \union DOMAIN files
         /\ \A p \in DOMAIN files : WriteFiles(t, files)[p] = files[p]
         /\ \A p \in Files(t) \ DOMAIN files : WriteFiles(t, files)[p] = t[p]
<1> DEFINE above == UNION {Parents(p) : p \in DOMAIN files}
           d == MakeDirs(t, above)
           w == WriteFiles(t, files)
<1>1. /\ IsFiniteSet(DOMAIN files)
      /\ \A p \in DOMAIN files : p \in Paths /\ IsSafe(p) /\ files[p] \in STRING \ {Dir}
      /\ \A p, q \in DOMAIN files : p \notin Parents(q)
  BY DEF AreFiles
<1>2. AreDirs(above)
  <2>1. IsFiniteSet(above)
    <3> DEFINE f == [p \in DOMAIN files |-> Parents(p)]
               S == DOMAIN files
    <3>1. IsFiniteSet({f[p] : p \in S})
      <4>1. DOMAIN f = S
        OBVIOUS
      <4> HIDE DEF f, S
      <4>2. IsFiniteSet(S)
        BY <1>1 DEF S
      <4> QED
        BY <4>1, <4>2, FiniteImage
    <3>2. {f[p] : p \in S} = {Parents(p) : p \in DOMAIN files}
      OBVIOUS
    <3>3. \A T \in {Parents(p) : p \in DOMAIN files} : IsFiniteSet(T)
      BY <1>1, PathLength, ParentsFinite
    <3> QED
      BY <3>1, <3>2, <3>3, FS_UNION
  <2>2. ASSUME NEW q \in above PROVE q \in Paths /\ IsSafe(q) /\ Parents(q) \subseteq above
    <3>1. PICK p \in DOMAIN files : q \in Parents(p)
      OBVIOUS
    <3>2. p \in Seq(STRING) /\ IsSafe(p)
      BY <1>1, PathLength
    <3>3. q \in Paths /\ Parents(q) \subseteq Parents(p) /\ IsSafe(q)
      BY <3>1, <3>2, ParentsClosed, ParentsSafe
    <3> QED
      BY <3>3
  <2> HIDE DEF above
  <2> QED
    BY <2>1, <2>2 DEF AreDirs
<1>3. MayMakeDirs(t, above)
  BY DEF Writable, MayMakeDirs
<1>4. \A q : q \in above <=> \E p \in DOMAIN files : q \in Parents(p)
  OBVIOUS
<1>5. w = Over(files, d)
  BY DEF WriteFiles
<1> HIDE DEF above
<1>6. WithDirs(d, t, above)
  BY MakeDirsIs
<1>7. /\ IsTree(d)
      /\ \A p \in above : p \in DOMAIN d /\ d[p] = Dir
      /\ Files(d) = Files(t)
      /\ \A p \in Files(t) : d[p] = t[p]
  BY <1>2, <1>3, MakeDirsTree
<1> HIDE DEF d, w
<1>8. /\ DOMAIN w = DOMAIN files \union DOMAIN d
      /\ IsFunction(w)
      /\ \A p \in DOMAIN files : w[p] = files[p]
      /\ \A p \in DOMAIN d \ DOMAIN files : w[p] = d[p]
  <2>1. LaidOver(w, files, d)
    BY <1>5, OverIs
  <2> QED
    BY <2>1 DEF LaidOver
<1>9. /\ IsFiniteSet(DOMAIN d)
      /\ \A p \in DOMAIN d : p \in Paths /\ IsSafe(p) /\ d[p] \in STRING
      /\ \A p \in DOMAIN d : \A q \in Parents(p) : q \in DOMAIN d /\ d[q] = Dir
  BY <1>7 DEF IsTree
<1>10. \A p \in DOMAIN files : p \in DOMAIN t => t[p] # Dir
  BY DEF Writable, IsFile
<1>11. IsFiniteSet(DOMAIN w)
  <2>1. IsFiniteSet(DOMAIN files \union DOMAIN d)
    BY <1>1, <1>9, FS_Union
  <2> QED
    BY <1>8, <2>1
<1>12. ASSUME NEW p \in DOMAIN w PROVE p \in Paths /\ IsSafe(p) /\ w[p] \in STRING
  BY <1>1, <1>8, <1>9
<1>13. ASSUME NEW p \in DOMAIN w, NEW q \in Parents(p) PROVE q \in DOMAIN w /\ w[q] = Dir
  <2>1. CASE p \in DOMAIN files
    BY <1>1, <1>4, <1>7, <1>8, <2>1
  <2>2. CASE p \in DOMAIN d \ DOMAIN files
    <3>1. q \in DOMAIN d /\ d[q] = Dir
      BY <1>9, <2>2
    <3>2. q \notin DOMAIN files
      <4>1. CASE p \in above
        <5>1. PICK r \in DOMAIN files : p \in Parents(r)
          BY <1>4, <4>1
        <5>2. q \in Parents(r)
          BY <1>1, <5>1, PathLength, ParentsClosed
        <5> QED
          BY <1>1, <5>2
      <4>2. CASE p \in DOMAIN t
        BY <1>10, <4>2 DEF IsTree
      <4> QED
        BY <1>6, <2>2, <4>1, <4>2 DEF WithDirs
    <3> QED
      BY <1>8, <3>1, <3>2
  <2> QED
    BY <1>8, <2>1, <2>2
<1>14. IsTree(w)
  BY <1>8, <1>11, <1>12, <1>13 DEF IsTree
<1>15. Files(w) = Files(t) \union DOMAIN files
  <2>1. Files(d) \subseteq DOMAIN d
    BY DEF Files
  <2> QED
    BY <1>1, <1>7, <1>8, <2>1 DEF Files
<1>16. \A p \in Files(t) \ DOMAIN files : w[p] = t[p]
  BY <1>7, <1>8 DEF Files
<1> QED
  BY <1>8, <1>14, <1>15, <1>16 DEF w

\* And so does writing one.
LEMMA WriteFileTree ==
  ASSUME NEW t, IsTree(t), NEW p \in Paths, IsSafe(p), NEW body \in STRING \ {Dir},
         Writable(t, {p})
  PROVE  /\ IsTree(WriteFile(t, p, body))
         /\ Files(WriteFile(t, p, body)) = Files(t) \union {p}
         /\ WriteFile(t, p, body)[p] = body
         /\ \A q \in Files(t) \ {p} : WriteFile(t, p, body)[q] = t[q]
<1> DEFINE f == At(p, body)
<1>1. DOMAIN f = {p} /\ f[p] = body /\ IsFunction(f)
  BY DEF At, IsFunction
<1>2. WriteFile(t, p, body) = WriteFiles(t, f)
  <2>1. UNION {Parents(q) : q \in {p}} = Parents(p)
    OBVIOUS
  <2> QED
    BY <1>1, <2>1 DEF WriteFile, WriteFiles
<1>3. AreFiles(f)
  <2>1. IsFiniteSet(DOMAIN f)
    BY <1>1, FS_Singleton
  <2>2. p \notin Parents(p)
    BY DEF Parents
  <2> HIDE DEF f
  <2> QED
    BY <1>1, <2>1, <2>2 DEF AreFiles
<1> HIDE DEF f
<1>4. Writable(t, DOMAIN f)
  BY <1>1
<1>5. /\ IsTree(WriteFiles(t, f))
      /\ Files(WriteFiles(t, f)) = Files(t) \union DOMAIN f
      /\ \A q \in DOMAIN f : WriteFiles(t, f)[q] = f[q]
      /\ \A q \in Files(t) \ DOMAIN f : WriteFiles(t, f)[q] = t[q]
  BY <1>3, <1>4, WriteFilesTree
<1> QED
  BY <1>1, <1>2, <1>5

\* What an archive that was unpacked in t comes to.
Unpacked(w, archive, t) ==
  /\ IsTree(w)
  /\ DOMAIN w = DOMAIN t \union Covered(Named(archive))
  /\ Files(w) = Files(t) \union NamedFiles(archive)
  /\ \A p \in DOMAIN t : w[p] = t[p]
  /\ \A i \in 1..Len(archive) : (archive[i].path # <<>> /\ archive[i].kind = "file")
       => w[archive[i].path] = archive[i].body

\* Extraction makes a tree of a tree.
LEMMA ExtractTree ==
  ASSUME NEW archive \in Seq(Entries), NEW t, IsTree(t), Extract(archive, t).ok
  PROVE  Unpacked(Extract(archive, t).tree, archive, t)
<1> DEFINE N == Len(archive)
           s == Extract(archive, t)
           w == s.tree
<1>1. IsFunction(t) /\ IsFiniteSet(DOMAIN t)
      /\ (\A p \in DOMAIN t : p \in Paths /\ IsSafe(p) /\ t[p] \in STRING)
      /\ (\A p \in DOMAIN t : \A q \in Parents(p) : q \in DOMAIN t /\ t[q] = Dir)
  BY DEF IsTree
<1>2. Reached(archive, N, t, s)
  BY <1>1, ExtractReaches
<1>3. /\ Named(archive) = NamedBy(archive, N)
      /\ NamedFiles(archive) = FilesBy(archive, N)
      /\ Extractable(archive, t) <=> ExtractableBy(archive, N, t)
  BY WholeArchive
<1>4. N \in Nat /\ \A i \in 1..N : archive[i] \in Entries
  OBVIOUS
<1>5. \A i \in 1..N : archive[i].path \in Seq(STRING) /\ archive[i].body \in STRING \ {Dir}
  BY <1>4 DEF Entries
<1>6. Made(archive, N, t, s) /\ ExtractableBy(archive, N, t)
  BY <1>2 DEF Reached
<1> HIDE DEF s, N
<1>7. Files(w) = Files(t) \union FilesBy(archive, N)
  BY <1>4, <1>5, <1>6, FilesMade
<1>8. /\ DOMAIN w = DOMAIN t \union Covered(NamedBy(archive, N))
      /\ IsFunction(w)
      /\ \A i \in 1..N : archive[i].path # <<>> /\ archive[i].kind = "file"
                           => w[archive[i].path] = archive[i].body
      /\ \A p \in DOMAIN t : w[p] = t[p]
      /\ \A p \in DOMAIN w \ (DOMAIN t \union FilesBy(archive, N)) : w[p] = Dir
  BY <1>6 DEF Made
<1>9. ASSUME NEW p \in NamedBy(archive, N) PROVE p \in Paths /\ IsSafe(p)
  <2>1. PICK i \in 1..N : archive[i].path = p /\ p # <<>>
    BY <1>9 DEF NamedBy
  <2> QED
    BY <1>5, <1>6, <2>1 DEF Paths, ExtractableBy
<1>10. IsFiniteSet(Covered(NamedBy(archive, N)))
  <2> DEFINE A == NamedBy(archive, N)
             S == 1..N
             f == [i \in S |-> archive[i].path]
             above == {Parents(p) : p \in A}
             g == [p \in A |-> Parents(p)]
  <2>1. IsFiniteSet(S)
    BY <1>4, FS_Interval
  <2>2. IsFiniteSet({f[i] : i \in S})
    <3>1. DOMAIN f = S
      OBVIOUS
    <3> HIDE DEF f, S
    <3> QED
      BY <2>1, <3>1, FiniteImage
  <2>3. A \in SUBSET {f[i] : i \in S}
    BY DEF NamedBy
  <2>4. IsFiniteSet(A)
    <3> HIDE DEF A, f, S
    <3> QED
      BY <2>2, <2>3, FS_Subset
  <2>5. IsFiniteSet({g[p] : p \in A})
    <3>1. DOMAIN g = A
      OBVIOUS
    <3> HIDE DEF A, g
    <3> QED
      BY <2>4, <3>1, FiniteImage
  <2>6. \A T \in {g[p] : p \in A} : IsFiniteSet(T)
    BY <1>9, PathLength, ParentsFinite
  <2>7. IsFiniteSet(UNION {g[p] : p \in A})
    <3> HIDE DEF A, g
    <3> QED
      BY <2>5, <2>6, FS_UNION
  <2>8. Covered(A) = A \union UNION {g[p] : p \in A}
    BY DEF Covered
  <2> HIDE DEF A, g
  <2>9. IsFiniteSet(Covered(A))
    <3>1. IsFiniteSet(A \union UNION {g[p] : p \in A})
      BY <2>4, <2>7, FS_Union
    <3> QED
      BY <2>8, <3>1
  <2> QED
    BY <2>9 DEF A
<1>11. IsFiniteSet(DOMAIN w)
  <2>1. IsFiniteSet(DOMAIN t \union Covered(NamedBy(archive, N)))
    BY <1>1, <1>10, FS_Union
  <2> QED
    BY <1>8, <2>1
<1>12. ASSUME NEW p \in Covered(NamedBy(archive, N))
       PROVE  p \in Paths /\ IsSafe(p)
  <2>1. CASE p \in NamedBy(archive, N)
    BY <1>9, <2>1
  <2>2. CASE \E r \in NamedBy(archive, N) : p \in Parents(r)
    <3>1. PICK r \in NamedBy(archive, N) : p \in Parents(r)
      BY <2>2
    <3>2. r \in Seq(STRING) /\ IsSafe(r)
      BY <1>9, <3>1, PathLength
    <3> QED
      BY <3>1, <3>2, ParentsClosed, ParentsSafe
  <2> QED
    BY <2>1, <2>2, CoveredIs
<1>13. ASSUME NEW p \in Covered(NamedBy(archive, N)), NEW q \in Parents(p)
       PROVE  q \in DOMAIN w /\ w[q] = Dir
  <2>1. PICK r \in NamedBy(archive, N) : q \in Parents(r)
    <3>1. CASE p \in NamedBy(archive, N)
      BY <1>13, <3>1
    <3>2. CASE \E r \in NamedBy(archive, N) : p \in Parents(r)
      <4>1. PICK r \in NamedBy(archive, N) : p \in Parents(r)
        BY <3>2
      <4>2. r \in Seq(STRING)
        BY <1>9, <4>1, PathLength
      <4>3. q \in Parents(r)
        BY <4>1, <4>2, ParentsClosed
      <4> QED
        BY <4>1, <4>3
    <3> QED
      BY <3>1, <3>2, CoveredIs
  <2>2. q \in Covered(NamedBy(archive, N))
    BY <2>1, CoveredIs
  <2>3. q \notin FilesBy(archive, N) /\ q \notin Files(t)
    BY <1>6, <2>1 DEF ExtractableBy
  <2> QED
    BY <1>7, <1>8, <2>2, <2>3 DEF Files
<1>14. ASSUME NEW p \in DOMAIN w PROVE w[p] \in STRING
  <2>1. CASE p \in DOMAIN t
    BY <1>1, <1>8, <2>1
  <2>2. CASE p \in FilesBy(archive, N)
    <3>1. PICK i \in 1..N : archive[i].kind = "file" /\ archive[i].path = p /\ p # <<>>
      BY <2>2 DEF FilesBy
    <3> QED
      BY <1>5, <1>8, <3>1
  <2>3. CASE p \notin DOMAIN t \union FilesBy(archive, N)
    BY <1>8, <2>3, LiteralsAreStrings DEF LiteralsAreStrings
  <2> QED
    BY <2>1, <2>2, <2>3
<1>15. IsTree(w)
  <2>1. \A p \in DOMAIN w : p \in Paths /\ IsSafe(p) /\ w[p] \in STRING
    BY <1>1, <1>8, <1>12, <1>14
  <2>2. \A p \in DOMAIN w : \A q \in Parents(p) : q \in DOMAIN w /\ w[q] = Dir
    BY <1>1, <1>8, <1>13
  <2> QED
    BY <1>8, <1>11, <2>1, <2>2 DEF IsTree
<1> QED
  BY <1>3, <1>7, <1>8, <1>15 DEF N, s, Unpacked

\* One path behind another.
Joined(u, a, b) ==
  /\ u \in Seq(STRING) /\ Len(u) = Len(a) + Len(b)
  /\ \A i \in 1..(Len(a) + Len(b)) : u[i] = IF i <= Len(a) THEN a[i] ELSE b[i - Len(a)]

\* And that is what concatenation returns.
LEMMA JoinIs ==
  ASSUME NEW a \in Seq(STRING), NEW b \in Seq(STRING)
  PROVE  Joined(a \o b, a, b)
BY ConcatProperties DEF Joined

\* The end of a path that is longer than one name.
LEMMA TailOfPath ==
  ASSUME NEW p \in Paths, Len(p) # 1
  PROVE  /\ Tail(p) \in Paths /\ Len(Tail(p)) = Len(p) - 1
         /\ \A i \in 1..(Len(p) - 1) : Tail(p)[i] = p[i + 1]
         /\ <<p[1]>> \in Parents(p)
         /\ <<p[1]>> \o Tail(p) = p
         /\ IsSafe(p) => IsSafe(Tail(p))
<1>1. p \in Seq(STRING) /\ Len(p) \in Nat \ {0} /\ p # <<>> /\ p[1] \in STRING
  BY PathLength DEF Paths
<1>2. /\ Tail(p) \in Seq(STRING) /\ Len(Tail(p)) = Len(p) - 1
      /\ \A i \in 1..(Len(p) - 1) : Tail(p)[i] = p[i + 1]
  BY <1>1, HeadTailProperties
<1>3. Tail(p) \in Paths
  <2>1. Len(Tail(p)) > 0
    BY <1>1, <1>2
  <2> QED
    BY <1>2, <2>1, LongIsPath
<1>4. <<p[1]>> \in Seq(STRING) /\ Len(<<p[1]>>) = 1 /\ <<p[1]>>[1] = p[1]
  BY <1>1
<1>5. <<p[1]>> \in Parents(p)
  <2>1. Len(<<p[1]>>) \in 1..(Len(p) - 1) /\ \A i \in 1..Len(<<p[1]>>) : <<p[1]>>[i] = p[i]
    BY <1>1, <1>4
  <2> QED
    BY <1>1, <1>4, <2>1, ParentWhen
<1>6. <<p[1]>> \o Tail(p) = p
  <2> DEFINE h == <<p[1]>>
             r == Tail(p)
             c == h \o r
  <2>1. h \in Seq(STRING) /\ r \in Seq(STRING) /\ Len(h) = 1 /\ h[1] = p[1]
    BY <1>2, <1>4
  <2> HIDE DEF h, r
  <2>2. /\ c \in Seq(STRING) /\ Len(c) = Len(h) + Len(r)
        /\ \A i \in 1..(Len(h) + Len(r)) : c[i] = IF i <= Len(h) THEN h[i] ELSE r[i - Len(h)]
    BY <2>1, ConcatProperties
  <2> HIDE DEF c
  <2>3. Len(c) = Len(p)
    BY <1>1, <1>2, <2>1, <2>2 DEF r
  <2>4. ASSUME NEW i \in 1..Len(p) PROVE c[i] = p[i]
    <3>1. CASE i = 1
      BY <1>1, <1>2, <2>1, <2>2, <3>1 DEF r
    <3>2. CASE i > 1
      <4>1. i - 1 \in 1..(Len(p) - 1) /\ (i - 1) + 1 = i
        BY <1>1, <3>2
      <4>2. r[i - 1] = p[i]
        BY <1>2, <4>1 DEF r
      <4>3. c[i] = r[i - 1]
        BY <1>1, <1>2, <2>1, <2>2, <3>2 DEF r
      <4> QED
        BY <4>2, <4>3
    <3> QED
      BY <1>1, <3>1, <3>2
  <2>5. c = p
    BY <1>1, <2>2, <2>3, <2>4, SeqEqual
  <2> QED
    BY <2>5 DEF c, h, r
<1>7. ASSUME IsSafe(p) PROVE IsSafe(Tail(p))
  <2>1. Range(p) = {p[i] : i \in 1..Len(p)}
    BY <1>1, RangeEquality
  <2>2. Range(Tail(p)) = {Tail(p)[i] : i \in 1..Len(Tail(p))}
    BY <1>2, RangeEquality
  <2>3. \A i \in 1..(Len(p) - 1) : i + 1 \in 1..Len(p)
    BY <1>1
  <2> QED
    BY <1>1, <1>2, <1>7, <2>1, <2>2, <2>3 DEF IsSafe
<1> QED
  BY <1>2, <1>3, <1>5, <1>6, <1>7

\* Flattening makes a tree of a tree.
LEMMA FlattenTree ==
  ASSUME NEW t, IsTree(t), NEW x, x = Flatten(t), x.ok
  PROVE  /\ IsTree(x.tree)
         /\ \A p \in DOMAIN x.tree : \E q \in DOMAIN t : x.tree[p] = t[q]
<1> DEFINE roots == {p \in DOMAIN t : Len(p) = 1}
           alone == CHOOSE p \in roots : TRUE
           below == {Tail(p) : p \in DOMAIN t \ {alone}}
           kept == Cardinality(roots) # 1 \/ Files(t) \intersect roots # {}
           w == [p \in below |-> t[alone \o p]]
<1>1. IsFunction(t) /\ IsFiniteSet(DOMAIN t)
      /\ (\A p \in DOMAIN t : p \in Paths /\ IsSafe(p) /\ t[p] \in STRING)
      /\ (\A p \in DOMAIN t : \A q \in Parents(p) : q \in DOMAIN t /\ t[q] = Dir)
  BY DEF IsTree
<1>2. x = IF kept THEN [ok |-> TRUE, tree |-> t] ELSE [ok |-> alone \notin below, tree |-> w]
  BY DEF Flatten
<1>3. CASE kept
  <2> HIDE DEF w, kept
  <2>1. x.tree = t
    BY <1>2, <1>3
  <2> QED
    BY <2>1
<1>4. CASE ~kept
  <2>1. x.tree = w
    BY <1>2, <1>4
  <2>2. IsFiniteSet(roots)
    BY <1>1, FS_Subset
  <2>3. PICK r : roots = {r}
    BY <1>4, <2>2, FS_Singleton
  <2>4. alone = r /\ r \in DOMAIN t /\ Len(r) = 1
    BY <2>3
  <2> HIDE DEF alone, kept
  <2>5. ASSUME NEW p \in DOMAIN t, p # alone
        PROVE  /\ p \in Paths /\ Len(p) # 1 /\ <<p[1]>> = alone /\ alone \o Tail(p) = p
               /\ Tail(p) \in Paths /\ IsSafe(Tail(p)) /\ Len(Tail(p)) = Len(p) - 1
               /\ \A i \in 1..(Len(p) - 1) : Tail(p)[i] = p[i + 1]
    <3>1. Len(p) # 1 /\ p \in Paths /\ IsSafe(p)
      BY <1>1, <2>3, <2>4, <2>5
    <3>2. <<p[1]>> \in DOMAIN t
      BY <1>1, <3>1, TailOfPath
    <3>3. Len(<<p[1]>>) = 1
      OBVIOUS
    <3>4. <<p[1]>> = alone
      BY <2>3, <2>4, <3>2, <3>3
    <3> QED
      BY <3>1, <3>4, TailOfPath
  <2>6. ASSUME NEW b \in below
        PROVE  \E p \in DOMAIN t \ {alone} : b = Tail(p) /\ w[b] = t[p]
    <3>1. PICK p \in DOMAIN t \ {alone} : b = Tail(p)
      OBVIOUS
    <3>2. w[b] = t[alone \o b]
      OBVIOUS
    <3> HIDE DEF w
    <3> QED
      BY <2>5, <3>1, <3>2
  <2>7. DOMAIN w = below /\ IsFunction(w)
    BY DEF IsFunction
  <2>8. IsFiniteSet(below)
    <3> DEFINE S == DOMAIN t \ {alone}
               f == [p \in S |-> Tail(p)]
    <3>1. IsFiniteSet(S)
      BY <1>1, FS_RemoveElement
    <3>2. DOMAIN f = S
      OBVIOUS
    <3>3. IsFiniteSet({f[p] : p \in S})
      <4> HIDE DEF f, S
      <4> QED
        BY <3>1, <3>2, FiniteImage
    <3> QED
      BY <3>3
  <2>9. ASSUME NEW p \in DOMAIN t, p # alone, NEW q \in Parents(Tail(p))
        PROVE  \E u \in DOMAIN t \ {alone} : q = Tail(u) /\ t[u] = Dir
    <3> DEFINE u == alone \o q
    <3>1. /\ p \in Paths /\ <<p[1]>> = alone /\ Tail(p) \in Paths
          /\ Len(Tail(p)) = Len(p) - 1 /\ \A i \in 1..(Len(p) - 1) : Tail(p)[i] = p[i + 1]
      BY <2>5, <2>9
    <3>2. p \in Seq(STRING) /\ Len(p) \in Nat \ {0} /\ p[1] \in STRING /\ Tail(p) \in Seq(STRING)
      BY <3>1, PathLength
    <3>3. q \in Paths /\ Len(q) \in 1..(Len(p) - 2) /\ \A i \in 1..Len(q) : q[i] = Tail(p)[i]
      <4>1. q \in Paths /\ Len(q) \in 1..(Len(Tail(p)) - 1)
            /\ \A i \in 1..Len(q) : q[i] = Tail(p)[i]
        BY <3>2, ParentIs
      <4> QED
        BY <3>1, <3>2, <4>1
    <3>4. q \in Seq(STRING) /\ Len(q) \in Nat \ {0}
      BY <3>3, PathLength
    <3>5. alone \in Seq(STRING) /\ Len(alone) = 1 /\ alone[1] = p[1]
      <4>1. <<p[1]>> \in Seq(STRING) /\ Len(<<p[1]>>) = 1 /\ <<p[1]>>[1] = p[1]
        BY <3>2
      <4> QED
        BY <3>1, <4>1
    <3>6. /\ u \in Seq(STRING) /\ Len(u) = Len(q) + 1
          /\ \A i \in 1..(Len(q) + 1) : u[i] = IF i <= 1 THEN alone[i] ELSE q[i - 1]
      <4>1. /\ u \in Seq(STRING) /\ Len(u) = Len(alone) + Len(q)
            /\ \A i \in 1..(Len(alone) + Len(q)) :
                 u[i] = IF i <= Len(alone) THEN alone[i] ELSE q[i - Len(alone)]
        <5>1. Joined(u, alone, q)
          BY <3>4, <3>5, JoinIs
        <5> HIDE DEF u
        <5> QED
          BY <5>1 DEF Joined
      <4> HIDE DEF u
      <4> QED
        BY <3>4, <3>5, <4>1
    <3> HIDE DEF u
    <3>7. ASSUME NEW i \in 1..Len(u) PROVE u[i] = p[i]
      <4>1. CASE i = 1
        BY <3>4, <3>5, <3>6, <4>1
      <4>2. CASE i # 1
        <5>1. i - 1 \in 1..Len(q) /\ (i - 1) + 1 = i /\ i - 1 \in 1..(Len(p) - 1)
          BY <3>2, <3>3, <3>4, <3>6, <4>2
        <5>2. u[i] = q[i - 1]
          BY <3>4, <3>6, <4>2
        <5>3. q[i - 1] = Tail(p)[i - 1]
          BY <3>3, <5>1
        <5>4. Tail(p)[i - 1] = p[i]
          BY <3>1, <5>1
        <5> QED
          BY <5>2, <5>3, <5>4
      <4> QED
        BY <4>1, <4>2
    <3>8. Len(u) \in 1..(Len(p) - 1)
      BY <3>2, <3>3, <3>4, <3>6
    <3>9. u \in Parents(p)
      BY <3>2, <3>6, <3>7, <3>8, ParentWhen
    <3>10. u \in DOMAIN t /\ t[u] = Dir
      BY <1>1, <3>9
    <3>11. u # alone
      BY <3>4, <3>5, <3>6
    <3>12. Tail(u) = q
      <4>1. /\ Tail(u) \in Seq(STRING) /\ Len(Tail(u)) = Len(q)
            /\ \A i \in 1..Len(q) : Tail(u)[i] = u[i + 1]
        <5>1. u \in Paths /\ Len(u) # 1
          BY <3>4, <3>6, LongIsPath
        <5>2. /\ Tail(u) \in Paths /\ Len(Tail(u)) = Len(u) - 1
              /\ \A i \in 1..(Len(u) - 1) : Tail(u)[i] = u[i + 1]
          BY <5>1, TailOfPath
        <5>3. Tail(u) \in Seq(STRING)
          BY <5>2, PathLength
        <5> QED
          BY <3>4, <3>6, <5>2, <5>3
      <4>2. ASSUME NEW i \in 1..Len(q) PROVE Tail(u)[i] = q[i]
        <5>1. i + 1 \in 1..(Len(q) + 1) /\ ~(i + 1 <= 1) /\ (i + 1) - 1 = i
          BY <3>4
        <5>2. u[i + 1] = q[i]
          BY <3>6, <5>1
        <5> QED
          BY <4>1, <5>2
      <4> QED
        BY <3>4, <4>1, <4>2, SeqEqual
    <3> QED
      BY <3>10, <3>11, <3>12
  <2>10. \A p \in below : p \in Paths /\ IsSafe(p) /\ w[p] \in STRING
    <3> HIDE DEF w, below
    <3> QED
      BY <1>1, <2>5, <2>6
  <2>11. ASSUME NEW b \in below, NEW q \in Parents(b) PROVE q \in below /\ w[q] = Dir
    <3>1. PICK p \in DOMAIN t \ {alone} : b = Tail(p)
      OBVIOUS
    <3>2. PICK u \in DOMAIN t \ {alone} : q = Tail(u) /\ t[u] = Dir
      BY <2>9, <3>1
    <3>3. q \in below
      BY <3>2
    <3>4. alone \o q = u
      BY <2>5, <3>2
    <3> QED
      BY <3>2, <3>3, <3>4
  <2> HIDE DEF w, below
  <2>12. IsTree(w)
    BY <2>7, <2>8, <2>10, <2>11 DEF IsTree
  <2>13. \A p \in DOMAIN w : \E q \in DOMAIN t : w[p] = t[q]
    BY <2>6, <2>7
  <2> QED
    BY <2>1, <2>12, <2>13
<1> QED
  BY <1>3, <1>4

-----------------------------------------------------------------------------
(* Packing                                                                   *)

\* Of some paths there is a shortest one: what is above it is not among them.
LEMMA NextPathIs ==
  ASSUME NEW S, S \subseteq Paths, S # {}
  PROVE  NextPath(S) \in S
<1> DEFINE L == {Len(p) : p \in S}
<1>1. L \subseteq Nat
  BY PathLength
<1>2. L # {}
  OBVIOUS
<1> HIDE DEF L
<1>3. PICK x \in L : \A y \in L : ~ (<<y, x>> \in OpToRel(<, Nat))
  BY <1>1, <1>2, WFMin, NatLessThanWellFounded
<1>4. \A y \in L : ~(y < x)
  BY <1>1, <1>3 DEF OpToRel
<1>5. PICK p \in S : Len(p) = x
  BY <1>3 DEF L
<1>6. \A q \in S : Len(p) <= Len(q)
  <2>1. ASSUME NEW q \in S PROVE Len(p) <= Len(q)
    <3>1. Len(q) \in L /\ Len(p) \in L
      BY DEF L
    <3> QED
      BY <1>1, <1>4, <1>5, <3>1
  <2> QED
    BY <2>1
<1>7. Parents(p) \intersect S = {}
  <2>1. ASSUME NEW q \in S, q \in Parents(p) PROVE FALSE
    <3>1. p \in Paths /\ q \in Paths
      OBVIOUS
    <3>2. Len(q) \in 1..(Len(p) - 1) /\ Len(p) \in Nat
      BY <2>1, <3>1, ParentIs, PathLength
    <3>3. Len(p) <= Len(q)
      BY <1>6, <2>1
    <3> QED
      BY <3>2, <3>3
  <2> QED
    BY <2>1
<1> QED
  BY <1>7 DEF NextPath

\* The recursion of Walk, step by step.
LEMMA WalkRuns ==
  ASSUME NEW paths, Cardinality(paths) \in Nat
  PROVE  \E walk :
           /\ Walk(paths) = walk[Cardinality(paths)]
           /\ walk[0] = <<>>
           /\ \A n \in 1..Cardinality(paths) :
                walk[n] = Append(walk[n - 1], NextPath(paths \ Range(walk[n - 1])))
<1> DEFINE N == Cardinality(paths)
           Step(w) == Append(w, NextPath(paths \ Range(w)))
           IsRun(g, m) == g = [n \in 0..m |-> IF n = 0 THEN <<>> ELSE Step(g[n - 1])]
           I == {m \in Nat : \E g : IsRun(g, m)}
<1>1. 0 \in I
  <2>1. IsRun([n \in 0..0 |-> <<>>], 0)
    OBVIOUS
  <2> HIDE DEF IsRun
  <2> QED
    BY <2>1
<1>2. ASSUME NEW m \in Nat, m \in I PROVE m + 1 \in I
  <2>1. PICK g : IsRun(g, m)
    BY <1>2
  <2> DEFINE h == [n \in 0..(m + 1) |-> IF n = m + 1 THEN Step(g[m]) ELSE g[n]]
  <2>2. IsRun(h, m + 1)
    <3> HIDE DEF Step
    <3> SUFFICES ASSUME NEW n \in 0..(m + 1)
                 PROVE  h[n] = IF n = 0 THEN <<>> ELSE Step(h[n - 1])
      OBVIOUS
    <3>1. CASE n = m + 1
      BY <3>1
    <3>2. CASE n \in 0..m
      <4>1. g[n] = IF n = 0 THEN <<>> ELSE Step(g[n - 1])
        BY <2>1, <3>2
      <4>2. n # 0 => n - 1 \in 0..m
        BY <3>2
      <4> QED
        BY <3>2, <4>1, <4>2
    <3> QED
      BY <3>1, <3>2
  <2> HIDE DEF h, IsRun
  <2>3. \E f : IsRun(f, m + 1)
    BY <2>2
  <2>4. m + 1 \in Nat
    OBVIOUS
  <2> QED
    BY <2>3, <2>4
<1>3. N \in I
  <2> HIDE DEF I
  <2> QED
    BY <1>1, <1>2, NatSetInduction
<1>4. \E g : IsRun(g, N)
  BY <1>3
<1> DEFINE walk == CHOOSE g : g = [n \in 0..Cardinality(paths) |->
                                    IF n = 0 THEN <<>>
                                    ELSE Append(g[n - 1], NextPath(paths \ Range(g[n - 1])))]
<1>5. IsRun(walk, N)
  BY <1>4
<1>6. Walk(paths) = walk[N]
  BY DEF Walk
<1> HIDE DEF walk
<1>7. walk[0] = <<>>
  BY <1>5
<1>8. ASSUME NEW n \in 1..N PROVE walk[n] = Step(walk[n - 1])
  <2>1. n \in 0..N /\ n # 0
    OBVIOUS
  <2> HIDE DEF Step
  <2> QED
    BY <1>5, <2>1
<1> QED
  BY <1>6, <1>7, <1>8

\* What the walk returns: every path, once.
IsListing(list, paths) ==
  /\ list \in Seq(paths) /\ Len(list) = Cardinality(paths)
  /\ \A i, j \in 1..Len(list) : list[i] = list[j] => i = j
  /\ \A p \in paths : \E i \in 1..Len(list) : list[i] = p

\* A walk lists every path once.
LEMMA WalkIs ==
  ASSUME NEW paths, IsFiniteSet(paths), paths \subseteq Paths
  PROVE  IsListing(Walk(paths), paths)
<1> DEFINE N == Cardinality(paths)
<1>1. N \in Nat
  BY FS_CardinalityType
<1>2. PICK walk : /\ Walk(paths) = walk[N]
                  /\ walk[0] = <<>>
                  /\ \A n \in 1..N :
                       walk[n] = Append(walk[n - 1], NextPath(paths \ Range(walk[n - 1])))
  BY <1>1, WalkRuns
<1> HIDE DEF N
<1> DEFINE Once(w) == \A i, j \in 1..Len(w) : w[i] = w[j] => i = j
           I == {n \in 0..N : walk[n] \in Seq(paths) /\ Len(walk[n]) = n /\ Once(walk[n])}
<1>3. 0 \in I
  <2>1. walk[0] \in Seq(paths) /\ Len(walk[0]) = 0
    BY <1>2, EmptySeq
  <2>2. Once(walk[0])
    BY <2>1
  <2> QED
    BY <1>1, <2>1, <2>2
<1>4. ASSUME NEW n \in 0..N, n # N, n \in I PROVE n + 1 \in I
  <2> DEFINE w == walk[n]
             p == NextPath(paths \ Range(w))
             v == Append(w, p)
  <2>1. w \in Seq(paths) /\ Len(w) = n /\ Once(w)
    BY <1>4
  <2>2. n \in Nat /\ n < N /\ n + 1 \in 1..N /\ (n + 1) - 1 = n
    BY <1>1, <1>4
  <2>3. walk[n + 1] = v
    BY <1>2, <2>2
  <2> HIDE DEF w, I
  <2>4. Range(w) = {w[i] : i \in 1..n}
    BY <2>1, RangeEquality
  <2>5. paths \ Range(w) # {}
    <3> SUFFICES ASSUME paths \subseteq Range(w) PROVE FALSE
      OBVIOUS
    <3>1. w \in [1..n -> paths]
      BY <2>1, LenProperties
    <3>2. w \in Surjection(1..n, paths)
      BY <2>4, <3>1 DEF Surjection
    <3>3. IsFiniteSet(1..n) /\ Cardinality(1..n) = n
      BY <2>2, FS_Interval
    <3>4. Cardinality(paths) <= Cardinality(1..n)
      BY <3>2, <3>3, FS_Surjection
    <3> QED
      BY <1>1, <2>2, <3>3, <3>4 DEF N
  <2>6. p \in paths /\ p \notin Range(w)
    <3>1. NextPath(paths \ Range(w)) \in paths \ Range(w)
      BY <2>5, NextPathIs
    <3> QED
      BY <3>1
  <2> HIDE DEF p
  <2>7. /\ v \in Seq(paths) /\ Len(v) = n + 1
        /\ \A i \in 1..n : v[i] = w[i]
        /\ v[n + 1] = p
    BY <2>1, <2>6, AppendProperties
  <2> HIDE DEF v
  <2>8. Once(v)
    <3>1. ASSUME NEW i \in 1..(n + 1), NEW j \in 1..(n + 1), v[i] = v[j] PROVE i = j
      <4>1. CASE i \in 1..n /\ j \in 1..n
        BY <2>1, <2>7, <3>1, <4>1
      <4>2. CASE i = n + 1 /\ j \in 1..n
        BY <2>4, <2>6, <2>7, <3>1, <4>2
      <4>3. CASE i \in 1..n /\ j = n + 1
        BY <2>4, <2>6, <2>7, <3>1, <4>3
      <4> QED
        BY <2>2, <4>1, <4>2, <4>3
    <3> QED
      BY <2>7, <3>1
  <2>9. n + 1 \in 0..N
    BY <1>1, <2>2
  <2> QED
    BY <2>3, <2>7, <2>8, <2>9 DEF I
<1>5. N \in I
  <2> HIDE DEF I
  <2>1. 0..N \subseteq I
    BY <1>1, <1>3, <1>4, UpToInduction
  <2> QED
    BY <1>1, <2>1
<1> DEFINE w == walk[N]
<1>6. w \in Seq(paths) /\ Len(w) = N /\ Once(w)
  BY <1>5
<1> HIDE DEF w, I
<1>7. \A p \in paths : \E i \in 1..N : w[i] = p
  <2>1. w \in [1..N -> paths]
    BY <1>6, LenProperties
  <2>2. w \in Injection(1..N, paths)
    BY <1>6, <2>1, Fun_IsInj
  <2>3. IsFiniteSet(1..N) /\ Cardinality(1..N) = N
    BY <1>1, FS_Interval
  <2>4. w \in Surjection(1..N, paths)
    BY <2>2, <2>3, FS_Injection DEF N
  <2> QED
    BY <2>4 DEF Surjection
<1> QED
  BY <1>2, <1>6, <1>7 DEF IsListing, w, N

\* What is packed of a tree.
Kept(t) == {p \in DOMAIN t : ~IsExcluded(p)}

IsPacked(archive, t) ==
  /\ archive \in Seq(Entries)
  /\ \A i \in 1..Len(archive) :
       /\ archive[i].path \in Kept(t)
       /\ archive[i].kind = IF t[archive[i].path] = Dir THEN "dir" ELSE "file"
       /\ t[archive[i].path] # Dir => archive[i].body = t[archive[i].path]
  /\ \A i, j \in 1..Len(archive) : archive[i].path = archive[j].path => i = j
  /\ \A p \in Kept(t) : \E i \in 1..Len(archive) : archive[i].path = p

\* And that is what packing returns.
LEMMA PackIs ==
  ASSUME NEW t, IsTree(t)
  PROVE  IsPacked(Pack(t), t)
<1> DEFINE K == Kept(t)
           w == Walk(K)
           Packed(p) == IF t[p] = Dir THEN Entry(p, "dir", None) ELSE Entry(p, "file", t[p])
           a == [i \in 1..Len(w) |-> Packed(w[i])]
<1>1. Pack(t) = a
  BY DEF Pack, Kept
<1>2. IsFiniteSet(DOMAIN t) /\ \A p \in DOMAIN t : p \in Paths /\ t[p] \in STRING
  BY DEF IsTree
<1>3. IsFiniteSet(K) /\ K \subseteq Paths /\ K \subseteq DOMAIN t
  BY <1>2, FS_Subset DEF Kept
<1> HIDE DEF K
<1>4. IsListing(w, K)
  BY <1>3, WalkIs
<1> HIDE DEF w
<1>5. /\ w \in Seq(K)
      /\ \A i, j \in 1..Len(w) : w[i] = w[j] => i = j
      /\ \A p \in K : \E i \in 1..Len(w) : w[i] = p
  BY <1>4 DEF IsListing
<1>6. Len(w) \in Nat /\ \A i \in 1..Len(w) : w[i] \in K
  BY <1>5
<1>7. ASSUME NEW p \in K
      PROVE  /\ Packed(p) \in Entries /\ Packed(p).path = p
             /\ Packed(p).kind = IF t[p] = Dir THEN "dir" ELSE "file"
             /\ t[p] # Dir => Packed(p).body = t[p]
  <2>1. p \in Seq(STRING) /\ t[p] \in STRING
    BY <1>2, <1>3, PathLength
  <2>2. Dir \in STRING /\ "file" \in STRING /\ None \in STRING \ {Dir} /\ Dir = "dir"
    BY LiteralsAreStrings DEF LiteralsAreStrings, Dir, None
  <2>3. CASE t[p] = Dir
    <3>1. Packed(p) = [path |-> p, kind |-> "dir", body |-> None]
      BY <2>3 DEF Entry
    <3> HIDE DEF Packed
    <3> QED
      BY <2>1, <2>2, <2>3, <3>1 DEF Entries
  <2>4. CASE t[p] # Dir
    <3>1. Packed(p) = [path |-> p, kind |-> "file", body |-> t[p]]
      BY <2>4 DEF Entry
    <3> HIDE DEF Packed
    <3> QED
      BY <2>1, <2>2, <2>4, <3>1 DEF Entries
  <2> QED
    BY <2>3, <2>4
<1> HIDE DEF Packed
<1>8. a \in [1..Len(w) -> Entries]
  BY <1>6, <1>7
<1>9. a \in Seq(Entries) /\ Len(a) = Len(w)
  BY <1>6, <1>8
<1>10. \A i \in 1..Len(w) : a[i] = Packed(w[i])
  OBVIOUS
<1> HIDE DEF a
<1>11. \A i \in 1..Len(w) :
         /\ a[i].path = w[i] /\ w[i] \in K
         /\ a[i].kind = IF t[w[i]] = Dir THEN "dir" ELSE "file"
         /\ t[w[i]] # Dir => a[i].body = t[w[i]]
  BY <1>6, <1>7, <1>10
<1>12. IsPacked(a, t)
  <2>1. \A i, j \in 1..Len(a) : a[i].path = a[j].path => i = j
    BY <1>5, <1>9, <1>11
  <2>2. \A p \in Kept(t) : \E i \in 1..Len(a) : a[i].path = p
    BY <1>5, <1>9, <1>11 DEF K
  <2> QED
    BY <1>9, <1>11, <2>1, <2>2 DEF IsPacked, K
<1> QED
  BY <1>1, <1>12

\* A parent of a path that is packed is packed.
LEMMA KeptClosed ==
  ASSUME NEW t, IsTree(t), NEW p \in Kept(t), NEW q \in Parents(p)
  PROVE  q \in Kept(t) /\ t[q] = Dir
<1>1. p \in DOMAIN t /\ p \in Paths /\ ~IsExcluded(p) /\ q \in DOMAIN t /\ t[q] = Dir
  BY DEF Kept, IsTree
<1>2. q[1] = p[1]
  BY <1>1, PathLength, ParentsSafe
<1> QED
  BY <1>1, <1>2 DEF Kept, IsExcluded

\* What a packed tree comes to when it is unpacked beside files that are not packed.
LEMMA PackedIs ==
  ASSUME NEW t, IsTree(t), NEW f, IsTree(f), \A p \in DOMAIN f : IsExcluded(p)
  PROVE  /\ Pack(t) \in Seq(Entries)
         /\ Extractable(Pack(t), f)
         /\ Covered(Named(Pack(t))) = Kept(t)
         /\ NamedFiles(Pack(t)) = Kept(t) \intersect Files(t)
<1> DEFINE a == Pack(t)
<1>1. IsPacked(a, t)
  BY PackIs
<1> HIDE DEF a
<1>2. /\ a \in Seq(Entries)
      /\ \A i \in 1..Len(a) :
           /\ a[i].path \in Kept(t)
           /\ a[i].kind = IF t[a[i].path] = Dir THEN "dir" ELSE "file"
      /\ \A i, j \in 1..Len(a) : a[i].path = a[j].path => i = j
      /\ \A p \in Kept(t) : \E i \in 1..Len(a) : a[i].path = p
  BY <1>1 DEF IsPacked
<1>3. DOMAIN a = 1..Len(a)
  BY <1>2
<1>4. ASSUME NEW p \in Kept(t) PROVE p \in DOMAIN t /\ p # <<>> /\ IsSafe(p) /\ p \in Paths
  BY DEF Kept, IsTree, Paths
<1>5. Named(a) = Kept(t)
  BY <1>2, <1>3, <1>4 DEF Named
<1>6. NamedFiles(a) = Kept(t) \intersect Files(t)
  <2>1. ASSUME NEW p \in NamedFiles(a) PROVE p \in Kept(t) /\ t[p] # Dir
    <3>1. PICK i \in 1..Len(a) : a[i].kind = "file" /\ p = a[i].path
      BY <1>3 DEF NamedFiles
    <3> QED
      BY <1>2, <3>1
  <2>2. ASSUME NEW p \in Kept(t), t[p] # Dir PROVE p \in NamedFiles(a)
    <3>1. PICK i \in 1..Len(a) : a[i].path = p
      BY <1>2
    <3> QED
      BY <1>2, <1>3, <1>4, <2>2, <3>1 DEF NamedFiles
  <2> QED
    BY <1>4, <2>1, <2>2 DEF Files
<1>7. Covered(Kept(t)) = Kept(t)
  <2>1. ASSUME NEW q \in Covered(Kept(t)) PROVE q \in Kept(t)
    <3>1. q \in Kept(t) \/ \E p \in Kept(t) : q \in Parents(p)
      BY CoveredIs
    <3> QED
      BY <3>1, KeptClosed
  <2> QED
    BY <2>1, CoveredIs
<1>8. DOMAIN f \intersect Kept(t) = {} /\ Files(f) \subseteq DOMAIN f
  BY DEF Kept, Files
<1>9. \A p \in Kept(t) : Parents(p) \intersect (NamedFiles(a) \union Files(f)) = {}
  BY <1>6, <1>8, KeptClosed DEF Files
<1>10. \A i \in DOMAIN a :
         /\ IsSafe(a[i].path)
         /\ a[i].path # <<>> => a[i].kind \in {"file", "dir"}
         /\ \A j \in DOMAIN a : a[i].path = a[j].path => i = j \/ a[i].path = <<>>
  BY <1>2, <1>3, <1>4
<1>11. Extractable(a, f)
  BY <1>5, <1>6, <1>8, <1>9, <1>10 DEF Extractable
<1> QED
  BY <1>2, <1>5, <1>6, <1>7, <1>11 DEF a

\* Theorem: whatever is in a run directory, its pack unpacks beside files that
\* are not packed themselves, and gives back every path of it that is packed, as
\* it was, and nothing else (pack_tar_gz_file, extract_tar_gz_file).
THEOREM PackComesBack ==
  ASSUME NEW t, IsTree(t), NEW f, IsTree(f), \A p \in DOMAIN f : IsExcluded(p)
  PROVE  LET x == Extract(Pack(t), f)
         IN  /\ x.ok /\ IsTree(x.tree)
             /\ DOMAIN x.tree = DOMAIN f \union Kept(t)
             /\ \A p \in Kept(t) : x.tree[p] = t[p]
             /\ \A p \in DOMAIN f : x.tree[p] = f[p]
<1> DEFINE a == Pack(t)
           x == Extract(a, f)
           w == x.tree
<1>1. /\ a \in Seq(Entries) /\ Extractable(a, f)
      /\ Covered(Named(a)) = Kept(t) /\ NamedFiles(a) = Kept(t) \intersect Files(t)
  BY PackedIs
<1>2. IsPacked(a, t)
  BY PackIs
<1> HIDE DEF a
<1>3. x.ok
  BY <1>1, ExtractIsExact DEF IsTree
<1>4. /\ IsTree(w)
      /\ DOMAIN w = DOMAIN f \union Covered(Named(a))
      /\ Files(w) = Files(f) \union NamedFiles(a)
      /\ \A p \in DOMAIN f : w[p] = f[p]
      /\ \A i \in 1..Len(a) : (a[i].path # <<>> /\ a[i].kind = "file")
           => w[a[i].path] = a[i].body
  <2>1. Unpacked(w, a, f)
    BY <1>1, <1>3, ExtractTree
  <2> HIDE DEF x
  <2> QED
    BY <2>1 DEF Unpacked
<1> HIDE DEF x
<1>5. ASSUME NEW p \in Kept(t) PROVE w[p] = t[p]
  <2>1. p \in DOMAIN w /\ p \in DOMAIN t /\ p # <<>> /\ p \notin DOMAIN f
    BY <1>1, <1>4 DEF Kept, IsTree, Paths
  <2>2. CASE t[p] = Dir
    BY <1>1, <1>4, <2>1, <2>2 DEF Files
  <2>3. CASE t[p] # Dir
    <3>1. PICK i \in 1..Len(a) : a[i].path = p
      BY <1>2 DEF IsPacked
    <3>2. a[i].kind = "file" /\ a[i].body = t[p]
      BY <1>2, <2>3, <3>1 DEF IsPacked
    <3> QED
      BY <1>4, <2>1, <3>1, <3>2
  <2> QED
    BY <2>2, <2>3
<1> QED
  BY <1>1, <1>3, <1>4, <1>5 DEF x, a

-----------------------------------------------------------------------------
(* Digests                                                                   *)

\* Two trees with the same files, but for what is never packed.
Alike(w, t) ==
  \A p : ~IsExcluded(p) => (p \in Files(w) <=> p \in Files(t))
                           /\ (p \in Files(w) => w[p] = t[p])

\* A directory that can be packed: the root, or one outside secrets and tmp.
Packable(dir) == dir = <<>> \/ ~IsExcluded(dir)

\* A path below a directory that is packed is packed.
LEMMA PathBelow ==
  ASSUME NEW dir \in Seq(STRING), NEW b \in Paths
  PROVE  /\ dir \o b \in Paths
         /\ (dir \o b)[1] = IF dir = <<>> THEN b[1] ELSE dir[1]
         /\ (Packable(dir) /\ ~IsExcluded(b)) => ~IsExcluded(dir \o b)
<1> DEFINE u == dir \o b
<1>1. b \in Seq(STRING) /\ Len(b) \in Nat \ {0}
  BY PathLength
<1>2. Joined(u, dir, b)
  BY <1>1, JoinIs
<1> HIDE DEF u
<1>3. /\ u \in Seq(STRING) /\ Len(u) = Len(dir) + Len(b)
      /\ \A i \in 1..(Len(dir) + Len(b)) : u[i] = IF i <= Len(dir) THEN dir[i] ELSE b[i - Len(dir)]
  BY <1>2 DEF Joined
<1>4. Len(dir) \in Nat /\ (dir = <<>> <=> Len(dir) = 0)
  BY EmptySeq
<1>5. u \in Paths
  BY <1>1, <1>3, <1>4, LongIsPath
<1>6. u[1] = IF dir = <<>> THEN b[1] ELSE dir[1]
  BY <1>1, <1>3, <1>4
<1>7. ASSUME Packable(dir), ~IsExcluded(b) PROVE ~IsExcluded(u)
  BY <1>6, <1>7 DEF Packable, IsExcluded
<1> QED
  BY <1>5, <1>6, <1>7 DEF u

\* A path that another one leads to starts like it.
LEMMA PrefixStart ==
  ASSUME NEW a \in Paths, NEW p \in Paths, IsPrefix(a, p)
  PROVE  p[1] = a[1]
<1>1. /\ a \in Seq(STRING) /\ p \in Seq(STRING) /\ Len(a) \in Nat \ {0} /\ Len(p) \in Nat
      /\ Len(a) <= Len(p) /\ SubSeq(a, 1, Len(a)) = SubSeq(p, 1, Len(a))
  BY PathLength DEF IsPrefix
<1>2. SubSeq(a, 1, Len(a))[1] = a[1]
  BY <1>1, SubSeqFull
<1>3. \A i \in 1..Len(a) : p[i] \in STRING
  BY <1>1
<1>4. SubSeq(p, 1, Len(a))[1] = p[1]
  <2>1. \A i \in 1..Len(a) : SubSeq(p, 1, Len(a))[i] = p[1 + i - 1]
    BY <1>1, <1>3, SubSeqProperties
  <2> QED
    BY <1>1, <2>1
<1> QED
  BY <1>1, <1>2, <1>4

\* The names that the digests look for.
LEMMA DigestedNames ==
  /\ <<".terraform", "providers">> \in Paths /\ ~IsExcluded(<<".terraform", "providers">>)
  /\ <<".terraform.lock.hcl">> \in Paths /\ ~IsExcluded(<<".terraform.lock.hcl">>)
  /\ <<"terraform.tfstate">> \in Paths /\ ~IsExcluded(<<"terraform.tfstate">>)
  /\ <<".terraform", "terraform.tfstate">> \in Paths
  /\ ~IsExcluded(<<".terraform", "terraform.tfstate">>)
<1>1. /\ ".terraform" \in STRING /\ "providers" \in STRING
      /\ ".terraform.lock.hcl" \in STRING /\ "terraform.tfstate" \in STRING
  BY LiteralsAreStrings DEF LiteralsAreStrings
<1>2. /\ <<".terraform", "providers">> \in Seq(STRING)
      /\ <<".terraform.lock.hcl">> \in Seq(STRING)
      /\ <<"terraform.tfstate">> \in Seq(STRING)
      /\ <<".terraform", "terraform.tfstate">> \in Seq(STRING)
  BY <1>1
<1>3. /\ <<".terraform", "providers">> # <<>>
      /\ <<".terraform.lock.hcl">> # <<>>
      /\ <<"terraform.tfstate">> # <<>>
      /\ <<".terraform", "terraform.tfstate">> # <<>>
  OBVIOUS
<1>4. /\ <<".terraform", "providers">>[1] = ".terraform"
      /\ <<".terraform.lock.hcl">>[1] = ".terraform.lock.hcl"
      /\ <<"terraform.tfstate">>[1] = "terraform.tfstate"
      /\ <<".terraform", "terraform.tfstate">>[1] = ".terraform"
  OBVIOUS
<1> QED
  BY <1>2, <1>3, <1>4 DEF Paths, IsExcluded

\* Alike trees have the same digest of a packed file.
LEMMA AlikeFileDigest ==
  ASSUME NEW w, NEW t, Alike(w, t), NEW p, ~IsExcluded(p)
  PROVE  FileDigest(w, p) = FileDigest(t, p) /\ (IsFile(w, p) <=> IsFile(t, p))
BY DEF FileDigest, IsFile, Alike, Files

\* Trees that differ in what is not packed have the same digests.
LEMMA AlikeDigests ==
  ASSUME NEW w, NEW t, Alike(w, t), IsTree(w), IsTree(t), NEW dir \in Seq(STRING), Packable(dir)
  PROVE  /\ SnapshotDigest(w) = SnapshotDigest(t)
         /\ LockDigest(w, dir) = LockDigest(t, dir)
         /\ StateDigest(w, dir) = StateDigest(t, dir)
         /\ ProviderDigests(w, dir) = ProviderDigests(t, dir)
<1>1. SnapshotDigest(w) = SnapshotDigest(t)
  <2> DEFINE W == {p \in Files(w) : ~IsUndigested(p)}
             T == {p \in Files(t) : ~IsUndigested(p)}
  <2>1. W = T /\ \A p \in W : w[p] = t[p]
    BY DEF Alike, IsUndigested
  <2>2. SnapshotDigest(w) = [p \in W |-> w[p]] /\ SnapshotDigest(t) = [p \in T |-> t[p]]
    BY DEF SnapshotDigest, Digest
  <2> HIDE DEF W, T
  <2> QED
    BY <2>1, <2>2
<1>2. LockDigest(w, dir) = LockDigest(t, dir)
  <2>1. ~IsExcluded(dir \o <<".terraform.lock.hcl">>)
    BY DigestedNames, PathBelow
  <2> QED
    BY <2>1, AlikeFileDigest DEF LockDigest
<1>3. StateDigest(w, dir) = StateDigest(t, dir)
  <2> DEFINE p == dir \o <<"terraform.tfstate">>
             q == dir \o <<".terraform", "terraform.tfstate">>
  <2>1. ~IsExcluded(p) /\ ~IsExcluded(q)
    BY DigestedNames, PathBelow
  <2>2. /\ StateDigest(w, dir) = IF IsFile(w, p) THEN w[p] ELSE FileDigest(w, q)
        /\ StateDigest(t, dir) = IF IsFile(t, p) THEN t[p] ELSE FileDigest(t, q)
    BY DEF StateDigest
  <2> HIDE DEF p, q
  <2>3. FileDigest(w, q) = FileDigest(t, q) /\ (IsFile(w, p) <=> IsFile(t, p))
    BY <2>1, AlikeFileDigest
  <2>4. IsFile(w, p) => w[p] = t[p]
    BY <2>1 DEF Alike, IsFile, Files
  <2> QED
    BY <2>2, <2>3, <2>4
<1>4. ProviderDigests(w, dir) = ProviderDigests(t, dir)
  <2> DEFINE a == Providers(dir)
             W == {p \in Files(w) : IsPrefix(a, p)}
             T == {p \in Files(t) : IsPrefix(a, p)}
  <2>1. a \in Paths /\ ~IsExcluded(a)
    BY DigestedNames, PathBelow DEF Providers
  <2> HIDE DEF a
  <2>2. ASSUME NEW p \in Paths, IsPrefix(a, p) PROVE ~IsExcluded(p)
    BY <2>1, <2>2, PrefixStart DEF IsExcluded
  <2>3. Files(w) \subseteq Paths /\ Files(t) \subseteq Paths
    BY DEF IsTree, Files
  <2>4. W = T /\ \A p \in W : w[p] = t[p]
    BY <2>2, <2>3 DEF Alike
  <2>5. ProviderDigests(w, dir) = [p \in W |-> w[p]] /\ ProviderDigests(t, dir) = [p \in T |-> t[p]]
    BY DEF ProviderDigests, Digest, a
  <2> HIDE DEF W, T
  <2> QED
    BY <2>4, <2>5
<1> QED
  BY <1>1, <1>2, <1>3, <1>4

\* The parents of a path of one or two names.
LEMMA ShortPaths ==
  ASSUME NEW a, NEW b, {a, b} \subseteq STRING
  PROVE  /\ <<a>> \in Paths /\ <<a, b>> \in Paths
         /\ Parents(<<a>>) = {} /\ Parents(<<a, b>>) = {<<a>>}
         /\ <<a>>[1] = a /\ <<a, b>>[1] = a
         /\ (a # "..") => IsSafe(<<a>>)
         /\ (a # ".." /\ b # "..") => IsSafe(<<a, b>>)
<1> DEFINE p1 == <<a>>
           p2 == <<a, b>>
<1>1. /\ p1 \in Seq(STRING) /\ Len(p1) = 1 /\ p1[1] = a
      /\ p2 \in Seq(STRING) /\ Len(p2) = 2 /\ p2[1] = a /\ p2[2] = b
  <2>1. p1 \in Seq(STRING) /\ p2 \in Seq(STRING)
    OBVIOUS
  <2>2. Len(p1) = 1 /\ Len(p2) = 2
    OBVIOUS
  <2>3. p1[1] = a /\ p2[1] = a /\ p2[2] = b
    OBVIOUS
  <2> QED
    BY <2>1, <2>2, <2>3
<1> HIDE DEF p1, p2
<1>2. p1 \in Paths /\ p2 \in Paths
  <2>1. Len(p1) > 0 /\ Len(p2) > 0
    BY <1>1
  <2> QED
    BY <1>1, <2>1, LongIsPath
<1>3. Parents(p1) = {}
  <2>1. ASSUME NEW q \in Parents(p1) PROVE FALSE
    <3>1. Len(q) \in 1..(Len(p1) - 1)
      BY <1>1, ParentIs
    <3> QED
      BY <1>1, <3>1
  <2> QED
    BY <2>1
<1>4. Parents(p2) = {p1}
  <2>1. p1 \in Parents(p2)
    <3>1. Len(p1) \in 1..(Len(p2) - 1)
          /\ \A i \in 1..Len(p1) : p1[i] = p2[i]
      BY <1>1
    <3> QED
      BY <1>1, <3>1, ParentWhen
  <2>2. ASSUME NEW q \in Parents(p2) PROVE q = p1
    <3>1. q \in Paths /\ Len(q) \in 1..(Len(p2) - 1)
          /\ \A i \in 1..Len(q) : q[i] = p2[i]
      BY <1>1, ParentIs
    <3>2. q \in Seq(STRING) /\ Len(q) = 1 /\ q[1] = a
      BY <1>1, <3>1, PathLength
    <3>3. Len(q) = Len(p1) /\ \A i \in 1..Len(q) : q[i] = p1[i]
      BY <1>1, <3>2
    <3> QED
      BY <1>1, <3>2, <3>3, SeqEqual
  <2> QED
    BY <2>1, <2>2
<1>5. Range(p1) = {a} /\ Range(p2) = {a, b}
  <2>1. Range(p1) = {p1[i] : i \in 1..Len(p1)}
    BY <1>1, RangeEquality
  <2>2. Range(p2) = {p2[i] : i \in 1..Len(p2)}
    BY <1>1, RangeEquality
  <2>3. 1..1 = {1} /\ 1..2 = {1, 2}
    OBVIOUS
  <2> QED
    BY <1>1, <2>1, <2>2, <2>3
<1> QED
  BY <1>1, <1>2, <1>3, <1>4, <1>5 DEF IsSafe, p1, p2

\* In a directory two paths are above each other, or the same, as they are in the root.
LEMMA JoinedAbove ==
  ASSUME NEW dir \in Seq(STRING), NEW b \in Paths, NEW c \in Paths
  PROVE  /\ (dir \o c) \in Parents(dir \o b) => c \in Parents(b)
         /\ dir \o c = dir \o b => c = b
         /\ (IsSafe(dir) /\ IsSafe(b)) => IsSafe(dir \o b)
<1> DEFINE u == dir \o b
           v == dir \o c
<1>1. b \in Seq(STRING) /\ c \in Seq(STRING) /\ Len(b) \in Nat \ {0} /\ Len(c) \in Nat \ {0}
      /\ Len(dir) \in Nat
  BY PathLength
<1>2. Joined(u, dir, b) /\ Joined(v, dir, c)
  BY <1>1, JoinIs
<1>3. Range(u) = Range(dir) \union Range(b)
  BY <1>1, RangeConcatenation
<1> HIDE DEF u, v
<1>4. /\ u \in Seq(STRING) /\ Len(u) = Len(dir) + Len(b)
      /\ v \in Seq(STRING) /\ Len(v) = Len(dir) + Len(c)
      /\ \A i \in 1..(Len(dir) + Len(b)) : u[i] = IF i <= Len(dir) THEN dir[i] ELSE b[i - Len(dir)]
      /\ \A i \in 1..(Len(dir) + Len(c)) : v[i] = IF i <= Len(dir) THEN dir[i] ELSE c[i - Len(dir)]
  BY <1>2 DEF Joined
<1>5. \A i \in 1..Len(b) : b[i] = u[Len(dir) + i]
  <2>1. ASSUME NEW i \in 1..Len(b) PROVE b[i] = u[Len(dir) + i]
    <3>1. Len(dir) + i \in 1..(Len(dir) + Len(b)) /\ ~(Len(dir) + i <= Len(dir))
          /\ (Len(dir) + i) - Len(dir) = i
      BY <1>1
    <3> QED
      BY <1>4, <3>1
  <2> QED
    BY <2>1
<1>6. \A i \in 1..Len(c) : c[i] = v[Len(dir) + i]
  <2>1. ASSUME NEW i \in 1..Len(c) PROVE c[i] = v[Len(dir) + i]
    <3>1. Len(dir) + i \in 1..(Len(dir) + Len(c)) /\ ~(Len(dir) + i <= Len(dir))
          /\ (Len(dir) + i) - Len(dir) = i
      BY <1>1
    <3> QED
      BY <1>4, <3>1
  <2> QED
    BY <2>1
<1>7. ASSUME v \in Parents(u) PROVE c \in Parents(b)
  <2>1. Len(v) \in 1..(Len(u) - 1) /\ \A i \in 1..Len(v) : v[i] = u[i]
    BY <1>4, <1>7, ParentIs
  <2>2. Len(c) \in 1..(Len(b) - 1)
    BY <1>1, <1>4, <2>1
  <2>3. ASSUME NEW i \in 1..Len(c) PROVE c[i] = b[i]
    <3>1. Len(dir) + i \in 1..Len(v) /\ i \in 1..Len(b)
      BY <1>1, <1>4, <2>2
    <3> QED
      BY <1>5, <1>6, <2>1, <3>1
  <2> QED
    BY <1>1, <2>2, <2>3, ParentWhen
<1>8. ASSUME v = u PROVE c = b
  <2>1. Len(c) = Len(b)
    BY <1>1, <1>4, <1>8
  <2>2. \A i \in 1..Len(c) : c[i] = b[i]
    BY <1>5, <1>6, <1>8, <2>1
  <2> QED
    BY <1>1, <2>1, <2>2, SeqEqual
<1>9. ASSUME IsSafe(dir), IsSafe(b) PROVE IsSafe(u)
  BY <1>3, <1>9 DEF IsSafe
<1> QED
  BY <1>7, <1>8, <1>9 DEF u, v
=============================================================================
