---------------------------- MODULE Handover_proofs ----------------------------
(***************************************************************************)
(* Proofs about Handover, for every configuration, working directory, host   *)
(* and set of tools: the run directory stays a tree, extraction is exact,    *)
(* an apply goes on with what was planned, and is refused only for a cause.  *)
(***************************************************************************)
EXTENDS Handover, Transfer_proofs, Workspace_proofs

-----------------------------------------------------------------------------
(* The paths and trees of a run                                              *)

\* What is in a run directory before anything is extracted.
LEMMA FreshTree ==
  ASSUME NEW t \in {FreshPlan, FreshApply}
  PROVE  IsTree(t) /\ \A p \in DOMAIN t : IsExcluded(p) /\ p[1] = "tmp" /\ t[p] \in {Dir, "archive"}
<1>1. PICK name \in {"configuration.tar.gz", "plan-snapshot.tar.gz"} :
        t = Over(At(<<"tmp">>, Dir), At(<<"tmp", name>>, "archive"))
  BY DEF FreshPlan, FreshApply, Fresh
<1>2. name \in STRING /\ name # ".." /\ "tmp" \in STRING /\ "tmp" # ".." /\ "archive" \in STRING
      /\ Dir \in STRING
  BY NamesAreStrings, LiteralsAreStrings DEF NamesAreStrings, LiteralsAreStrings
<1> DEFINE p1 == <<"tmp">>
           p2 == <<"tmp", name>>
           f == At(p1, Dir)
           g == At(p2, "archive")
<1>3. /\ p1 \in Paths /\ p2 \in Paths /\ Parents(p1) = {} /\ Parents(p2) = {p1}
      /\ p1[1] = "tmp" /\ p2[1] = "tmp" /\ IsSafe(p1) /\ IsSafe(p2)
  BY <1>2, ShortPaths
<1>4. p1 # p2
  OBVIOUS
<1>5. DOMAIN f = {p1} /\ f[p1] = Dir /\ DOMAIN g = {p2} /\ g[p2] = "archive"
  BY DEF At
<1>6. LaidOver(t, f, g)
  BY <1>1, OverIs
<1> HIDE DEF f, g, p1, p2
<1>7. DOMAIN t = {p1} \union {p2} /\ IsFunction(t) /\ t[p1] = Dir /\ t[p2] = "archive"
  BY <1>4, <1>5, <1>6 DEF LaidOver
<1>8. IsFiniteSet(DOMAIN t)
  <2>1. IsFiniteSet({p1}) /\ IsFiniteSet({p2})
    BY FS_Singleton
  <2>2. IsFiniteSet({p1} \union {p2})
    BY <2>1, FS_Union
  <2> QED
    BY <1>7, <2>2
<1>9. IsTree(t)
  BY <1>2, <1>3, <1>7, <1>8 DEF IsTree
<1> QED
  BY <1>3, <1>7, <1>9 DEF IsExcluded

\* The working directory and the credentials are added to a tree.
LEMMA FurnishedTree ==
  ASSUME NEW t, IsTree(t), NEW dir \in Seq(STRING), IsSafe(dir), Furnishable(t, dir)
  PROVE  /\ IsTree(Furnished(t, dir))
         /\ Files(Furnished(t, dir)) = Files(t) \union {Credentials}
         /\ Furnished(t, dir)[Credentials] = "token"
         /\ \A p \in Files(t) \ {Credentials} : Furnished(t, dir)[p] = t[p]
         /\ IsExcluded(Credentials)
<1> DEFINE dirs == Prefixes(dir) \ {<<>>}
           m == WorkingIn(t, dir)
<1>1. AreDirs(dirs)
  <2>1. IsFiniteSet(dirs)
    <3>1. IsFiniteSet(Prefixes(dir)) /\ dirs \in SUBSET Prefixes(dir)
      BY ParentsFinite
    <3> QED
      BY <3>1, FS_Subset
  <2>2. ASSUME NEW p \in dirs PROVE p \in Paths /\ IsSafe(p) /\ Parents(p) \subseteq dirs
    <3>1. CASE p = dir
      <4>1. p \in Paths
        BY <3>1 DEF Paths
      <4>2. Parents(p) \subseteq dirs
        BY <3>1 DEF Parents
      <4> QED
        BY <3>1, <4>1, <4>2
    <3>2. CASE p # dir
      <4>1. p \in Parents(dir)
        BY <3>2 DEF Parents
      <4>2. p \in Paths /\ IsSafe(p) /\ Parents(p) \subseteq Parents(dir)
        BY <4>1, ParentsClosed, ParentsSafe
      <4>3. Parents(dir) \subseteq dirs
        BY DEF Parents
      <4> QED
        BY <4>2, <4>3
    <3> QED
      BY <3>1, <3>2
  <2> HIDE DEF dirs
  <2> QED
    BY <2>1, <2>2 DEF AreDirs
<1>2. m = MakeDirs(t, dirs) /\ MayMakeDirs(t, dirs) /\ Writable(m, {Credentials})
  BY DEF WorkingIn, Furnishable
<1> HIDE DEF dirs
<1>3. IsTree(m) /\ Files(m) = Files(t) /\ \A p \in Files(t) : m[p] = t[p]
  BY <1>1, <1>2, MakeDirsTree
<1>4. /\ "secrets" \in STRING /\ "terraform.tfrc" \in STRING /\ "token" \in STRING
      /\ "token" # Dir
  BY NamesAreStrings DEF NamesAreStrings, Dir
<1>5. Credentials \in Paths /\ IsSafe(Credentials) /\ Credentials[1] = "secrets"
  BY <1>4, ShortPaths DEF Credentials
<1> HIDE DEF m
<1>6. /\ IsTree(WriteFile(m, Credentials, "token"))
      /\ Files(WriteFile(m, Credentials, "token")) = Files(m) \union {Credentials}
      /\ WriteFile(m, Credentials, "token")[Credentials] = "token"
      /\ \A q \in Files(m) \ {Credentials} : WriteFile(m, Credentials, "token")[q] = m[q]
  BY <1>2, <1>3, <1>4, <1>5, WriteFileTree
<1>7. Furnished(t, dir) = WriteFile(m, Credentials, "token")
  BY DEF Furnished, m
<1>8. IsExcluded(Credentials)
  BY <1>5 DEF IsExcluded
<1> QED
  BY <1>3, <1>6, <1>7, <1>8

\* Where init and plan leave their files, below the working directory.
Tails ==
  {<<".terraform", "providers">> \o <<"aws">>, <<".terraform", "terraform.tfstate">>,
   <<".terraform.lock.hcl">>, <<"tfplan">>}

\* They are paths of their own, none above another.
LEMMA TailsAre ==
  /\ \A b \in Tails : b \in Paths /\ IsSafe(b) /\ ~IsExcluded(b)
  /\ \A b, c \in Tails : c \notin Parents(b)
  /\ <<"tfplan">> \in Tails
  /\ <<".terraform", "providers">> \o <<"aws">> # <<"tfplan">>
<1> DEFINE h == <<".terraform", "providers">>
           l == <<"aws">>
           b1 == h \o l
           b2 == <<".terraform", "terraform.tfstate">>
           b3 == <<".terraform.lock.hcl">>
           b4 == <<"tfplan">>
<1>1. {".terraform", "providers", "aws", "terraform.tfstate", ".terraform.lock.hcl", "tfplan"}
        \subseteq STRING
  BY LiteralsAreStrings, NamesAreStrings DEF LiteralsAreStrings, NamesAreStrings
<1>2. /\ h \in Paths /\ l \in Paths /\ b2 \in Paths /\ b3 \in Paths /\ b4 \in Paths
      /\ IsSafe(h) /\ IsSafe(l) /\ IsSafe(b2) /\ IsSafe(b3) /\ IsSafe(b4)
      /\ Parents(b3) = {} /\ Parents(b4) = {}
      /\ Parents(b2) = {<<".terraform">>}
  <2>1. /\ {".terraform", "providers"} \subseteq STRING
        /\ {".terraform", "terraform.tfstate"} \subseteq STRING
        /\ {"aws", "aws"} \subseteq STRING
        /\ {".terraform.lock.hcl", "aws"} \subseteq STRING
        /\ {"tfplan", "aws"} \subseteq STRING
    BY <1>1
  <2>2. h \in Paths /\ IsSafe(h)
    BY <2>1, ShortPaths
  <2>3. b2 \in Paths /\ IsSafe(b2) /\ Parents(b2) = {<<".terraform">>}
    BY <2>1, ShortPaths
  <2>4. l \in Paths /\ IsSafe(l)
    BY <2>1, ShortPaths
  <2>5. b3 \in Paths /\ IsSafe(b3) /\ Parents(b3) = {}
    BY <2>1, ShortPaths
  <2>6. b4 \in Paths /\ IsSafe(b4) /\ Parents(b4) = {}
    BY <2>1, ShortPaths
  <2> QED
    BY <2>2, <2>3, <2>4, <2>5, <2>6
<1>3. /\ Len(h) = 2 /\ h[1] = ".terraform" /\ h[2] = "providers"
      /\ Len(l) = 1 /\ l[1] = "aws"
      /\ Len(b2) = 2 /\ b2[1] = ".terraform" /\ b2[2] = "terraform.tfstate"
      /\ Len(b3) = 1 /\ b3[1] = ".terraform.lock.hcl"
      /\ Len(b4) = 1 /\ b4[1] = "tfplan"
  OBVIOUS
<1>4. /\ b1 \in Paths /\ IsSafe(b1) /\ Joined(b1, h, l)
  <2> HIDE DEF h, l
  <2>1. h \in Seq(STRING) /\ l \in Seq(STRING)
    BY <1>2, PathLength
  <2> QED
    BY <1>2, <2>1, PathBelow, JoinedAbove, JoinIs
<1>5. b1 \in Seq(STRING) /\ Len(b1) = 3 /\ b1[1] = ".terraform" /\ b1[2] = "providers"
  <2> HIDE DEF b1, h, l
  <2> QED
    BY <1>3, <1>4 DEF Joined
<1>6. <<".terraform">> \notin Tails /\ Tails = {b1, b2, b3, b4} /\ b1 # b4
  <2>1. Len(<<".terraform">>) = 1 /\ <<".terraform">>[1] = ".terraform"
    OBVIOUS
  <2>2. Tails = {b1, b2, b3, b4}
    BY DEF Tails
  <2> HIDE DEF b1, b2, b3, b4
  <2> QED
    BY <1>3, <1>5, <2>1, <2>2
<1> HIDE DEF b1, b2, b3, b4
<1>7. ASSUME NEW c \in Tails PROVE c \notin Parents(b1)
  <2>1. ASSUME c \in Parents(b1) PROVE FALSE
    <3>1. Len(c) \in 1..(Len(b1) - 1) /\ \A i \in 1..Len(c) : c[i] = b1[i]
      BY <1>5, <2>1, ParentIs
    <3>2. c[1] = ".terraform" /\ Len(c) \in {1, 2} /\ (Len(c) = 2 => c[2] = "providers")
      BY <1>5, <3>1
    <3> QED
      BY <1>3, <1>5, <1>6, <3>2
  <2> QED
    BY <2>1
<1>8. \A b, c \in Tails : c \notin Parents(b)
  BY <1>2, <1>6, <1>7
<1>9. \A b \in Tails : b \in Paths /\ IsSafe(b) /\ ~IsExcluded(b)
  BY <1>2, <1>3, <1>4, <1>5, <1>6 DEF IsExcluded
<1> QED
  BY <1>6, <1>8, <1>9 DEF b1, b4, h, l

\* What the commands of a plan leave are files that may be written together; one
\* of them is the plan.
LEMMA ResultsAre ==
  ASSUME NEW dir \in Seq(STRING), IsSafe(dir)
  PROVE  /\ AreFiles(Results(dir))
         /\ DOMAIN Results(dir) = {dir \o b : b \in Tails}
         /\ Results(dir)[dir \o <<"tfplan">>] = "plan"
         /\ \A p \in DOMAIN Results(dir) \ {dir \o <<"tfplan">>} :
              Results(dir)[p] \in {"provider", "backend", "lock"}
<1> DEFINE b1 == <<".terraform", "providers">> \o <<"aws">>
           b2 == <<".terraform", "terraform.tfstate">>
           b3 == <<".terraform.lock.hcl">>
           b4 == <<"tfplan">>
           p1 == dir \o b1
           p2 == dir \o b2
           p3 == dir \o b3
           p4 == dir \o b4
           f == Over(At(p1, "provider"), At(p2, "backend"))
           g == Over(At(p3, "lock"), At(p4, "plan"))
           r == Over(f, g)
<1>1. /\ \A b \in Tails : b \in Paths /\ IsSafe(b)
      /\ \A b, c \in Tails : c \notin Parents(b)
  BY TailsAre
<1>2. Tails = {b1, b2, b3, b4}
  BY DEF Tails
<1>3. Results(dir) = r
  <2>1. Providers(dir) \o <<"aws">> = p1
    <3> DEFINE h == <<".terraform", "providers">>
               l == <<"aws">>
    <3>1. {".terraform", "providers"} \subseteq STRING /\ {"aws", "aws"} \subseteq STRING
      BY LiteralsAreStrings, NamesAreStrings DEF LiteralsAreStrings, NamesAreStrings
    <3>2. h \in Seq(STRING) /\ l \in Seq(STRING)
      BY <3>1
    <3> HIDE DEF h, l
    <3>3. (dir \o h) \o l = dir \o (h \o l)
      BY <3>2, ConcatAssociative
    <3> QED
      BY <3>3 DEF h, l, Providers
  <2> QED
    BY <2>1 DEF Results
<1>4. b4 # b1 /\ b4 # b2 /\ b4 # b3
  <2>1. b4 # b1
    BY TailsAre
  <2>2. b4[1] = "tfplan" /\ b2[1] = ".terraform" /\ b3[1] = ".terraform.lock.hcl"
    OBVIOUS
  <2> HIDE DEF b2, b3, b4
  <2> QED
    BY <2>1, <2>2
<1> HIDE DEF b1, b2, b3, b4
<1>5. p4 # p1 /\ p4 # p2 /\ p4 # p3
  <2>1. b1 \in Paths /\ b2 \in Paths /\ b3 \in Paths /\ b4 \in Paths
    BY <1>1, <1>2
  <2> QED
    BY <1>4, <2>1, JoinedAbove
<1>6. {dir \o b : b \in Tails} = {p1, p2, p3, p4}
  BY <1>2
<1>7. ASSUME NEW p \in {p1, p2, p3, p4}, NEW q \in {p1, p2, p3, p4}
      PROVE  p \in Paths /\ IsSafe(p) /\ p \notin Parents(q)
  <2>1. PICK b \in Tails : p = dir \o b
    BY <1>2, <1>7
  <2>2. PICK c \in Tails : q = dir \o c
    BY <1>2, <1>7
  <2>3. b \in Paths /\ c \in Paths /\ IsSafe(b)
    BY <1>1
  <2>4. (dir \o b) \in Parents(dir \o c) => b \in Parents(c)
    BY <2>3, JoinedAbove
  <2>5. dir \o b \in Paths /\ IsSafe(dir \o b)
    BY <2>3, JoinedAbove, PathBelow
  <2> QED
    BY <1>1, <2>1, <2>2, <2>4, <2>5
<1> HIDE DEF p1, p2, p3, p4
<1>8. /\ DOMAIN f = {p1, p2} /\ \A p \in {p1, p2} : f[p] \in {"provider", "backend"}
  <2>1. LaidOver(f, At(p1, "provider"), At(p2, "backend"))
    BY OverIs
  <2>2. /\ DOMAIN At(p1, "provider") = {p1} /\ At(p1, "provider")[p1] = "provider"
        /\ DOMAIN At(p2, "backend") = {p2} /\ At(p2, "backend")[p2] = "backend"
    BY DEF At
  <2> HIDE DEF f
  <2> QED
    BY <2>1, <2>2 DEF LaidOver
<1>9. /\ DOMAIN g = {p3, p4} /\ g[p3] = "lock" /\ g[p4] = "plan"
  <2>1. LaidOver(g, At(p3, "lock"), At(p4, "plan"))
    BY OverIs
  <2>2. /\ DOMAIN At(p3, "lock") = {p3} /\ At(p3, "lock")[p3] = "lock"
        /\ DOMAIN At(p4, "plan") = {p4} /\ At(p4, "plan")[p4] = "plan"
    BY DEF At
  <2> HIDE DEF g
  <2> QED
    BY <1>5, <2>1, <2>2 DEF LaidOver
<1>10. LaidOver(r, f, g)
  BY OverIs
<1> HIDE DEF f, g, r
<1>11. /\ DOMAIN r = {p1, p2, p3, p4} /\ IsFunction(r) /\ r[p4] = "plan"
       /\ \A p \in DOMAIN r \ {p4} : r[p] \in {"provider", "backend", "lock"}
  BY <1>5, <1>8, <1>9, <1>10 DEF LaidOver
<1>12. IsFiniteSet(DOMAIN r)
  <2>1. IsFiniteSet({p1}) /\ IsFiniteSet({p2}) /\ IsFiniteSet({p3}) /\ IsFiniteSet({p4})
    BY FS_Singleton
  <2>2. IsFiniteSet({p1} \union {p2}) /\ IsFiniteSet({p3} \union {p4})
    BY <2>1, FS_Union
  <2>3. IsFiniteSet(({p1} \union {p2}) \union ({p3} \union {p4}))
    BY <2>2, FS_Union
  <2>4. ({p1} \union {p2}) \union ({p3} \union {p4}) = DOMAIN r
    BY <1>11
  <2> QED
    BY <2>3, <2>4
<1>13. AreFiles(r)
  <2>1. \A p \in DOMAIN r : p \in Paths /\ IsSafe(p)
    BY <1>7, <1>11
  <2>2. \A p, q \in DOMAIN r : p \notin Parents(q)
    BY <1>7, <1>11
  <2>3. \A p \in DOMAIN r : r[p] \in STRING \ {Dir}
    <3>1. {"provider", "backend", "lock", "plan"} \subseteq STRING
      BY NamesAreStrings DEF NamesAreStrings
    <3>2. Dir \notin {"provider", "backend", "lock", "plan"}
      BY DEF Dir
    <3> QED
      BY <1>11, <3>1, <3>2
  <2> QED
    BY <1>11, <1>12, <2>1, <2>2, <2>3 DEF AreFiles
<1> QED
  BY <1>3, <1>6, <1>11, <1>13 DEF p4, b4

-----------------------------------------------------------------------------
(* Archives that were changed, and where a plan can come from                *)

\* An archive that was changed is one, and what it brings is "other" or was there.
LEMMA ChangedAre ==
  ASSUME NEW archive \in Seq(Entries), NEW c \in Changed(archive)
  PROVE  /\ c \in Seq(Entries)
         /\ \A i \in 1..Len(c) :
              c[i].body = "other" \/ \E j \in 1..Len(archive) : c[i].body = archive[j].body
<1> DEFINE OldOrOther(e) == e.body = "other" \/ \E j \in 1..Len(archive) : e.body = archive[j].body
<1>1. DOMAIN archive = 1..Len(archive) /\ Len(archive) \in Nat
      /\ \A i \in 1..Len(archive) : archive[i] \in Entries /\ OldOrOther(archive[i])
  OBVIOUS
<1>2. /\ "other" \in STRING \ {Dir} /\ "file" \in STRING /\ <<"main.tf">> \in Seq(STRING)
  <2>1. "other" \in STRING /\ "file" \in STRING /\ "main.tf" \in STRING
    BY NamesAreStrings, LiteralsAreStrings DEF NamesAreStrings, LiteralsAreStrings
  <2> QED
    BY <2>1 DEF Dir
<1>3. CASE \E i \in 1..Len(archive) :
             c = ReplaceAt(archive, i, [archive[i] EXCEPT !.body = "other"])
  <2>1. PICK i \in 1..Len(archive) : c = [archive EXCEPT ![i] = [archive[i] EXCEPT !.body = "other"]]
    BY <1>3 DEF ReplaceAt
  <2> DEFINE e == [archive[i] EXCEPT !.body = "other"]
  <2>2. e \in Entries /\ e.body = "other"
    <3>1. archive[i] \in Entries
      BY <1>1
    <3> QED
      BY <1>2, <3>1 DEF Entries
  <2> HIDE DEF e, OldOrOther
  <2>3. /\ c \in Seq(Entries) /\ Len(c) = Len(archive)
        /\ \A j \in 1..Len(archive) : c[j] = IF j = i THEN e ELSE archive[j]
    BY <2>1, <2>2, ExceptSeq DEF e
  <2>4. OldOrOther(e)
    BY <2>2 DEF OldOrOther
  <2>5. \A j \in 1..Len(c) : OldOrOther(c[j])
    BY <1>1, <2>3, <2>4
  <2> QED
    BY <2>3, <2>5 DEF OldOrOther
<1>4. CASE \E i \in 1..Len(archive) : c = RemoveAt(archive, i)
  <2>1. PICK i \in 1..Len(archive) : c = RemoveAt(archive, i)
    BY <1>4
  <2> DEFINE l == SubSeq(archive, 1, i - 1)
             r == SubSeq(archive, i + 1, Len(archive))
  <2> HIDE DEF OldOrOther
  <2>2. c = l \o r
    BY <2>1 DEF RemoveAt
  <2>3. /\ l \in Seq(Entries) /\ Len(l) = i - 1
        /\ \A j \in 1..(i - 1) : l[j] = archive[j]
    <3>1. 1 \in Int /\ i - 1 \in Int /\ \A j \in 1..(i - 1) : archive[j] \in Entries
      BY <1>1
    <3>2. /\ l \in Seq(Entries) /\ Len(l) = IF 1 <= i - 1 THEN (i - 1) - 1 + 1 ELSE 0
          /\ \A j \in 1..((i - 1) - 1 + 1) : l[j] = archive[1 + j - 1]
      BY <3>1, SubSeqProperties
    <3> HIDE DEF l
    <3> QED
      BY <1>1, <3>2
  <2>4. /\ r \in Seq(Entries) /\ Len(r) = Len(archive) - i
        /\ \A j \in 1..(Len(archive) - i) : r[j] = archive[i + j]
    <3>1. i + 1 \in Int /\ Len(archive) \in Int
          /\ \A j \in (i + 1)..Len(archive) : archive[j] \in Entries
      BY <1>1
    <3>2. /\ r \in Seq(Entries)
          /\ Len(r) = IF i + 1 <= Len(archive) THEN Len(archive) - (i + 1) + 1 ELSE 0
          /\ \A j \in 1..(Len(archive) - (i + 1) + 1) : r[j] = archive[(i + 1) + j - 1]
      BY <3>1, SubSeqProperties
    <3> HIDE DEF r
    <3>3. Len(r) = Len(archive) - i
      <4>1. i \in Int /\ Len(archive) \in Int /\ i <= Len(archive)
        BY <1>1
      <4>2. CASE i + 1 <= Len(archive)
        BY <3>2, <4>1, <4>2
      <4>3. CASE ~(i + 1 <= Len(archive))
        <5>1. Len(archive) - i = 0
          BY <4>1, <4>3
        <5> QED
          BY <3>2, <4>3, <5>1
      <4> QED
        BY <4>2, <4>3
    <3>4. ASSUME NEW j \in 1..(Len(archive) - i) PROVE r[j] = archive[i + j]
      <4>1. j \in 1..(Len(archive) - (i + 1) + 1) /\ (i + 1) + j - 1 = i + j
        BY <1>1
      <4> QED
        BY <3>2, <4>1
    <3> QED
      BY <3>2, <3>3, <3>4
  <2> HIDE DEF l, r
  <2>5. /\ c \in Seq(Entries) /\ Len(c) = Len(l) + Len(r)
        /\ \A j \in 1..(Len(l) + Len(r)) : c[j] = IF j <= Len(l) THEN l[j] ELSE r[j - Len(l)]
    BY <2>2, <2>3, <2>4, ConcatProperties
  <2>6. ASSUME NEW j \in 1..Len(c) PROVE OldOrOther(c[j])
    <3>1. CASE j <= i - 1
      <4>1. j \in 1..(i - 1) /\ j \in 1..Len(archive) /\ j \in 1..(Len(l) + Len(r)) /\ j <= Len(l)
        BY <1>1, <2>3, <2>4, <2>5, <3>1
      <4>2. c[j] = archive[j]
        BY <2>3, <2>5, <4>1
      <4> QED
        BY <1>1, <4>1, <4>2
    <3>2. CASE ~(j <= i - 1)
      <4>1. /\ j - (i - 1) \in 1..(Len(archive) - i) /\ j + 1 \in 1..Len(archive)
            /\ i + (j - (i - 1)) = j + 1 /\ ~(j <= Len(l)) /\ j \in 1..(Len(l) + Len(r))
        BY <1>1, <2>3, <2>4, <2>5, <3>2
      <4>2. c[j] = r[j - (i - 1)]
        BY <2>3, <2>5, <4>1
      <4>3. r[j - (i - 1)] = archive[i + (j - (i - 1))]
        BY <2>4, <4>1
      <4> QED
        BY <1>1, <4>1, <4>2, <4>3
    <3> QED
      BY <3>1, <3>2
  <2> QED
    BY <2>5, <2>6 DEF OldOrOther
<1>5. CASE c = Append(archive, Entry(<<"main.tf">>, "file", "other"))
  <2> DEFINE e == Entry(<<"main.tf">>, "file", "other")
  <2>1. e \in Entries /\ e.body = "other"
    BY <1>2 DEF Entry, Entries
  <2> HIDE DEF e, OldOrOther
  <2>2. /\ c \in Seq(Entries) /\ Len(c) = Len(archive) + 1
        /\ \A i \in 1..Len(archive) : c[i] = archive[i]
        /\ c[Len(archive) + 1] = e
    BY <1>5, <2>1, AppendProperties DEF e
  <2>3. OldOrOther(e)
    BY <2>1 DEF OldOrOther
  <2>4. \A j \in 1..Len(c) : j \in 1..Len(archive) \/ j = Len(archive) + 1
    BY <1>1, <2>2
  <2>5. \A j \in 1..Len(c) : OldOrOther(c[j])
    BY <1>1, <2>2, <2>3, <2>4
  <2> QED
    BY <2>2, <2>5 DEF OldOrOther
<1> QED
  BY <1>1, <1>3, <1>4, <1>5 DEF Changed

\* Trees and archives without a plan.
NoPlan(t) == \A p \in DOMAIN t : t[p] # "plan"
NoPlanIn(archive) == \A i \in 1..Len(archive) : archive[i].body # "plan"

\* A tree with one plan, which is where the commands leave it.
OnePlan(t, dir) ==
  /\ dir \o <<"tfplan">> \in DOMAIN t /\ t[dir \o <<"tfplan">>] = "plan"
  /\ \A p \in DOMAIN t : t[p] = "plan" => p = dir \o <<"tfplan">>

\* An archive without a plan brings none.
LEMMA ExtractNoPlan ==
  ASSUME NEW archive \in Seq(Entries), NoPlanIn(archive), NEW t, NoPlan(t),
         NEW w, Unpacked(w, archive, t)
  PROVE  NoPlan(w)
<1>1. DOMAIN archive = 1..Len(archive)
  OBVIOUS
<1>2. ASSUME NEW p \in DOMAIN w, w[p] = "plan" PROVE FALSE
  <2>1. p \in Files(w)
    BY <1>2 DEF Files, Dir
  <2>2. CASE p \in Files(t)
    BY <1>2, <2>2 DEF Unpacked, NoPlan, Files
  <2>3. CASE p \in NamedFiles(archive)
    <3>1. PICK i \in 1..Len(archive) : archive[i].kind = "file" /\ archive[i].path = p /\ p # <<>>
      BY <1>1, <2>3 DEF NamedFiles
    <3>2. w[p] = archive[i].body
      BY <3>1 DEF Unpacked
    <3> QED
      BY <1>2, <3>1, <3>2 DEF NoPlanIn
  <2> QED
    BY <2>1, <2>2, <2>3 DEF Unpacked
<1> QED
  BY <1>2 DEF NoPlan

-----------------------------------------------------------------------------
(* What was planned comes back                                               *)

\* The directories down to the working directory lead to every file in it.
LEMMA PrefixesLead ==
  ASSUME NEW dir \in Seq(STRING), NEW b \in Paths
  PROVE  Prefixes(dir) \ {<<>>} \subseteq Parents(dir \o b)
<1> SUFFICES ASSUME NEW q \in Prefixes(dir) \ {<<>>} PROVE q \in Parents(dir \o b)
  OBVIOUS
<1> DEFINE u == dir \o b
<1>1. b \in Seq(STRING) /\ Len(b) \in Nat \ {0} /\ Len(dir) \in Nat
  BY PathLength
<1>2. Joined(u, dir, b)
  BY <1>1, JoinIs
<1> HIDE DEF u
<1>3. /\ u \in Seq(STRING) /\ Len(u) = Len(dir) + Len(b)
      /\ \A i \in 1..(Len(dir) + Len(b)) : u[i] = IF i <= Len(dir) THEN dir[i] ELSE b[i - Len(dir)]
  BY <1>2 DEF Joined
<1>4. q \in Seq(STRING) /\ Len(q) \in 1..Len(dir) /\ \A i \in 1..Len(q) : q[i] = dir[i]
  <2>1. CASE q = dir
    BY <1>1, <2>1, EmptySeq
  <2>2. CASE q # dir
    <3>1. q \in Parents(dir)
      BY <2>2 DEF Parents
    <3>2. q \in Paths /\ Len(q) \in 1..(Len(dir) - 1) /\ \A i \in 1..Len(q) : q[i] = dir[i]
      BY <3>1, ParentIs
    <3> QED
      BY <1>1, <3>2, PathLength
  <2> QED
    BY <2>1, <2>2
<1>5. Len(q) \in 1..(Len(u) - 1) /\ \A i \in 1..Len(q) : q[i] = u[i]
  BY <1>1, <1>3, <1>4
<1>6. q \in Parents(u)
  BY <1>3, <1>4, <1>5, ParentWhen
<1> QED
  BY <1>6 DEF u

\* The snapshot of a tree, extracted by an apply.
Back(t) == Extract(Pack(t), FreshApply)

\* It brings back what was packed, beside what was there.
LEMMA BackIs ==
  ASSUME NEW t, IsTree(t)
  PROVE  /\ Back(t).ok /\ IsTree(Back(t).tree)
         /\ DOMAIN Back(t).tree = DOMAIN FreshApply \union Kept(t)
         /\ \A p \in Kept(t) : Back(t).tree[p] = t[p]
<1>1. IsTree(FreshApply) /\ \A p \in DOMAIN FreshApply : IsExcluded(p)
  BY FreshTree
<1> QED
  BY <1>1, PackComesBack DEF Back

\* Furnished for any working directory, it has the files that were packed.
LEMMA BackIsAlike ==
  ASSUME NEW t, IsTree(t), NEW dir \in Seq(STRING), IsSafe(dir),
         Furnishable(Back(t).tree, dir)
  PROVE  Alike(Furnished(Back(t).tree, dir), t)
<1> DEFINE w == Back(t).tree
           f == Furnished(w, dir)
<1>1. /\ IsTree(w) /\ DOMAIN w = DOMAIN FreshApply \union Kept(t)
      /\ \A p \in Kept(t) : w[p] = t[p]
  BY BackIs
<1>2. \A p \in DOMAIN FreshApply : IsExcluded(p)
  BY FreshTree
<1> HIDE DEF w
<1>3. /\ Files(f) = Files(w) \union {Credentials}
      /\ \A p \in Files(w) \ {Credentials} : f[p] = w[p]
      /\ IsExcluded(Credentials)
  BY <1>1, FurnishedTree DEF w
<1> HIDE DEF f
<1>4. ASSUME NEW p, ~IsExcluded(p)
      PROVE  (p \in Files(f) <=> p \in Files(t)) /\ (p \in Files(f) => f[p] = t[p])
  <2>1. p \in Files(f) <=> p \in Files(w)
    BY <1>3, <1>4
  <2>2. p \in DOMAIN w <=> p \in Kept(t)
    BY <1>1, <1>2, <1>4
  <2>3. p \in Files(w) <=> p \in Files(t)
    BY <1>1, <1>4, <2>2 DEF Files, Kept
  <2>4. p \in Files(w) => f[p] = w[p] /\ w[p] = t[p]
    BY <1>1, <1>3, <1>4, <2>2 DEF Files
  <2> QED
    BY <2>1, <2>3, <2>4
<1>5. Alike(f, t)
  BY <1>4 DEF Alike
<1> QED
  BY <1>5 DEF f, w

\* It can be furnished for the directory it was planned in, if that was packed.
LEMMA BackIsFurnishable ==
  ASSUME NEW t, IsTree(t), NEW dir \in Seq(STRING), IsSafe(dir), Packable(dir),
         dir \o <<"tfplan">> \in DOMAIN t
  PROVE  Furnishable(Back(t).tree, dir)
<1> DEFINE w == Back(t).tree
           m == WorkingIn(w, dir)
           dirs == Prefixes(dir) \ {<<>>}
<1>1. /\ IsTree(w) /\ DOMAIN w = DOMAIN FreshApply \union Kept(t)
      /\ \A p \in Kept(t) : w[p] = t[p]
  BY BackIs
<1> HIDE DEF w
<1>2. \A p \in DOMAIN FreshApply : p[1] = "tmp"
  BY FreshTree
<1>3. /\ {"secrets", "terraform.tfrc"} \subseteq STRING
      /\ {"tfplan", "tfplan"} \subseteq STRING
  BY NamesAreStrings DEF NamesAreStrings
<1>4. <<"tfplan">> \in Paths
  BY <1>3, ShortPaths
<1>5. dirs \subseteq Parents(dir \o <<"tfplan">>)
  BY <1>4, PrefixesLead
<1>6. ASSUME NEW q \in dirs PROVE q \in Kept(t) /\ t[q] = Dir /\ ~IsExcluded(q)
  <2>1. q \in DOMAIN t /\ t[q] = Dir
    BY <1>5 DEF IsTree
  <2>2. q[1] = dir[1]
    <3>1. CASE q = dir
      BY <3>1
    <3>2. CASE q # dir
      <4>1. q \in Parents(dir)
        BY <3>2 DEF Parents
      <4> QED
        BY <4>1, ParentsSafe
    <3> QED
      BY <3>1, <3>2
  <2>3. dir # <<>>
    <3>1. ASSUME dir = <<>> PROVE FALSE
      <4>1. q \in Prefixes(<<>>) /\ q # <<>>
        BY <3>1
      <4>2. PICK l \in 0..Len(<<>>) : q = SubSeq(<<>>, 1, l)
        BY <4>1 DEF Prefixes
      <4>3. l = 0
        OBVIOUS
      <4> QED
        BY <4>1, <4>2, <4>3, SubSeqEmpty
    <3> QED
      BY <3>1
  <2> QED
    BY <2>1, <2>2, <2>3 DEF Packable, IsExcluded, Kept
<1>7. MayMakeDirs(w, dirs)
  BY <1>1, <1>6 DEF MayMakeDirs, IsFile
<1>8. /\ Credentials \in Paths /\ Parents(Credentials) = {<<"secrets">>}
      /\ Credentials[1] = "secrets" /\ <<"secrets">>[1] = "secrets"
  BY <1>3, ShortPaths DEF Credentials
<1>9. \A p : p[1] = "secrets" => p \notin DOMAIN w /\ p \notin dirs
  BY <1>1, <1>2, <1>6 DEF IsExcluded, Kept
<1> HIDE DEF dirs
<1>10. /\ DOMAIN m = DOMAIN w \union dirs
  BY MakeDirsIs DEF WorkingIn, WithDirs, dirs
<1> HIDE DEF m
<1>11. <<"secrets">> \notin DOMAIN m /\ Credentials \notin DOMAIN m
  BY <1>8, <1>9, <1>10
<1>12. Writable(m, {Credentials})
  BY <1>8, <1>11 DEF Writable, MayMakeDirs, IsFile
<1> QED
  BY <1>7, <1>12 DEF Furnishable, m, w, dirs

-----------------------------------------------------------------------------
(* The invariant                                                             *)

\* The manifest of what was planned.
PlannedManifest ==
  [id |-> planned.job.id, host |-> planned.host, tool |-> planned.tool,
   environment |-> planned.job.environment, dir |-> planned.job.dir,
   plan |-> FileDigest(planned.tree, planned.job.dir \o <<"tfplan">>),
   snapshot |-> SnapshotDigest(planned.tree),
   lock |-> LockDigest(planned.tree, planned.job.dir),
   state |-> StateDigest(planned.tree, planned.job.dir),
   providers |-> ProviderDigests(planned.tree, planned.job.dir)]

Typed ==
  /\ pc \in {"idle", "configuration", "snapshot", "tool", "resolve", "run", "seal", "pack",
             "stored", "declined", "applying", "refused", "undone", "failed"}
  /\ agent \in Agents /\ job \in Jobs /\ tool \in Tools \union {None}
  /\ current \in {1, 2}
  /\ known \in [Agents -> SUBSET Jobs] /\ intact \in BOOLEAN
  /\ IsTree(tree)
  /\ object.entries \in Seq(Entries)
  /\ object = [entries |-> object.entries, manifest |-> object.manifest]

\* Where the plan is at work, and where the apply; and who has a tool.
Phases ==
  /\ pc \in {"idle", "configuration", "seal", "pack", "stored", "failed"} => job.phase = "plan"
  /\ pc \in {"snapshot", "declined", "applying", "refused", "undone"} => job.phase = "apply"
  /\ pc \in {"run", "seal", "pack", "applying"} => tool \in Tools
  /\ pc \in {"snapshot", "declined"} => tool = None

\* A tree has no plan before the commands leave one, and one afterwards.
Planning ==
  job.phase = "plan" =>
    /\ pc \in {"idle", "configuration"} => NoPlanIn(object.entries)
    /\ pc \in {"resolve", "tool", "run"} => NoPlan(tree)
    /\ pc \in {"seal", "pack"} => OnePlan(tree, job.dir)
    /\ pc = "pack" =>
         /\ planned = [job |-> job, tree |-> tree, tool |-> tool, host |-> Host[agent]]
         /\ manifest = PlannedManifest

\* Nobody knows another job than the plan, until the apply is claimed.
Remembered ==
  /\ (job.phase = "plan") => \A a \in Agents : known[a] \subseteq {job}
  /\ (pc = "declined") => \A a \in Agents : known[a] \subseteq {planned.job}

\* What was planned is what is stored, as long as nobody touches it.
HandedOver ==
  (job.phase = "apply" \/ pc = "stored") =>
    /\ planned.job \in Jobs /\ planned.job.phase = "plan"
    /\ pc = "stored" => planned.job = job
    /\ IsTree(planned.tree) /\ OnePlan(planned.tree, planned.job.dir)
    /\ object.entries = Pack(planned.tree) /\ object.manifest = PlannedManifest

\* The apply works in what it read, and nothing but Verified lets it go on.
PreparedFrom(o) ==
  LET x == Extract(o.entries, FreshApply)
  IN  /\ x.ok /\ Furnishable(x.tree, job.dir)
      /\ tree = Furnished(x.tree, job.dir)
      /\ manifest = o.manifest
      /\ intact => o = object

Applying ==
  job.phase = "apply" /\ pc \in {"resolve", "tool", "run", "applying"} =>
    /\ \E o \in {object} \union ChangedObject(object) : PreparedFrom(o)
    /\ pc = "applying" => Verified

HState ==
  Typed /\ Phases /\ Planning /\ Remembered /\ HandedOver /\ Applying /\ RefusedForCause

HInv == TInv /\ HState


\* The place of the plan's metadata: a file of the root that is packed.
LEMMA MetadataIs ==
  /\ Metadata \in Paths /\ IsSafe(Metadata) /\ "counts" \in STRING \ {Dir}
  /\ \A dir \in Seq(STRING) : Metadata # dir \o <<"tfplan">>
<1>1. /\ {".terrence-agent-plan-metadata.json", "tfplan"} \subseteq STRING
      /\ {"tfplan", "tfplan"} \subseteq STRING /\ "counts" \in STRING
  BY NamesAreStrings DEF NamesAreStrings
<1> DEFINE m == <<".terrence-agent-plan-metadata.json">>
           b == <<"tfplan">>
<1>2. m \in Paths /\ IsSafe(m) /\ b \in Paths
  BY <1>1, ShortPaths
<1>3. Len(m) = 1 /\ m[1] = ".terrence-agent-plan-metadata.json" /\ Len(b) = 1 /\ b[1] = "tfplan"
  OBVIOUS
<1> HIDE DEF m, b
<1>4. ASSUME NEW dir \in Seq(STRING), m = dir \o b PROVE FALSE
  <2>1. b \in Seq(STRING)
    BY <1>2, PathLength
  <2>2. Joined(dir \o b, dir, b)
    BY <2>1, JoinIs
  <2>3. Joined(m, dir, b)
    BY <1>4, <2>2
  <2>4. Len(dir) = 0 /\ m[1] = b[1]
    <3>1. Len(dir) \in Nat /\ 1 = Len(dir) + 1
      BY <1>3, <2>3 DEF Joined
    <3>2. Len(dir) = 0 /\ 1 \in 1..(Len(dir) + 1) /\ ~(1 <= Len(dir)) /\ 1 - Len(dir) = 1
      BY <3>1
    <3> QED
      BY <1>3, <2>3, <3>2 DEF Joined
  <2> QED
    BY <1>3, <2>4
<1> QED
  BY <1>1, <1>2, <1>4 DEF Metadata, m, b, Dir

\* The working directory and the credentials bring no plan.
LEMMA FurnishedNoPlan ==
  ASSUME NEW t, IsTree(t), NoPlan(t), NEW dir \in Seq(STRING), IsSafe(dir), Furnishable(t, dir)
  PROVE  IsTree(Furnished(t, dir)) /\ NoPlan(Furnished(t, dir))
<1> DEFINE w == Furnished(t, dir)
<1>1. /\ IsTree(w) /\ Files(w) = Files(t) \union {Credentials} /\ w[Credentials] = "token"
      /\ \A p \in Files(t) \ {Credentials} : w[p] = t[p]
  BY FurnishedTree
<1> HIDE DEF w
<1>2. ASSUME NEW p \in DOMAIN w, w[p] = "plan" PROVE FALSE
  <2>1. p \in Files(w)
    BY <1>2 DEF Files, Dir
  <2>2. p # Credentials
    BY <1>1, <1>2
  <2>3. p \in Files(t) /\ w[p] = t[p]
    BY <1>1, <2>1, <2>2
  <2> QED
    BY <1>2, <2>3 DEF NoPlan, Files
<1> QED
  BY <1>1, <1>2 DEF NoPlan, w

\* What the user uploaded is flattened and furnished, and has no plan.
LEMMA ConfigurationTree ==
  ASSUME NEW archive \in Seq(Entries), NoPlanIn(archive), NEW dir \in Seq(STRING), IsSafe(dir),
         Extract(archive, FreshPlan).ok, Flatten(Extract(archive, FreshPlan).tree).ok,
         Furnishable(Flatten(Extract(archive, FreshPlan).tree).tree, dir)
  PROVE  LET w == Furnished(Flatten(Extract(archive, FreshPlan).tree).tree, dir)
         IN  IsTree(w) /\ NoPlan(w)
<1> DEFINE t == Extract(archive, FreshPlan).tree
           f == Flatten(t)
<1>1. IsTree(FreshPlan) /\ NoPlan(FreshPlan)
  <2>1. IsTree(FreshPlan) /\ \A p \in DOMAIN FreshPlan : FreshPlan[p] \in {Dir, "archive"}
    BY FreshTree
  <2> QED
    BY <2>1 DEF NoPlan, Dir
<1>2. Unpacked(t, archive, FreshPlan)
  BY <1>1, ExtractTree
<1>3. NoPlan(t) /\ IsTree(t)
  <2> HIDE DEF t
  <2>1. NoPlan(t)
    BY <1>1, <1>2, ExtractNoPlan
  <2> QED
    BY <1>2, <2>1 DEF Unpacked
<1>4. f.ok /\ Furnishable(f.tree, dir)
  OBVIOUS
<1> HIDE DEF t
<1>5. IsTree(f.tree) /\ \A p \in DOMAIN f.tree : \E q \in DOMAIN t : f.tree[p] = t[q]
  BY <1>3, <1>4, FlattenTree
<1> HIDE DEF f
<1>6. NoPlan(f.tree)
  BY <1>3, <1>5 DEF NoPlan
<1>7. IsTree(Furnished(f.tree, dir)) /\ NoPlan(Furnished(f.tree, dir))
  BY <1>4, <1>5, <1>6, FurnishedNoPlan
<1> QED
  BY <1>7 DEF f, t

\* The commands of a plan leave one.
LEMMA ResultsLeaveOnePlan ==
  ASSUME NEW t, IsTree(t), NoPlan(t), NEW dir \in Seq(STRING), IsSafe(dir),
         Writable(t, DOMAIN Results(dir))
  PROVE  IsTree(WriteFiles(t, Results(dir))) /\ OnePlan(WriteFiles(t, Results(dir)), dir)
<1> DEFINE r == Results(dir)
           w == WriteFiles(t, r)
           b == <<"tfplan">>
           u == dir \o b
<1>1. /\ AreFiles(r) /\ DOMAIN r = {dir \o c : c \in Tails} /\ r[u] = "plan"
      /\ \A p \in DOMAIN r \ {u} : r[p] \in {"provider", "backend", "lock"}
  BY ResultsAre
<1>2. u \in DOMAIN r /\ Writable(t, DOMAIN r)
  BY <1>1, TailsAre
<1> HIDE DEF r, u
<1>3. /\ IsTree(w) /\ Files(w) = Files(t) \union DOMAIN r
      /\ \A p \in DOMAIN r : w[p] = r[p]
      /\ \A p \in Files(t) \ DOMAIN r : w[p] = t[p]
  <2>1. AreFiles(r) /\ Writable(t, DOMAIN r)
    BY <1>1, <1>2
  <2> QED
    BY <2>1, WriteFilesTree
<1> HIDE DEF w
<1>4. u \in DOMAIN w /\ w[u] = "plan"
  BY <1>1, <1>2, <1>3 DEF Files
<1>5. ASSUME NEW p \in DOMAIN w, w[p] = "plan" PROVE p = u
  <2>1. p \in Files(w)
    BY <1>5 DEF Files, Dir
  <2>2. CASE p \in DOMAIN r
    BY <1>1, <1>3, <1>5, <2>2
  <2>3. CASE p \notin DOMAIN r
    <3>1. p \in Files(t) /\ w[p] = t[p]
      BY <1>3, <2>1, <2>3
    <3> QED
      BY <1>5, <3>1 DEF NoPlan, Files
  <2> QED
    BY <2>2, <2>3
<1>6. OnePlan(w, dir)
  BY <1>4, <1>5 DEF OnePlan, u, b
<1> QED
  BY <1>3, <1>6 DEF w, r

\* The metadata is not another.
LEMMA SealedHasOnePlan ==
  ASSUME NEW t, IsTree(t), NEW dir \in Seq(STRING), OnePlan(t, dir), Writable(t, {Metadata})
  PROVE  /\ IsTree(WriteFile(t, Metadata, "counts"))
         /\ OnePlan(WriteFile(t, Metadata, "counts"), dir)
<1> DEFINE w == WriteFile(t, Metadata, "counts")
           u == dir \o <<"tfplan">>
<1>1. /\ IsTree(w) /\ Files(w) = Files(t) \union {Metadata} /\ w[Metadata] = "counts"
      /\ \A q \in Files(t) \ {Metadata} : w[q] = t[q]
  BY MetadataIs, WriteFileTree
<1>2. u # Metadata
  BY MetadataIs
<1>3. u \in DOMAIN t /\ t[u] = "plan" /\ \A p \in DOMAIN t : t[p] = "plan" => p = u
  BY DEF OnePlan
<1> HIDE DEF w, u
<1>4. u \in Files(t) /\ u \in Files(w)
  BY <1>1, <1>3 DEF Files, Dir
<1>5. u \in DOMAIN w /\ w[u] = "plan"
  BY <1>1, <1>2, <1>3, <1>4 DEF Files
<1>6. ASSUME NEW p \in DOMAIN w, w[p] = "plan" PROVE p = u
  <2>1. p \in Files(w) /\ p # Metadata
    BY <1>1, <1>6 DEF Files, Dir
  <2>2. p \in Files(t) /\ w[p] = t[p]
    BY <1>1, <2>1
  <2> QED
    BY <1>3, <1>6, <2>2 DEF Files
<1>7. OnePlan(w, dir)
  BY <1>5, <1>6 DEF OnePlan, u
<1> QED
  BY <1>1, <1>7 DEF w


-----------------------------------------------------------------------------
(* What is read of what is stored                                            *)

\* What was stored, or it with other entries, or with another manifest.
LEMMA ReadingIs ==
  ASSUME NEW x, x = [entries |-> x.entries, manifest |-> x.manifest],
         NEW o \in {x} \union ChangedObject(x)
  PROVE  \/ o = x
         \/ o.entries \in Changed(x.entries) /\ o.manifest = x.manifest
         \/ o.entries = x.entries /\ o.manifest \in ChangedManifest(x.manifest)
<1>1. CASE o = x
  BY <1>1
<1>2. CASE \E e \in Changed(x.entries) : o = [x EXCEPT !.entries = e]
  <2>1. PICK e \in Changed(x.entries) : o = [x EXCEPT !.entries = e]
    BY <1>2
  <2>2. o.entries = e /\ o.manifest = x.manifest
    BY <2>1
  <2> QED
    BY <2>1, <2>2
<1>3. CASE \E m \in ChangedManifest(x.manifest) : o = [x EXCEPT !.manifest = m]
  <2>1. PICK m \in ChangedManifest(x.manifest) : o = [x EXCEPT !.manifest = m]
    BY <1>3
  <2>2. o.entries = x.entries /\ o.manifest = m
    BY <2>1
  <2> QED
    BY <2>1, <2>2
<1> QED
  BY <1>1, <1>2, <1>3 DEF ChangedObject

\* A manifest, changed or not, has in each field what it had or nothing that exists.
LEMMA ManifestsAre ==
  ASSUME NEW m, m = [id |-> m.id, host |-> m.host, tool |-> m.tool,
                     environment |-> m.environment, dir |-> m.dir, plan |-> m.plan,
                     snapshot |-> m.snapshot, lock |-> m.lock, state |-> m.state,
                     providers |-> m.providers],
         NEW c \in {m} \union ChangedManifest(m)
  PROVE  /\ c # NoManifest
         /\ c.id \in {m.id, "other"} /\ c.host \in {m.host, "other"}
         /\ c.tool \in {m.tool, "other"} /\ c.environment \in {m.environment, "other"}
         /\ c.dir = m.dir \/ (c.dir = <<>> /\ c.plan = m.plan)
<1> DEFINE fields == {"id", "host", "tool", "environment", "dir", "plan", "snapshot", "lock",
                      "state", "providers"}
<1>1. DOMAIN m = fields /\ DOMAIN NoManifest = {"id"}
  BY DEF NoManifest
<1>2. "dir" \in fields /\ "dir" \notin {"id"}
  OBVIOUS
<1>3. m # NoManifest
  BY <1>1, <1>2
<1>4. CASE c = m
  BY <1>3, <1>4
<1>5. ASSUME NEW f \in {"id", "host", "tool", "environment", "lock", "state", "plan"},
             c = [m EXCEPT ![f] = "other"]
      PROVE  /\ DOMAIN c = fields
             /\ c.id \in {m.id, "other"} /\ c.host \in {m.host, "other"}
             /\ c.tool \in {m.tool, "other"} /\ c.environment \in {m.environment, "other"}
             /\ c.dir = m.dir
  BY <1>5
<1>6. ASSUME NEW f \in {"dir", "snapshot", "providers"}, c = [m EXCEPT ![f] = <<>>]
      PROVE  /\ DOMAIN c = fields
             /\ c.id = m.id /\ c.host = m.host
             /\ c.tool = m.tool /\ c.environment = m.environment
             /\ c.dir = m.dir \/ (c.dir = <<>> /\ c.plan = m.plan)
  BY <1>6
<1> QED
  BY <1>1, <1>2, <1>3, <1>4, <1>5, <1>6 DEF ChangedManifest


-----------------------------------------------------------------------------
(* What the verification lets through, and what it refuses                   *)

\* What a job is.
LEMMA JobIs ==
  ASSUME NEW j \in Jobs
  PROVE  /\ j.dir \in Seq(STRING) /\ IsSafe(j.dir) /\ j.id \in Ids
         /\ j.environment \in Environments /\ j.phase \in {"plan", "apply"}
         /\ j = [id |-> j.id, phase |-> j.phase, dir |-> j.dir, environment |-> j.environment]
BY DirectoriesAreSafe DEF Jobs, DirectoriesAreSafe

\* Two jobs are the same run's plan and apply when the rest of them is the same.
LEMMA SameRun ==
  ASSUME NEW j \in Jobs, NEW k \in Jobs, j.phase = "apply"
  PROVE  j = [k EXCEPT !.phase = "apply"]
           <=> j.id = k.id /\ j.dir = k.dir /\ j.environment = k.environment
<1> DEFINE r == [k EXCEPT !.phase = "apply"]
<1>1. /\ j = [id |-> j.id, phase |-> j.phase, dir |-> j.dir, environment |-> j.environment]
      /\ k = [id |-> k.id, phase |-> k.phase, dir |-> k.dir, environment |-> k.environment]
  BY JobIs
<1>2. r = [id |-> k.id, phase |-> "apply", dir |-> k.dir, environment |-> k.environment]
  BY <1>1
<1> QED
  BY <1>1, <1>2

\* The files that the commands read have the digests that are compared.
LEMMA DigestsTell ==
  ASSUME NEW w, NEW t, NEW dir, SnapshotDigest(w) = SnapshotDigest(t),
         ProviderDigests(w, dir) = ProviderDigests(t, dir)
  PROVE  /\ Relevant(w, dir) = Relevant(t, dir)
         /\ \A p \in Relevant(t, dir) : w[p] = t[p]
<1> DEFINE S(x) == {p \in Files(x) : ~IsUndigested(p)}
           P(x) == {p \in Files(x) : IsPrefix(Providers(dir), p)}
<1>1. ASSUME NEW x, NEW y, SnapshotDigest(x) = SnapshotDigest(y)
      PROVE  S(x) = S(y) /\ \A p \in S(x) : x[p] = y[p]
  <2> DEFINE f == [p \in S(x) |-> x[p]]
             g == [p \in S(y) |-> y[p]]
  <2>1. f = g
    BY <1>1 DEF SnapshotDigest, Digest
  <2>2. DOMAIN f = S(x) /\ DOMAIN g = S(y) /\ (\A p \in S(x) : f[p] = x[p])
        /\ \A p \in S(y) : g[p] = y[p]
    OBVIOUS
  <2> HIDE DEF f, g, S
  <2> QED
    BY <2>1, <2>2
<1>2. ASSUME NEW x, NEW y, ProviderDigests(x, dir) = ProviderDigests(y, dir)
      PROVE  P(x) = P(y) /\ \A p \in P(x) : x[p] = y[p]
  <2> DEFINE f == [p \in P(x) |-> x[p]]
             g == [p \in P(y) |-> y[p]]
  <2>1. f = g
    BY <1>2 DEF ProviderDigests, Digest
  <2>2. DOMAIN f = P(x) /\ DOMAIN g = P(y) /\ (\A p \in P(x) : f[p] = x[p])
        /\ \A p \in P(y) : g[p] = y[p]
    OBVIOUS
  <2> HIDE DEF f, g, P
  <2> QED
    BY <2>1, <2>2
<1>3. /\ S(w) = S(t) /\ \A p \in S(w) : w[p] = t[p]
      /\ P(w) = P(t) /\ \A p \in P(w) : w[p] = t[p]
  BY <1>1, <1>2
<1>4. ASSUME NEW x, NEW p
      PROVE  p \in Relevant(x, dir) <=>
               /\ p \in S(x) \union P(x)
               /\ ~IsExcluded(p) /\ (dir # <<>> => ~IsPrefix(Providers(<<>>), p))
  <2>1. CASE dir = <<>>
    BY <2>1 DEF Relevant, IsUndigested
  <2>2. CASE dir # <<>>
    BY <2>2 DEF Relevant, IsUndigested
  <2> QED
    BY <2>1, <2>2
<1> HIDE DEF S, P
<1>5. Relevant(w, dir) = Relevant(t, dir)
  <2>1. \A p : p \in Relevant(w, dir) <=> p \in Relevant(t, dir)
    BY <1>3, <1>4
  <2> QED
    BY <2>1, Zenon
<1> QED
  BY <1>3, <1>4, <1>5

\* The place of the plan is one that is packed.
LEMMA PlanIsPacked ==
  ASSUME NEW dir \in Seq(STRING), Packable(dir)
  PROVE  ~IsExcluded(dir \o <<"tfplan">>)
<1>1. {"tfplan", "tfplan"} \subseteq STRING
  BY NamesAreStrings DEF NamesAreStrings
<1> DEFINE b == <<"tfplan">>
<1>2. b \in Paths /\ b[1] = "tfplan"
  BY <1>1, ShortPaths
<1> HIDE DEF b
<1>3. ~IsExcluded(b)
  BY <1>2 DEF IsExcluded
<1>4. ~IsExcluded(dir \o b)
  BY <1>2, <1>3, PathBelow
<1> QED
  BY <1>4 DEF b


\* What the planned manifest says.
LEMMA PlannedManifestIs ==
  /\ PlannedManifest =
       [id |-> PlannedManifest.id, host |-> PlannedManifest.host,
        tool |-> PlannedManifest.tool, environment |-> PlannedManifest.environment,
        dir |-> PlannedManifest.dir, plan |-> PlannedManifest.plan,
        snapshot |-> PlannedManifest.snapshot, lock |-> PlannedManifest.lock,
        state |-> PlannedManifest.state, providers |-> PlannedManifest.providers]
  /\ PlannedManifest.id = planned.job.id /\ PlannedManifest.host = planned.host
  /\ PlannedManifest.tool = planned.tool
  /\ PlannedManifest.environment = planned.job.environment
  /\ PlannedManifest.dir = planned.job.dir
  /\ PlannedManifest.plan = FileDigest(planned.tree, planned.job.dir \o <<"tfplan">>)
  /\ PlannedManifest.snapshot = SnapshotDigest(planned.tree)
  /\ PlannedManifest.lock = LockDigest(planned.tree, planned.job.dir)
  /\ PlannedManifest.state = StateDigest(planned.tree, planned.job.dir)
  /\ PlannedManifest.providers = ProviderDigests(planned.tree, planned.job.dir)
BY DEF PlannedManifest

\* What the apply works in and with, when it goes on.
LEMMA AppliedWasPlanned ==
  ASSUME Typed, HandedOver, Applying, job.phase = "apply", pc = "applying", tool \in Tools
  PROVE  AppliedIsPlanned
<1> DEFINE k == planned.job
           q == planned.tree
           m == PlannedManifest
<1>1. /\ k \in Jobs /\ IsTree(q) /\ OnePlan(q, k.dir)
      /\ object.entries = Pack(q) /\ object.manifest = m
      /\ job \in Jobs /\ agent \in Agents
      /\ object = [entries |-> object.entries, manifest |-> object.manifest]
  BY DEF HandedOver, Typed
<1>2. Verified
  BY DEF Applying
<1>3. PICK o \in {object} \union ChangedObject(object) : PreparedFrom(o)
  BY DEF Applying
<1>4. /\ Extract(o.entries, FreshApply).ok
      /\ Furnishable(Extract(o.entries, FreshApply).tree, job.dir)
      /\ tree = Furnished(Extract(o.entries, FreshApply).tree, job.dir)
      /\ manifest = o.manifest
  BY <1>3 DEF PreparedFrom
<1>5. \/ o.entries \in Changed(object.entries) /\ o.manifest = m
      \/ o.entries = object.entries /\ o.manifest \in {m} \union ChangedManifest(m)
  <2> HIDE DEF m
  <2> QED
    BY <1>1, ReadingIs
<1>6. /\ manifest.id \in {k.id, "other"} /\ manifest.host \in {planned.host, "other"}
      /\ manifest.tool \in {planned.tool, "other"}
      /\ manifest.environment \in {k.environment, "other"}
      /\ manifest.dir = k.dir \/ (manifest.dir = <<>> /\ manifest.plan = m.plan)
  <2>1. manifest \in {m} \union ChangedManifest(m)
    BY <1>4, <1>5
  <2> HIDE DEF m
  <2>2. /\ manifest.id \in {m.id, "other"} /\ manifest.host \in {m.host, "other"}
        /\ manifest.tool \in {m.tool, "other"}
        /\ manifest.environment \in {m.environment, "other"}
        /\ manifest.dir = m.dir \/ (manifest.dir = <<>> /\ manifest.plan = m.plan)
    <3>1. m = [id |-> m.id, host |-> m.host, tool |-> m.tool,
               environment |-> m.environment, dir |-> m.dir, plan |-> m.plan,
               snapshot |-> m.snapshot, lock |-> m.lock, state |-> m.state,
               providers |-> m.providers]
      BY PlannedManifestIs DEF m
    <3> QED
      BY <2>1, <3>1, ManifestsAre
  <2>3. /\ m.id = k.id /\ m.host = planned.host /\ m.tool = planned.tool
        /\ m.environment = k.environment /\ m.dir = k.dir
    BY PlannedManifestIs DEF m
  <2> QED
    BY <2>2, <2>3
<1>7. /\ manifest.id = job.id /\ manifest.host = Host[agent] /\ manifest.tool = tool
      /\ manifest.plan # None
      /\ manifest.plan = FileDigest(tree, job.dir \o <<"tfplan">>)
      /\ manifest.snapshot = SnapshotDigest(tree)
      /\ manifest.providers = ProviderDigests(tree, job.dir)
      /\ manifest.dir = job.dir /\ manifest.environment = job.environment
  BY <1>2 DEF Verified
<1>8. /\ job.id = k.id /\ planned.host = Host[agent] /\ planned.tool = tool
      /\ job.environment = k.environment
  <2>1. job.id # "other" /\ Host[agent] # "other" /\ tool # "other" /\ job.environment # "other"
    <3>1. job.id \in Ids /\ job.environment \in Environments
      BY <1>1, JobIs
    <3> QED
      BY <1>1, <3>1, NothingIsForged DEF NothingIsForged
  <2> QED
    BY <1>6, <1>7, <2>1
<1>9. job.dir \in Seq(STRING) /\ IsSafe(job.dir) /\ k.dir \in Seq(STRING)
  BY <1>1, JobIs
<1>10. CASE o.entries \in Changed(object.entries) /\ o.manifest = m
  <2>1. /\ manifest.dir = k.dir /\ manifest.snapshot = SnapshotDigest(q)
        /\ manifest.providers = ProviderDigests(q, k.dir)
    BY <1>4, <1>10, PlannedManifestIs
  <2>2. /\ job.dir = k.dir /\ SnapshotDigest(tree) = SnapshotDigest(q)
        /\ ProviderDigests(tree, job.dir) = ProviderDigests(q, job.dir)
    BY <1>7, <2>1
  <2>3. /\ Relevant(tree, job.dir) = Relevant(q, job.dir)
        /\ \A p \in Relevant(q, job.dir) : tree[p] = q[p]
    BY <2>2, DigestsTell
  <2>4. job = [k EXCEPT !.phase = "apply"]
    BY <1>1, <1>8, <2>2, SameRun
  <2> QED
    BY <1>8, <2>2, <2>3, <2>4 DEF AppliedIsPlanned
<1>11. CASE o.entries = object.entries
  <2>1. Alike(tree, q)
    <3>1. Extract(o.entries, FreshApply) = Back(q)
      BY <1>1, <1>11 DEF Back
    <3>2. Furnishable(Back(q).tree, job.dir) /\ tree = Furnished(Back(q).tree, job.dir)
      BY <1>4, <3>1
    <3> HIDE DEF q
    <3> QED
      BY <1>1, <1>9, <3>2, BackIsAlike
  <2>2. job.dir = k.dir
    <3>1. CASE manifest.dir = k.dir
      BY <1>7, <3>1
    <3>2. CASE manifest.dir = <<>> /\ manifest.plan = m.plan
      <4> DEFINE b == <<"tfplan">>
                 u == k.dir \o b
      <4>1. b \in Paths /\ Len(b) = 1 /\ <<>> \o b = b /\ ~IsExcluded(b)
        <5>1. {"tfplan", "tfplan"} \subseteq STRING /\ <<>> \in Seq(STRING)
          BY NamesAreStrings DEF NamesAreStrings
        <5>2. b \in Paths
          BY <5>1, ShortPaths
        <5>3. Packable(<<>>)
          BY DEF Packable
        <5>4. <<>> \o b = b
          OBVIOUS
        <5>5. ~IsExcluded(<<>> \o b)
          BY <5>1, <5>3, PlanIsPacked
        <5> QED
          BY <5>2, <5>4, <5>5
      <4>2. job.dir = <<>>
        BY <1>7, <3>2
      <4>3. m.plan = "plan"
        <5>1. u \in DOMAIN q /\ q[u] = "plan"
          BY <1>1 DEF OnePlan
        <5>2. FileDigest(q, u) = "plan"
          BY <5>1 DEF FileDigest, IsFile, Dir
        <5> QED
          BY <5>2, PlannedManifestIs
      <4>4. FileDigest(tree, b) = "plan"
        BY <1>7, <3>2, <4>1, <4>2, <4>3
      <4> HIDE DEF b, u, q
      <4>5. FileDigest(q, b) = "plan"
        BY <2>1, <4>1, <4>4, AlikeFileDigest
      <4>6. b \in DOMAIN q /\ q[b] = "plan"
        BY <4>5 DEF FileDigest, IsFile, None
      <4>7. b = u
        BY <1>1, <4>6 DEF OnePlan, u, b
      <4>8. Len(k.dir) = 0
        <5>1. b \in Seq(STRING)
          BY <4>1, PathLength
        <5>2. Joined(k.dir \o b, k.dir, b)
          BY <1>9, <5>1, JoinIs
        <5>3. Len(b) = Len(k.dir) + Len(b) /\ Len(k.dir) \in Nat
          <6>1. Joined(b, k.dir, b)
            BY <4>7, <5>2 DEF u
          <6> QED
            BY <1>9, <6>1 DEF Joined
        <5> QED
          BY <4>1, <5>3
      <4>9. k.dir = <<>>
        BY <1>9, <4>8, EmptySeq
      <4> QED
        BY <4>2, <4>9
    <3> QED
      BY <1>6, <3>1, <3>2
  <2>3. /\ Relevant(tree, job.dir) = Relevant(q, job.dir)
        /\ \A p \in Relevant(q, job.dir) : tree[p] = q[p]
    <3> HIDE DEF q
    <3> QED
      BY <2>1 DEF Alike, Relevant
  <2>4. job = [k EXCEPT !.phase = "apply"]
    BY <1>1, <1>8, <2>2, SameRun
  <2> QED
    BY <1>8, <2>2, <2>3, <2>4 DEF AppliedIsPlanned
<1> QED
  BY <1>5, <1>10, <1>11


\* An apply that comes back as it was planned, to a place like the one it was
\* planned at, is prepared and let through.
LEMMA FurnishableAgain ==
  ASSUME Typed, HandedOver, job.phase = "apply", job = [planned.job EXCEPT !.phase = "apply"],
         Packable(job.dir)
  PROVE  /\ Extract(object.entries, FreshApply).ok
         /\ Furnishable(Extract(object.entries, FreshApply).tree, job.dir)
         /\ object.manifest # NoManifest
<1> DEFINE q == planned.tree
           k == planned.job
           m == PlannedManifest
<1>1. /\ IsTree(q) /\ OnePlan(q, k.dir) /\ k \in Jobs /\ job \in Jobs
      /\ object.entries = Pack(q) /\ object.manifest = m
  BY DEF HandedOver, Typed
<1>2. job.dir = k.dir /\ job.dir \in Seq(STRING) /\ IsSafe(job.dir)
  BY <1>1, SameRun, JobIs
<1>3. Extract(object.entries, FreshApply) = Back(q)
  BY <1>1 DEF Back
<1>4. job.dir \o <<"tfplan">> \in DOMAIN q
  BY <1>1, <1>2 DEF OnePlan
<1> HIDE DEF q
<1>5. Back(q).ok /\ Furnishable(Back(q).tree, job.dir)
  BY <1>1, <1>2, <1>4, BackIs, BackIsFurnishable
<1>6. m # NoManifest
  <2>1. m = [id |-> m.id, host |-> m.host, tool |-> m.tool,
             environment |-> m.environment, dir |-> m.dir, plan |-> m.plan,
             snapshot |-> m.snapshot, lock |-> m.lock, state |-> m.state,
             providers |-> m.providers]
    BY PlannedManifestIs
  <2> HIDE DEF m
  <2> QED
    BY <2>1, ManifestsAre
<1> QED
  BY <1>1, <1>3, <1>5, <1>6

\* And what was prepared from it is verified.
LEMMA VerifiedAgain ==
  ASSUME Typed, HandedOver, PreparedFrom(object), job.phase = "apply",
         job = [planned.job EXCEPT !.phase = "apply"], planned.host = Host[agent],
         tool = planned.tool, Packable(job.dir)
  PROVE  Verified
<1> DEFINE q == planned.tree
           k == planned.job
           u == job.dir \o <<"tfplan">>
<1>1. /\ IsTree(q) /\ OnePlan(q, k.dir) /\ k \in Jobs /\ job \in Jobs
      /\ object.entries = Pack(q) /\ object.manifest = PlannedManifest
      /\ IsTree(tree)
  BY DEF HandedOver, Typed
<1>2. /\ job.dir = k.dir /\ job.id = k.id /\ job.environment = k.environment
      /\ job.dir \in Seq(STRING) /\ IsSafe(job.dir)
  BY <1>1, SameRun, JobIs
<1>3. manifest = PlannedManifest
  BY <1>1 DEF PreparedFrom
<1>4. Furnishable(Back(q).tree, job.dir) /\ tree = Furnished(Back(q).tree, job.dir)
  BY <1>1 DEF PreparedFrom, Back
<1>5. /\ manifest.id = k.id /\ manifest.host = planned.host /\ manifest.tool = planned.tool
      /\ manifest.environment = k.environment /\ manifest.dir = k.dir
      /\ manifest.plan = FileDigest(q, u)
      /\ manifest.snapshot = SnapshotDigest(q) /\ manifest.lock = LockDigest(q, job.dir)
      /\ manifest.state = StateDigest(q, job.dir)
      /\ manifest.providers = ProviderDigests(q, job.dir)
  BY <1>2, <1>3, PlannedManifestIs
<1>6. FileDigest(q, u) = "plan"
  <2>1. u \in DOMAIN q /\ q[u] = "plan"
    BY <1>1, <1>2 DEF OnePlan
  <2> QED
    BY <2>1 DEF FileDigest, IsFile, Dir
<1> HIDE DEF q
<1>7. Alike(tree, q)
  BY <1>1, <1>2, <1>4, BackIsAlike
<1>8. /\ SnapshotDigest(tree) = SnapshotDigest(q)
      /\ LockDigest(tree, job.dir) = LockDigest(q, job.dir)
      /\ StateDigest(tree, job.dir) = StateDigest(q, job.dir)
      /\ ProviderDigests(tree, job.dir) = ProviderDigests(q, job.dir)
  BY <1>1, <1>2, <1>7, AlikeDigests
<1>9. FileDigest(tree, u) = FileDigest(q, u)
  <2>1. ~IsExcluded(u)
    BY <1>2, PlanIsPacked
  <2> HIDE DEF u
  <2> QED
    BY <1>7, <2>1, AlikeFileDigest
<1>10. /\ manifest.id = job.id /\ manifest.host = Host[agent] /\ manifest.tool = tool
       /\ manifest.environment = job.environment /\ manifest.dir = job.dir
  BY <1>2, <1>5
<1>11. manifest.plan # None /\ manifest.plan = FileDigest(tree, u)
  BY <1>5, <1>6, <1>9 DEF None
<1>12. /\ manifest.snapshot = SnapshotDigest(tree) /\ manifest.lock = LockDigest(tree, job.dir)
       /\ manifest.state = StateDigest(tree, job.dir)
       /\ manifest.providers = ProviderDigests(tree, job.dir)
  BY <1>5, <1>8
<1> QED
  BY <1>10, <1>11, <1>12 DEF Verified


-----------------------------------------------------------------------------
(* Every step keeps the invariant                                            *)

\* Nothing but the download, or what is stored, moves.
LEMMA RunStandsStill ==
  ASSUME HState, current' \in {1, 2},
         UNCHANGED <<pc, agent, job, tree, manifest, tool, object, known, planned, intact>>
  PROVE  HState'
<1>1. Typed'
  BY DEF HState, Typed
<1>2. Phases' /\ Planning' /\ Remembered'
  BY DEF HState, Phases, Planning, Remembered, PlannedManifest
<1>3. HandedOver'
  BY DEF HState, HandedOver, PlannedManifest
<1>4. Applying'
  BY DEF HState, Applying, PreparedFrom, Verified
<1>5. RefusedForCause'
  BY DEF HState, RefusedForCause
<1> QED
  BY <1>1, <1>2, <1>3, <1>4, <1>5 DEF HState

\* The download keeps its own invariant, whoever begins it.
LEMMA TransferKept ==
  ASSUME TInv, Typed, [Next]_vars
  PROVE  TInv'
<1>1. {1, 2} \subseteq Versions /\ stored \in Versions /\ current \in Versions
  BY HandoverConstants DEF HandoverConstants, TInv, TransferType, Typed
<1>2. ASSUME transfer' = transfer, stored' \in Versions PROVE TInv'
  BY <1>2 DEF TInv, TransferType, Coherent, IsPart
<1>3. ASSUME stored' \in Versions, transfer' = Idle \/ \E variant \in Variants : Begin(variant)
      PROVE  TInv'
  BY <1>1, <1>3, NothingKeeps
<1>4. "file" \in Variants /\ "memory" \in Variants
  BY DEF Variants
<1>5. CASE ClaimPlan
  BY <1>1, <1>3, <1>4, <1>5 DEF ClaimPlan
<1>6. CASE Forget \/ RunPlan \/ Seal \/ Upload \/ Verify \/ Resolve
  BY <1>1, <1>2, <1>6 DEF Forget, RunPlan, Seal, Upload, Verify, Resolve
<1>7. CASE Load
  BY <1>7, DownloadKeeps DEF Load
<1>8. CASE Replace
  BY <1>1, <1>2, <1>8 DEF Replace, Overwritten
<1>9. CASE DownloadFailed \/ PreparePlan \/ PrepareApply \/ ToolDownloaded
  BY <1>1, <1>3, <1>9 DEF DownloadFailed, PreparePlan, PrepareApply, ToolDownloaded
<1>10. ASSUME NEW a \in Agents, NEW j \in Jobs, ClaimApply(a, j) PROVE TInv'
  BY <1>1, <1>2, <1>3, <1>4, <1>10 DEF ClaimApply
<1>11. CASE ResolveByDownload
  BY <1>1, <1>3, <1>4, <1>11 DEF ResolveByDownload
<1>12. CASE Ended \/ UNCHANGED vars
  BY <1>1, <1>2, <1>12 DEF Ended, vars
<1> QED
  BY <1>5, <1>6, <1>7, <1>8, <1>9, <1>10, <1>11, <1>12 DEF Next


\* The first claim, and the journals' forgetting.
LEMMA ClaimPlanKeeps ==
  ASSUME HState, ClaimPlan
  PROVE  HState'
<1>1. /\ pc = "idle" /\ pc' = "configuration" /\ job' = job /\ job.phase = "plan"
      /\ agent' = agent /\ tree' = tree /\ manifest' = manifest /\ tool' = tool
      /\ object' = object /\ current' = current /\ planned' = planned /\ intact' = intact
      /\ known' = [known EXCEPT ![agent] = @ \union {job}]
  BY DEF ClaimPlan, HState, Phases
<1>2. job.phase # "apply"
  BY <1>1
<1>3. \A a \in Agents : known'[a] \in SUBSET Jobs /\ known'[a] \subseteq {job}
  BY <1>1 DEF HState, Typed, Remembered
<1>4. Typed'
  BY <1>1, <1>3 DEF HState, Typed
<1>5. Phases' /\ Remembered'
  BY <1>1, <1>3 DEF HState, Phases, Remembered
<1>6. Planning'
  BY <1>1 DEF HState, Planning
<1>7. HandedOver' /\ Applying' /\ RefusedForCause'
  BY <1>1, <1>2 DEF HandedOver, Applying, RefusedForCause
<1> QED
  BY <1>4, <1>5, <1>6, <1>7 DEF HState

\* Forgetting takes nothing away that a claim relies on.
LEMMA ForgetKeeps ==
  ASSUME HState, Forget
  PROVE  HState'
<1>1. /\ pc = "stored" /\ pc' = pc /\ job' = job /\ job.phase = "plan"
      /\ agent' = agent /\ tree' = tree /\ manifest' = manifest /\ tool' = tool
      /\ object' = object /\ current' = current /\ planned' = planned /\ intact' = intact
      /\ known' = [a \in Agents |-> {}]
  BY DEF Forget, HState, Phases
<1>2. Typed' /\ Phases' /\ Remembered'
  BY <1>1 DEF HState, Typed, Phases, Remembered
<1>3. Planning' /\ Applying' /\ RefusedForCause'
  BY <1>1 DEF Planning, Applying, RefusedForCause
<1>4. HandedOver'
  BY <1>1 DEF HState, HandedOver, PlannedManifest
<1> QED
  BY <1>2, <1>3, <1>4 DEF HState

\* A phase that ends early.
LEMMA EndKeeps ==
  ASSUME HState, pc' \in {"failed", "undone"},
         pc' = "failed" => job.phase = "plan", pc' = "undone" => job.phase = "apply",
         UNCHANGED <<agent, job, tree, manifest, object, current, known, planned, intact>>,
         tool' \in Tools \union {None}
  PROVE  HState'
<1>1. Typed' /\ Phases'
  BY DEF HState, Typed, Phases
<1>2. Planning' /\ Applying' /\ RefusedForCause' /\ Remembered'
  BY DEF HState, Planning, Applying, RefusedForCause, Remembered
<1>3. HandedOver'
  BY DEF HState, HandedOver, PlannedManifest
<1> QED
  BY <1>1, <1>2, <1>3 DEF HState

\* A tool is found, or has to be downloaded.
LEMMA ToolKeeps ==
  ASSUME HState, pc \in {"resolve", "tool"}, pc' \in {"tool", "run"},
         tool' \in Tools \union {None}, pc' = "run" => tool' \in Tools,
         UNCHANGED <<agent, job, tree, manifest, object, current, known, planned, intact>>
  PROVE  HState'
<1>1. Typed' /\ Phases'
  BY DEF HState, Typed, Phases
<1>2. Planning' /\ RefusedForCause' /\ Remembered'
  BY DEF HState, Planning, RefusedForCause, Remembered
<1>3. HandedOver'
  BY DEF HState, HandedOver, PlannedManifest
<1>4. Applying'
  BY DEF HState, Applying, PreparedFrom
<1> QED
  BY <1>1, <1>2, <1>3, <1>4 DEF HState


\* The apply is claimed: by an agent that knows the plan under its id, or not.
LEMMA ClaimApplyKeeps ==
  ASSUME HState, NEW a \in Agents, NEW j \in Jobs, ClaimApply(a, j)
  PROVE  HState'
<1>1. /\ pc \in {"stored", "declined"} /\ pc' \in {"declined", "snapshot"}
      /\ j.phase = "apply" /\ agent' = a /\ job' = j /\ tree' = FreshApply
      /\ manifest' = NoManifest /\ tool' = None /\ intact' = TRUE
      /\ object' = object /\ current' = current /\ planned' = planned
  BY DEF ClaimApply
<1>2. \A b \in Agents : known[b] \subseteq {planned.job}
  BY <1>1 DEF HState, Remembered, HandedOver, Phases
<1>3. /\ planned.job \in Jobs /\ planned.job.phase = "plan"
      /\ IsTree(planned.tree) /\ OnePlan(planned.tree, planned.job.dir)
      /\ object.entries = Pack(planned.tree) /\ object.manifest = PlannedManifest
  BY <1>1 DEF HState, HandedOver, Phases
<1>4. Typed'
  <2>1. known' \in [Agents -> SUBSET Jobs]
    BY DEF HState, Typed, ClaimApply
  <2>2. IsTree(FreshApply)
    BY FreshTree
  <2> QED
    BY <1>1, <2>1, <2>2 DEF HState, Typed
<1>5. Phases' /\ Planning' /\ Applying'
  BY <1>1 DEF Phases, Planning, Applying
<1>6. Remembered'
  <2>1. pc' = "declined" => known' = known
    BY DEF ClaimApply
  <2> QED
    BY <1>1, <1>2, <2>1 DEF Remembered
<1>7. HandedOver'
  BY <1>1, <1>3 DEF HandedOver, PlannedManifest
<1>8. RefusedForCause'
  <2>1. SUFFICES ASSUME pc' = "declined"
                 PROVE  \E k \in known'[a] : k.phase = "plan" /\ k.id = j.id
    BY <1>1 DEF RefusedForCause
  <2>2. Conflict(a, j) /\ known' = known
    BY <2>1 DEF ClaimApply
  <2>3. PICK k \in known[a] : k.id = j.id
    BY <2>2 DEF Conflict
  <2>4. k = planned.job
    BY <1>2, <2>3
  <2> QED
    BY <1>3, <2>2, <2>3, <2>4
<1> QED
  BY <1>4, <1>5, <1>6, <1>7, <1>8 DEF HState

\* What can be read is what was stored, or it changed.
LEMMA ReadingsAre ==
  /\ Readings \subseteq {object} \union ChangedObject(object)
  /\ Received => Readings = {object}
<1>1. Received => ~Whole(transfer.output, 2)
  <2> SUFFICES ASSUME Whole(transfer.output, 1), Whole(transfer.output, 2)
               PROVE  FALSE
    BY DEF Received
  <2>1. Size[1] \in Nat \ {0}
    BY TransferConstants, HandoverConstants DEF TransferConstants, HandoverConstants
  <2>2. 1 \in 1..Len(transfer.output)
    BY <2>1 DEF Whole
  <2>3. transfer.output[1] = [version |-> 1, at |-> 1]
    BY <2>2 DEF Whole, IsPart
  <2>4. transfer.output[1] = [version |-> 2, at |-> 1]
    BY <2>2 DEF Whole, IsPart
  <2>5. transfer.output[1].version = 1 /\ transfer.output[1].version = 2
    BY <2>3, <2>4
  <2> QED
    BY <2>5
<1> QED
  BY <1>1 DEF Readings

\* The configuration is unpacked, or something is wrong with it.
LEMMA PreparePlanKeeps ==
  ASSUME HState, PreparePlan
  PROVE  HState'
<1>1. /\ pc = "configuration" /\ pc' \in {"resolve", "failed"} /\ job.phase = "plan"
      /\ agent' = agent /\ job' = job /\ manifest' = manifest /\ tool' = tool
      /\ object' = object /\ current' = current /\ planned' = planned /\ intact' = intact
      /\ known' = known
  BY DEF PreparePlan, HState, Phases
<1>2. job \in Jobs /\ job.dir \in Seq(STRING) /\ IsSafe(job.dir)
  BY JobIs DEF HState, Typed
<1>3. CASE pc' = "failed" /\ tree' = tree
  <2>1. tool' \in Tools \union {None}
    BY <1>1 DEF HState, Typed
  <2> QED
    BY <1>1, <1>3, <2>1, EndKeeps
<1>4. CASE \E o \in Readings :
             /\ pc' = "resolve"
             /\ Extract(o.entries, FreshPlan).ok
             /\ Flatten(Extract(o.entries, FreshPlan).tree).ok
             /\ Furnishable(Flatten(Extract(o.entries, FreshPlan).tree).tree, job.dir)
             /\ tree' = Furnished(Flatten(Extract(o.entries, FreshPlan).tree).tree, job.dir)
  <2>1. PICK o \in Readings :
             /\ pc' = "resolve"
             /\ Extract(o.entries, FreshPlan).ok
             /\ Flatten(Extract(o.entries, FreshPlan).tree).ok
             /\ Furnishable(Flatten(Extract(o.entries, FreshPlan).tree).tree, job.dir)
             /\ tree' = Furnished(Flatten(Extract(o.entries, FreshPlan).tree).tree, job.dir)
    BY <1>4
  <2>2. /\ object.entries \in Seq(Entries) /\ NoPlanIn(object.entries)
        /\ object = [entries |-> object.entries, manifest |-> object.manifest]
    BY <1>1 DEF HState, Typed, Planning
  <2>3. o.entries = object.entries \/ o.entries \in Changed(object.entries)
    <3>1. o \in {object} \union ChangedObject(object)
      BY ReadingsAre
    <3> QED
      BY <2>2, <3>1, ReadingIs
  <2>4. o.entries \in Seq(Entries) /\ NoPlanIn(o.entries)
    <3>1. CASE o.entries = object.entries
      BY <2>2, <3>1
    <3>2. CASE o.entries \in Changed(object.entries)
      <4>1. /\ o.entries \in Seq(Entries)
            /\ \A i \in 1..Len(o.entries) :
                 \/ o.entries[i].body = "other"
                 \/ \E k \in 1..Len(object.entries) : o.entries[i].body = object.entries[k].body
        BY <2>2, <3>2, ChangedAre
      <4> QED
        BY <2>2, <4>1 DEF NoPlanIn
    <3> QED
      BY <2>3, <3>1, <3>2
  <2>5. IsTree(tree') /\ NoPlan(tree')
    BY <1>2, <2>1, <2>4, ConfigurationTree
  <2>6. Typed' /\ Phases' /\ Remembered'
    BY <1>1, <2>1, <2>5 DEF HState, Typed, Phases, Remembered
  <2>7. Planning' /\ HandedOver' /\ Applying' /\ RefusedForCause'
    BY <1>1, <2>1, <2>5 DEF Planning, HandedOver, Applying, RefusedForCause
  <2> QED
    BY <2>6, <2>7 DEF HState
<1> QED
  BY <1>3, <1>4 DEF PreparePlan


\* A refusal of the preparation has a cause.
LEMMA PrepareApplyKeeps ==
  ASSUME HState, PrepareApply
  PROVE  HState'
<1>1. /\ pc = "snapshot" /\ pc' \in {"resolve", "refused"} /\ job.phase = "apply" /\ tool = None
      /\ agent' = agent /\ job' = job /\ tool' = tool
      /\ object' = object /\ current' = current /\ planned' = planned
      /\ known' = known /\ intact' = Received
  BY DEF PrepareApply, HState, Phases
<1>2. job \in Jobs /\ job.dir \in Seq(STRING) /\ IsSafe(job.dir)
  BY JobIs DEF HState, Typed
<1>3. HandedOver' /\ Remembered'
  BY <1>1 DEF HState, HandedOver, Remembered, PlannedManifest
<1>4. Phases' /\ Planning'
  BY <1>1 DEF Phases, Planning
<1>5. intact' \in BOOLEAN
  BY <1>1 DEF Received, Whole, IsPart
<1>6. CASE \E o \in Readings :
             /\ pc' = "resolve"
             /\ Extract(o.entries, FreshApply).ok
             /\ Furnishable(Extract(o.entries, FreshApply).tree, job.dir)
             /\ tree' = Furnished(Extract(o.entries, FreshApply).tree, job.dir)
             /\ manifest' = o.manifest
  <2>1. PICK o \in Readings :
             /\ pc' = "resolve"
             /\ Extract(o.entries, FreshApply).ok
             /\ Furnishable(Extract(o.entries, FreshApply).tree, job.dir)
             /\ tree' = Furnished(Extract(o.entries, FreshApply).tree, job.dir)
             /\ manifest' = o.manifest
    BY <1>6
  <2>2. /\ o \in {object} \union ChangedObject(object) /\ (Received => o = object)
    BY ReadingsAre
  <2>3. o.entries \in Seq(Entries)
    <3>1. /\ object.entries \in Seq(Entries)
          /\ object = [entries |-> object.entries, manifest |-> object.manifest]
      BY DEF HState, Typed
    <3>2. o.entries = object.entries \/ o.entries \in Changed(object.entries)
      BY <2>2, <3>1, ReadingIs
    <3> QED
      BY <3>1, <3>2, ChangedAre
  <2>4. IsTree(tree')
    <3> DEFINE w == Extract(o.entries, FreshApply).tree
    <3>1. IsTree(FreshApply)
      BY FreshTree
    <3>2. Unpacked(w, o.entries, FreshApply)
      BY <2>1, <2>3, <3>1, ExtractTree
    <3>3. Furnishable(w, job.dir) /\ tree' = Furnished(w, job.dir)
      BY <2>1
    <3> HIDE DEF w
    <3>4. IsTree(w)
      BY <3>2 DEF Unpacked
    <3> QED
      BY <1>2, <3>3, <3>4, FurnishedTree
  <2>5. Typed'
    BY <1>1, <1>5, <2>1, <2>4 DEF HState, Typed
  <2>6. PreparedFrom(o)'
    BY <1>1, <2>1, <2>2 DEF PreparedFrom
  <2>7. Applying' /\ RefusedForCause'
    BY <1>1, <2>1, <2>2, <2>6 DEF Applying, RefusedForCause
  <2> QED
    BY <1>3, <1>4, <2>5, <2>7 DEF HState
<1>7. CASE /\ pc' = "refused" /\ tree' = tree /\ manifest' = manifest
           /\ \/ \E o \in Readings :
                   ~(/\ Extract(o.entries, FreshApply).ok
                     /\ Furnishable(Extract(o.entries, FreshApply).tree, job.dir)
                     /\ o.manifest # NoManifest)
              \/ Unreadable
  <2>1. Typed'
    BY <1>1, <1>5, <1>7 DEF HState, Typed
  <2>2. Applying'
    BY <1>7 DEF Applying
  <2>3. ASSUME Received, job = [planned.job EXCEPT !.phase = "apply"], Packable(job.dir)
        PROVE  FALSE
    <3>1. /\ Extract(object.entries, FreshApply).ok
          /\ Furnishable(Extract(object.entries, FreshApply).tree, job.dir)
          /\ object.manifest # NoManifest
      BY <1>1, <2>3, FurnishableAgain DEF HState
    <3>2. ~Unreadable
      BY <2>3 DEF Unreadable, Received
    <3>3. \A o \in Readings : o = object
      BY <2>3, ReadingsAre
    <3> QED
      BY <1>7, <3>1, <3>2, <3>3
  <2>4. RefusedForCause'
    BY <1>1, <2>3 DEF RefusedForCause, Packable
  <2> QED
    BY <1>3, <1>4, <2>1, <2>2, <2>4 DEF HState
<1>8. \/ \E o \in Readings :
          IF /\ Extract(o.entries, FreshApply).ok
             /\ Furnishable(Extract(o.entries, FreshApply).tree, job.dir)
             /\ o.manifest # NoManifest
            THEN /\ pc' = "resolve"
                 /\ tree' = Furnished(Extract(o.entries, FreshApply).tree, job.dir)
                 /\ manifest' = o.manifest
            ELSE pc' = "refused" /\ UNCHANGED <<tree, manifest>>
      \/ /\ Unreadable
         /\ pc' = "refused" /\ UNCHANGED <<tree, manifest>>
  BY DEF PrepareApply
<1> QED
  BY <1>6, <1>7, <1>8


\* The commands leave the plan, where it is the only one.
LEMMA RunPlanKeeps ==
  ASSUME HState, RunPlan
  PROVE  HState'
<1>1. /\ pc = "run" /\ pc' \in {"failed", "seal"} /\ job.phase = "plan" /\ tool \in Tools
      /\ agent' = agent /\ job' = job /\ manifest' = manifest /\ tool' = tool
      /\ object' = object /\ current' = current /\ planned' = planned /\ intact' = intact
      /\ known' = known
  BY DEF RunPlan, HState, Phases
<1>2. CASE pc' = "failed" /\ tree' = tree
  BY <1>1, <1>2, EndKeeps
<1>3. CASE /\ pc' = "seal" /\ Writable(tree, DOMAIN Results(job.dir))
           /\ tree' = WriteFiles(tree, Results(job.dir))
  <2>1. IsTree(tree) /\ NoPlan(tree) /\ job.dir \in Seq(STRING) /\ IsSafe(job.dir)
    BY <1>1, JobIs DEF HState, Typed, Planning
  <2>2. IsTree(tree') /\ OnePlan(tree', job.dir)
    BY <1>3, <2>1, ResultsLeaveOnePlan
  <2>3. Typed' /\ Phases' /\ Remembered'
    BY <1>1, <1>3, <2>2 DEF HState, Typed, Phases, Remembered
  <2>4. Planning' /\ HandedOver' /\ Applying' /\ RefusedForCause'
    BY <1>1, <1>3, <2>2 DEF Planning, HandedOver, Applying, RefusedForCause
  <2> QED
    BY <2>3, <2>4 DEF HState
<1> QED
  BY <1>2, <1>3 DEF RunPlan

\* The manifest says what is in the directory, its metadata included.
LEMMA SealKeeps ==
  ASSUME HState, Seal
  PROVE  HState'
<1>1. /\ pc = "seal" /\ pc' \in {"failed", "pack"} /\ job.phase = "plan" /\ tool \in Tools
      /\ agent' = agent /\ job' = job /\ tool' = tool
      /\ object' = object /\ current' = current /\ intact' = intact
      /\ known' = known
  BY DEF Seal, HState, Phases
<1>2. CASE pc' = "failed" /\ UNCHANGED <<tree, manifest, planned>>
  BY <1>1, <1>2, EndKeeps
<1>3. CASE /\ Writable(tree, {Metadata})
           /\ tree' = WriteFile(tree, Metadata, "counts")
           /\ manifest' = ManifestOf(agent, job, tree', tool)
           /\ planned' = [job |-> job, tree |-> tree', tool |-> tool, host |-> Host[agent]]
           /\ pc' = "pack"
  <2>1. IsTree(tree) /\ OnePlan(tree, job.dir) /\ job.dir \in Seq(STRING)
    BY <1>1, JobIs DEF HState, Typed, Planning
  <2>2. IsTree(tree') /\ OnePlan(tree', job.dir)
    BY <1>3, <2>1, SealedHasOnePlan
  <2>3. Typed' /\ Phases' /\ Remembered'
    BY <1>1, <1>3, <2>2 DEF HState, Typed, Phases, Remembered
  <2>4. manifest' = PlannedManifest'
    BY <1>3 DEF PlannedManifest, ManifestOf
  <2>5. Planning'
    BY <1>1, <1>3, <2>2, <2>4 DEF Planning
  <2>6. HandedOver' /\ Applying' /\ RefusedForCause'
    BY <1>1, <1>3 DEF HandedOver, Applying, RefusedForCause
  <2> QED
    BY <2>3, <2>5, <2>6 DEF HState
<1> QED
  BY <1>2, <1>3 DEF Seal

\* What is uploaded is the directory, packed, with its manifest.
LEMMA UploadKeeps ==
  ASSUME HState, Upload
  PROVE  HState'
<1>1. /\ pc = "pack" /\ pc' \in {"failed", "stored"} /\ job.phase = "plan" /\ tool \in Tools
      /\ agent' = agent /\ job' = job /\ tool' = tool /\ tree' = tree /\ manifest' = manifest
      /\ planned' = planned /\ intact' = intact /\ known' = known
  BY DEF Upload, HState, Phases
<1>2. CASE pc' = "failed" /\ UNCHANGED <<object, current>>
  BY <1>1, <1>2, EndKeeps
<1>3. CASE /\ pc' = "stored" /\ current' = 1
           /\ object' = [entries |-> Pack(tree), manifest |-> manifest]
  <2>1. /\ IsTree(tree) /\ OnePlan(tree, job.dir) /\ job \in Jobs
        /\ planned = [job |-> job, tree |-> tree, tool |-> tool, host |-> Host[agent]]
        /\ manifest = PlannedManifest
    BY <1>1 DEF HState, Typed, Planning
  <2>2. /\ object'.entries = Pack(tree) /\ object'.manifest = manifest
        /\ object' = [entries |-> object'.entries, manifest |-> object'.manifest]
    BY <1>3
  <2>3. Pack(tree) \in Seq(Entries)
    BY <2>1, PackIs DEF IsPacked
  <2>4. Typed' /\ Phases' /\ Remembered'
    BY <1>1, <1>3, <2>2, <2>3 DEF HState, Typed, Phases, Remembered
  <2>5. planned.job = job /\ planned.tree = tree
    BY <2>1
  <2>6. HandedOver'
    BY <1>1, <1>3, <2>1, <2>2, <2>5 DEF HandedOver, PlannedManifest
  <2>7. Planning' /\ Applying' /\ RefusedForCause'
    BY <1>1, <1>3 DEF Planning, Applying, RefusedForCause
  <2> QED
    BY <2>4, <2>6, <2>7 DEF HState
<1> QED
  BY <1>2, <1>3 DEF Upload

\* What is verified goes on, and what is not has a cause.
LEMMA VerifyKeeps ==
  ASSUME HState, Verify
  PROVE  HState'
<1>1. /\ pc = "run" /\ pc' = (IF Verified THEN "applying" ELSE "refused")
      /\ job.phase = "apply" /\ tool \in Tools
      /\ agent' = agent /\ job' = job /\ tool' = tool /\ tree' = tree /\ manifest' = manifest
      /\ object' = object /\ current' = current /\ planned' = planned /\ intact' = intact
      /\ known' = known
  BY DEF Verify, HState, Phases
<1>2. pc' \in {"applying", "refused"} /\ (pc' = "applying" => Verified)
      /\ (pc' = "refused" => ~Verified)
  BY <1>1
<1>3. Typed' /\ Phases' /\ Remembered' /\ Planning'
  BY <1>1, <1>2 DEF HState, Typed, Phases, Remembered, Planning
<1>4. HandedOver'
  BY <1>1, <1>2 DEF HState, HandedOver, PlannedManifest
<1>5. PICK o \in {object} \union ChangedObject(object) : PreparedFrom(o)
  BY <1>1 DEF HState, Applying
<1>6. Applying'
  <2>1. PreparedFrom(o)'
    BY <1>1, <1>5 DEF PreparedFrom
  <2>2. pc' = "applying" => Verified'
    BY <1>1, <1>2 DEF Verified
  <2> QED
    BY <1>1, <2>1, <2>2 DEF Applying
<1>7. RefusedForCause'
  <2>1. ASSUME ~Verified, job = [planned.job EXCEPT !.phase = "apply"],
               planned.host = Host[agent], tool = planned.tool, intact, Packable(job.dir)
        PROVE  FALSE
    <3>1. PreparedFrom(object)
      BY <1>5, <2>1 DEF PreparedFrom
    <3> QED
      BY <1>1, <2>1, <3>1, VerifiedAgain DEF HState
  <2>2. tool # None
    BY <1>1, HandoverConstants DEF HandoverConstants
  <2> QED
    BY <1>1, <1>2, <2>1, <2>2 DEF RefusedForCause, Packable
<1> QED
  BY <1>3, <1>4, <1>6, <1>7 DEF HState


-----------------------------------------------------------------------------
(* The theorems                                                              *)

\* The invariant holds at the start.
LEMMA HandoverStarts ==
  ASSUME Init
  PROVE  HInv
<1>1. /\ pc = "idle" /\ stored = 1 /\ transfer = Idle /\ agent = Planner /\ tree = FreshPlan
      /\ tool = None /\ current = 1 /\ known = [a \in Agents |-> {}] /\ intact = TRUE
  BY DEF Init
<1>2. PICK c \in Configurations, d \in Directories, e \in Environments :
        /\ job = [id |-> PlanId, phase |-> "plan", dir |-> d, environment |-> e]
        /\ object = [entries |-> c, manifest |-> NoManifest]
  BY DEF Init
<1>3. TInv
  <2>1. stored \in Versions
    BY <1>1, HandoverConstants DEF HandoverConstants
  <2> QED
    BY <1>1, <2>1, NothingIsTyped
<1>4. c \in Seq(Entries) /\ NoPlanIn(c)
  <2>1. c \in Seq(Entries) /\ \A i \in DOMAIN c : c[i].body # "plan"
    BY ArchivesAreRead DEF ArchivesAreRead
  <2> QED
    BY <2>1 DEF NoPlanIn
<1>5. IsTree(FreshPlan)
  BY FreshTree
<1>6. Typed
  <2>1. job \in Jobs
    BY <1>2, HandoverConstants DEF HandoverConstants, Jobs
  <2>2. agent \in Agents
    BY <1>1, HandoverConstants DEF HandoverConstants
  <2>3. /\ object.entries = c
        /\ object = [entries |-> object.entries, manifest |-> object.manifest]
    BY <1>2
  <2> QED
    BY <1>1, <1>4, <1>5, <2>1, <2>2, <2>3 DEF Typed
<1>7. job.phase = "plan" /\ object.entries = c
  BY <1>2
<1>8. Phases /\ Planning /\ Remembered
  BY <1>1, <1>4, <1>7 DEF Phases, Planning, Remembered
<1>9. HandedOver /\ Applying /\ RefusedForCause
  BY <1>1, <1>7 DEF HandedOver, Applying, RefusedForCause
<1> QED
  BY <1>3, <1>6, <1>8, <1>9 DEF HInv, HState

\* Every step keeps it.
LEMMA HandoverGoesOn ==
  ASSUME HInv, [Next]_vars
  PROVE  HInv'
<1>1. HState /\ TInv /\ Typed
  BY DEF HInv, HState
<1>2. TInv'
  BY <1>1, TransferKept
<1> SUFFICES HState'
  BY <1>2 DEF HInv
<1>3. CASE ClaimPlan
  BY <1>1, <1>3, ClaimPlanKeeps
<1>4. CASE Forget
  BY <1>1, <1>4, ForgetKeeps
<1>5. CASE Load
  <2>1. current' \in {1, 2}
    BY <1>1, <1>5 DEF Load, Typed
  <2> QED
    BY <1>1, <1>5, <2>1, RunStandsStill DEF Load
<1>6. CASE Replace
  BY <1>1, <1>6, RunStandsStill DEF Replace
<1>7. CASE DownloadFailed
  <2>1. tool' \in Tools \union {None} /\ job.phase \in {"plan", "apply"}
    BY <1>1, <1>7, JobIs DEF DownloadFailed, Typed
  <2> QED
    BY <1>1, <1>7, <2>1, EndKeeps DEF DownloadFailed
<1>8. ASSUME NEW a \in Agents, NEW j \in Jobs, ClaimApply(a, j) PROVE HState'
  BY <1>1, <1>8, ClaimApplyKeeps
<1>9. CASE PreparePlan
  BY <1>1, <1>9, PreparePlanKeeps
<1>10. CASE PrepareApply
  BY <1>1, <1>10, PrepareApplyKeeps
<1>11. CASE Resolve
  BY <1>1, <1>11, ToolKeeps DEF Resolve
<1>12. CASE ResolveByDownload
  <2>1. tool' \in Tools \union {None}
    BY <1>1, <1>12 DEF ResolveByDownload, Typed
  <2> QED
    BY <1>1, <1>12, <2>1, ToolKeeps DEF ResolveByDownload
<1>13. CASE ToolDownloaded
  <2>1. pc = "tool" /\ job.phase \in {"plan", "apply"} /\ tool \in Tools \union {None}
    BY <1>1, <1>13, JobIs DEF ToolDownloaded, Typed
  <2>2. UNCHANGED <<agent, job, tree, manifest, object, current, known, planned, intact>>
    BY <1>13 DEF ToolDownloaded
  <2>3. CASE tool' \in Tools /\ pc' = "run"
    BY <1>1, <2>1, <2>2, <2>3, ToolKeeps
  <2>4. CASE tool' = tool /\ pc' = IF job.phase = "plan" THEN "failed" ELSE "undone"
    <3>1. /\ pc' \in {"failed", "undone"} /\ (pc' = "failed" => job.phase = "plan")
          /\ (pc' = "undone" => job.phase = "apply")
      BY <2>1, <2>4
    <3> QED
      BY <1>1, <2>1, <2>2, <2>4, <3>1, EndKeeps
  <2> QED
    BY <1>13, <2>3, <2>4 DEF ToolDownloaded
<1>14. CASE RunPlan
  BY <1>1, <1>14, RunPlanKeeps
<1>15. CASE Seal
  BY <1>1, <1>15, SealKeeps
<1>16. CASE Upload
  BY <1>1, <1>16, UploadKeeps
<1>17. CASE Verify
  BY <1>1, <1>17, VerifyKeeps
<1>18. CASE Ended \/ UNCHANGED vars
  <2>1. UNCHANGED vars
    BY <1>18 DEF Ended
  <2>2. UNCHANGED <<pc, agent, job, tree, manifest, tool, object, known, planned, intact>>
        /\ current' \in {1, 2}
    BY <1>1, <2>1 DEF vars, Typed
  <2> QED
    BY <1>1, <2>2, RunStandsStill
<1> QED
  BY <1>3, <1>4, <1>5, <1>6, <1>7, <1>8, <1>9, <1>10, <1>11, <1>12, <1>13, <1>14, <1>15,
     <1>16, <1>17, <1>18 DEF Next

\* Every state satisfies the invariant.
THEOREM HandoverInvariant == Spec => []HInv
<1>1. Init => HInv
  BY HandoverStarts
<1>2. HInv /\ [Next]_vars => HInv'
  BY HandoverGoesOn
<1> QED
  BY <1>1, <1>2, PTL DEF Spec

\* Whatever was uploaded, changed on the way, extracted, flattened and written:
\* the run directory stays a tree, and the variables have their types.
THEOREM HandoverTypeCorrect == Spec => []TypeOK
<1>1. HInv => TypeOK
  BY DEF HInv, HState, TInv, Typed, IsTree, TypeOK
<1> QED
  BY <1>1, HandoverInvariant, PTL

\* The downloads of a run, of its archive and of its tool, return one version whole,
\* unless it was replaced between two answers, an answer began where nothing was asked
\* for or ended too early, or a file's partial answer began elsewhere.
THEOREM HandoverDownloads == Spec => []DownloadIsWhole
<1>1. HInv => DownloadIsWhole
  BY TInvIsWhole DEF HInv
<1> QED
  BY <1>1, HandoverInvariant, PTL

\* The loop over an archive's entries takes exactly the archives whose entries
\* are in nobody's way, and makes exactly what they name - for every archive.
THEOREM ExtractionExact == Spec => []ExtractionIsExact
<1>1. HInv => ExtractionIsExact
  <2> SUFFICES ASSUME HInv, pc \in {"idle", "stored"},
                      NEW archive \in {object.entries} \union Changed(object.entries)
                                       \union (IF pc = "idle" THEN Archives ELSE {}),
                      NEW t \in {FreshPlan, FreshApply}
               PROVE  LET x == Extract(archive, t)
                      IN  /\ x.ok = Extractable(archive, t)
                          /\ x.ok => x.tree = Extracted(archive, t)
    BY DEF ExtractionIsExact
  <2>1. archive \in Seq(Entries)
    <3>1. object.entries \in Seq(Entries)
      BY DEF HInv, HState, Typed
    <3>2. archive = object.entries \/ archive \in Changed(object.entries) \/ archive \in Archives
      OBVIOUS
    <3> QED
      BY <3>1, <3>2, ChangedAre, ArchivesAreRead DEF ArchivesAreRead
  <2>2. IsFunction(t)
    BY FreshTree DEF IsTree
  <2>3. /\ Extract(archive, t).ok \in BOOLEAN
        /\ Extract(archive, t).ok <=> Extractable(archive, t)
        /\ Extract(archive, t).ok => Extract(archive, t).tree = Extracted(archive, t)
    BY <2>1, <2>2, ExtractIsExact
  <2>4. Extractable(archive, t) \in BOOLEAN
    BY DEF Extractable
  <2> QED
    BY <2>3, <2>4
<1> QED
  BY <1>1, HandoverInvariant, PTL

\* An apply goes on only with what was planned: whoever changed the snapshot,
\* the manifest or the claim on the way, and however it was received.
THEOREM OnlyWhatWasPlanned == Spec => []AppliedIsPlanned
<1>1. HInv => AppliedIsPlanned
  <2> SUFFICES ASSUME HInv, pc = "applying"
               PROVE  AppliedIsPlanned
    BY DEF AppliedIsPlanned
  <2>1. /\ Typed /\ HandedOver /\ Applying /\ tool \in Tools /\ job.phase = "apply"
    BY DEF HInv, HState, Phases
  <2> QED
    BY <2>1, AppliedWasPlanned
<1> QED
  BY <1>1, HandoverInvariant, PTL

\* And an apply is refused only for a cause.
THEOREM OnlyForCause == Spec => []RefusedForCause
<1>1. HInv => RefusedForCause
  BY DEF HInv, HState
<1> QED
  BY <1>1, HandoverInvariant, PTL


-----------------------------------------------------------------------------
(* The downloads of a run are downloads                                      *)

\* No download is under way but in the states that wait for one.
AtRest == Loading \/ transfer.st = "idle"

\* It stays so.
LEMMA RestKept ==
  ASSUME AtRest, [Next]_vars
  PROVE  AtRest'
<1>1. transfer' = Idle => transfer'.st = "idle"
  BY DEF Idle
<1>2. ASSUME UNCHANGED <<pc, transfer>> PROVE AtRest'
  BY <1>2 DEF AtRest, Loading
<1>3. ASSUME pc' \in {"configuration", "snapshot", "tool"} PROVE AtRest'
  BY <1>3 DEF AtRest, Loading
<1>4. ASSUME ~Loading, transfer' = transfer PROVE AtRest'
  BY <1>4 DEF AtRest
<1>5. CASE ClaimPlan \/ ResolveByDownload
  BY <1>3, <1>5 DEF ClaimPlan, ResolveByDownload
<1>6. CASE Forget \/ RunPlan \/ Seal \/ Upload \/ Verify \/ Resolve
  BY <1>4, <1>6 DEF Forget, RunPlan, Seal, Upload, Verify, Resolve, Loading
<1>7. CASE Load
  BY <1>3, <1>7 DEF Load, Loading
<1>8. CASE Replace
  <2>1. CASE pc = "stored"
    BY <1>2, <1>8, <2>1 DEF Replace
  <2>2. CASE pc # "stored"
    BY <1>3, <1>8, <2>2 DEF Replace
  <2> QED
    BY <2>1, <2>2
<1>9. CASE DownloadFailed \/ PreparePlan \/ PrepareApply \/ ToolDownloaded
  BY <1>1, <1>9 DEF DownloadFailed, PreparePlan, PrepareApply, ToolDownloaded, AtRest
<1>10. ASSUME NEW a \in Agents, NEW j \in Jobs, ClaimApply(a, j) PROVE AtRest'
  <2>1. CASE pc' = "snapshot"
    BY <1>3, <2>1
  <2>2. CASE pc' = "declined" /\ transfer' = transfer
    BY <1>4, <1>10, <2>2 DEF ClaimApply, Loading
  <2> QED
    BY <1>10, <2>1, <2>2 DEF ClaimApply
<1>11. CASE Ended \/ UNCHANGED vars
  BY <1>2, <1>11 DEF Ended, vars
<1> QED
  BY <1>5, <1>6, <1>7, <1>8, <1>9, <1>10, <1>11 DEF Next

\* Every step is a step of Transfer, or leaves its variables alone.
LEMMA StepIsTransfer ==
  ASSUME HInv, AtRest, [Next]_vars
  PROVE  [TransferNext]_<<transfer, stored>>
<1> DEFINE Goal == [TransferNext]_<<transfer, stored>>
<1>1. /\ 1 \in Versions /\ 2 \in Versions /\ stored \in Versions /\ current \in Versions
      /\ "file" \in Variants /\ "memory" \in Variants
  BY HandoverConstants
     DEF HandoverConstants, HInv, HState, Typed, TInv, TransferType, Variants
<1>2. ASSUME UNCHANGED <<transfer, stored>> PROVE Goal
  BY <1>2
<1>3. ASSUME ~Loading, stored' \in Versions, \E variant \in Variants : Begin(variant) PROVE Goal
  BY <1>3 DEF AtRest, Active, TransferNext
<1>4. ASSUME transfer.st \in {"done", "failed"}, transfer' = Idle, stored' = stored PROVE Goal
  BY <1>4 DEF Active, TransferNext
<1> SUFFICES Goal
  OBVIOUS
<1> HIDE DEF Goal
<1>5. CASE ClaimPlan
  BY <1>1, <1>3, <1>5 DEF ClaimPlan, Loading
<1>6. CASE ResolveByDownload
  BY <1>1, <1>3, <1>6 DEF ResolveByDownload, Loading
<1>7. CASE Forget \/ RunPlan \/ Seal \/ Upload \/ Verify \/ Resolve
  BY <1>2, <1>7 DEF Forget, RunPlan, Seal, Upload, Verify, Resolve
<1>8. CASE Load
  BY <1>8 DEF Load, TransferNext, Goal
<1>9. CASE Replace
  <2>1. Overwritten(2) => Goal
    BY <1>1 DEF TransferNext, Goal
  <2> QED
    BY <1>2, <1>9, <2>1 DEF Replace
<1>10. CASE DownloadFailed \/ PreparePlan \/ PrepareApply \/ ToolDownloaded
  BY <1>4, <1>10 DEF DownloadFailed, PreparePlan, PrepareApply, ToolDownloaded
<1>11. ASSUME NEW a \in Agents, NEW j \in Jobs, ClaimApply(a, j) PROVE Goal
  <2>1. CASE stored' = current /\ Begin("file")
    BY <1>1, <1>3, <1>11, <2>1 DEF ClaimApply, Loading
  <2>2. CASE UNCHANGED <<transfer, stored>>
    BY <1>2, <2>2
  <2> QED
    BY <1>11, <2>1, <2>2 DEF ClaimApply
<1>12. CASE Ended \/ UNCHANGED vars
  BY <1>2, <1>12 DEF Ended, vars
<1> QED
  BY <1>5, <1>6, <1>7, <1>8, <1>9, <1>10, <1>11, <1>12 DEF Next

\* The composed specification implements Transfer's: a run begins a download only
\* when none is under way, leaves it to itself until it has ended, and changes
\* what is stored only as anybody may.
THEOREM DownloadsAreTransfers == Spec => TransferSpec
<1>1. Init => TransferInit /\ AtRest
  <2>1. Idle.st = "idle"
    BY DEF Idle
  <2> QED
    BY <2>1, HandoverConstants DEF Init, TransferInit, HandoverConstants, AtRest
<1>2. HInv /\ AtRest /\ [Next]_vars => AtRest'
  BY RestKept
<1>3. HInv /\ AtRest /\ [Next]_vars => [TransferNext]_<<transfer, stored>>
  BY StepIsTransfer
<1> QED
  BY <1>1, <1>2, <1>3, HandoverInvariant, PTL DEF Spec, TransferSpec
=============================================================================
