------------------------------ MODULE MCHandover ------------------------------
EXTENDS Handover

\* Three versions for a download: the second is shorter, the third too long.
MCSize == <<2, 1, 3>>

F(path) == Entry(path, "file", "text")
D(path) == Entry(path, "dir", None)

\* Two entries in every order and combination that can be in each other's way,
\* or in the way of the run directory's own files.
Small == {F(<<"a">>), F(<<"a", "b">>), D(<<"a">>), F(<<"a", "a">>), D(<<>>),
          F(<<"tmp">>), F(<<"tmp", "configuration.tar.gz">>), F(<<"secrets">>),
          F(<<"..", "a">>), Entry(<<"b">>, "link", None)}

MCArchives == {<<x, y>> : x, y \in Small}

\* What users upload: a directory to work in and a lock file; and a provider, a state,
\* a file where the run keeps its own and a directory where the plan's metadata belongs,
\* with which no plan ends, but when that directory is missing from what was received.
MCConfigurations ==
  {<<F(<<"app", "main.tf">>), F(<<".terraform.lock.hcl">>)>>,
   <<F(<<".terraform", "providers", "old">>), F(<<"terraform.tfstate">>),
     F(<<"secrets", "key">>), D(Metadata)>>}

\* A checkout of a repository.
MCCheckouts == {<<D(<<"repo">>), F(<<"repo", "main.tf">>)>>}

MCDirectories == {<<>>, <<"app">>}
MCHost == [a \in Agents |-> a]
=============================================================================
