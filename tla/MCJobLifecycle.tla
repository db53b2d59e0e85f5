---------------------------- MODULE MCJobLifecycle ----------------------------
(* Small instances of JobLifecycle for TLC.                                  *)
EXTENDS JobLifecycle, TLC

\* Two jobs: one plan and one apply.
MCJobs == {1, 2}
MCApplyJobs == {2}

\* Directory names and fingerprints are interchangeable.
Symmetry == Permutations(Dirs) \union Permutations(Fingerprints)
=============================================================================
