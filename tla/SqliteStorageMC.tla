-------------------------- MODULE SqliteStorageMC --------------------------
(***************************************************************************)
(* Two jobs, one of which may never be created.  With two rows a job's     *)
(* one URL is marked twice.  Jobs are interchangeable.                     *)
(***************************************************************************)
EXTENDS SqliteStorage, TLC

CONSTANTS j1, j2, u1, d1, m1, none

MCJobs == {j1, j2}
MCUrls == {u1}
MCDomains == {d1}
MCMemories == {m1}
MCStatuses == {"running"}
MCStats == {[pages |-> 1, records |-> 0, errors |-> 1]}
MCSymmetry == Permutations(MCJobs)
=============================================================================
