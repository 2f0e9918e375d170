--------------------------- MODULE MCPathLeases ---------------------------
(***************************************************************************)
(* PathLeases for TLC.  Under the root: a directory with one file in it,   *)
(* and a file beside the directory.                                        *)
(***************************************************************************)
EXTENDS PathLeases, TLC

CONSTANTS o1, o2, o3, p1, p2, s1, s2, root, dir, file, side

MCAncestors == (root :> {root}) @@ (dir :> {root, dir})
            @@ (file :> {root, dir, file}) @@ (side :> {root, side})
Nested == {{dir}, {file}}
Single == {{file}, {side}}

\* One session in two processes, and another session beside it in the second.
JoinedProc    == (o1 :> p1) @@ (o2 :> p2) @@ (o3 :> p2)
JoinedSession == (o1 :> s1) @@ (o2 :> s1) @@ (o3 :> s2)

\* A session, and two operations of one process outside any.
UngovernedProc    == (o1 :> p1) @@ (o2 :> p2) @@ (o3 :> p2)
UngovernedSession == (o1 :> s1) @@ (o2 :> NoSession) @@ (o3 :> NoSession)

\* One server process that serves two sessions and an ungoverned call.
SharedProc    == (o1 :> p1) @@ (o2 :> p1) @@ (o3 :> p1)
SharedSession == (o1 :> s1) @@ (o2 :> s2) @@ (o3 :> NoSession)

Symmetry == Permutations(LeaseIds)
=============================================================================
