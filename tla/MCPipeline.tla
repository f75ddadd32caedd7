----------------------------- MODULE MCPipeline -----------------------------
(***************************************************************************)
(* /t is a dataset (1) with a child dataset /t/s (2); /t/b is a read-only  *)
(* bind mount of a part of dataset 1, as /nix/store on NixOS.  The table   *)
(* may also have a dataset that is read-only on disk (3), one on a pool    *)
(* without block_cloning (4), whose path sorts before the others, and a    *)
(* part of dataset 1 mounted over the child dataset's mount point.         *)
(***************************************************************************)
EXTENDS Pipeline

M(point, fs, whole, ro, super_rw) ==
    [point |-> point, fs |-> fs, whole |-> whole, ro |-> ro, super_rw |-> super_rw]

Slash == <<>>
T  == <<"t">>
TB == <<"t", "b">>
TS == <<"t", "s">>
U  == <<"u">>
A  == <<"a">>
Sorted == <<Slash, A, T, TB, TS, U>>

Base     == << M(Slash, 0, TRUE, FALSE, TRUE), M(T, 1, TRUE, FALSE, TRUE), M(TS, 2, TRUE, FALSE, TRUE) >>
ReadOnlyBind  == Append(Base, M(TB, 1, FALSE, TRUE, TRUE))
Everything    == ReadOnlyBind \o << M(U, 3, TRUE, TRUE, FALSE), M(A, 4, TRUE, FALSE, TRUE) >>
ReadOnlyRoot  == << M(Slash, 0, TRUE, FALSE, TRUE), M(T, 1, TRUE, TRUE, TRUE), M(TS, 2, TRUE, FALSE, TRUE) >>
Stacked  == Append(Everything, M(TS, 1, FALSE, TRUE, TRUE))
Hosts    == {Base, ReadOnlyBind, Everything, ReadOnlyRoot, Stacked}

Asked(sets) == { r \in Request : r.dirs \in sets }
AllRequests == Asked({ {}, {T}, {TB}, {Slash}, {T, U}, {TS, TB}, {A}, {A, T} })
=============================================================================
