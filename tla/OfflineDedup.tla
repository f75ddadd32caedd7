---------------------------- MODULE OfflineDedup ----------------------------
(***************************************************************************)
(* What zfs-dedup promises to those who use the files while it runs: the   *)
(* content of every file is theirs alone to change, and the tool may only  *)
(* give storage back.                                                      *)
(*                                                                         *)
(* README.md: it "finds blocks with identical content, and reflinks them"; *)
(* dedup.rs: compare and clone happen "atomically under the inode locks".  *)
(***************************************************************************)
EXTENDS Naturals

VARIABLES view,     \* inode -> what a reader sees
          store,    \* the blocks that hold it
          writes    \* number of operations of the users

absVars == <<view, store, writes>>

\* A user changes at most one file and may allocate.
UserWrite ==
    /\ writes' = writes + 1
    /\ DOMAIN view' = DOMAIN view
    /\ \E f \in DOMAIN view : \A g \in DOMAIN view \ {f} : view'[g] = view[g]

\* The tool returns blocks that no file lists any longer.
Reclaim ==
    /\ store' \subseteq store
    /\ UNCHANGED <<view, writes>>

Init == writes = 0

Next == UserWrite \/ Reclaim

Spec == Init /\ [][Next]_absVars
=============================================================================
