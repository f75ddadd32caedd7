---------------------------- MODULE MCPathTable ----------------------------
(***************************************************************************)
(* Directories /, /a, /a/b, /ab and /b, so that components repeat at       *)
(* different places and one is a prefix of another, in any order.          *)
(***************************************************************************)
EXTENDS PathTable

Slash == <<0>>
A  == <<1>>
B  == <<2>>
AB == <<1, 2>>
MCParents == { <<Slash>>, <<Slash, A>>, <<Slash, A, B>>, <<Slash, AB>>, <<Slash, B>> }
MCNames   == { A, AB }
=============================================================================
