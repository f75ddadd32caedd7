------------------------------ MODULE MCWalk ------------------------------
(***************************************************************************)
(* Two datasets.  /a and /b are directories of the first one:              *)
(*   /a/x, /a/t/z, /b/z   links of one file      /a/s/y    a file          *)
(*   /b/k            the tool's own cache                                  *)
(*   /b/m            a file covered by a bind mount of a file of the other *)
(*                   dataset                                               *)
(* and the other dataset has a directory with that file, which may get     *)
(* mounted over /a/s.                                                      *)
(***************************************************************************)
EXTENDS Walk, TLC

CONSTANTS w1, w2, nil

MCDirs  == { <<1, i>> : i \in 1 .. 5 } \cup {<<2, 1>>}
MCFiles == { <<1, i>> : i \in 11 .. 14 } \cup {<<2, 11>>}
MCEnts  == [ d \in MCDirs |->
    CASE d = <<1, 1>> -> [a |-> <<1, 2>>, b |-> <<1, 3>>]
      [] d = <<1, 2>> -> [x |-> <<1, 11>>, s |-> <<1, 4>>, t |-> <<1, 5>>]
      [] d = <<1, 3>> -> [z |-> <<1, 11>>, k |-> <<1, 13>>, m |-> <<1, 14>>]
      [] d = <<1, 4>> -> [y |-> <<1, 12>>]
      [] d = <<1, 5>> -> [z |-> <<1, 11>>]
      [] d = <<2, 1>> -> [m |-> <<2, 11>>] ]
Root     == <<1, 1>>
Cache    == {<<1, 13>>}
Binds    == <<1, 14>> :> <<2, 11>>
Late     == {<< <<1, 4>>, <<2, 1>> >>, << <<1, 3>>, <<2, 1>> >>}
MCFsid   == <<101, 102>>

Disjoint    == << <<"a">>, <<"b">> >>
Overlapping == << <<"a">>, <<"a", "s">> >>
=============================================================================
