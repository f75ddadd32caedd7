---------------------------- MODULE MCHashCache ----------------------------
(***************************************************************************)
(* Two datasets, one of three files, which is one batch more than fits     *)
(* BatchSize, and one of one file.  Runs scan all of it, or one file of    *)
(* the first dataset.                                                      *)
(***************************************************************************)
EXTENDS HashCache

CONSTANTS p1, p2, p3, q1,   \* paths
          a, b, c,      \* chunk values
          gone

Datasets == <<1, 2>>
Paths    == [d \in {1, 2} |-> IF d = 1 THEN {p1, p2, p3} ELSE {q1}]
Names    == [p \in {p1, p2, p3, q1} |-> CASE p = p1 -> <<1, 1>> [] p = p2 -> <<1, 2>>
                                         [] p = p3 -> <<1, 3>> [] p = q1 -> <<2, 1>>]
Contents == [k \in {<<1, 1>>, <<1, 2>>, <<1, 3>>, <<2, 1>>} |->
                IF k = <<1, 1>> THEN <<a, b>> ELSE <<c>>]
Edits    == {<<a, c>>}

WholeOrPart == {{p1, p2, p3, q1}, {p1}}

Exhausted == phase = "off" /\ runs = MaxRuns /\ UNCHANGED vars
MCSpec == Init /\ [][Next \/ Exhausted]_vars
=============================================================================
