----------------------------- MODULE MCTemplates -----------------------------
(* A small instance of Templates for TLC: a page that includes a row, twice, *)
(* the first time through a list, and a file that includes itself.           *)
EXTENDS Templates, TLC

CONSTANTS page, list, row, loop, text, t1, t2

Files == {page, list, row, loop}
Includes == page :> <<list, row>> @@ list :> <<row>> @@ row :> <<>>
            @@ loop :> <<loop>> @@ text :> <<list>>
Symmetry == Permutations({t1, t2})
==============================================================================
