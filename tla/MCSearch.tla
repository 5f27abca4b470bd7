------------------------------ MODULE MCSearch ------------------------------
(* TLC instance of Search: two branches and a leaf below the root, with two  *)
(* leaves that are each reached along two paths, under all scores.           *)
EXTENDS Search, TLC

\* 3 refers to 2, 4 and 1; 2 to 5 and 1; 4 to 5.
SharedLeaves ==
    {[root |-> 3,
      level |-> 1 :> 0 @@ 2 :> 1 @@ 3 :> 2 @@ 4 :> 1 @@ 5 :> 0,
      score |-> 1 :> s[1] @@ 2 :> 0 @@ 3 :> 0 @@ 4 :> 0 @@ 5 :> s[2],
      entries |-> 1 :> {} @@ 5 :> {} @@
                  3 :> {[child |-> 2, score |-> s[3]], [child |-> 4, score |-> s[4]],
                        [child |-> 1, score |-> s[5]]} @@
                  2 :> {[child |-> 5, score |-> s[6]], [child |-> 1, score |-> 2]} @@
                  4 :> {[child |-> 5, score |-> s[7]]}]
     : s \in [1 .. 7 -> 1 .. 2]}
=============================================================================
