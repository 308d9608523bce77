---------------------------- MODULE MCAIActions ----------------------------
EXTENDS AIActions, TLC

(* Line 5 and what it spans; a function longer than the window; no file.   *)
MCFindings == "line" :> [line |-> 5, end |-> 5] @@ "long" :> [line |-> 2, end |-> 6]
                @@ "project" :> [line |-> 0, end |-> 0]
MCTargets == {<<"line", "propose_fix">>, <<"long", "explain">>, <<"project", "explain">>,
              <<"project", "generate_test">>}
MCLength == [c \in Commits |-> IF c = 1 THEN 6 ELSE 5]
MCWidth == [c \in Commits |-> IF c = 1 THEN 1 ELSE 4]
=============================================================================
