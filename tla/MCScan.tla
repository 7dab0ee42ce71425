------------------------------- MODULE MCScan -------------------------------
(* Scan of three objects that contain and point to each other. *)
EXTENDS Scan

F(nofollow, elems) == [nofollow |-> nofollow, present |-> TRUE, elems |-> elems]
Absent(elems)      == [nofollow |-> FALSE, present |-> FALSE, elems |-> elems]

Kind(strongs, conds, pts, virts) ==
    [strong : strongs, cond : conds, pointsto : pts, virt : virts]

(* The root, an object with every kind of edge, and one that may point     *)
(* back.                                                                   *)
MCTables ==
    { (1 :> a) @@ (2 :> b) @@ (3 :> c) :
        a \in Kind({<<F(TRUE, <<2>>), F(FALSE, <<2, 3>>)>>},
                   {<<>>, <<Absent(<<3>>), F(FALSE, <<3>>)>>, <<F(TRUE, <<2>>), Absent(<<3>>)>>},
                   {<<>>, << <<>>, <<2, 1>>, <<3>> >>}, {<<>>, << <<3, 2>>, <<>> >>}),
        b \in Kind({<<>>, <<F(TRUE, <<3>>)>>}, {<<>>, <<Absent(<<3>>), F(FALSE, <<3>>)>>},
                   {<<>>, << <<3, 1>> >>}, {<<>>, << <<1, 3>> >>}),
        c \in Kind({<<>>}, {<<>>}, {<<>>, << <<1, 2>> >>}, {<<>>}) }

(* One shape for the scans in which callbacks return every verdict. *)
MCSmallTables ==
    { (1 :> a) @@ (2 :> b) @@ (3 :> c) :
        a \in Kind({<<F(TRUE, <<2>>), F(FALSE, <<2>>)>>}, {<<F(FALSE, <<3>>)>>}, {<<>>}, {<<>>}),
        b \in Kind({<<>>}, {<<>>}, {<< <<3, 1>> >>}, {<<>>}),
        c \in Kind({<<>>}, {<<>>}, {<<>>}, {<< <<1, 2>> >>}) }

AllVerdicts == {"CONTINUE", "TERMINATE", "SKIP", "EXIT_TYPE"}

MCScenarios ==
    [tab : MCTables, verdicts : {{"CONTINUE"}}]
    \union [tab : MCSmallTables, verdicts : {AllVerdicts}]

MCVerdictScenarios == [tab : MCSmallTables, verdicts : {AllVerdicts}]
=============================================================================
