------------------------------ MODULE MCMovies -------------------------------
(* Movies with a movie in a folder in a folder, and two requests at a time. *)
EXTENDS Movies, TLC

CONSTANTS f, g, m1, m2, t1, t2

MCMovies == {f, g, m1, m2}
MCTree == [x \in MCMovies |->
              CASE x = f -> [parent |-> None, kind |-> "folder"]
                [] x = g -> [parent |-> f, kind |-> "folder"]
                [] x = m1 -> [parent |-> g, kind |-> "file"]
                [] x = m2 -> NoRow]
MCEdits == {[parent |-> None, kind |-> "file"], [parent |-> g, kind |-> "folder"],
            [parent |-> f, kind |-> "dynamic"]}
MCThreads == {t1, t2}
MCOps == {"update", "delete", "clear", "set"}
==============================================================================
