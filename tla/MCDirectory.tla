----------------------------- MODULE MCDirectory ----------------------------
(* Directory with names of equal hash (db and ha), of different case, with blanks
   and of different lengths. *)
EXTENDS Directory

db == <<100, 98>>
ha == <<104, 97>>
HaBlank == <<72, 97, 32>>
long == <<108, 111, 110>>

MCPaths == {<<db>>, <<HaBlank, db>>, <<db, long>>, <<long>>}
OneClusterPaths == {<<db>>, <<long>>}

(* The default table of upcase_table.rs. *)
ASCII == [u \in 0 .. 127 |-> IF u \in 97 .. 122 THEN u - 32 ELSE u]

OneCluster == <<0>>
TwoClusters == <<0, 2>>

(* The contents of free and lost clusters decide nothing: a cluster is zeroed before
   it is read. *)
View == <<[p \in {q \in Places : q \div PerCluster \notin Heap \ (used \ lost)} |-> entry[p]],
          used, lost, live, handle, iter>>

=============================================================================
