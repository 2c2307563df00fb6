---------------------------- MODULE MCDatabaseSystem ----------------------------
(***************************************************************************)
(* Small instances of DatabaseSystem for TLC: the database in a directory  *)
(* "data", and the ways a workload may mount a volume over it.             *)
(***************************************************************************)
EXTENDS DatabaseSystem

Mount(path, of, subPath) == [path |-> path, volume |-> of, subPath |-> subPath]

PathOfData == <<"srv", "data">>

\* The volume, or a directory of it, is mounted at the database path.
AtDatabasePath == {Mount(PathOfData, "claim", <<>>)}
BySubPath      == {Mount(<<"srv">>, "scratch", <<>>), Mount(PathOfData, "claim", <<"app">>)}
\* Not on a claim, and not mounted at all.
OnScratch      == {Mount(PathOfData, "scratch", <<>>)}
NotMounted     == {Mount(<<"etc">>, "claim", <<>>)}
\* The volume is mounted above the database path.
AbovePath      == {Mount(<<"srv">>, "claim", <<>>)}

AtPath == {AtDatabasePath, BySubPath, OnScratch, NotMounted}
Above  == {AbovePath}

Target(dir, absolute) == [volume |-> "other", dir |-> dir, absolute |-> absolute]

AtRoot == {Target(<<>>, TRUE), Target(<<>>, FALSE)}
Nested == {Target(<<"backup">>, TRUE)}
=============================================================================
