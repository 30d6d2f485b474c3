---------------------------- MODULE MCRepairCycle ----------------------------
EXTENDS RepairCycle, TLC

Call(call, path, errno, answered, fatal, context) ==
  [call |-> call, path |-> path, errno |-> errno, answered |-> answered,
   fatal |-> fatal, context |-> context]
Plain(call, path, fatal) == Call(call, path, "", FALSE, fatal, "guest")
Forced(call, path, errno) == Call(call, path, errno, FALSE, FALSE, "guest")
Untidy(parts) == [root |-> "/", tidy |-> FALSE, parts |-> parts]
TwoSlashes(parts) == [root |-> "//", tidy |-> TRUE, parts |-> parts]

MCLinkTarget == <<"t", "u">>
NoTree == [p \in {} |-> "dir"]
MCSeeds == {NoTree, (<<"a">> :> "file"), (<<"a">> :> "link"),
            (<<"a">> :> "dir" @@ <<"a", "l">> :> "link")}

\* Calls on the tree, on devices, pseudo file systems and the network, with paths
\* the planner accepts and paths it does not, and one call of the emulator.
MCSyscalls ==
  {Plain("mkdir", AbsPath(<<"a">>), FALSE), Plain("mkdir", AbsPath(<<"a", "b">>), TRUE),
   Plain("mkdir", AbsPath(<<"a", "..", "t", "v">>), FALSE),
   Plain("mkdir", AbsPath(<<"proc", "x", "y">>), FALSE),
   Plain("creat", AbsPath(<<"a", "b", "f">>), TRUE), Plain("creat", AbsPath(<<"a", "l">>), FALSE),
   Plain("creat", AbsPath(<<"a">>), FALSE), Plain("creat", AbsPath(<<"t", "u">>), FALSE),
   Plain("creat", Untidy(<<"t", "w", "f">>), FALSE), Plain("creat", TwoSlashes(<<"t", "f">>), FALSE),
   Plain("rmdir", AbsPath(<<"a", "b">>), FALSE), Plain("rmdir", AbsPath(<<"a">>), FALSE),
   Plain("open", AbsPath(<<"a", "b", "f">>), FALSE), Plain("open", AbsPath(<<"dev", "d">>), FALSE), Forced("creat", AbsPath(<<"a">>), "EROFS"),
   Forced("connect", Name("h"), "ECONNREFUSED"), Call("sendto", Name("h"), "", FALSE, FALSE, "guest"),
   Call("creat", AbsPath(<<"a", "b", "f">>), "", FALSE, FALSE, "host")}
MCEnds == {"exit", "signal", "lib.so"}
=============================================================================
