------------------------------ MODULE DirBuildMC ------------------------------
(***************************************************************************)
(* DirBuild for TLC: two files, two of the core namespaces (core, whose    *)
(* lines calls str/split and whose slurp needs the file helpers, and str,  *)
(* whose join needs the string helpers).                                   *)
(***************************************************************************)
EXTENDS DirBuild

MCGlob == <<"a", "b">>
MCCore == {"core", "str"}
MCCoreCalls == [core |-> {"str"}, str |-> {}]
MCCoreNeeds == [core |-> {"_file"}, str |-> {"_strruntime"}]

Text(defs, calls, needs, core) ==
  [state |-> "good", ns |-> "main", defs |-> defs, calls |-> calls, needs |-> needs, core |-> core]
MCTexts == {
  Text({"main"}, {}, {}, {}),
  Text({"main"}, {"f"}, {"_set"}, {"core"}),
  Text({"f"}, {}, {"_strruntime"}, {}),
  Text({"f"}, {}, {}, {"str"}),
  [Text({"f"}, {}, {}, {}) EXCEPT !.ns = "lib"],
  [Text({}, {}, {}, {}) EXCEPT !.state = "badParse"],
  [Text({}, {}, {}, {}) EXCEPT !.state = "badEmit"] }
===============================================================================
