-------------------------- MODULE MCConfigPipeline --------------------------
(***************************************************************************)
(* Four versions for ConfigPipeline: compressed, plain, and compressed     *)
(* with other scripts.                                                     *)
(***************************************************************************)
EXTENDS ConfigPipeline

Gzip023 == {0, 2, 3}
AllScripts == {"a.lua", "b"}
Lua == {"a.lua"}
ScriptsOf0123 ==
  [v \in Versions |-> CASE v = 0 -> {"a.lua"} [] v = 1 -> {} [] v = 2 -> AllScripts
                    [] OTHER -> {"b"}]
=============================================================================
