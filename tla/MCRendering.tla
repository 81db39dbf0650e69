---------------------------- MODULE MCRendering ----------------------------
EXTENDS Rendering

MCSecretRefs == {"login", "tls"}
MCScriptRefs == {"trim", "trim2", "cut", "conf"}

\* Two ConfigMaps have a script of the same name, and one has a script that is
\* named like the rendered file.
MCKeyOf == [r \in MCScriptRefs |->
              IF r = "cut" THEN 1 ELSE IF r = "conf" THEN MainConf ELSE 2]

\* What a field is set to: users and passwords come from one Secret, a TLS
\* key from another one, and a map has two keys, or one if it is further back.
Arg(type, j, script) ==
  CASE Fields[type][j] = "secret" -> IF j > 4 THEN "tls" ELSE "login"
    [] Fields[type][j] = "map"    -> IF j > 5 THEN {1} ELSE {1, 2}
    [] Fields[type][j] = "script" -> script
    [] OTHER                      -> 0

Plugin(type, script, unset) ==
  [type |-> type,
   fields |-> [j \in {k \in DOMAIN Fields[type] : Fields[type][k] \notin unset}
                 |-> Arg(type, j, script)]]

Full(type) == Plugin(type, "cut", {"address"})
Bare(type) == Plugin(type, "cut", {"secret", "map", "address"})
Run(script) == Plugin("lua", script, {})

Object(n, plugins) == [name |-> n, plugins |-> plugins]
None == [service |-> FALSE, input |-> {}, filter |-> {}, output |-> {}, parser |-> {}]

\* Two inputs, filters and outputs, three Lua filters, a Secret used twice.
Large ==
  [service |-> TRUE,
   input  |-> {Object(1, <<Bare("tail")>>), Object(2, <<Bare("dummy"), Bare("systemd")>>)},
   filter |-> {Object(1, <<Run("trim2"), Bare("grep")>>),
               Object(2, <<Run("cut"), Run("trim")>>)},
   output |-> {Object(1, <<Full("http")>>), Object(2, <<Bare("es"), Bare("stdout")>>)},
   parser |-> {Object(1, <<Bare("regex")>>)}]

\* Inputs without outputs; an input that is empty; nothing at all.
NoOutput   == [None EXCEPT !.input = {Object(1, <<Bare("tail")>>)}]
EmptyInput == [None EXCEPT !.input = {Object(1, <<>>)}]

\* Each plugin with all its fields, beside an object without a reference.
Only(kind, type, other) ==
  [None EXCEPT ![kind] = {Object(2, <<Full(type)>>), Object(1, <<Bare(other)>>)}]
Single ==
  {Only("input", t, "tail") : t \in Inputs} \cup
  {Only("filter", t, "grep") : t \in Filters} \cup
  {Only("output", t, "null") : t \in Outputs} \cup
  {Only("parser", t, "json") : t \in Parsers}

\* A script that replaces fluent-bit.conf.
Clash == [NoOutput EXCEPT !.filter = {Object(1, <<Run("conf")>>)}]

MCWorlds == {Large, NoOutput, EmptyInput, Clash, None} \cup Single

\* A Syslog output with a maximal size.
SyslogMaxSize ==
  {[None EXCEPT !.output = {Object(1, <<Plugin("syslog", "cut", {"secret"})>>)}]}
=============================================================================
