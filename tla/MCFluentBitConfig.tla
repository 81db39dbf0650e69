------------------------- MODULE MCFluentBitConfig -------------------------
EXTENDS FluentBitConfigProperties

Config(u, s) == [uid |-> u, spec |-> s]
Never == <<Config(0, Absent)>>
Fixed == <<"a">>

\* All objects share the name of a config, or the changing one, a parser,
\* has a name of its own.
OneName == [s \in ListNames |-> "app"]
TwoNames == [OneName EXCEPT !["parser"] = "json"]

OneItem == [s \in ListNames |-> 1]
TwoFilters == [OneItem EXCEPT !["filter"] = 2]
Plain == [m \in Managers |-> FALSE]

\* One config, deleted and recreated with a mistake that is corrected, or
\* not, while a parser changes and changes back and the ConfigMap of a Lua
\* script appears only after the filter that refers to it.
Recreated ==
    [cfgHistory |-> [c \in Configs |->
        IF c = "app" THEN <<Config(1, "a"), Config(0, Absent),
                            Config(2, Invalid), Config(2, "b")>>
        ELSE Never],
     srcHistory |-> [s \in Sources |->
        IF s = "parser" THEN <<"a", "b", "a">>
        ELSE IF s = "configMap" THEN <<Missing, "a">> ELSE Fixed],
     items |-> OneItem,
     selects |-> [c \in Configs |-> Sources],
     compress |-> Plain, managers |-> <<1>>, name |-> TwoNames,
     resync |-> "may", maxPending |-> 2]

\* Two configs, one of which refers to a Secret that may never appear, the
\* other one to a ConfigMap that changes, for the last of two Lua filters.
Referring ==
    [cfgHistory |-> [c \in Configs |-> <<Config(1, "a")>>],
     srcHistory |-> [s \in Sources |->
        IF s = "secret" THEN <<Missing, "a">>
        ELSE IF s = "configMap" THEN <<"a", "b">> ELSE Fixed],
     items |-> TwoFilters,
     selects |-> [c \in Configs |->
        IF c = "app" THEN {"input", "secret"} ELSE {"filter", "configMap"}],
     compress |-> Plain, managers |-> <<1>>, name |-> OneName,
     resync |-> "must", maxPending |-> 1]

\* An update of the operator that turns compression on, while a Lua filter
\* changes.
Updated ==
    [cfgHistory |-> [c \in Configs |-> IF c = "app" THEN <<Config(1, "a")>> ELSE Never],
     srcHistory |-> [s \in Sources |-> IF s = "filter" THEN <<"a", "b">> ELSE Fixed],
     items |-> OneItem,
     selects |-> [c \in Configs |-> {"filter", "configMap"}],
     compress |-> [m \in Managers |-> m = 2], managers |-> <<1, 2>>,
     name |-> OneName, resync |-> "no", maxPending |-> 1]

AllWorlds == {Recreated, Referring, Updated}

ASSUME ReferencesAppear == RefsAppear
=============================================================================
