----------------------------- MODULE Rendering -----------------------------
(***************************************************************************)
(* How one FluentBitConfig becomes the data of its Secret: the middle of   *)
(* Reconcile (controllers/fluentbitconfig_controller.go), with             *)
(* RenderMainConfig, RenderParserConfig, RenderLuaScript and the Load      *)
(* methods of the lists, pass after pass on the same objects.              *)
(*                                                                         *)
(* The lists come out of the cache in any order, and the keys of a Go map  *)
(* in any order.  Each LoadSecret and LoadConfigMap is a read of its own   *)
(* from the cache, which may change between two of them.                   *)
(*                                                                         *)
(* A field is a triple: an object, the place of a plugin in it, and of the *)
(* field in the plugin (0: the header of its section).  A text is a        *)
(* sequence of lines, and a line a value where it can vary, and            *)
(*   at = <<part, name, plugin, field, key>>:                              *)
(* 0 for [Service] or the place in Kinds, the object's name, the places of *)
(* the field, and the key if it is a map.  Names and keys are numbers,     *)
(* since they are sorted.                                                  *)
(***************************************************************************)
EXTENDS Integers, FiniteSets, SequencesExt, Plugins

CONSTANTS
  Worlds,       \* the sets of objects that the config may select
  SecretRefs,   \* the SecretKeySelectors in them
  ScriptRefs,   \* the ConfigMapKeySelectors in them
  KeyOf,        \* per ConfigMapKeySelector, the key, which names the script
  Addresses,    \* the places at which the cache may have allocated a field
  MaxContent,   \* bound: contents a referenced key can have
  MaxChanges    \* bound: changes of the cache

Refs    == SecretRefs \cup ScriptRefs
Missing == 0    \* the object does not exist, or does not have the key

\* The keys that are always in the Secret.
MainConf    == 101   \* fluent-bit.conf
ParsersConf == 102   \* parsers.conf

ASSUME RenderingConstants ==
  /\ KeyOf \in [ScriptRefs -> Nat] /\ SecretRefs \cap ScriptRefs = {}
  /\ Addresses # {} /\ MaxContent \in Nat \ {0} /\ MaxChanges \in Nat

\* The objects of one kind: their names are different, their plugins those of
\* the kind, and a field of a plugin has an argument that fits it.
IsPlugin(q, types) ==
  /\ q.type \in types /\ DOMAIN q.fields \subseteq DOMAIN Fields[q.type]
  /\ \A j \in DOMAIN q.fields :
       LET kind == Fields[q.type][j] IN
       /\ kind = "secret" => q.fields[j] \in SecretRefs
       /\ kind = "script" => q.fields[j] \in ScriptRefs
       /\ kind = "map"    => q.fields[j] \subseteq Nat /\ IsFiniteSet(q.fields[j])

AreObjects(S, types) ==
  /\ IsFiniteSet(S)
  /\ \A o \in S : /\ o.name \in Nat /\ DOMAIN o.plugins \subseteq Nat
                  /\ \A i \in DOMAIN o.plugins : IsPlugin(o.plugins[i], types)
  /\ \A o, q \in S : o.name = q.name => o = q

ASSUME WorldsAssumption ==
  \A w \in Worlds :
    /\ AreObjects(w.input, Inputs) /\ AreObjects(w.filter, Filters)
    /\ AreObjects(w.output, Outputs) /\ AreObjects(w.parser, Parsers)

VARIABLES
  world,      \* the objects: per kind a set, and whether there is a Service
  refs,       \* the cache: per reference, the content or Missing
  changes,    \* changes left
  pc,         \* the place in Reconcile
  part,       \* the list at hand, by its place in Kinds
  lists,      \* the lists that Reconcile has read
  todo,       \* what is left to do at this place: see Positions
  text,       \* what has been rendered of fluent-bit.conf and parsers.conf
  scripts,    \* the scripts loaded so far
  seen,       \* per reference, what the cache had during this pass
  published,  \* the data of the Secret
  basis       \* {what all references had during the pass that published it},
              \* or {} if one of them changed

cache   == <<refs, changes, seen>>
output  == <<published, basis>>
vars    == <<world, cache, pc, part, lists, todo, text, scripts, output>>

-----------------------------------------------------------------------------
Kinds == <<"input", "filter", "output", "parser">>

Unread   == [k \in {Kinds[i] : i \in DOMAIN Kinds} |-> <<>>]
Empty    == [main |-> <<>>, parsers |-> <<>>]
NotYet   == [k \in {} |-> <<>>]

ServiceLine == [at |-> <<0, 0, 0, 0, 0>>, value |-> 0]
NullOutput  == [at |-> <<3, 0, 0, 0, 0>>, value |-> 0]

\* The order of tuples of numbers.
Before(l, m) ==
  \E n \in DOMAIN l : l[n] < m[n] /\ \A q \in 1..(n - 1) : l[q] = m[q]

\* Load sorts by name, in place: the list that RenderLuaScript receives, too.
SortByName_No(list) == {list}
SortByName(list) ==
  {s \in SetToSeqs(ToSet(list)) : \A m, n \in DOMAIN s : m < n => s[m].name < s[n].name}

\* The header of each plugin of an object, and the fields that are set.
ObjectFields(o) ==
  UNION {{<<o, i, j>> : j \in {0} \cup DOMAIN o.plugins[i].fields} : i \in DOMAIN o.plugins}

KindOf(f) == IF f[3] = 0 THEN "plain" ELSE Fields[f[1].plugins[f[2]].type][f[3]]
ArgOf(f)  == f[1].plugins[f[2]].fields[f[3]]

\* The fields of a list, by the object's place in it, and the first of some:
\* Load goes through them in this order.
Positions(list)  == UNION {{<<n, f[2], f[3]>> : f \in ObjectFields(list[n])} : n \in DOMAIN list}
FieldAt(list, x) == <<list[x[1]], x[2], x[3]>>
First(x, places) == x \in places /\ \A y \in places \ {x} : Before(x, y)

\* InsertStringMap collects the keys in the order of the map and sorts them.
InsertStringMap_Unsorted(keys) == SetToSeqs(keys)
InsertStringMap(keys) ==
  {s \in SetToSeqs(keys) : \A m, n \in DOMAIN s : m < n => s[m] < s[n]}

\* LoadSecret fails if the Secret or its key is missing.
\* Mutant: every Secret that is referred to anywhere has to be there.
LoadFails_Any(f) == \E r \in Refs : refs[r] = Missing
LoadFails(f) == KindOf(f) = "secret" /\ refs[ArgOf(f)] = Missing

\* The lines that a field may become.
Place(p, f, key)    == <<p, f[1].name, f[2], f[3], key>>
Line(f, key, value) == [at |-> Place(part, f, key), value |-> value]
Lines(f) ==
  CASE KindOf(f) = "plain"   -> {<<Line(f, 0, 0)>>}
    [] KindOf(f) = "secret"  -> {<<Line(f, 0, refs[ArgOf(f)])>>}
    [] KindOf(f) = "script"  -> {<<Line(f, 0, KeyOf[ArgOf(f)])>>}
    [] KindOf(f) = "address" -> {<<Line(f, 0, a)>> : a \in Addresses}
    [] KindOf(f) = "map"     -> {[n \in DOMAIN s |-> Line(f, s[n], 0)] :
                                   s \in InsertStringMap(ArgOf(f))}

\* The Lua filters of a list of filters.
ScriptsOf(list) == {x \in Positions(list) : KindOf(FieldAt(list, x)) = "script"}

HasPart(t, p) == \E n \in DOMAIN t : t[n].at[1] = p

\* The fields of the objects of one kind, and what these refer to.
FieldsOf(k) == UNION {ObjectFields(o) : o \in world[k]}
Needed ==
  {ArgOf(f) : f \in {g \in FieldsOf("filter") \cup FieldsOf("output") :
                       KindOf(g) \in {"secret", "script"}}}

-----------------------------------------------------------------------------
\* What no object refers to makes no difference, and is missing.
Init ==
  /\ world \in Worlds
  /\ refs \in [Refs -> {Missing, 1}]
  /\ \A r \in Refs \ Needed : refs[r] = Missing
  /\ changes = MaxChanges
  /\ pc = "idle" /\ part = 1 /\ lists = Unread /\ todo = {}
  /\ text = Empty /\ scripts = <<>>
  /\ seen = [r \in Refs |-> {refs[r]}]
  /\ published = NotYet /\ basis = {}

\* The cache learns that a Secret or ConfigMap has come, changed or gone.
Change(r) ==
  /\ r \in Needed /\ changes > 0 /\ changes' = changes - 1
  /\ \E c \in (0..MaxContent) \ {refs[r]} :
       /\ refs' = [refs EXCEPT ![r] = c]
       /\ seen' = [seen EXCEPT ![r] = @ \cup {c}]
  /\ UNCHANGED <<world, pc, part, lists, todo, text, scripts, output>>

\* Reconcile has listed the objects, in any order; [Service] comes first.
Begin ==
  /\ pc = "idle"
  /\ \E i \in SetToSeqs(world.input), f \in SetToSeqs(world.filter),
        o \in SetToSeqs(world.output), q \in SetToSeqs(world.parser) :
       lists' = [input |-> i, filter |-> f, output |-> o, parser |-> q]
  /\ pc' = "load" /\ part' = 1 /\ todo' = {} /\ scripts' = <<>>
  /\ text' = [Empty EXCEPT !.main = IF world.service THEN <<ServiceLine>> ELSE <<>>]
  /\ seen' = [r \in Refs |-> {refs[r]}]
  /\ UNCHANGED <<world, refs, changes, output>>

\* The Load of the next list: it sorts the list and goes through its plugins.
Load ==
  /\ pc = "load" /\ pc' = "render"
  /\ \E list \in SortByName(lists[Kinds[part]]) :
       /\ lists' = [lists EXCEPT ![Kinds[part]] = list]
       /\ todo' = Positions(list)
  /\ UNCHANGED <<world, cache, part, text, scripts, output>>

\* An error: Reconcile returns it, and the request is tried again.
Fail ==
  /\ pc' = "idle"
  /\ UNCHANGED <<world, cache, part, lists, todo, text, scripts, output>>

File_ == IF Kinds[part] = "parser" THEN "parsers" ELSE "main"

RenderField ==
  /\ pc = "render"
  /\ \E x \in todo :
       LET f == FieldAt(lists[Kinds[part]], x) IN
       /\ First(x, todo)
       /\ \/ LoadFails(f) /\ Fail
          \/ /\ ~LoadFails(f)
             /\ \E ls \in Lines(f) : text' = [text EXCEPT ![File_] = @ \o ls]
             /\ todo' = todo \ {x}
             /\ UNCHANGED <<world, cache, pc, part, lists, scripts, output>>

\* Inputs without any output are given one that drops everything.
NeedsNull_No == FALSE
NeedsNull ==
  Kinds[part] = "output" /\ HasPart(text.main, 1) /\ ~HasPart(text.main, 3)

\* Mutant: one list too many.
EndList_PastLast ==
  /\ pc = "render" /\ todo = {}
  /\ text' = [text EXCEPT !.main = IF NeedsNull THEN Append(@, NullOutput) ELSE @]
  /\ pc' = IF part > Len(Kinds) THEN "scripts" ELSE "load"
  /\ part' = part + 1 /\ todo' = ScriptsOf(lists["filter"])
  /\ UNCHANGED <<world, cache, lists, scripts, output>>

EndList ==
  /\ pc = "render" /\ todo = {}
  /\ text' = [text EXCEPT !.main = IF NeedsNull THEN Append(@, NullOutput) ELSE @]
  /\ IF part < Len(Kinds)
       THEN pc' = "load" /\ part' = part + 1 /\ UNCHANGED todo
       ELSE pc' = "scripts" /\ todo' = ScriptsOf(lists["filter"]) /\ UNCHANGED part
  /\ UNCHANGED <<world, cache, lists, scripts, output>>

\* RenderLuaScript, one LoadConfigMap after the other.
LoadScript ==
  /\ pc = "scripts"
  /\ \E x \in todo :
       LET r == ArgOf(FieldAt(lists["filter"], x)) IN
       /\ First(x, todo)
       /\ \/ refs[r] = Missing /\ Fail
          \/ /\ refs[r] # Missing /\ todo' = todo \ {x}
             /\ scripts' = Append(scripts, [name |-> KeyOf[r], content |-> refs[r]])
             /\ UNCHANGED <<world, cache, pc, part, lists, text, output>>

\* The mutate function of CreateOrPatch: a script replaces what is there under
\* its name.  The scripts are sorted by name first, which keeps the order of
\* equal names (sort.Sort inserts as long as there are fewer than twelve).
Data ==
  LET Latest(k) == CHOOSE n \in DOMAIN scripts :
                     /\ scripts[n].name = k
                     /\ \A m \in DOMAIN scripts : scripts[m].name = k => m <= n
      names     == {scripts[n].name : n \in DOMAIN scripts}
  IN  [k \in {MainConf, ParsersConf} \cup names |->
         IF k \in names THEN <<scripts[Latest(k)].content>>
         ELSE IF k = MainConf THEN text.main ELSE text.parsers]

Undisturbed == \A r \in Refs : seen[r] = {refs[r]}

Publish ==
  /\ pc = "scripts" /\ todo = {} /\ pc' = "idle"
  /\ published' = Data
  /\ basis' = IF Undisturbed THEN {refs} ELSE {}
  /\ UNCHANGED <<world, cache, part, lists, todo, text, scripts>>

Next ==
  \/ \E r \in Refs : Change(r)
  \/ Begin \/ Load \/ RenderField \/ EndList \/ LoadScript \/ Publish

Spec == Init /\ [][Next]_vars

-----------------------------------------------------------------------------
(* Properties.                                                              *)

\* Reconcile is at one of its places, at work on one of the four lists; a list
\* holds the selected objects; nothing missing has been loaded.
TypeOK ==
  /\ world \in Worlds /\ refs \in [Refs -> 0..MaxContent] /\ changes \in 0..MaxChanges
  /\ pc \in {"idle", "load", "render", "scripts"} /\ part \in DOMAIN Kinds
  /\ \A k \in DOMAIN lists : lists[k] # <<>> => ToSet(lists[k]) = world[k]
  /\ \A r \in Refs : seen[r] # {} /\ seen[r] \subseteq 0..MaxContent
  /\ \A n \in DOMAIN scripts : scripts[n].content # Missing

\* What a field may be printed as: the value of a reference is one that it
\* had while the pass ran.
Values(f) ==
  CASE KindOf(f) = "secret"  -> seen[ArgOf(f)] \ {Missing}
    [] KindOf(f) = "script"  -> {KeyOf[ArgOf(f)]}
    [] KindOf(f) = "address" -> Addresses
    [] OTHER                 -> {0}

MapKeys(f) == IF KindOf(f) = "map" THEN ArgOf(f) ELSE {0}

\* The lines of part p of text t are one per field, and per key of a map.
Complete(t, p) ==
  LET fs    == FieldsOf(Kinds[p])
      lines == {t[n] : n \in {m \in DOMAIN t : t[m].at[1] = p}}
  IN  /\ \A l \in lines : \E f \in fs :
           l.value \in Values(f) /\ \E k \in MapKeys(f) : l.at = Place(p, f, k)
      /\ \A f \in fs : \A k \in MapKeys(f) : \E l \in lines : l.at = Place(p, f, k)

InOrder(t) == \A n \in 1..(Len(t) - 1) : Before(t[n].at, t[n + 1].at)

IsMain(t) ==
  /\ InOrder(t)
  /\ HasPart(t, 0) <=> world.service
  /\ Complete(t, 1) /\ Complete(t, 2)
  /\ IF FieldsOf("input") # {} /\ FieldsOf("output") = {}
       THEN {t[n] : n \in {m \in DOMAIN t : t[m].at[1] = 3}} = {NullOutput}
       ELSE Complete(t, 3)

\* The Lua filters, and among those with one script name the last: by the
\* name of the object, then by the place in it.
LuaFilters == {f \in FieldsOf("filter") : KindOf(f) = "script"}
LastOf(F)  == CHOOSE f \in F : \A g \in F \ {f} :
                g[1].name < f[1].name \/ (g[1] = f[1] /\ g[2] < f[2])
IsScript(t, k) ==
  \E c \in seen[ArgOf(LastOf({f \in LuaFilters : KeyOf[ArgOf(f)] = k}))] \ {Missing} :
    t = <<c>>

\* The data that is published depends on the objects only, not on the order in
\* which the caches and the maps happen to return them: texts in the order of
\* the names with each field that is set once, the last script of a name, an
\* output wherever there is an input; and every credential and script is one
\* that the cache had while the pass ran, never one of an earlier pass and
\* never an empty one.
Faithful ==
  [][Publish =>
       LET names == {KeyOf[ArgOf(f)] : f \in LuaFilters} IN
       /\ DOMAIN published' = {MainConf, ParsersConf} \cup names
       /\ MainConf \notin names => IsMain(published'[MainConf])
       /\ ParsersConf \notin names =>
            InOrder(published'[ParsersConf]) /\ Complete(published'[ParsersConf], 4)
       /\ \A k \in names : IsScript(published'[k], k)]_vars

\* "we should not see any permutations in serialized config"
\* (fluentbitconfig_types_test.go): passes that read the same contents publish
\* the same data.  Otherwise each pass patches the Secret, and the event of the
\* patch requests the next pass.
NoPermutations ==
  [][Publish /\ Undisturbed /\ refs \in basis => published' = published]_vars

\* A pass fails only for want of something that the selected objects refer to.
FailsForCause ==
  [][pc # "idle" /\ pc' = "idle" /\ ~Publish
       => \E r \in Needed : refs[r] = Missing]_vars
=============================================================================
