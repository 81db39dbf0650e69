-------------------------- MODULE RenderingProofs --------------------------
(***************************************************************************)
(* What Rendering does for every set of objects, every number of contents  *)
(* and changes, and whatever the caches return in whatever order.          *)
(*                                                                         *)
(* Types says what each variable holds at each place in Reconcile, TextInv *)
(* which lines have been rendered so far, ScriptInv which scripts have     *)
(* been loaded, and BasisInv what was published last.  A field is rendered *)
(* once because its position leaves todo, and the text stays in order      *)
(* because the first of the positions in todo comes after all those that   *)
(* have left it.  That the published data does not depend on the orders in *)
(* which a pass has met the objects and keys follows from there being one  *)
(* ascending text for a set of lines (OneText).                            *)
(***************************************************************************)
EXTENDS Rendering, FiniteSetTheorems, WellFoundedInduction, TLAPS

-----------------------------------------------------------------------------
(* Types.                                                                   *)

KindNames  == {"input", "filter", "output", "parser"}
FieldKinds == {"plain", "secret", "script", "map", "address"}
Places     == Nat \X Nat \X Nat \X Nat \X Nat
TextLines  == [at : Places, value : Nat \cup Addresses]

Texts      == [main : Seq(TextLines), parsers : Seq(TextLines)]
Loaded     == [name : Nat, content : 1..MaxContent]

TypesOf(k) == CASE k = "input" -> Inputs [] k = "filter" -> Filters
                [] k = "output" -> Outputs [] k = "parser" -> Parsers

Types ==
  /\ world \in Worlds
  /\ refs \in [Refs -> 0..MaxContent] /\ changes \in 0..MaxChanges
  /\ seen \in [Refs -> SUBSET (0..MaxContent)]
  /\ \A r \in Refs : refs[r] \in seen[r]
  /\ \A r \in Refs \ Needed : refs[r] = Missing
  /\ pc \in {"idle", "load", "render", "scripts"} /\ part \in 1..4
  /\ DOMAIN lists = KindNames /\ lists = [k \in KindNames |-> lists[k]]
  /\ \A k \in KindNames :
       \/ lists[k] \in SetToSeqs(world[k])
       \/ pc = "idle" /\ lists[k] = << >>
  /\ pc = "render"  => todo \subseteq Positions(lists[Kinds[part]])
  /\ pc = "scripts" => todo \subseteq ScriptsOf(lists["filter"])
  /\ text \in Texts
  /\ scripts \in Seq(Loaded)

-----------------------------------------------------------------------------
(* The plugins and the objects.                                             *)

LEMMA FieldsAreKnown ==
  \A t \in Inputs \cup Filters \cup Outputs \cup Parsers : Fields[t] \in Seq(FieldKinds)
<1> DEFINE K == Seq(FieldKinds)
<1>1. /\ <<"plain">> \in K /\ << >> \in K /\ <<"script", "plain">> \in K
      /\ <<"plain", "map">> \in K /\ <<"plain", "address", "plain">> \in K
  BY DEF FieldKinds
<1>2. /\ <<"plain", "secret", "secret", "plain">> \in K
      /\ <<"plain", "secret", "secret", "plain", "map", "plain">> \in K
      /\ <<"plain", "secret", "secret", "secret", "plain">> \in K
  BY DEF FieldKinds
<1>3. TLS \in K /\ Decoders \in K /\ Condition \in K /\ Rule \in K
  BY DEF TLS, Decoders, Condition, Rule, FieldKinds
<1>4. Dummy \in K /\ Tail_ \in K /\ Systemd \in K
  BY <1>1 DEF Dummy, Tail_, Systemd
<1>5. /\ Grep \in K /\ RecordModifier \in K /\ Kubernetes \in K /\ Modify \in K /\ Nest \in K
      /\ ParserFilter \in K /\ Lua \in K /\ Throttle \in K /\ RewriteTag \in K
  BY <1>1, <1>3 DEF Grep, RecordModifier, Kubernetes, Modify, Nest, ParserFilter, Lua,
                    Throttle, RewriteTag
<1>6. /\ File \in K /\ Kafka \in K /\ Null \in K /\ Stdout \in K /\ DataDog \in K
      /\ Elasticsearch \in K /\ Forward \in K /\ HTTP \in K /\ TCP \in K /\ Loki \in K
      /\ Syslog \in K
  BY <1>1, <1>2, <1>3 DEF File, Kafka, Null, Stdout, DataDog, Elasticsearch, Forward, HTTP,
                          TCP, Loki, Syslog
<1>7. JSON \in K /\ Regex \in K /\ LSTV \in K /\ Logfmt \in K
  BY <1>1, <1>3 DEF JSON, Regex, LSTV, Logfmt
<1> HIDE DEF K
<1>8. \A t \in Inputs \cup Parsers : Fields[t] \in K
  BY <1>4, <1>7 DEF Inputs, Parsers, Fields
<1>9. \A t \in Filters \cup Outputs : Fields[t] \in K
  BY <1>5, <1>6 DEF Filters, Outputs, Fields
<1> QED
  BY <1>8, <1>9 DEF K

\* Only filters and outputs have references.
LEMMA OthersHaveNoReferences ==
  \A t \in Inputs \cup Parsers : \A j \in DOMAIN Fields[t] :
    Fields[t][j] \notin {"secret", "script"}
<1> DEFINE Free(s) == \A j \in DOMAIN s : s[j] \notin {"secret", "script"}
<1>1. Free(Dummy) /\ Free(Tail_) /\ Free(Systemd)
  BY DEF Dummy, Tail_, Systemd
<1>2. Free(JSON) /\ Free(Regex) /\ Free(LSTV) /\ Free(Logfmt)
  BY DEF JSON, Regex, LSTV, Logfmt, Decoders
<1> HIDE DEF Free
<1>3. \A t \in Inputs \cup Parsers : Free(Fields[t])
  BY <1>1, <1>2 DEF Inputs, Parsers, Fields
<1> QED
  BY <1>3 DEF Free

LEMMA KindsAre ==
  /\ Len(Kinds) = 4 /\ DOMAIN Kinds = 1..4
  /\ Kinds[1] = "input" /\ Kinds[2] = "filter" /\ Kinds[3] = "output" /\ Kinds[4] = "parser"
  /\ {Kinds[i] : i \in DOMAIN Kinds} = KindNames
  /\ \A p \in 1..4 : Kinds[p] \in KindNames
  BY DEF Kinds, KindNames

\* A list in the order of a cache, or of a map, has each element once.
LEMMA Enumeration ==
  ASSUME NEW S, IsFiniteSet(S), NEW s \in SetToSeqs(S)
  PROVE  /\ s \in Seq(S) /\ ToSet(s) = S
         /\ \A m, n \in DOMAIN s : s[m] = s[n] => m = n
<1> DEFINE D == 1..Cardinality(S)
<1>1. s \in [D -> S] /\ Cardinality(S) \in Nat /\ s \in Injection(D, S)
  BY FS_CardinalityType DEF SetToSeqs, Injection, IsInjective
<1>2. IsFiniteSet(D) /\ Cardinality(D) = Cardinality(S)
  BY <1>1, FS_Interval
<1>3. s \in Surjection(D, S)
  BY <1>1, <1>2, FS_Injection
<1> QED
  BY <1>1, <1>3 DEF Injection, IsInjective, Surjection, ToSet

LEMMA WorldObjects ==
  ASSUME Types, NEW k \in KindNames
  PROVE  AreObjects(world[k], TypesOf(k))
  BY WorldsAssumption DEF Types, KindNames, TypesOf

\* What holds of each field of an object of kind k.
LEMMA FieldFacts ==
  ASSUME Types, NEW k \in KindNames, NEW f \in FieldsOf(k)
  PROVE  /\ f = <<f[1], f[2], f[3]>>
         /\ f[1] \in world[k] /\ f[1].name \in Nat
         /\ f[2] \in DOMAIN f[1].plugins /\ f[2] \in Nat
         /\ f[3] \in {0} \cup DOMAIN f[1].plugins[f[2]].fields /\ f[3] \in Nat
         /\ KindOf(f) \in FieldKinds
         /\ KindOf(f) = "secret" => ArgOf(f) \in SecretRefs
         /\ KindOf(f) = "script" => ArgOf(f) \in ScriptRefs
         /\ KindOf(f) = "map"    => ArgOf(f) \subseteq Nat /\ IsFiniteSet(ArgOf(f))
         /\ KindOf(f) \in {"secret", "script"} => ArgOf(f) \in Needed
<1>0. PICK o \in world[k] : f \in ObjectFields(o)
  BY DEF FieldsOf
<1>1. PICK i \in DOMAIN o.plugins :
        \E j \in {0} \cup DOMAIN o.plugins[i].fields : f = <<o, i, j>>
  BY <1>0 DEF ObjectFields
<1>2. PICK j \in {0} \cup DOMAIN o.plugins[i].fields : f = <<o, i, j>>
  BY <1>1
<1>3. f[1] = o /\ f[2] = i /\ f[3] = j
  BY <1>2
<1>4. /\ o.name \in Nat /\ i \in Nat
      /\ IsPlugin(o.plugins[i], TypesOf(k))
  BY <1>1, WorldObjects DEF AreObjects
<1> DEFINE q == o.plugins[i]
<1>5. Fields[q.type] \in Seq(FieldKinds)
  BY <1>4, FieldsAreKnown DEF IsPlugin, TypesOf, KindNames
<1>6. CASE j = 0
  BY <1>1, <1>2, <1>3, <1>4, <1>6 DEF KindOf, FieldKinds
<1>7. CASE j # 0
  <2>1. j \in DOMAIN q.fields /\ j \in DOMAIN Fields[q.type]
    BY <1>2, <1>4, <1>7 DEF IsPlugin
  <2>2. j \in Nat /\ Fields[q.type][j] \in FieldKinds
    BY <1>5, <2>1
  <2>3. KindOf(f) = Fields[q.type][j] /\ ArgOf(f) = q.fields[j]
    BY <1>3, <1>7 DEF KindOf, ArgOf
  <2>4. KindOf(f) \in {"secret", "script"} => ArgOf(f) \in Needed
    <3>1. SUFFICES ASSUME KindOf(f) \in {"secret", "script"} PROVE ArgOf(f) \in Needed
      OBVIOUS
    <3>2. k \in {"filter", "output"}
      BY <1>4, <2>1, <2>3, <3>1, OthersHaveNoReferences DEF IsPlugin, TypesOf, KindNames
    <3> QED
      BY <3>1, <3>2 DEF Needed
  <2> QED
    BY <1>1, <1>2, <1>3, <1>4, <2>1, <2>2, <2>3, <2>4 DEF IsPlugin
<1> QED
  BY <1>6, <1>7


-----------------------------------------------------------------------------
(* Lists and positions.                                                     *)

LEMMA PositionFacts ==
  ASSUME NEW list, NEW x
  PROVE  x \in Positions(list) <=>
           /\ x = <<x[1], x[2], x[3]>> /\ x[1] \in DOMAIN list
           /\ FieldAt(list, x) \in ObjectFields(list[x[1]])
<1>1. ASSUME x \in Positions(list)
      PROVE  /\ x = <<x[1], x[2], x[3]>> /\ x[1] \in DOMAIN list
             /\ FieldAt(list, x) \in ObjectFields(list[x[1]])
  <2>1. PICK n \in DOMAIN list : x \in {<<n, f[2], f[3]>> : f \in ObjectFields(list[n])}
    BY <1>1 DEF Positions
  <2>2. PICK f \in ObjectFields(list[n]) : x = <<n, f[2], f[3]>>
    BY <2>1
  <2>3. PICK i \in DOMAIN list[n].plugins :
          f \in {<<list[n], i, j>> : j \in {0} \cup DOMAIN list[n].plugins[i].fields}
    BY <2>2 DEF ObjectFields
  <2>4. f = <<list[n], f[2], f[3]>>
    BY <2>3
  <2> QED
    BY <2>2, <2>4 DEF FieldAt
<1>2. ASSUME x = <<x[1], x[2], x[3]>>, x[1] \in DOMAIN list,
             FieldAt(list, x) \in ObjectFields(list[x[1]])
      PROVE  x \in Positions(list)
  <2> DEFINE f == FieldAt(list, x)
  <2>1. f[2] = x[2] /\ f[3] = x[3]
    BY DEF FieldAt
  <2>2. x \in {<<x[1], g[2], g[3]>> : g \in ObjectFields(list[x[1]])}
    BY <1>2, <2>1
  <2> QED
    BY <1>2, <2>2 DEF Positions
<1> QED
  BY <1>1, <1>2

\* A list of the objects of one kind has their fields, each at one position.
LEMMA ListFacts ==
  ASSUME Types, NEW k \in KindNames, NEW list \in SetToSeqs(world[k])
  PROVE  /\ list \in Seq(world[k]) /\ ToSet(list) = world[k]
         /\ \A m, n \in DOMAIN list : list[m] = list[n] => m = n
         /\ \A x \in Positions(list) : FieldAt(list, x) \in FieldsOf(k)
         /\ \A f \in FieldsOf(k) : \E x \in Positions(list) : FieldAt(list, x) = f
<1>1. IsFiniteSet(world[k])
  BY WorldObjects DEF AreObjects
<1>2. /\ list \in Seq(world[k]) /\ ToSet(list) = world[k]
      /\ \A m, n \in DOMAIN list : list[m] = list[n] => m = n
  BY <1>1, Enumeration
<1>3. \A x \in Positions(list) : FieldAt(list, x) \in FieldsOf(k)
  BY <1>2, PositionFacts DEF FieldsOf, ToSet
<1>4. ASSUME NEW f \in FieldsOf(k)
      PROVE  \E x \in Positions(list) : FieldAt(list, x) = f
  <2>1. PICK o \in world[k] : f \in ObjectFields(o)
    BY DEF FieldsOf
  <2>2. PICK i \in DOMAIN o.plugins :
          f \in {<<o, i, j>> : j \in {0} \cup DOMAIN o.plugins[i].fields}
    BY <2>1 DEF ObjectFields
  <2>3. f = <<o, f[2], f[3]>>
    BY <2>2
  <2>4. PICK n \in DOMAIN list : list[n] = o
    BY <1>2 DEF ToSet
  <2> DEFINE x == <<n, f[2], f[3]>>
  <2>5. FieldAt(list, x) = f /\ x = <<x[1], x[2], x[3]>> /\ x[1] = n
    BY <2>3, <2>4 DEF FieldAt
  <2>6. x \in Positions(list)
    BY <2>1, <2>4, <2>5, PositionFacts
  <2> QED
    BY <2>5, <2>6
<1> QED
  BY <1>2, <1>3, <1>4

\* Sorting keeps the objects.
LEMMA Sorted ==
  ASSUME Types, NEW k \in KindNames, lists[k] \in SetToSeqs(world[k]),
         NEW list \in SortByName(lists[k])
  PROVE  /\ list \in SetToSeqs(world[k])
         /\ \A m, n \in DOMAIN list : m < n => list[m].name < list[n].name
  BY ListFacts DEF SortByName

\* What a field may be printed as.
LEMMA LineFacts ==
  ASSUME Types, NEW k \in KindNames, k = Kinds[part], NEW f \in FieldsOf(k),
         ~LoadFails(f), NEW ls \in Lines(f)
  PROVE  /\ ls \in Seq(TextLines)
         /\ \A n \in DOMAIN ls : \E key \in MapKeys(f) : ls[n].at = Place(part, f, key)
         /\ \A key \in MapKeys(f) : \E n \in DOMAIN ls : ls[n].at = Place(part, f, key)
         /\ \A n \in DOMAIN ls : ls[n].value \in Values(f) \cap (Nat \cup Addresses)
         /\ \A m, n \in DOMAIN ls : m < n => Before(ls[m].at, ls[n].at)
<1>1. /\ f[1].name \in Nat /\ f[2] \in Nat /\ f[3] \in Nat /\ KindOf(f) \in FieldKinds
      /\ KindOf(f) = "secret" => ArgOf(f) \in SecretRefs
      /\ KindOf(f) = "script" => ArgOf(f) \in ScriptRefs
      /\ KindOf(f) = "map"    => ArgOf(f) \subseteq Nat /\ IsFiniteSet(ArgOf(f))
  BY FieldFacts
<1>2. part \in Nat /\ \A key \in Nat : Place(part, f, key) \in Places
  BY <1>1 DEF Types, Places, Place
<1>3. ASSUME NEW v \in (Nat \cup Addresses) \cap Values(f), KindOf(f) # "map",
             ls = <<Line(f, 0, v)>>
      PROVE  /\ ls \in Seq(TextLines)
             /\ \A n \in DOMAIN ls : \E key \in MapKeys(f) : ls[n].at = Place(part, f, key)
             /\ \A key \in MapKeys(f) : \E n \in DOMAIN ls : ls[n].at = Place(part, f, key)
             /\ \A n \in DOMAIN ls : ls[n].value \in Values(f) \cap (Nat \cup Addresses)
             /\ \A m, n \in DOMAIN ls : m < n => Before(ls[m].at, ls[n].at)
  <2>1. Line(f, 0, v) \in TextLines
    BY <1>2, <1>3 DEF Line, TextLines
  <2>2. /\ ls \in Seq(TextLines) /\ DOMAIN ls = {1} /\ ls[1].at = Place(part, f, 0)
        /\ ls[1].value = v
    BY <1>3, <2>1 DEF Line
  <2>3. MapKeys(f) = {0}
    BY <1>3 DEF MapKeys
  <2> QED
    BY <1>3, <2>2, <2>3
<1>4. CASE KindOf(f) = "plain"
  <2>1. ls = <<Line(f, 0, 0)>> /\ 0 \in Values(f)
    BY <1>4 DEF Lines, Values
  <2> QED
    BY <1>3, <1>4, <2>1
<1>5. CASE KindOf(f) = "secret"
  <2>1. ls = <<Line(f, 0, refs[ArgOf(f)])>>
    BY <1>5 DEF Lines
  <2>2. ArgOf(f) \in Refs
    BY <1>1, <1>5 DEF Refs
  <2>3. refs[ArgOf(f)] \in Nat /\ refs[ArgOf(f)] \in Values(f)
    BY <1>5, <2>2, RenderingConstants DEF Types, Values, LoadFails
  <2> QED
    BY <1>3, <1>5, <2>1, <2>3
<1>6. CASE KindOf(f) = "script"
  <2>1. ls = <<Line(f, 0, KeyOf[ArgOf(f)])>>
    BY <1>6 DEF Lines
  <2>2. KeyOf[ArgOf(f)] \in Nat /\ KeyOf[ArgOf(f)] \in Values(f)
    BY <1>1, <1>6, RenderingConstants DEF Values
  <2> QED
    BY <1>3, <1>6, <2>1, <2>2
<1>7. CASE KindOf(f) = "address"
  <2>1. PICK a \in Addresses : ls = <<Line(f, 0, a)>>
    BY <1>7 DEF Lines
  <2>2. a \in Values(f)
    BY <1>7 DEF Values
  <2> QED
    BY <1>3, <1>7, <2>1, <2>2
<1>8. CASE KindOf(f) = "map"
  <2>1. PICK s \in InsertStringMap(ArgOf(f)) : ls = [n \in DOMAIN s |-> Line(f, s[n], 0)]
    BY <1>8 DEF Lines
  <2>2. /\ s \in Seq(ArgOf(f)) /\ ToSet(s) = ArgOf(f)
        /\ \A m, n \in DOMAIN s : m < n => s[m] < s[n]
    BY <1>1, <1>8, <2>1, Enumeration DEF InsertStringMap
  <2>3. DOMAIN s = 1..Len(s) /\ Len(s) \in Nat /\ \A n \in DOMAIN s : s[n] \in Nat
    BY <1>1, <1>8, <2>2
  <2>4. \A n \in DOMAIN s : Line(f, s[n], 0) \in TextLines
    BY <1>2, <2>3 DEF Line, TextLines
  <2>5. ls \in Seq(TextLines)
    BY <2>1, <2>3, <2>4
  <2>6. DOMAIN ls = DOMAIN s /\ \A n \in DOMAIN s : /\ ls[n].at = Place(part, f, s[n])
                                                    /\ ls[n].value = 0
    BY <2>1 DEF Line
  <2>7. MapKeys(f) = ArgOf(f) /\ Values(f) = {0}
    BY <1>8 DEF MapKeys, Values
  <2>8. \A m, n \in DOMAIN ls : m < n => Before(ls[m].at, ls[n].at)
    <3>1. SUFFICES ASSUME NEW m \in DOMAIN s, NEW n \in DOMAIN s, m < n
                   PROVE  Before(Place(part, f, s[m]), Place(part, f, s[n]))
      BY <2>6
    <3>2. s[m] < s[n]
      BY <2>2, <3>1
    <3> QED
      BY <3>2 DEF Before, Place
  <2> QED
    BY <2>2, <2>5, <2>6, <2>7, <2>8 DEF ToSet
<1> QED
  BY <1>1, <1>4, <1>5, <1>6, <1>7, <1>8 DEF FieldKinds

-----------------------------------------------------------------------------
(* Type correctness.                                                        *)

LEMMA TextsWith ==
  ASSUME NEW t \in Texts, NEW F \in {"main", "parsers"}, NEW s \in Seq(TextLines)
  PROVE  /\ [t EXCEPT ![F] = s] \in Texts /\ [t EXCEPT ![F] = s][F] = s
         /\ \A G \in {"main", "parsers"} \ {F} : [t EXCEPT ![F] = s][G] = t[G]
<1>1. CASE F = "main"
  BY <1>1 DEF Texts
<1>2. CASE F = "parsers"
  BY <1>2 DEF Texts
<1> QED
  BY <1>1, <1>2

LEMMA InitTypes == Init => Types
<1> SUFFICES ASSUME Init PROVE Types
  OBVIOUS
<1>1. /\ refs \in [Refs -> 0..MaxContent] /\ changes \in 0..MaxChanges
      /\ \A r \in Refs \ Needed : refs[r] = Missing
  BY RenderingConstants DEF Init, Missing
<1>2. seen \in [Refs -> SUBSET (0..MaxContent)] /\ \A r \in Refs : refs[r] \in seen[r]
  BY <1>1 DEF Init
<1>3. lists = [k \in KindNames |-> << >>]
  BY KindsAre DEF Init, Unread
<1>4. text \in Texts
      /\ scripts \in Seq(Loaded)
  BY DEF Init, Empty, Texts
<1> QED
  BY <1>1, <1>2, <1>3, <1>4 DEF Init, Types

LEMMA ChangeTypes ==
  ASSUME Types, NEW r \in Refs, Change(r)
  PROVE  Types'
<1> USE DEF cache, output
<1>1. refs' \in [Refs -> 0..MaxContent] /\ changes' \in 0..MaxChanges
  BY RenderingConstants DEF Change, Types
<1>2. PICK c \in 0..MaxContent :
        refs' = [refs EXCEPT ![r] = c] /\ seen' = [seen EXCEPT ![r] = @ \cup {c}]
  BY DEF Change
<1>3. seen' \in [Refs -> SUBSET (0..MaxContent)] /\ \A q \in Refs : refs'[q] \in seen'[q]
  BY <1>2 DEF Types
<1>4. Needed' = Needed /\ r \in Needed
  BY DEF Change, Needed, FieldsOf
<1>5. \A q \in Refs \ Needed' : refs'[q] = Missing
  BY <1>2, <1>4 DEF Types
<1> QED
  BY <1>1, <1>3, <1>5 DEF Change, Types

LEMMA BeginTypes ==
  ASSUME Types, Begin
  PROVE  /\ Types' /\ \A k \in KindNames : lists'[k] \in SetToSeqs(world[k])
         /\ seen' = [r \in Refs |-> {refs[r]}]
<1> USE DEF cache, output
<1>1. PICK i \in SetToSeqs(world.input), f \in SetToSeqs(world.filter),
           o \in SetToSeqs(world.output), q \in SetToSeqs(world.parser) :
        lists' = [input |-> i, filter |-> f, output |-> o, parser |-> q]
  BY DEF Begin
<1>2. /\ DOMAIN lists' = KindNames /\ lists' = [k \in KindNames |-> lists'[k]]
      /\ \A k \in KindNames : lists'[k] \in SetToSeqs(world[k])
  BY <1>1 DEF KindNames
<1>3. ServiceLine \in TextLines
  BY DEF ServiceLine, TextLines, Places
<1>4. text' \in Texts
  <2>1. << >> \in Seq(TextLines) /\ <<ServiceLine>> \in Seq(TextLines)
    BY <1>3
  <2>2. Empty \in Texts
    BY DEF Empty, Texts
  <2> QED
    BY <2>1, <2>2, TextsWith DEF Begin
<1>5. seen' \in [Refs -> SUBSET (0..MaxContent)] /\ \A r \in Refs : refs'[r] \in seen'[r]
  BY DEF Begin, Types
<1>6. Needed' = Needed /\ world' = world
  BY DEF Begin, Needed, FieldsOf
<1> QED
  BY <1>2, <1>4, <1>5, <1>6 DEF Begin, Types

LEMMA LoadTypes ==
  ASSUME Types, Load
  PROVE  Types'
<1> USE DEF cache, output
<1> DEFINE k == Kinds[part]
<1>1. PICK list \in SortByName(lists[k]) :
        lists' = [lists EXCEPT ![k] = list] /\ todo' = Positions(list)
  BY DEF Load
<1>2. k \in KindNames /\ lists[k] \in SetToSeqs(world[k])
  BY KindsAre DEF Types, Load
<1>3. list \in SetToSeqs(world[k])
  BY <1>2, Sorted
<1>4. lists'[k] = list /\ \A j \in KindNames \ {k} : lists'[j] = lists[j]
  BY <1>1, <1>2 DEF Types
<1>5. DOMAIN lists' = KindNames /\ lists' = [j \in KindNames |-> lists'[j]]
  BY <1>1 DEF Types
<1>6. Needed' = Needed /\ world' = world /\ part' = part
  BY DEF Load, Needed, FieldsOf
<1> QED
  BY <1>1, <1>3, <1>4, <1>5, <1>6 DEF Load, Types

\* A step within a pass that leaves its lists alone.
LEMMA PassTypes ==
  ASSUME Types, UNCHANGED <<world, cache, lists>>,
         pc' \in {"idle", "load", "render", "scripts"}, part' \in 1..4, pc # "idle",
         text' \in Texts,
         scripts' \in Seq(Loaded),
         pc' = "render" => pc = "render" /\ part' = part /\ todo' \subseteq todo,
         pc' = "scripts" => todo' \subseteq ScriptsOf(lists["filter"])
  PROVE  Types'
<1>1. Needed' = Needed /\ world' = world
  BY DEF Needed, FieldsOf
<1> QED
  BY <1>1 DEF Types, cache

LEMMA FailTypes ==
  ASSUME Types, Fail, pc # "idle"
  PROVE  Types'
  BY PassTypes DEF Fail, Types

LEMMA RenderFieldTypes ==
  ASSUME Types, RenderField
  PROVE  Types'
<1> DEFINE k == Kinds[part]
<1>1. PICK x \in todo :
        LET f == FieldAt(lists[k], x) IN
        /\ First(x, todo)
        /\ \/ LoadFails(f) /\ Fail
           \/ /\ ~LoadFails(f)
              /\ \E ls \in Lines(f) : text' = [text EXCEPT ![File_] = @ \o ls]
              /\ todo' = todo \ {x}
              /\ UNCHANGED <<world, cache, pc, part, lists, scripts, output>>
  BY DEF RenderField
<1> DEFINE f == FieldAt(lists[k], x)
<1>2. CASE Fail
  BY <1>2, FailTypes DEF RenderField
<1>3. CASE /\ ~LoadFails(f)
           /\ \E ls \in Lines(f) : text' = [text EXCEPT ![File_] = @ \o ls]
           /\ todo' = todo \ {x}
           /\ UNCHANGED <<world, cache, pc, part, lists, scripts, output>>
  <2>1. k \in KindNames /\ lists[k] \in SetToSeqs(world[k]) /\ f \in FieldsOf(k)
    BY KindsAre, ListFacts DEF Types, RenderField
  <2>2. PICK ls \in Lines(f) : text' = [text EXCEPT ![File_] = @ \o ls]
    BY <1>3
  <2>3. ls \in Seq(TextLines)
    BY <1>3, <2>1, LineFacts
  <2>4. text' \in Texts
    <3>1. text \in Texts /\ File_ \in {"main", "parsers"}
      BY DEF Types, File_
    <3>2. text[File_] \in Seq(TextLines)
      BY <3>1 DEF Texts
    <3>3. text[File_] \o ls \in Seq(TextLines)
      BY <2>3, <3>2
    <3> QED
      BY <2>2, <3>1, <3>3, TextsWith
  <2> QED
    BY <1>3, <2>4, PassTypes DEF Types, RenderField
<1> QED
  BY <1>1, <1>2, <1>3

LEMMA EndListTypes ==
  ASSUME Types, EndList
  PROVE  Types'
<1>1. NullOutput \in TextLines
  BY DEF NullOutput, TextLines, Places
<1>2. text' \in Texts
  <2>1. text \in Texts /\ text.main \in Seq(TextLines)
    BY DEF Types, Texts
  <2>2. Append(text.main, NullOutput) \in Seq(TextLines)
    BY <1>1, <2>1
  <2> QED
    BY <2>1, <2>2, TextsWith DEF EndList
<1>3. part' \in 1..4
  BY KindsAre DEF EndList, Types
<1> QED
  BY <1>2, <1>3, PassTypes DEF EndList, Types

LEMMA LoadScriptTypes ==
  ASSUME Types, LoadScript
  PROVE  Types'
<1> DEFINE list == lists["filter"]
<1>1. PICK x \in todo :
        LET r == ArgOf(FieldAt(list, x)) IN
        /\ First(x, todo)
        /\ \/ refs[r] = Missing /\ Fail
           \/ /\ refs[r] # Missing /\ todo' = todo \ {x}
              /\ scripts' = Append(scripts, [name |-> KeyOf[r], content |-> refs[r]])
              /\ UNCHANGED <<world, cache, pc, part, lists, text, output>>
  BY DEF LoadScript
<1> DEFINE r == ArgOf(FieldAt(list, x))
<1>2. CASE Fail
  BY <1>2, FailTypes DEF LoadScript
<1>3. CASE /\ refs[r] # Missing /\ todo' = todo \ {x}
           /\ scripts' = Append(scripts, [name |-> KeyOf[r], content |-> refs[r]])
           /\ UNCHANGED <<world, cache, pc, part, lists, text, output>>
  <2>1. x \in Positions(list) /\ KindOf(FieldAt(list, x)) = "script"
        /\ "filter" \in KindNames /\ list \in SetToSeqs(world["filter"])
    BY DEF LoadScript, Types, ScriptsOf, KindNames
  <2>2. r \in ScriptRefs
    BY <2>1, ListFacts, FieldFacts
  <2>3. KeyOf[r] \in Nat /\ refs[r] \in 1..MaxContent
    BY <1>3, <2>2, RenderingConstants DEF Types, Refs, Missing
  <2>4. scripts' \in Seq(Loaded)
    BY <1>3, <2>3 DEF Types, Loaded
  <2>5. pc' = "scripts" /\ part' \in 1..4 /\ text' = text /\ todo' \subseteq ScriptsOf(list)
    BY <1>3 DEF LoadScript, Types
  <2> QED
    BY <1>3, <2>4, <2>5, PassTypes DEF Types, LoadScript
<1> QED
  BY <1>1, <1>2, <1>3

LEMMA TypeStep == Types /\ [Next]_vars => Types'
<1> SUFFICES ASSUME Types, [Next]_vars PROVE Types'
  OBVIOUS
<1>1. CASE \E r \in Refs : Change(r)
  BY <1>1, ChangeTypes
<1>2. CASE Begin
  BY <1>2, BeginTypes
<1>3. CASE Load
  BY <1>3, LoadTypes
<1>4. CASE RenderField
  BY <1>4, RenderFieldTypes
<1>5. CASE EndList
  BY <1>5, EndListTypes
<1>6. CASE LoadScript
  BY <1>6, LoadScriptTypes
<1>7. CASE Publish
  BY <1>7, PassTypes DEF Publish, Types
<1>8. CASE UNCHANGED vars
  <2>1. Needed' = Needed /\ UNCHANGED <<world, cache, pc, part, lists, todo, text, scripts>>
    BY <1>8 DEF vars, Needed, FieldsOf
  <2> QED
    BY <2>1 DEF Types, cache
<1> QED
  BY <1>1, <1>2, <1>3, <1>4, <1>5, <1>6, <1>7, <1>8 DEF Next

\* TypeOK: whatever the caches return and whenever they change, Reconcile works
\* on lists of the selected objects and loads nothing that is missing.
THEOREM RenderingTypes == Spec => []TypeOK
<1>1. Types => TypeOK
  <2> SUFFICES ASSUME Types PROVE TypeOK
    OBVIOUS
  <2>1. \A k \in DOMAIN lists : lists[k] # << >> => ToSet(lists[k]) = world[k]
    BY ListFacts DEF Types
  <2>2. \A r \in Refs : seen[r] # {} /\ seen[r] \subseteq 0..MaxContent
    BY DEF Types
  <2>3. \A n \in DOMAIN scripts : scripts[n].content # Missing
    <3>0. scripts \in Seq(Loaded)
      BY DEF Types
    <3>1. \A n \in DOMAIN scripts : scripts[n] \in Loaded
      BY <3>0
    <3> QED
      BY <3>1, RenderingConstants DEF Missing, Loaded
  <2> QED
    BY <2>1, <2>2, <2>3, KindsAre DEF Types, TypeOK
<1> QED
  BY <1>1, InitTypes, TypeStep, PTL DEF Spec

-----------------------------------------------------------------------------
(* Failures.                                                                *)

\* FailsForCause: Reconcile does not fail because of an object that nothing of
\* the selected refers to, nor because of what it has rendered itself.
THEOREM FailuresHaveCauses == Spec => FailsForCause
<1>1. ASSUME Types, [Next]_vars, pc # "idle", pc' = "idle", ~Publish
      PROVE  \E r \in Needed : refs[r] = Missing
  <2>1. CASE RenderField
    <3>1. PICK x \in todo : LoadFails(FieldAt(lists[Kinds[part]], x))
      BY <1>1, <2>1 DEF RenderField
    <3> DEFINE f == FieldAt(lists[Kinds[part]], x)
    <3>2. Kinds[part] \in KindNames /\ f \in FieldsOf(Kinds[part])
      BY <1>1, <2>1, KindsAre, ListFacts DEF Types, RenderField
    <3>3. ArgOf(f) \in Needed /\ refs[ArgOf(f)] = Missing
      BY <1>1, <3>1, <3>2, FieldFacts DEF LoadFails
    <3> QED
      BY <3>3
  <2>2. CASE LoadScript
    <3>1. PICK x \in todo : refs[ArgOf(FieldAt(lists["filter"], x))] = Missing
      BY <1>1, <2>2 DEF LoadScript
    <3> DEFINE f == FieldAt(lists["filter"], x)
    <3>2. "filter" \in KindNames /\ f \in FieldsOf("filter") /\ KindOf(f) = "script"
      BY <1>1, <2>2, ListFacts DEF Types, LoadScript, ScriptsOf, KindNames
    <3>3. ArgOf(f) \in Needed
      BY <1>1, <3>2, FieldFacts
    <3> QED
      BY <3>1, <3>3
  <2> QED
    BY <1>1, <2>1, <2>2 DEF Next, Change, Begin, Load, EndList, vars
<1>2. Types /\ [Next]_vars =>
        [pc # "idle" /\ pc' = "idle" /\ ~Publish => \E r \in Needed : refs[r] = Missing]_vars
  BY <1>1
<1> QED
  BY <1>2, InitTypes, TypeStep, PTL DEF Spec, FailsForCause

-----------------------------------------------------------------------------
(* Texts.                                                                   *)

Ascending(t) == \A m, n \in DOMAIN t : m < n => Before(t[m].at, t[n].at)

\* Values, by what the references had (sn) during the pass.
ValuesIn(f, sn) ==
  CASE KindOf(f) = "secret"  -> sn[ArgOf(f)] \ {Missing}
    [] KindOf(f) = "script"  -> {KeyOf[ArgOf(f)]}
    [] KindOf(f) = "address" -> Addresses
    [] OTHER                 -> {0}

\* The lines of part p of text t are those of the fields in fs.
Shows(t, p, fs, sn) ==
  /\ \A n \in DOMAIN t : t[n].at[1] = p =>
       \E f \in fs : /\ t[n].value \in ValuesIn(f, sn)
                     /\ \E key \in MapKeys(f) : t[n].at = Place(p, f, key)
  /\ \A f \in fs : \A key \in MapKeys(f) : \E n \in DOMAIN t : t[n].at = Place(p, f, key)

LEMMA ValuesSeen == \A f : Values(f) = ValuesIn(f, seen)
  BY DEF Values, ValuesIn

LEMMA ShowsComplete ==
  ASSUME NEW t, NEW p, Shows(t, p, FieldsOf(Kinds[p]), seen)
  PROVE  Complete(t, p)
<1> DEFINE fs    == FieldsOf(Kinds[p])
           lines == {t[n] : n \in {m \in DOMAIN t : t[m].at[1] = p}}
<1>1. \A l \in lines : \E f \in fs :
        l.value \in Values(f) /\ \E k \in MapKeys(f) : l.at = Place(p, f, k)
  BY ValuesSeen DEF Shows
<1>2. ASSUME NEW f \in fs, NEW k \in MapKeys(f)
      PROVE  \E l \in lines : l.at = Place(p, f, k)
  <2>1. PICK n \in DOMAIN t : t[n].at = Place(p, f, k)
    BY DEF Shows
  <2>2. t[n].at[1] = p
    BY <2>1 DEF Place
  <2> QED
    BY <2>1, <2>2
<1> QED
  BY <1>1, <1>2 DEF Complete

\* What a reference had during a pass only becomes more.
LEMMA ShowsStill ==
  ASSUME NEW t, NEW p, NEW fs, NEW s1, NEW s2, Shows(t, p, fs, s1),
         \A r \in Refs : s1[r] \subseteq s2[r],
         \A f \in fs : KindOf(f) = "secret" => ArgOf(f) \in Refs
  PROVE  Shows(t, p, fs, s2)
<1>1. \A f \in fs : ValuesIn(f, s1) \subseteq ValuesIn(f, s2)
  BY DEF ValuesIn
<1> QED
  BY <1>1 DEF Shows

LEMMA Concatenation ==
  ASSUME NEW S, NEW t \in Seq(S), NEW u \in Seq(S)
  PROVE  /\ t \o u \in Seq(S)
         /\ \A n \in DOMAIN t : n \in DOMAIN (t \o u) /\ (t \o u)[n] = t[n]
         /\ \A n \in DOMAIN u : Len(t) + n \in DOMAIN (t \o u) /\ (t \o u)[Len(t) + n] = u[n]
         /\ \A n \in DOMAIN (t \o u) :
              \/ n \in DOMAIN t
              \/ n - Len(t) \in DOMAIN u /\ (t \o u)[n] = u[n - Len(t)]
         /\ Len(t) \in Nat /\ DOMAIN t = 1..Len(t) /\ DOMAIN (t \o u) \subseteq Nat
  OBVIOUS

LEMMA AscendingMore ==
  ASSUME NEW t \in Seq(TextLines), NEW u \in Seq(TextLines), Ascending(t), Ascending(u),
         \A m \in DOMAIN t, n \in DOMAIN u : Before(t[m].at, u[n].at)
  PROVE  Ascending(t \o u)
<1> DEFINE tu == t \o u
<1>1. SUFFICES ASSUME NEW m \in DOMAIN tu, NEW n \in DOMAIN tu, m < n
               PROVE  Before(tu[m].at, tu[n].at)
  BY DEF Ascending
<1>2. m \in Nat /\ n \in Nat /\ Len(t) \in Nat /\ DOMAIN t = 1..Len(t)
  BY Concatenation
<1>3. CASE n \in DOMAIN t
  <2>1. m \in DOMAIN t
    BY <1>1, <1>2, <1>3, Concatenation
  <2> QED
    BY <1>1, <1>3, <2>1, Concatenation DEF Ascending
<1>4. CASE n \notin DOMAIN t /\ m \in DOMAIN t
  BY <1>4, Concatenation
<1>5. CASE n \notin DOMAIN t /\ m \notin DOMAIN t
  <2>1. /\ m - Len(t) \in DOMAIN u /\ tu[m] = u[m - Len(t)]
        /\ n - Len(t) \in DOMAIN u /\ tu[n] = u[n - Len(t)]
    BY <1>5, Concatenation
  <2>2. m - Len(t) < n - Len(t)
    BY <1>1, <1>2
  <2> QED
    BY <2>1, <2>2 DEF Ascending
<1> QED
  BY <1>3, <1>4, <1>5

\* Lines of another part make no difference.
LEMMA ShowsBeside ==
  ASSUME NEW t \in Seq(TextLines), NEW u \in Seq(TextLines), NEW p, NEW fs, NEW sn,
         Shows(t, p, fs, sn), \A n \in DOMAIN u : u[n].at[1] # p
  PROVE  Shows(t \o u, p, fs, sn)
<1> DEFINE tu == t \o u
<1>1. ASSUME NEW n \in DOMAIN tu, tu[n].at[1] = p
      PROVE  n \in DOMAIN t /\ tu[n] = t[n]
  BY <1>1, Concatenation
<1>2. \A n \in DOMAIN t : n \in DOMAIN tu /\ tu[n] = t[n]
  BY Concatenation
<1> QED
  BY <1>1, <1>2 DEF Shows

\* The lines of one more field.
LEMMA ShowsMore ==
  ASSUME NEW t \in Seq(TextLines), NEW u \in Seq(TextLines), NEW p, NEW fs, NEW f, NEW sn,
         Shows(t, p, fs, sn),
         \A n \in DOMAIN u : /\ u[n].value \in ValuesIn(f, sn)
                             /\ \E key \in MapKeys(f) : u[n].at = Place(p, f, key),
         \A key \in MapKeys(f) : \E n \in DOMAIN u : u[n].at = Place(p, f, key)
  PROVE  Shows(t \o u, p, fs \cup {f}, sn)
<1> DEFINE tu == t \o u
           gs == fs \cup {f}
<1>1. ASSUME NEW n \in DOMAIN tu, tu[n].at[1] = p
      PROVE  \E g \in gs : /\ tu[n].value \in ValuesIn(g, sn)
                           /\ \E key \in MapKeys(g) : tu[n].at = Place(p, g, key)
  <2>1. CASE n \in DOMAIN t
    BY <1>1, <2>1, Concatenation DEF Shows
  <2>2. CASE n \notin DOMAIN t
    BY <2>2, Concatenation
  <2> QED
    BY <2>1, <2>2
<1>2. ASSUME NEW g \in gs, NEW key \in MapKeys(g)
      PROVE  \E n \in DOMAIN tu : tu[n].at = Place(p, g, key)
  <2>1. CASE g = f
    <3>1. PICK n \in DOMAIN u : u[n].at = Place(p, g, key)
      BY <1>2, <2>1
    <3>2. Len(t) + n \in DOMAIN tu /\ tu[Len(t) + n] = u[n]
      BY Concatenation
    <3> QED
      BY <3>1, <3>2
  <2>2. CASE g # f
    <3>1. PICK n \in DOMAIN t : t[n].at = Place(p, g, key)
      BY <1>2, <2>2 DEF Shows
    <3>2. n \in DOMAIN tu /\ tu[n] = t[n]
      BY Concatenation
    <3> QED
      BY <3>1, <3>2
  <2> QED
    BY <2>1, <2>2
<1> QED
  BY <1>1, <1>2 DEF Shows

\* Positions of a sorted list follow one another as the lines of their fields.
ByName(list) == \A m, n \in DOMAIN list : m < n => list[m].name < list[n].name

LEMMA EarlierField ==
  ASSUME NEW list, ByName(list), NEW y \in Positions(list), NEW x \in Positions(list),
         Before(y, x), NEW p, NEW k1, NEW k2
  PROVE  Before(Place(p, FieldAt(list, y), k1), Place(p, FieldAt(list, x), k2))
<1> DEFINE l == Place(p, FieldAt(list, y), k1)
           m == Place(p, FieldAt(list, x), k2)
<1>1. /\ y = <<y[1], y[2], y[3]>> /\ y[1] \in DOMAIN list
      /\ x = <<x[1], x[2], x[3]>> /\ x[1] \in DOMAIN list
  BY PositionFacts
<1>2. /\ l = <<p, list[y[1]].name, y[2], y[3], k1>>
      /\ m = <<p, list[x[1]].name, x[2], x[3], k2>>
  BY DEF Place, FieldAt
<1>3. DOMAIN y = 1..3 /\ DOMAIN l = 1..5
  BY <1>1, <1>2
<1>4. PICK n \in 1..3 : y[n] < x[n] /\ \A q \in 1..(n - 1) : y[q] = x[q]
  BY <1>3 DEF Before
<1>5. CASE n = 1
  <2>1. list[y[1]].name < list[x[1]].name
    BY <1>1, <1>4, <1>5 DEF ByName
  <2>2. l[2] < m[2] /\ \A q \in 1..(2 - 1) : l[q] = m[q]
    BY <1>2, <2>1
  <2> QED
    BY <1>3, <2>2 DEF Before
<1>6. CASE n = 2
  <2>1. l[3] < m[3] /\ \A q \in 1..(3 - 1) : l[q] = m[q]
    BY <1>2, <1>4, <1>6
  <2> QED
    BY <1>3, <2>1 DEF Before
<1>7. CASE n = 3
  <2>1. l[4] < m[4] /\ \A q \in 1..(4 - 1) : l[q] = m[q]
    BY <1>2, <1>4, <1>7
  <2> QED
    BY <1>3, <2>1 DEF Before
<1> QED
  BY <1>5, <1>6, <1>7

-----------------------------------------------------------------------------
(* What has been rendered at each place in Reconcile.                       *)

TextOf(p) == IF p = 4 THEN text.parsers ELSE text.main
ListOf(p) == lists[Kinds[p]]
Past(p)   == p < part \/ pc = "scripts"

\* The fields of part p that have been rendered.
Sofar(p) ==
  IF Past(p) THEN FieldsOf(Kinds[p])
  ELSE IF p = part /\ pc = "render"
    THEN {FieldAt(ListOf(p), x) : x \in Positions(ListOf(p)) \ todo}
    ELSE {}

WantsNull == FieldsOf("input") # {} /\ FieldsOf("output") = {}

OnlyNull(t) ==
  /\ \E n \in DOMAIN t : t[n] = NullOutput
  /\ \A n \in DOMAIN t : t[n].at[1] = 3 => t[n] = NullOutput

ListsInv ==
  /\ pc = "scripts" => part = 4
  /\ \A p \in 1..4 : Past(p) \/ (p = part /\ pc = "render") => ByName(ListOf(p))
  /\ pc = "render" =>
       \A y \in Positions(ListOf(part)) \ todo, x \in todo : Before(y, x)

LinesInv ==
  /\ Ascending(text.main) /\ Ascending(text.parsers)
  /\ \A n \in DOMAIN text.main :
       /\ text.main[n].at[1] \in 0..3 /\ text.main[n].at[1] <= part
       /\ pc = "load" => text.main[n].at[1] < part
       /\ text.main[n].at[1] = 0 => text.main[n] = ServiceLine
  /\ \A n \in DOMAIN text.parsers : text.parsers[n].at[1] = 4
  /\ HasPart(text.main, 0) <=> world.service

FieldsInv ==
  /\ \A p \in {1, 2, 4} : Shows(TextOf(p), p, Sofar(p), seen)
  /\ Past(3) /\ WantsNull => OnlyNull(text.main)
  /\ ~(Past(3) /\ WantsNull) => Shows(text.main, 3, Sofar(3), seen)

TextInv == pc # "idle" => ListsInv /\ LinesInv /\ FieldsInv

\* In a pass that is not at an end the lists are those of the selected objects.
LEMMA ListsSelected ==
  ASSUME Types, pc # "idle", NEW p \in 1..4
  PROVE  /\ Kinds[p] \in KindNames /\ ListOf(p) \in SetToSeqs(world[Kinds[p]])
         /\ Sofar(p) \subseteq FieldsOf(Kinds[p])
<1>1. Kinds[p] \in KindNames /\ ListOf(p) \in SetToSeqs(world[Kinds[p]])
  BY KindsAre DEF Types, ListOf
<1>2. \A x \in Positions(ListOf(p)) : FieldAt(ListOf(p), x) \in FieldsOf(Kinds[p])
  BY <1>1, ListFacts
<1> QED
  BY <1>1, <1>2 DEF Sofar

\* A step that leaves what has been rendered alone.
LEMMA TextKept ==
  ASSUME Types, TextInv, UNCHANGED <<world, pc, part, lists, text>>,
         pc = "render" => todo' = todo,
         \A r \in Refs : seen[r] \subseteq seen'[r]
  PROVE  TextInv'
<1> SUFFICES ASSUME pc # "idle" PROVE ListsInv' /\ LinesInv' /\ FieldsInv'
  BY DEF TextInv
<1>1. /\ \A p : ListOf(p)' = ListOf(p) /\ TextOf(p)' = TextOf(p) /\ (Past(p)' <=> Past(p))
      /\ \A k : FieldsOf(k)' = FieldsOf(k)
  BY DEF ListOf, TextOf, Past, FieldsOf
<1>2. ListsInv'
  BY <1>1 DEF TextInv, ListsInv
<1>3. LinesInv'
  BY DEF TextInv, LinesInv, HasPart
<1>4. \A p : Sofar(p)' = Sofar(p)
  BY <1>1 DEF Sofar
<1>5. ASSUME NEW p \in 1..4, NEW t, Shows(t, p, Sofar(p), seen)
      PROVE  Shows(t, p, Sofar(p), seen')
  <2>1. \A f \in Sofar(p) : KindOf(f) = "secret" => ArgOf(f) \in Refs
    BY ListsSelected, FieldFacts DEF Refs
  <2> QED
    BY <1>5, <2>1, ShowsStill
<1>6. WantsNull' = WantsNull
  BY <1>1 DEF WantsNull
<1>7. FieldsInv'
  <2>1. \A p \in {1, 2, 4} : Shows(TextOf(p), p, Sofar(p), seen')
    BY <1>5 DEF TextInv, FieldsInv
  <2>2. Past(3) /\ WantsNull => OnlyNull(text.main)
    BY DEF TextInv, FieldsInv
  <2>3. ~(Past(3) /\ WantsNull) => Shows(text.main, 3, Sofar(3), seen')
    BY <1>5 DEF TextInv, FieldsInv
  <2> QED
    BY <1>1, <1>4, <1>6, <2>1, <2>2, <2>3 DEF FieldsInv
<1> QED
  BY <1>2, <1>3, <1>7

LEMMA BeginText ==
  ASSUME Types, Begin
  PROVE  TextInv'
<1>1. /\ pc' = "load" /\ part' = 1 /\ world' = world
      /\ text'.main = (IF world.service THEN <<ServiceLine>> ELSE << >>)
      /\ text'.parsers = << >>
  BY DEF Begin, Empty
<1>2. \A p \in 1..4 : ~Past(p)' /\ Sofar(p)' = {}
  BY <1>1 DEF Past, Sofar
<1>3. ListsInv'
  BY <1>1, <1>2 DEF ListsInv
<1>4. /\ DOMAIN text'.main = IF world.service THEN {1} ELSE {}
      /\ \A n \in DOMAIN text'.main : text'.main[n].at[1] = 0
      /\ DOMAIN text'.parsers = {}
  BY <1>1 DEF ServiceLine
<1>5. LinesInv'
  <2>1. Ascending(text'.main) /\ Ascending(text'.parsers)
    BY <1>4 DEF Ascending
  <2>2. HasPart(text'.main, 0) <=> world'.service
    BY <1>1, <1>4 DEF HasPart
  <2> QED
    BY <1>1, <1>4, <2>1, <2>2 DEF LinesInv
<1>6. \A p \in 1..4 : Shows(TextOf(p)', p, Sofar(p)', seen')
  BY <1>2, <1>4 DEF Shows, TextOf
<1>7. FieldsInv'
  <2>1. Shows(text'.main, 3, Sofar(3)', seen')
    BY <1>6 DEF TextOf
  <2> QED
    BY <1>2, <1>6, <2>1 DEF FieldsInv
<1> QED
  BY <1>3, <1>5, <1>7 DEF TextInv

LEMMA LoadText ==
  ASSUME Types, TextInv, Load
  PROVE  TextInv'
<1> DEFINE k == Kinds[part]
<1>1. PICK list \in SortByName(lists[k]) :
        lists' = [lists EXCEPT ![k] = list] /\ todo' = Positions(list)
  BY DEF Load
<1>2. /\ pc = "load" /\ pc' = "render" /\ part' = part /\ part \in 1..4
      /\ world' = world /\ text' = text /\ seen' = seen
      /\ ListsInv /\ LinesInv /\ FieldsInv
  BY DEF Load, Types, TextInv, cache
<1>3. k \in KindNames /\ lists[k] \in SetToSeqs(world[k])
  BY <1>2, KindsAre DEF Types
<1>4. ByName(list)
  BY <1>3, Sorted DEF ByName
<1>5. ListOf(part)' = list /\ \A p \in 1..4 \ {part} : ListOf(p)' = ListOf(p)
  BY <1>1, <1>2, <1>3, KindsAre DEF Types, ListOf
<1>6. \A p \in 1..4 : (Past(p)' <=> Past(p)) /\ TextOf(p)' = TextOf(p)
  BY <1>2 DEF Past, TextOf
<1>7. ListsInv'
  BY <1>1, <1>2, <1>4, <1>5, <1>6 DEF ListsInv
<1>8. LinesInv'
  BY <1>2 DEF LinesInv, Types
<1>9. \A p \in 1..4 : Sofar(p)' = Sofar(p)
  <2>1. \A q : FieldsOf(q)' = FieldsOf(q)
    BY <1>2 DEF FieldsOf
  <2>2. Positions(ListOf(part)') \ todo' = {}
    BY <1>1, <1>5
  <2> QED
    BY <1>2, <1>6, <2>1, <2>2 DEF Sofar
<1>10. WantsNull' = WantsNull
  BY <1>2 DEF WantsNull, FieldsOf
<1>11. FieldsInv'
  BY <1>2, <1>6, <1>9, <1>10 DEF FieldsInv
<1> QED
  BY <1>7, <1>8, <1>11 DEF TextInv

\* A part has a line as soon as it has a plugin: its header.
LEMMA PartShown ==
  ASSUME Types, NEW p \in 1..4, NEW t, NEW sn, Shows(t, p, FieldsOf(Kinds[p]), sn)
  PROVE  HasPart(t, p) <=> FieldsOf(Kinds[p]) # {}
<1> DEFINE k == Kinds[p]
<1>1. ASSUME NEW f \in FieldsOf(k)
      PROVE  HasPart(t, p)
  <2>1. PICK o \in world[k] : f \in ObjectFields(o)
    BY DEF FieldsOf
  <2>2. PICK i \in DOMAIN o.plugins :
          f \in {<<o, i, j>> : j \in {0} \cup DOMAIN o.plugins[i].fields}
    BY <2>1 DEF ObjectFields
  <2> DEFINE h == <<o, i, 0>>
  <2>3. h \in FieldsOf(k)
    BY <2>1, <2>2 DEF FieldsOf, ObjectFields
  <2>4. 0 \in MapKeys(h)
    BY DEF MapKeys, KindOf
  <2>5. PICK n \in DOMAIN t : t[n].at = Place(p, h, 0)
    BY <2>3, <2>4 DEF Shows
  <2> QED
    BY <2>5 DEF HasPart, Place
<1>2. HasPart(t, p) => FieldsOf(k) # {}
  BY DEF HasPart, Shows
<1> QED
  BY <1>1, <1>2

LEMMA LinesAdded ==
  ASSUME NEW t \in Seq(TextLines), NEW u \in Seq(TextLines), NEW p,
         \A n \in DOMAIN u : u[n].at[1] = p
  PROVE  \A v : v = t \o u =>
         /\ \A n \in DOMAIN t : n \in DOMAIN v /\ v[n] = t[n]
         /\ \A n \in DOMAIN v : \/ n \in DOMAIN t /\ v[n] = t[n]
                                \/ v[n].at[1] = p
<1> DEFINE v == t \o u
<1>1. \A n \in DOMAIN t : n \in DOMAIN v /\ v[n] = t[n]
  BY Concatenation
<1>2. ASSUME NEW n \in DOMAIN v, n \notin DOMAIN t
      PROVE  v[n].at[1] = p
  BY <1>2, Concatenation
<1> QED
  BY <1>1, <1>2

\* The lines of one more field follow those that are there.
LEMMA FieldFollows ==
  ASSUME Types, pc = "render", ListsInv, LinesInv, FieldsInv,
         NEW x \in todo, First(x, todo),
         NEW ls, ls \in Lines(FieldAt(ListOf(part), x)),
         ~LoadFails(FieldAt(ListOf(part), x))
  PROVE  Ascending(TextOf(part) \o ls)
<1> DEFINE k == Kinds[part]
           L == ListOf(part)
           f == FieldAt(L, x)
           t == TextOf(part)
<1>1. part \in 1..4 /\ k \in KindNames /\ L \in SetToSeqs(world[k]) /\ x \in Positions(L)
  BY KindsAre DEF Types, ListOf
<1>2. f \in FieldsOf(k)
  BY <1>1, ListFacts
<1>3. /\ ls \in Seq(TextLines)
      /\ \A n \in DOMAIN ls : \E key \in MapKeys(f) : ls[n].at = Place(part, f, key)
      /\ \A m, n \in DOMAIN ls : m < n => Before(ls[m].at, ls[n].at)
  BY <1>1, <1>2, LineFacts
<1>4. t \in Seq(TextLines) /\ Ascending(t)
  BY DEF Types, Texts, TextOf, LinesInv
<1>5. ASSUME NEW m \in DOMAIN t, NEW n \in DOMAIN ls
      PROVE  Before(t[m].at, ls[n].at)
  <2>1. PICK key \in MapKeys(f) : ls[n].at = Place(part, f, key)
    BY <1>3
  <2>2. t[m] \in TextLines
    BY <1>4
  <2>3. DOMAIN t[m].at = 1..5 /\ t[m].at[1] \in Nat
    BY <2>2 DEF TextLines, Places
  <2>4. CASE t[m].at[1] < part
    <3>1. t[m].at[1] < ls[n].at[1]
      BY <2>1, <2>4 DEF Place
    <3> QED
      BY <2>3, <3>1 DEF Before
  <2>5. CASE t[m].at[1] = part
    <3>1. Shows(t, part, Sofar(part), seen)
      BY <1>1 DEF FieldsInv, TextOf, Past
    <3>2. PICK g \in Sofar(part) : \E key2 \in MapKeys(g) : t[m].at = Place(part, g, key2)
      BY <2>5, <3>1 DEF Shows
    <3>3. PICK y \in Positions(L) \ todo : g = FieldAt(L, y)
      <4>1. Sofar(part) = {FieldAt(L, y) : y \in Positions(L) \ todo}
        BY <1>1 DEF Sofar, Past
      <4> QED
        BY <3>2, <4>1
    <3>4. Before(y, x) /\ ByName(L)
      BY <1>1, <3>3 DEF ListsInv
    <3> QED
      BY <1>1, <2>1, <3>2, <3>3, <3>4, EarlierField
  <2>6. t[m].at[1] <= part
    <3>1. CASE part = 4
      BY <3>1 DEF TextOf, LinesInv
    <3>2. CASE part # 4
      BY <3>2 DEF TextOf, LinesInv
    <3> QED
      BY <3>1, <3>2
  <2> QED
    BY <1>1, <2>3, <2>4, <2>5, <2>6
<1> QED
  BY <1>3, <1>4, <1>5, AscendingMore DEF Ascending

LEMMA RenderFieldText ==
  ASSUME Types, TextInv, RenderField
  PROVE  TextInv'
<1> DEFINE k == Kinds[part]
           L == ListOf(part)
<1>1. PICK x \in todo :
        LET f == FieldAt(L, x) IN
        /\ First(x, todo)
        /\ \/ LoadFails(f) /\ Fail
           \/ /\ ~LoadFails(f)
              /\ \E ls \in Lines(f) : text' = [text EXCEPT ![File_] = @ \o ls]
              /\ todo' = todo \ {x}
              /\ UNCHANGED <<world, cache, pc, part, lists, scripts, output>>
  BY DEF RenderField, ListOf
<1> DEFINE f == FieldAt(L, x)
<1>2. CASE Fail
  BY <1>2 DEF Fail, TextInv
<1>3. CASE /\ ~LoadFails(f)
           /\ \E ls \in Lines(f) : text' = [text EXCEPT ![File_] = @ \o ls]
           /\ todo' = todo \ {x}
           /\ UNCHANGED <<world, cache, pc, part, lists, scripts, output>>
  <2>1. /\ pc = "render" /\ pc' = "render" /\ part' = part /\ part \in 1..4
        /\ world' = world /\ lists' = lists /\ seen' = seen /\ todo' = todo \ {x}
        /\ ListsInv /\ LinesInv /\ FieldsInv
    BY <1>3 DEF RenderField, Types, TextInv, cache
  <2>2. PICK ls \in Lines(f) : text' = [text EXCEPT ![File_] = @ \o ls]
    BY <1>3
  <2>3. k \in KindNames /\ L \in SetToSeqs(world[k]) /\ x \in Positions(L)
    BY <2>1, KindsAre DEF Types, ListOf
  <2>4. f \in FieldsOf(k)
    BY <2>3, ListFacts
  <2>5. /\ ls \in Seq(TextLines)
        /\ \A n \in DOMAIN ls : \E key \in MapKeys(f) : ls[n].at = Place(part, f, key)
        /\ \A key \in MapKeys(f) : \E n \in DOMAIN ls : ls[n].at = Place(part, f, key)
        /\ \A n \in DOMAIN ls : ls[n].value \in Values(f)
    BY <1>3, <2>3, <2>4, LineFacts
  <2>6. \A n \in DOMAIN ls : ls[n].at[1] = part
    BY <2>5 DEF Place
  <2>7. /\ text.main \in Seq(TextLines) /\ text.parsers \in Seq(TextLines)
        /\ part = 4  => text'.parsers = text.parsers \o ls /\ text'.main = text.main
        /\ part # 4 => text'.main = text.main \o ls /\ text'.parsers = text.parsers
    <3>1. File_ = IF part = 4 THEN "parsers" ELSE "main"
      BY <2>1, KindsAre DEF File_
    <3> QED
      BY <2>2, <3>1 DEF Types, Texts
  <2>7a. \A t \in {text.main, text.parsers} : \A v : v = t \o ls =>
           /\ \A n \in DOMAIN t : n \in DOMAIN v /\ v[n] = t[n]
           /\ \A n \in DOMAIN v : \/ n \in DOMAIN t /\ v[n] = t[n]
                                  \/ v[n].at[1] = part
    BY <2>5, <2>6, <2>7, LinesAdded
  <2>8. \A p \in 1..4 : ListOf(p)' = ListOf(p) /\ (Past(p)' <=> Past(p))
    BY <2>1 DEF ListOf, Past
  <2>9. Ascending(TextOf(part)')
    <3>1. Ascending(TextOf(part) \o ls)
      BY <1>1, <1>3, <2>1, <2>2, FieldFollows
    <3> QED
      BY <2>1, <2>7, <3>1 DEF TextOf
  <2>10. ListsInv'
    <3>1. ASSUME NEW y \in Positions(L) \ todo', NEW z \in todo'
          PROVE  Before(y, z)
      <4>1. CASE y = x
        BY <1>1, <2>1, <3>1, <4>1 DEF First
      <4>2. CASE y # x
        BY <2>1, <3>1, <4>2 DEF ListsInv
      <4> QED
        BY <4>1, <4>2
    <3> QED
      BY <2>1, <2>8, <3>1 DEF ListsInv
  <2>11. LinesInv'
    <3>1. CASE part = 4
      <4>1. Ascending(text'.main) /\ Ascending(text'.parsers)
        BY <2>1, <2>7, <2>9, <3>1 DEF LinesInv, TextOf
      <4>2. \A n \in DOMAIN text'.parsers : text'.parsers[n].at[1] = 4
        <5>1. \A n \in DOMAIN text'.parsers :
                \/ n \in DOMAIN text.parsers /\ text'.parsers[n] = text.parsers[n]
                \/ text'.parsers[n].at[1] = part
          BY <2>7, <2>7a, <3>1
        <5> QED
          BY <2>1, <3>1, <5>1 DEF LinesInv
      <4> QED
        BY <2>1, <2>7, <3>1, <4>1, <4>2 DEF LinesInv, HasPart
    <3>2. CASE part # 4
      <4> DEFINE t == text.main
                 u == text'.main
      <4>1. Ascending(u) /\ Ascending(text'.parsers)
        BY <2>1, <2>7, <2>9, <3>2 DEF LinesInv, TextOf
      <4>2. \A n \in DOMAIN u : \/ n \in DOMAIN t /\ u[n] = t[n]
                                \/ u[n].at[1] = part
        BY <2>7, <2>7a, <3>2
      <4>3. \A n \in DOMAIN u : /\ u[n].at[1] \in 0..3 /\ u[n].at[1] <= part
                                /\ u[n].at[1] = 0 => u[n] = ServiceLine
        BY <2>1, <3>2, <4>2 DEF LinesInv
      <4>4. HasPart(u, 0) <=> HasPart(t, 0)
        <5>1. \A n \in DOMAIN t : n \in DOMAIN u /\ u[n] = t[n]
          BY <2>7, <2>7a, <3>2
        <5> QED
          BY <2>1, <4>2, <5>1 DEF HasPart
      <4> QED
        BY <2>1, <2>7, <3>2, <4>1, <4>3, <4>4 DEF LinesInv
    <3> QED
      BY <3>1, <3>2
  <2>12. Sofar(part)' = Sofar(part) \cup {f}
    <3>1. Positions(L) \ todo' = (Positions(L) \ todo) \cup {x}
      BY <2>1, <2>3
    <3>2. Sofar(part) = {FieldAt(L, y) : y \in Positions(L) \ todo}
      BY <2>1 DEF Sofar, Past
    <3>3. Sofar(part)' = {FieldAt(L, y) : y \in Positions(L) \ todo'}
      BY <2>1, <2>8 DEF Sofar, Past
    <3> QED
      BY <3>1, <3>2, <3>3
  <2>13. \A p \in 1..4 \ {part} : Sofar(p)' = Sofar(p)
    BY <2>1, <2>8 DEF Sofar, FieldsOf
  <2>14. ASSUME NEW p \in 1..4, Shows(TextOf(p), p, Sofar(p), seen)
         PROVE  Shows(TextOf(p)', p, Sofar(p)', seen')
    <3>1. CASE p = part
      <4>1. Shows(TextOf(p) \o ls, p, Sofar(p) \cup {f}, seen)
        <5>1. TextOf(p) \in Seq(TextLines)
          BY <2>7 DEF TextOf
        <5> QED
          BY <2>5, <2>14, <3>1, <5>1, ValuesSeen, ShowsMore
      <4> QED
        BY <2>1, <2>7, <2>12, <3>1, <4>1 DEF TextOf
    <3>2. CASE p # part /\ p # 4 /\ part # 4
      <4>1. Shows(text.main \o ls, p, Sofar(p), seen)
        BY <2>5, <2>6, <2>7, <2>14, <3>2, ShowsBeside DEF TextOf
      <4> QED
        BY <2>1, <2>7, <2>13, <3>2, <4>1 DEF TextOf
    <3>3. CASE p # part /\ (p = 4 \/ part = 4)
      <4>1. TextOf(p)' = TextOf(p)
        BY <2>7, <3>3 DEF TextOf
      <4> QED
        BY <2>1, <2>13, <2>14, <3>3, <4>1
    <3> QED
      BY <3>1, <3>2, <3>3
  <2>15. FieldsInv'
    <3>1. \A p \in {1, 2, 4} : Shows(TextOf(p)', p, Sofar(p)', seen')
      BY <2>1, <2>14 DEF FieldsInv
    <3>2. WantsNull' = WantsNull
      BY <2>1 DEF WantsNull, FieldsOf
    <3>3. Past(3) /\ WantsNull => OnlyNull(text'.main)
      BY <2>1, <2>7 DEF FieldsInv, Past
    <3>4. ~(Past(3) /\ WantsNull) => Shows(text'.main, 3, Sofar(3)', seen')
      BY <2>1, <2>14 DEF FieldsInv, TextOf
    <3> QED
      BY <2>8, <3>1, <3>2, <3>3, <3>4 DEF FieldsInv
  <2> QED
    BY <2>10, <2>11, <2>15 DEF TextInv
<1> QED
  BY <1>1, <1>2, <1>3

LEMMA EndListText ==
  ASSUME Types, TextInv, EndList
  PROVE  TextInv'
<1>1. /\ pc = "render" /\ todo = {} /\ part \in 1..4 /\ world' = world /\ lists' = lists
      /\ seen' = seen /\ ListsInv /\ LinesInv /\ FieldsInv
      /\ text'.parsers = text.parsers
      /\ text'.main = IF NeedsNull THEN Append(text.main, NullOutput) ELSE text.main
      /\ part < 4 => pc' = "load" /\ part' = part + 1
      /\ part = 4 => pc' = "scripts" /\ part' = part
  BY KindsAre DEF EndList, Types, TextInv, Texts, cache
<1>2. \A p \in 1..4 : ListOf(p)' = ListOf(p) /\ (Past(p)' <=> Past(p) \/ p = part)
  BY <1>1 DEF ListOf, Past
<1>3. Sofar(part) = FieldsOf(Kinds[part])
  <2>1. Sofar(part) = {FieldAt(ListOf(part), x) : x \in Positions(ListOf(part))}
    <3>1. Positions(ListOf(part)) \ todo = Positions(ListOf(part))
      BY <1>1
    <3> QED
      BY <1>1, <3>1 DEF Sofar, Past
  <2>2. Kinds[part] \in KindNames /\ ListOf(part) \in SetToSeqs(world[Kinds[part]])
    BY <1>1, ListsSelected
  <2>3. \A f \in FieldsOf(Kinds[part]) :
          \E x \in Positions(ListOf(part)) : FieldAt(ListOf(part), x) = f
    BY <2>2, ListFacts
  <2>4. Sofar(part) \subseteq FieldsOf(Kinds[part])
    BY <1>1, ListsSelected
  <2> QED
    BY <2>1, <2>3, <2>4
<1>4. \A p \in 1..4 : Sofar(p)' = Sofar(p)
  <2>1. \A q : FieldsOf(q)' = FieldsOf(q)
    BY <1>1 DEF FieldsOf
  <2>2. SUFFICES ASSUME NEW p \in 1..4 PROVE Sofar(p)' = Sofar(p)
    OBVIOUS
  <2>3. CASE Past(p) \/ p = part
    BY <1>2, <1>3, <2>1, <2>3 DEF Sofar
  <2>4. CASE ~Past(p) /\ p # part
    <3>1. Sofar(p) = {}
      BY <2>4 DEF Sofar
    <3>2. pc' # "render"
      BY <1>1
    <3> QED
      BY <1>2, <2>4, <3>1, <3>2 DEF Sofar
  <2> QED
    BY <2>3, <2>4
<1>5. ListsInv'
  <2>1. \A p \in 1..4 : Past(p)' => ByName(ListOf(p)')
    BY <1>1, <1>2 DEF ListsInv
  <2> QED
    BY <1>1, <2>1 DEF ListsInv
<1>6. WantsNull' = WantsNull
  BY <1>1 DEF WantsNull, FieldsOf
<1>7. NeedsNull => part = 3
  BY <1>1, KindsAre DEF NeedsNull
<1>8. part = 3 => Shows(text.main, 3, FieldsOf("output"), seen)
  BY <1>1, <1>3, KindsAre DEF FieldsInv, Past
<1>9. part = 3 => (NeedsNull <=> WantsNull)
  <2>1. SUFFICES ASSUME part = 3 PROVE NeedsNull <=> WantsNull
    OBVIOUS
  <2>2. HasPart(text.main, 1) <=> FieldsOf("input") # {}
    <3>1. Sofar(1) = FieldsOf(Kinds[1])
      BY <2>1 DEF Sofar, Past
    <3>2. Shows(text.main, 1, FieldsOf(Kinds[1]), seen)
      BY <1>1, <3>1 DEF FieldsInv, TextOf
    <3> QED
      BY <3>2, PartShown, KindsAre
  <2>3. HasPart(text.main, 3) <=> FieldsOf("output") # {}
    BY <1>8, <2>1, PartShown, KindsAre
  <2> QED
    BY <2>1, <2>2, <2>3, KindsAre DEF NeedsNull, WantsNull
<1>10. CASE ~NeedsNull
  <2>1. text'.main = text.main
    BY <1>1, <1>10
  <2>2. LinesInv'
    <3>2. \A n \in DOMAIN text.main :
            /\ text.main[n].at[1] \in 0..3 /\ text.main[n].at[1] <= part'
            /\ pc' = "load" => text.main[n].at[1] < part'
      BY <1>1 DEF LinesInv
    <3>3. HasPart(text'.main, 0) <=> world'.service
      BY <1>1, <2>1 DEF LinesInv, HasPart
    <3> QED
      BY <1>1, <2>1, <3>2, <3>3 DEF LinesInv
  <2>3. Past(3)' /\ WantsNull => Past(3)
    BY <1>2, <1>9, <1>10
  <2>4. \A p \in 1..4 : TextOf(p)' = TextOf(p)
    BY <1>1, <2>1 DEF TextOf
  <2>5. FieldsInv'
    <3>1. \A p \in {1, 2, 4} : Shows(TextOf(p)', p, Sofar(p)', seen')
      BY <1>1, <1>4, <2>4 DEF FieldsInv
    <3>2. Past(3)' /\ WantsNull => OnlyNull(text'.main)
      BY <1>1, <2>1, <2>3 DEF FieldsInv
    <3>3. ~(Past(3)' /\ WantsNull) => Shows(text'.main, 3, Sofar(3)', seen')
      BY <1>1, <1>2, <1>4, <2>1 DEF FieldsInv
    <3> QED
      BY <1>6, <3>1, <3>2, <3>3 DEF FieldsInv
  <2> QED
    BY <1>5, <2>2, <2>5 DEF TextInv
<1>11. CASE NeedsNull
  <2> DEFINE t == text.main
             u == text'.main
             null == <<NullOutput>>
  <2>1. part = 3 /\ WantsNull /\ pc' = "load" /\ part' = 4
    BY <1>1, <1>7, <1>9, <1>11
  <2>2. NullOutput \in TextLines /\ NullOutput.at[1] = 3
    BY DEF NullOutput, TextLines, Places
  <2>3. t \in Seq(TextLines) /\ null \in Seq(TextLines) /\ u = t \o null
    BY <1>1, <1>11, <2>2 DEF Types, Texts
  <2>4. DOMAIN null = {1} /\ null[1] = NullOutput
    OBVIOUS
  <2>5. \A n \in DOMAIN t : t[n].at[1] \in 0..3 /\ t[n].at[1] # 3
    <3>1. ~HasPart(t, 3)
      BY <1>11 DEF NeedsNull
    <3> QED
      BY <1>1, <3>1 DEF LinesInv, HasPart
  <2>6. Ascending(u)
    <3>1. ASSUME NEW m \in DOMAIN t, NEW n \in DOMAIN null
          PROVE  Before(t[m].at, null[n].at)
      <4>1. t[m].at[1] < null[n].at[1]
        BY <2>2, <2>4, <2>5
      <4>2. DOMAIN t[m].at = 1..5
        <5>1. t[m] \in TextLines
          BY <2>3
        <5> QED
          BY <5>1 DEF TextLines, Places
      <4> QED
        BY <4>1, <4>2 DEF Before
    <3>2. Ascending(t) /\ Ascending(null)
      BY <1>1, <2>4 DEF LinesInv, Ascending
    <3> QED
      BY <2>3, <3>1, <3>2, AscendingMore
  <2>7. /\ \A n \in DOMAIN t : n \in DOMAIN u /\ u[n] = t[n]
        /\ \A n \in DOMAIN u : (n \in DOMAIN t /\ u[n] = t[n]) \/ u[n] = NullOutput
        /\ \E n \in DOMAIN u : u[n] = NullOutput
    <3>1. DOMAIN t = 1..Len(t) /\ Len(t) \in Nat
      BY <2>3
    <3>2. /\ u = Append(t, NullOutput) /\ DOMAIN u = 1..(Len(t) + 1)
          /\ u[Len(t) + 1] = NullOutput /\ \A n \in DOMAIN t : u[n] = t[n]
      BY <1>1, <1>11, <2>2, <2>3
    <3> QED
      BY <3>1, <3>2
  <2>8. LinesInv'
    <3>1. \A n \in DOMAIN u : /\ u[n].at[1] \in 0..3
                              /\ u[n].at[1] = 0 => u[n] = ServiceLine
      BY <1>1, <2>2, <2>5, <2>7 DEF LinesInv
    <3>2. HasPart(u, 0) <=> HasPart(t, 0)
      BY <2>2, <2>7 DEF HasPart
    <3>3. \A n \in DOMAIN u : u[n].at[1] <= 4 /\ u[n].at[1] < 4
      BY <3>1
    <3> QED
      BY <1>1, <2>1, <2>6, <3>1, <3>2, <3>3 DEF LinesInv
  <2>9. OnlyNull(u)
    BY <2>5, <2>7 DEF OnlyNull
  <2>10. \A p \in {1, 2} : Shows(u, p, Sofar(p), seen)
    <3>1. \A p \in {1, 2} : Shows(t, p, Sofar(p), seen)
      BY <1>1 DEF FieldsInv, TextOf
    <3>2. \A n \in DOMAIN null : null[n].at[1] \notin {1, 2}
      BY <2>2, <2>4
    <3>3. \A p \in {1, 2} : Shows(t \o null, p, Sofar(p), seen)
      BY <2>3, <3>1, <3>2, ShowsBeside
    <3> QED
      BY <2>3, <3>3
  <2>11. FieldsInv'
    <3>1. \A p \in {1, 2, 4} : Shows(TextOf(p)', p, Sofar(p)', seen')
      BY <1>1, <1>4, <2>10 DEF FieldsInv, TextOf
    <3> QED
      BY <1>2, <1>6, <2>1, <2>9, <3>1 DEF FieldsInv
  <2> QED
    BY <1>5, <2>8, <2>11 DEF TextInv
<1> QED
  BY <1>10, <1>11

LEMMA TextStep == Types /\ TextInv /\ [Next]_vars => TextInv'
<1> SUFFICES ASSUME Types, TextInv, [Next]_vars PROVE TextInv'
  OBVIOUS
<1>1. ASSUME NEW r \in Refs, Change(r) PROVE TextInv'
  <2>1. \A q \in Refs : seen[q] \subseteq seen'[q]
    BY <1>1 DEF Change, Types
  <2> QED
    BY <1>1, <2>1, TextKept DEF Change
<1>2. CASE LoadScript
  <2>1. CASE pc' = "idle"
    BY <2>1 DEF TextInv
  <2>2. CASE pc' # "idle"
    BY <1>2, <2>2, TextKept DEF LoadScript, Fail, cache
  <2> QED
    BY <2>1, <2>2
<1>3. CASE Publish
  BY <1>3 DEF Publish, TextInv
<1>4. CASE UNCHANGED vars
  BY <1>4, TextKept DEF vars, cache
<1> QED
  BY <1>1, <1>2, <1>3, <1>4, BeginText, LoadText, RenderFieldText, EndListText DEF Next

-----------------------------------------------------------------------------
(* The scripts.                                                             *)

ScriptName(list, x) == KeyOf[ArgOf(FieldAt(list, x))]

\* The scripts sc that have been loaded for the positions in done of a list of
\* filters: of those with one name, the last is there for the last position.
Holds(sc, list, done, sn) ==
  /\ \A n \in DOMAIN sc : \E x \in done : sc[n].name = ScriptName(list, x)
  /\ \A y \in done : \E x \in done, n \in DOMAIN sc :
       /\ ScriptName(list, x) = ScriptName(list, y) /\ sc[n].name = ScriptName(list, y)
       /\ \A z \in done \ {x} : ScriptName(list, z) = ScriptName(list, y) => Before(z, x)
       /\ \A m \in DOMAIN sc : sc[m].name = ScriptName(list, y) => m <= n
       /\ sc[n].content \in sn[ArgOf(FieldAt(list, x))] \ {Missing}

ScriptInv ==
  /\ pc \in {"load", "render"} => scripts = << >>
  /\ pc = "scripts" =>
       LET list == lists["filter"]
           done == ScriptsOf(list) \ todo
       IN  /\ \A y \in done, x \in todo : Before(y, x)
           /\ Holds(scripts, list, done, seen)

\* One more script.
LEMMA HoldsMore ==
  ASSUME NEW sc \in Seq(Loaded), NEW list, NEW done, NEW sn, Holds(sc, list, done, sn),
         NEW x, \A y \in done : Before(y, x),
         NEW c \in 1..MaxContent, ScriptName(list, x) \in Nat,
         c \in sn[ArgOf(FieldAt(list, x))] \ {Missing}
  PROVE  Holds(Append(sc, [name |-> ScriptName(list, x), content |-> c]), list,
               done \cup {x}, sn)
<1> DEFINE new == [name |-> ScriptName(list, x), content |-> c]
           sd  == Append(sc, new)
           all == done \cup {x}
           N   == Len(sc) + 1
<1>1. new \in Loaded /\ new.name = ScriptName(list, x) /\ new.content = c
  BY DEF Loaded
<1>2. /\ DOMAIN sc = 1..Len(sc) /\ Len(sc) \in Nat /\ DOMAIN sd = 1..N
      /\ sd[N] = new /\ \A n \in DOMAIN sc : n \in DOMAIN sd /\ sd[n] = sc[n]
  BY <1>1
<1> HIDE DEF sd, new
<1>3. \A n \in DOMAIN sd : n = N \/ (n \in DOMAIN sc /\ n < N)
  BY <1>2
<1>4. \A n \in DOMAIN sd : \E y \in all : sd[n].name = ScriptName(list, y)
  <2>1. \A n \in DOMAIN sc : \E y \in done : sc[n].name = ScriptName(list, y)
    BY DEF Holds
  <2>2. sd[N].name = ScriptName(list, x) /\ x \in all
    BY <1>1, <1>2
  <2> QED
    BY <1>2, <1>3, <2>1, <2>2
<1>5. ASSUME NEW y \in all
      PROVE  \E z \in all, n \in DOMAIN sd :
               /\ ScriptName(list, z) = ScriptName(list, y) /\ sd[n].name = ScriptName(list, y)
               /\ \A u \in all \ {z} : ScriptName(list, u) = ScriptName(list, y) => Before(u, z)
               /\ \A m \in DOMAIN sd : sd[m].name = ScriptName(list, y) => m <= n
               /\ sd[n].content \in sn[ArgOf(FieldAt(list, z))] \ {Missing}
  <2>1. CASE ScriptName(list, y) = ScriptName(list, x)
    <3>1. N \in DOMAIN sd /\ \A m \in DOMAIN sd : m <= N
      BY <1>2
    <3>2. \A u \in all \ {x} : Before(u, x)
      OBVIOUS
    <3> QED
      BY <1>1, <1>2, <2>1, <3>1, <3>2
  <2>2. CASE ScriptName(list, y) # ScriptName(list, x)
    <3>1. y \in done
      BY <2>2
    <3>2. PICK z \in done, n \in DOMAIN sc :
            /\ ScriptName(list, z) = ScriptName(list, y) /\ sc[n].name = ScriptName(list, y)
            /\ \A u \in done \ {z} : ScriptName(list, u) = ScriptName(list, y) => Before(u, z)
            /\ \A m \in DOMAIN sc : sc[m].name = ScriptName(list, y) => m <= n
            /\ sc[n].content \in sn[ArgOf(FieldAt(list, z))] \ {Missing}
      BY <3>1 DEF Holds
    <3>3. \A u \in all \ {z} : ScriptName(list, u) = ScriptName(list, y) => Before(u, z)
      BY <2>2, <3>2
    <3>4. \A m \in DOMAIN sd : sd[m].name = ScriptName(list, y) => m <= n
      BY <1>1, <1>2, <1>3, <2>2, <3>2
    <3> QED
      BY <1>2, <3>2, <3>3, <3>4
  <2> QED
    BY <2>1, <2>2
<1> QED
  BY <1>4, <1>5 DEF Holds, sd, new

LEMMA ScriptStep == Types /\ ScriptInv /\ [Next]_vars => ScriptInv'
<1> SUFFICES ASSUME Types, ScriptInv, [Next]_vars PROVE ScriptInv'
  OBVIOUS
<1> DEFINE list == lists["filter"]
           done == ScriptsOf(list) \ todo
<1>1. ASSUME UNCHANGED <<pc, lists, todo, scripts>>, \A r \in Refs : seen[r] \subseteq seen'[r]
      PROVE  ScriptInv'
  <2>1. SUFFICES ASSUME pc = "scripts"
                 PROVE  Holds(scripts, list, done, seen')
    BY <1>1 DEF ScriptInv
  <2>2. \A x \in done : ArgOf(FieldAt(list, x)) \in Refs
    BY <2>1, ListFacts, FieldFacts DEF Types, ScriptsOf, Refs, KindNames
  <2> QED
    BY <1>1, <2>1, <2>2 DEF ScriptInv, Holds
<1>2. ASSUME NEW r \in Refs, Change(r) PROVE ScriptInv'
  <2>1. \A q \in Refs : seen[q] \subseteq seen'[q]
    BY <1>2 DEF Change, Types
  <2> QED
    BY <1>1, <1>2, <2>1 DEF Change
<1>3. CASE EndList
  <2>1. CASE part < Len(Kinds)
    BY <1>3, <2>1 DEF EndList, ScriptInv
  <2>2. CASE ~(part < Len(Kinds))
    BY <1>3, <2>2 DEF EndList, ScriptInv, Holds
  <2> QED
    BY <2>1, <2>2
<1>4. CASE LoadScript
  <2>1. PICK x \in todo :
          LET r == ArgOf(FieldAt(list, x)) IN
          /\ First(x, todo)
          /\ \/ refs[r] = Missing /\ Fail
             \/ /\ refs[r] # Missing /\ todo' = todo \ {x}
                /\ scripts' = Append(scripts, [name |-> KeyOf[r], content |-> refs[r]])
                /\ UNCHANGED <<world, cache, pc, part, lists, text, output>>
    BY <1>4 DEF LoadScript
  <2> DEFINE r == ArgOf(FieldAt(list, x))
  <2>2. CASE Fail
    BY <2>2 DEF Fail, ScriptInv
  <2>3. CASE /\ refs[r] # Missing /\ todo' = todo \ {x}
             /\ scripts' = Append(scripts, [name |-> KeyOf[r], content |-> refs[r]])
             /\ UNCHANGED <<world, cache, pc, part, lists, text, output>>
    <3>1. /\ pc = "scripts" /\ pc' = "scripts" /\ lists' = lists /\ seen' = seen
          /\ todo \subseteq ScriptsOf(list)
      BY <1>4, <2>3 DEF LoadScript, Types, cache
    <3>2. r \in ScriptRefs
      BY <3>1, ListFacts, FieldFacts DEF Types, ScriptsOf, KindNames
    <3>3. refs[r] \in 1..MaxContent /\ refs[r] \in seen[r] \ {Missing} /\ KeyOf[r] \in Nat
      BY <2>3, <3>2, RenderingConstants DEF Types, Refs, Missing
    <3>4. ScriptsOf(list) \ todo' = done \cup {x}
      BY <2>3, <3>1
    <3>5. \A y \in done \cup {x}, z \in todo' : Before(y, z)
      BY <2>1, <2>3, <3>1 DEF ScriptInv, First
    <3>6. Holds(scripts', list, done \cup {x}, seen)
      <4>1. Holds(scripts, list, done, seen) /\ \A y \in done : Before(y, x)
        BY <3>1 DEF ScriptInv
      <4>2. ScriptName(list, x) = KeyOf[r] /\ scripts \in Seq(Loaded)
        BY DEF ScriptName, Types
      <4> QED
        BY <2>3, <3>3, <4>1, <4>2, HoldsMore
    <3> QED
      BY <3>1, <3>4, <3>5, <3>6 DEF ScriptInv
  <2> QED
    BY <2>1, <2>2, <2>3
<1>5. CASE RenderField
  BY <1>5 DEF RenderField, Fail, ScriptInv
<1>6. CASE Begin \/ Load \/ Publish
  BY <1>6 DEF Begin, Load, Publish, ScriptInv
<1>7. CASE UNCHANGED vars
  BY <1>1, <1>7 DEF vars, cache
<1> QED
  BY <1>2, <1>3, <1>4, <1>5, <1>6, <1>7 DEF Next

\* A plugin refers to at most one script.
LEMMA OneScript ==
  \A t \in Filters : \A i, j \in DOMAIN Fields[t] :
    Fields[t][i] = "script" /\ Fields[t][j] = "script" => i = j
<1> DEFINE One(s) == \A i, j \in DOMAIN s : s[i] = "script" /\ s[j] = "script" => i = j
<1>1. One(Grep) /\ One(RecordModifier) /\ One(Kubernetes) /\ One(Nest) /\ One(ParserFilter)
  BY DEF Grep, RecordModifier, Kubernetes, Nest, ParserFilter
<1>2. One(Lua) /\ One(Throttle) /\ One(RewriteTag)
  BY DEF Lua, Throttle, RewriteTag
<1>3. One(Modify)
  <2> DEFINE None(s) == \A i \in DOMAIN s : s[i] # "script"
  <2>1. None(Condition) /\ None(Rule)
    BY DEF Condition, Rule
  <2>2. Condition \in Seq(FieldKinds) /\ Rule \in Seq(FieldKinds)
    BY DEF Condition, Rule, FieldKinds
  <2>3. None(Condition \o Rule)
    BY <2>1, <2>2, Concatenation
  <2> QED
    BY <2>3 DEF Modify
<1> HIDE DEF One
<1>4. \A t \in Filters : One(Fields[t])
  BY <1>1, <1>2, <1>3 DEF Filters, Fields
<1> QED
  BY <1>4 DEF One

\* The last position of a name is that of the last filter with it.
LEMMA LastIs ==
  ASSUME Types, pc # "idle", NEW list, list = lists["filter"], ByName(list), NEW k,
         NEW x \in ScriptsOf(list), ScriptName(list, x) = k,
         \A y \in ScriptsOf(list) \ {x} : ScriptName(list, y) = k => Before(y, x)
  PROVE  LastOf({f \in LuaFilters : KeyOf[ArgOf(f)] = k}) = FieldAt(list, x)
<1> DEFINE F == {f \in LuaFilters : KeyOf[ArgOf(f)] = k}
           e == FieldAt(list, x)
           Less(g, f) == g[1].name < f[1].name \/ (g[1] = f[1] /\ g[2] < f[2])
<1>1. /\ "filter" \in KindNames /\ list \in SetToSeqs(world["filter"])
      /\ \A m, n \in DOMAIN list : list[m] = list[n] => m = n
  BY ListFacts DEF Types, KindNames
<1>2. \A f \in F : /\ f = <<f[1], f[2], f[3]>> /\ f[1].name \in Nat
                  /\ f[2] \in Nat /\ f[3] \in Nat
  BY <1>1, FieldFacts DEF LuaFilters
<1>3. e \in F
  BY <1>1, ListFacts DEF LuaFilters, ScriptsOf, ScriptName
<1>4. ASSUME NEW g \in F, g # e
      PROVE  Less(g, e)
  <2>1. PICK y \in Positions(list) : FieldAt(list, y) = g
    BY <1>1, ListFacts DEF LuaFilters
  <2>2. y \in ScriptsOf(list) /\ ScriptName(list, y) = k
    BY <2>1 DEF ScriptsOf, LuaFilters, ScriptName
  <2>3. Before(y, x)
    BY <1>4, <2>1, <2>2
  <2>4. /\ y = <<y[1], y[2], y[3]>> /\ y[1] \in DOMAIN list
        /\ x = <<x[1], x[2], x[3]>> /\ x[1] \in DOMAIN list
    BY <2>1, PositionFacts DEF ScriptsOf
  <2>5. PICK n \in 1..3 : y[n] < x[n] /\ \A q \in 1..(n - 1) : y[q] = x[q]
    <3>1. DOMAIN y = 1..3
      BY <2>4
    <3> QED
      BY <2>3, <3>1 DEF Before
  <2>6. g = <<list[y[1]], y[2], y[3]>> /\ e = <<list[x[1]], x[2], x[3]>>
    BY <2>1 DEF FieldAt
  <2>7. CASE n = 1
    BY <2>4, <2>5, <2>6, <2>7 DEF ByName
  <2>8. CASE n = 2
    BY <2>5, <2>6, <2>8
  <2>9. CASE n = 3
    <3>1. y[1] = x[1] /\ y[2] = x[2] /\ y[3] < x[3]
      BY <2>5, <2>9
    <3>2. g[1] = e[1] /\ g[2] = e[2] /\ g[3] < e[3]
      BY <2>6, <3>1
    <3>3. g[3] = e[3]
      <4> DEFINE q == e[1].plugins[e[2]]
      <4>1. /\ g \in FieldsOf("filter") /\ KindOf(g) = "script"
            /\ e \in FieldsOf("filter") /\ KindOf(e) = "script"
        BY <1>3 DEF LuaFilters
      <4>2. /\ e[1] \in world["filter"] /\ e[2] \in DOMAIN e[1].plugins
            /\ e[3] \in {0} \cup DOMAIN q.fields /\ g[3] \in {0} \cup DOMAIN q.fields
        BY <1>1, <3>2, <4>1, FieldFacts
      <4>3. /\ e[3] # 0 /\ Fields[q.type][e[3]] = "script"
            /\ g[3] # 0 /\ Fields[q.type][g[3]] = "script"
        BY <3>2, <4>1 DEF KindOf
      <4>4. q.type \in Filters /\ DOMAIN q.fields \subseteq DOMAIN Fields[q.type]
        BY <1>1, <4>2, WorldObjects DEF AreObjects, IsPlugin, TypesOf
      <4> QED
        BY <4>2, <4>3, <4>4, OneScript
    <3> QED
      BY <1>2, <1>3, <2>6, <3>2, <3>3
  <2> QED
    BY <2>5, <2>7, <2>8, <2>9
<1>5. ASSUME NEW f \in F, \A g \in F \ {f} : Less(g, f)
      PROVE  f = e
  <2>1. SUFFICES ASSUME f # e PROVE FALSE
    OBVIOUS
  <2>2. Less(e, f) /\ Less(f, e)
    BY <1>3, <1>4, <1>5, <2>1
  <2> QED
    BY <1>2, <1>3, <2>2
<1>6. LastOf(F) = CHOOSE f \in F : \A g \in F \ {f} : Less(g, f)
  BY DEF LastOf
<1>7. \A g \in F \ {e} : Less(g, e)
  BY <1>4
<1> HIDE DEF F, e, Less
<1>8. LastOf(F) = e
  BY <1>3, <1>5, <1>6, <1>7
<1> QED
  BY <1>8 DEF F, e

-----------------------------------------------------------------------------
(* What is published.                                                       *)

\* The text that is complete is in order, with the lines of each part.
LEMMA MainText ==
  ASSUME Types, TextInv, Publish
  PROVE  IsMain(text.main) /\ InOrder(text.parsers) /\ Complete(text.parsers, 4)
<1>1. ListsInv /\ LinesInv /\ FieldsInv /\ \A p \in 1..4 : Past(p)
  BY DEF Publish, TextInv, Past
<1>2. \A p \in 1..4 : Sofar(p) = FieldsOf(Kinds[p])
  BY <1>1 DEF Sofar
<1>3. text.main \in Seq(TextLines) /\ text.parsers \in Seq(TextLines)
  BY DEF Types, Texts
<1>4. ASSUME NEW t \in Seq(TextLines), Ascending(t)
      PROVE  InOrder(t)
  <2>1. \A n \in 1..(Len(t) - 1) : n \in DOMAIN t /\ n + 1 \in DOMAIN t /\ n < n + 1
    BY <1>4
  <2> QED
    BY <1>4, <2>1 DEF Ascending, InOrder
<1>5. Complete(text.main, 1) /\ Complete(text.main, 2) /\ Complete(text.parsers, 4)
  <2>1. \A p \in {1, 2, 4} : Shows(TextOf(p), p, FieldsOf(Kinds[p]), seen)
    BY <1>1, <1>2 DEF FieldsInv
  <2>2. \A p \in {1, 2, 4} : Complete(TextOf(p), p)
    BY <2>1, ShowsComplete
  <2> QED
    BY <2>2 DEF TextOf
<1>6. IF WantsNull
        THEN {text.main[n] : n \in {m \in DOMAIN text.main : text.main[m].at[1] = 3}}
               = {NullOutput}
        ELSE Complete(text.main, 3)
  <2>1. CASE WantsNull
    <3>1. OnlyNull(text.main)
      BY <1>1, <2>1 DEF FieldsInv
    <3>2. NullOutput.at[1] = 3
      BY DEF NullOutput
    <3> QED
      BY <2>1, <3>1, <3>2 DEF OnlyNull
  <2>2. CASE ~WantsNull
    <3>1. Shows(text.main, 3, FieldsOf(Kinds[3]), seen)
      BY <1>1, <1>2, <2>2 DEF FieldsInv
    <3> QED
      BY <2>2, <3>1, ShowsComplete
  <2> QED
    BY <2>1, <2>2
<1> QED
  BY <1>1, <1>3, <1>4, <1>5, <1>6 DEF IsMain, LinesInv, WantsNull

\* The scripts are all there, each the last of its name.
LEMMA ScriptsAre ==
  ASSUME Types, TextInv, ScriptInv, Publish
  PROVE  /\ {scripts[n].name : n \in DOMAIN scripts} = {KeyOf[ArgOf(f)] : f \in LuaFilters}
         /\ \A k \in {KeyOf[ArgOf(f)] : f \in LuaFilters} : IsScript(Data[k], k)
<1> DEFINE list  == lists["filter"]
           names == {scripts[n].name : n \in DOMAIN scripts}
           keys  == {KeyOf[ArgOf(f)] : f \in LuaFilters}
<1>1. pc = "scripts" /\ pc # "idle" /\ todo = {} /\ ListsInv /\ Past(2)
  BY DEF Publish, TextInv, ListsInv, Past
<1>2. /\ "filter" \in KindNames /\ list \in SetToSeqs(world["filter"]) /\ ByName(list)
  BY <1>1, KindsAre DEF Types, KindNames, ListsInv, ListOf
<1>3. Holds(scripts, list, ScriptsOf(list), seen)
  <2>1. ScriptsOf(list) \ todo = ScriptsOf(list)
    BY <1>1
  <2> QED
    BY <1>1, <2>1 DEF ScriptInv
<1>4. keys = {ScriptName(list, x) : x \in ScriptsOf(list)}
  <2>1. \A x \in ScriptsOf(list) : FieldAt(list, x) \in LuaFilters
    BY <1>2, ListFacts DEF ScriptsOf, LuaFilters
  <2>2. ASSUME NEW f \in LuaFilters
        PROVE  \E x \in ScriptsOf(list) : FieldAt(list, x) = f
    BY <1>2, ListFacts DEF ScriptsOf, LuaFilters
  <2> QED
    BY <2>1, <2>2 DEF ScriptName
<1>5. names \subseteq keys
  BY <1>3, <1>4 DEF Holds
<1>6. ASSUME NEW k \in keys
      PROVE  k \in names /\ IsScript(Data[k], k)
  <2>1. PICK y \in ScriptsOf(list) : ScriptName(list, y) = k
    BY <1>4
  <2>2. PICK x \in ScriptsOf(list), n \in DOMAIN scripts :
          /\ ScriptName(list, x) = k /\ scripts[n].name = k
          /\ \A z \in ScriptsOf(list) \ {x} : ScriptName(list, z) = k => Before(z, x)
          /\ \A m \in DOMAIN scripts : scripts[m].name = k => m <= n
          /\ scripts[n].content \in seen[ArgOf(FieldAt(list, x))] \ {Missing}
    BY <1>3, <2>1 DEF Holds
  <2> DEFINE Latest(j) == CHOOSE i \in DOMAIN scripts :
                            /\ scripts[i].name = j
                            /\ \A m \in DOMAIN scripts : scripts[m].name = j => m <= i
  <2>3. Latest(k) = n
    <3>1. \A i \in DOMAIN scripts : i \in Nat
      BY DEF Types
    <3>2. \A i \in DOMAIN scripts :
            /\ scripts[i].name = k
            /\ \A m \in DOMAIN scripts : scripts[m].name = k => m <= i
            => i = n
      BY <2>2, <3>1
    <3> QED
      BY <2>2, <3>2
  <2>4. k \in names
    BY <2>2
  <2>5. Data[k] = <<scripts[n].content>>
    <3> HIDE DEF Latest
    <3>1. Data = [j \in {MainConf, ParsersConf} \cup names |->
                    IF j \in names THEN <<scripts[Latest(j)].content>>
                    ELSE IF j = MainConf THEN text.main ELSE text.parsers]
      BY DEF Data, Latest
    <3> QED
      BY <2>3, <2>4, <3>1
  <2>6. LastOf({f \in LuaFilters : KeyOf[ArgOf(f)] = k}) = FieldAt(list, x)
    BY <1>1, <1>2, <2>2, LastIs
  <2> QED
    BY <2>2, <2>4, <2>5, <2>6 DEF IsScript
<1> QED
  BY <1>5, <1>6

\* Faithful: for all objects, references and histories of the caches, what is
\* published is the rendering of the objects with contents of this pass.
THEOREM PublishedFaithfully == Spec => Faithful
<1> DEFINE keys == {KeyOf[ArgOf(f)] : f \in LuaFilters}
           Good == /\ DOMAIN published' = {MainConf, ParsersConf} \cup keys
                   /\ MainConf \notin keys => IsMain(published'[MainConf])
                   /\ ParsersConf \notin keys =>
                        /\ InOrder(published'[ParsersConf])
                        /\ Complete(published'[ParsersConf], 4)
                   /\ \A k \in keys : IsScript(published'[k], k)
<1>1. ASSUME Types, TextInv, ScriptInv, Publish
      PROVE  Good
  <2> DEFINE names == {scripts[n].name : n \in DOMAIN scripts}
  <2>1. published' = Data /\ names = keys /\ \A k \in keys : IsScript(Data[k], k)
    BY <1>1, ScriptsAre DEF Publish
  <2>2. /\ DOMAIN Data = {MainConf, ParsersConf} \cup names
        /\ MainConf \notin names => Data[MainConf] = text.main
        /\ ParsersConf \notin names => Data[ParsersConf] = text.parsers
    BY DEF Data, MainConf, ParsersConf
  <2> QED
    BY <1>1, <2>1, <2>2, MainText
<1>2. Init => TextInv /\ ScriptInv
  BY DEF Init, TextInv, ScriptInv
<1>3. Types /\ TextInv /\ ScriptInv /\ [Next]_vars => [Publish => Good]_vars
  BY <1>1
<1> QED
  BY <1>2, <1>3, InitTypes, TypeStep, TextStep, ScriptStep, PTL DEF Spec, Faithful

-----------------------------------------------------------------------------
(* Passes that read the same contents publish the same data.                *)

LEMMA SmallestNumber ==
  ASSUME NEW S, S \subseteq Nat, S # {}
  PROVE  \E n \in S : \A m \in S : n <= m
<1> DEFINE R == OpToRel(<, Nat)
<1>1. IsWellFoundedOn(R, Nat)
  BY NatLessThanWellFounded
<1>2. \A m, n \in Nat : m < n => <<m, n>> \in R
  BY DEF OpToRel
<1> HIDE DEF R
<1>3. PICK n \in S : \A m \in S : <<m, n>> \notin R
  BY <1>1, WFMin
<1>4. ASSUME NEW m \in S
      PROVE  n <= m
  <2>1. m \in Nat /\ n \in Nat /\ ~(m < n)
    BY <1>2, <1>3
  <2> QED
    BY <2>1
<1> QED
  BY <1>4

LEMMA OneOrder ==
  ASSUME NEW a \in Places, NEW b \in Places, Before(a, b)
  PROVE  ~Before(b, a) /\ a # b
<1>1. /\ DOMAIN a = 1..5 /\ DOMAIN b = 1..5
      /\ \A n \in 1..5 : a[n] \in Nat /\ b[n] \in Nat
  BY DEF Places
<1>2. PICK n \in 1..5 : a[n] < b[n] /\ \A q \in 1..(n - 1) : a[q] = b[q]
  BY <1>1 DEF Before
<1>3. a # b
  BY <1>1, <1>2
<1>4. ASSUME Before(b, a)
      PROVE  FALSE
  <2>1. PICK m \in 1..5 : b[m] < a[m] /\ \A q \in 1..(m - 1) : b[q] = a[q]
    BY <1>1, <1>4 DEF Before
  <2>2. CASE m < n
    BY <1>1, <1>2, <2>1, <2>2
  <2>3. CASE n < m
    BY <1>1, <1>2, <2>1, <2>3
  <2>4. CASE m = n
    BY <1>1, <1>2, <2>1, <2>4
  <2> QED
    BY <2>2, <2>3, <2>4
<1> QED
  BY <1>3, <1>4

\* The lines decide on the text.
LEMMA OneText ==
  ASSUME NEW t \in Seq(TextLines), NEW u \in Seq(TextLines), Ascending(t), Ascending(u),
         \A n \in DOMAIN t : \E m \in DOMAIN u : u[m] = t[n],
         \A n \in DOMAIN u : \E m \in DOMAIN t : t[m] = u[n]
  PROVE  t = u
<1> DEFINE D == DOMAIN t \cup DOMAIN u
           Same(n) == n \in DOMAIN t /\ n \in DOMAIN u /\ t[n] = u[n]
<1>1. /\ DOMAIN t = 1..Len(t) /\ Len(t) \in Nat /\ DOMAIN u = 1..Len(u) /\ Len(u) \in Nat
      /\ \A n \in DOMAIN t : t[n].at \in Places
      /\ \A n \in DOMAIN u : u[n].at \in Places
  <2>1. \A l \in TextLines : l.at \in Places
    BY DEF TextLines
  <2> QED
    BY <2>1
<1>1a. DOMAIN t \subseteq Nat /\ DOMAIN u \subseteq Nat
  OBVIOUS
<1>2. ASSUME NEW n \in D, \A m \in D : m < n => Same(m)
      PROVE  Same(n)
  <2>1. n \in Nat /\ \A m \in 1..(n - 1) : Same(m)
    <3> HIDE DEF Same
    <3>1. n \in Nat
      BY <1>1
    <3>2. ASSUME NEW m \in 1..(n - 1)
          PROVE  m \in D /\ m < n
      <4>1. CASE n \in DOMAIN t
        <5>1. m \in 1..Len(t)
          BY <1>1, <3>1, <4>1
        <5> QED
          BY <1>1, <3>1, <5>1
      <4>2. CASE n \in DOMAIN u
        <5>1. m \in 1..Len(u)
          BY <1>1, <3>1, <4>2
        <5> QED
          BY <1>1, <3>1, <5>1
      <4> QED
        BY <4>1, <4>2
    <3> QED
      BY <1>2, <3>1, <3>2
  <2>2. CASE n \in DOMAIN t /\ n \in DOMAIN u
    <3>1. PICK m \in DOMAIN u : u[m] = t[n]
      BY <2>2
    <3>2. PICK k \in DOMAIN t : t[k] = u[n]
      BY <2>2
    <3>3. ~(m < n)
      <4>1. SUFFICES ASSUME m < n PROVE FALSE
        OBVIOUS
      <4>2. m \in DOMAIN t /\ t[m] = t[n]
        <5>1. m \in 1..(n - 1)
          BY <1>1, <2>1, <4>1
        <5> QED
          BY <2>1, <3>1, <5>1
      <4>3. Before(t[m].at, t[n].at)
        BY <2>2, <4>1, <4>2 DEF Ascending
      <4> QED
        BY <1>1, <2>2, <4>2, <4>3, OneOrder
    <3>4. ~(k < n)
      <4>1. SUFFICES ASSUME k < n PROVE FALSE
        OBVIOUS
      <4>2. k \in DOMAIN u /\ u[k] = u[n]
        <5>1. k \in 1..(n - 1)
          BY <1>1, <2>1, <4>1
        <5> QED
          BY <2>1, <3>2, <5>1
      <4>3. Before(u[k].at, u[n].at)
        BY <2>2, <4>1, <4>2 DEF Ascending
      <4> QED
        BY <1>1, <2>2, <4>2, <4>3, OneOrder
    <3>5. ~(m > n /\ k > n)
      <4>1. SUFFICES ASSUME m > n, k > n PROVE FALSE
        OBVIOUS
      <4>2. Before(u[n].at, t[n].at) /\ Before(t[n].at, u[n].at)
        BY <1>1, <2>2, <3>1, <3>2, <4>1 DEF Ascending
      <4> QED
        BY <1>1, <2>2, <4>2, OneOrder
    <3>6. m \in Nat /\ k \in Nat
      BY <1>1a
    <3>7. m = n \/ k = n
      <4>1. n \in Nat
        BY <2>1
      <4>2. (m < n \/ m = n \/ m > n) /\ (k < n \/ k = n \/ k > n)
        <5>1. \A a, b \in Nat : a < b \/ a = b \/ a > b
          OBVIOUS
        <5> QED
          BY <3>6, <4>1, <5>1, Zenon
      <4> QED
        BY <3>3, <3>4, <3>5, <4>2
    <3> QED
      BY <2>2, <3>1, <3>2, <3>7
  <2>3. CASE n \in DOMAIN t /\ n \notin DOMAIN u
    <3>1. PICK m \in DOMAIN u : u[m] = t[n]
      BY <2>3
    <3>2. m < n
      BY <1>1, <2>3
    <3>3. m \in DOMAIN t /\ t[m] = t[n]
      BY <1>1, <2>1, <3>1, <3>2
    <3>4. Before(t[m].at, t[n].at)
      BY <2>3, <3>2, <3>3 DEF Ascending
    <3> QED
      BY <1>1, <2>3, <3>3, <3>4, OneOrder
  <2>4. CASE n \notin DOMAIN t /\ n \in DOMAIN u
    <3>1. PICK m \in DOMAIN t : t[m] = u[n]
      BY <2>4
    <3>2. m < n
      BY <1>1, <2>4
    <3>3. m \in DOMAIN u /\ u[m] = u[n]
      BY <1>1, <2>1, <3>1, <3>2
    <3>4. Before(u[m].at, u[n].at)
      BY <2>4, <3>2, <3>3 DEF Ascending
    <3> QED
      BY <1>1, <2>4, <3>3, <3>4, OneOrder
  <2> QED
    BY <2>2, <2>3, <2>4
<1> DEFINE Other == {n \in D : ~Same(n)}
<1>3. Other = {}
  <2>1. SUFFICES ASSUME Other # {} PROVE FALSE
    OBVIOUS
  <2>2. Other \subseteq Nat
    BY <1>1
  <2> HIDE DEF Other
  <2>3. PICK n \in Other : \A m \in Other : n <= m
    BY <2>1, <2>2, SmallestNumber
  <2> USE DEF Other
  <2>4. n \in D /\ ~Same(n)
    BY <2>3
  <2>5. \A m \in D : m < n => Same(m)
    BY <1>1, <2>3
  <2> QED
    BY <1>2, <2>4, <2>5
<1>4. DOMAIN t = DOMAIN u /\ \A n \in DOMAIN t : t[n] = u[n]
  BY <1>3
<1>5. t = [n \in DOMAIN t |-> t[n]] /\ u = [n \in DOMAIN u |-> u[n]]
  OBVIOUS
<1> QED
  BY <1>4, <1>5

\* No selected object has a field of which the address is printed.
NoAddresses ==
  \A w \in Worlds : \A k \in KindNames : \A o \in w[k] : \A f \in ObjectFields(o) :
    KindOf(f) # "address"

\* Each reference had one content.
Each(b) == [r \in Refs |-> {b[r]}]

MainOf(t, sn) ==
  /\ t \in Seq(TextLines) /\ Ascending(t)
  /\ \A n \in DOMAIN t : t[n].at[1] \in 0..3 /\ (t[n].at[1] = 0 => t[n] = ServiceLine)
  /\ HasPart(t, 0) <=> world.service
  /\ Shows(t, 1, FieldsOf(Kinds[1]), sn) /\ Shows(t, 2, FieldsOf(Kinds[2]), sn)
  /\ WantsNull => OnlyNull(t)
  /\ ~WantsNull => Shows(t, 3, FieldsOf(Kinds[3]), sn)

ParsersOf(t, sn) ==
  /\ t \in Seq(TextLines) /\ Ascending(t)
  /\ \A n \in DOMAIN t : t[n].at[1] = 4
  /\ Shows(t, 4, FieldsOf(Kinds[4]), sn)

ScriptKeys  == {KeyOf[ArgOf(f)] : f \in LuaFilters}
LastWith(k) == LastOf({f \in LuaFilters : KeyOf[ArgOf(f)] = k})

\* d is what a pass publishes during which the references had sn.
Rendered(d, sn) ==
  /\ d = [k \in {MainConf, ParsersConf} \cup ScriptKeys |-> d[k]]
  /\ MainConf \notin ScriptKeys => MainOf(d[MainConf], sn)
  /\ ParsersConf \notin ScriptKeys => ParsersOf(d[ParsersConf], sn)
  /\ \A k \in ScriptKeys : \E c \in sn[ArgOf(LastWith(k))] \ {Missing} : d[k] = <<c>>

BasisInv ==
  \A b \in basis : b \in [Refs -> 0..MaxContent] /\ Rendered(published, Each(b))

LEMMA PublishRendered ==
  ASSUME Types, TextInv, ScriptInv, Publish
  PROVE  Rendered(published', seen)
<1> DEFINE names == {scripts[n].name : n \in DOMAIN scripts}
<1>1. published' = Data /\ names = ScriptKeys /\ \A k \in ScriptKeys : IsScript(Data[k], k)
  BY ScriptsAre DEF Publish, ScriptKeys
<1>2. /\ Data = [k \in {MainConf, ParsersConf} \cup names |-> Data[k]]
      /\ MainConf \notin names => Data[MainConf] = text.main
      /\ ParsersConf \notin names => Data[ParsersConf] = text.parsers
  BY DEF Data, MainConf, ParsersConf
<1>3. LinesInv /\ FieldsInv /\ \A p \in 1..4 : Past(p)
  BY DEF Publish, TextInv, Past
<1>4. \A p \in 1..4 : Sofar(p) = FieldsOf(Kinds[p])
  BY <1>3 DEF Sofar
<1>5. text.main \in Seq(TextLines) /\ text.parsers \in Seq(TextLines)
  BY DEF Types, Texts
<1>6. \A p \in {1, 2, 4} : Shows(TextOf(p), p, FieldsOf(Kinds[p]), seen)
  BY <1>3, <1>4 DEF FieldsInv
<1>7. MainOf(text.main, seen)
  <2>1. WantsNull => OnlyNull(text.main)
    BY <1>3 DEF FieldsInv
  <2>2. ~WantsNull => Shows(text.main, 3, FieldsOf(Kinds[3]), seen)
    BY <1>3, <1>4 DEF FieldsInv
  <2>3. Shows(text.main, 1, FieldsOf(Kinds[1]), seen)
        /\ Shows(text.main, 2, FieldsOf(Kinds[2]), seen)
    BY <1>6 DEF TextOf
  <2> QED
    BY <1>3, <1>5, <2>1, <2>2, <2>3 DEF MainOf, LinesInv
<1>8. ParsersOf(text.parsers, seen)
  BY <1>3, <1>5, <1>6 DEF ParsersOf, LinesInv, TextOf
<1>9. \A k \in ScriptKeys : \E c \in seen[ArgOf(LastWith(k))] \ {Missing} : Data[k] = <<c>>
  BY <1>1 DEF IsScript, LastWith
<1> QED
  BY <1>1, <1>2, <1>7, <1>8, <1>9 DEF Rendered

\* The last filter with a name is one of the selected filters.
LEMMA LastIsAFilter ==
  ASSUME Types, TextInv, ScriptInv, Publish, NEW k \in ScriptKeys
  PROVE  ArgOf(LastWith(k)) \in ScriptRefs
<1> DEFINE list == lists["filter"]
<1>1. pc = "scripts" /\ pc # "idle" /\ todo = {} /\ ListsInv /\ Past(2)
  BY DEF Publish, TextInv, ListsInv, Past
<1>2. /\ "filter" \in KindNames /\ list \in SetToSeqs(world["filter"]) /\ ByName(list)
  BY <1>1, KindsAre DEF Types, KindNames, ListsInv, ListOf
<1>3. Holds(scripts, list, ScriptsOf(list), seen)
  <2>1. ScriptsOf(list) \ todo = ScriptsOf(list)
    BY <1>1
  <2> QED
    BY <1>1, <2>1 DEF ScriptInv
<1>4. PICK y \in ScriptsOf(list) : ScriptName(list, y) = k
  <2>1. PICK f \in LuaFilters : KeyOf[ArgOf(f)] = k
    BY DEF ScriptKeys
  <2>2. PICK x \in Positions(list) : FieldAt(list, x) = f
    BY <1>2, ListFacts DEF LuaFilters
  <2> QED
    BY <2>1, <2>2 DEF ScriptsOf, LuaFilters, ScriptName
<1>5. PICK x \in ScriptsOf(list) :
        /\ ScriptName(list, x) = k
        /\ \A z \in ScriptsOf(list) \ {x} : ScriptName(list, z) = k => Before(z, x)
  BY <1>3, <1>4 DEF Holds
<1>6. LastWith(k) = FieldAt(list, x)
  BY <1>1, <1>2, <1>5, LastIs DEF LastWith
<1> QED
  BY <1>2, <1>6, ListFacts, FieldFacts DEF ScriptsOf

\* A place belongs to one field, and a field has one value.
LEMMA OneField ==
  ASSUME Types, NEW k \in KindNames, NEW f \in FieldsOf(k), NEW g \in FieldsOf(k),
         NEW p, NEW k1, NEW k2, Place(p, f, k1) = Place(p, g, k2)
  PROVE  f = g
<1>1. f[1].name = g[1].name /\ f[2] = g[2] /\ f[3] = g[3]
  BY DEF Place
<1>2. f[1] \in world[k] /\ g[1] \in world[k] /\ f = <<f[1], f[2], f[3]>> /\ g = <<g[1], g[2], g[3]>>
  BY FieldFacts
<1>3. f[1] = g[1]
  BY <1>1, <1>2, WorldObjects DEF AreObjects
<1> QED
  BY <1>1, <1>2, <1>3

LEMMA OneValue ==
  ASSUME Types, NoAddresses, NEW k \in KindNames, NEW f \in FieldsOf(k), NEW b,
         NEW v \in ValuesIn(f, Each(b)), NEW w \in ValuesIn(f, Each(b))
  PROVE  v = w
<1>1. PICK o \in world[k] : f \in ObjectFields(o)
  BY DEF FieldsOf
<1>2. KindOf(f) # "address"
  BY <1>1 DEF NoAddresses, Types
<1>3. KindOf(f) = "secret" => Each(b)[ArgOf(f)] = {b[ArgOf(f)]}
  BY FieldFacts DEF Each, Refs
<1> QED
  BY <1>2, <1>3 DEF ValuesIn

LEMMA OneLine ==
  ASSUME Types, NoAddresses, NEW p \in 1..4, NEW b,
         NEW t \in Seq(TextLines), Shows(t, p, FieldsOf(Kinds[p]), Each(b)),
         NEW u \in Seq(TextLines), Shows(u, p, FieldsOf(Kinds[p]), Each(b)),
         NEW n \in DOMAIN t, t[n].at[1] = p
  PROVE  \E m \in DOMAIN u : u[m] = t[n]
<1> DEFINE k == Kinds[p]
<1>1. k \in KindNames
  BY KindsAre
<1>2. PICK f \in FieldsOf(k) :
        /\ t[n].value \in ValuesIn(f, Each(b))
        /\ \E key \in MapKeys(f) : t[n].at = Place(p, f, key)
  BY DEF Shows
<1>3. PICK key \in MapKeys(f) : t[n].at = Place(p, f, key)
  BY <1>2
<1>4. PICK m \in DOMAIN u : u[m].at = Place(p, f, key)
  BY <1>3 DEF Shows
<1>5. PICK g \in FieldsOf(k) :
        /\ u[m].value \in ValuesIn(g, Each(b))
        /\ \E key2 \in MapKeys(g) : u[m].at = Place(p, g, key2)
  <2>1. u[m].at[1] = p
    BY <1>4 DEF Place
  <2> QED
    BY <2>1 DEF Shows
<1>6. f = g
  <2>1. PICK key2 \in MapKeys(g) : u[m].at = Place(p, g, key2)
    BY <1>5
  <2>2. Place(p, f, key) = Place(p, g, key2)
    BY <1>4, <2>1
  <2> QED
    BY <1>1, <2>2, OneField
<1>7. u[m].value = t[n].value /\ u[m].at = t[n].at
  BY <1>1, <1>2, <1>3, <1>4, <1>5, <1>6, OneValue
<1>8. u[m] \in TextLines /\ t[n] \in TextLines
  OBVIOUS
<1> QED
  BY <1>7, <1>8 DEF TextLines

\* The lines of a main text, and of a parsers text, are those of another one
\* for the same contents.
LEMMA MainLines ==
  ASSUME Types, NoAddresses, NEW b, NEW t, MainOf(t, Each(b)), NEW u, MainOf(u, Each(b)),
         NEW n \in DOMAIN t
  PROVE  \E m \in DOMAIN u : u[m] = t[n]
<1>1. t \in Seq(TextLines) /\ u \in Seq(TextLines) /\ t[n].at[1] \in 0..3
  BY DEF MainOf
<1>2. CASE t[n].at[1] = 0
  BY <1>2 DEF MainOf, HasPart
<1>3. CASE t[n].at[1] = 1
  BY <1>1, <1>3, OneLine DEF MainOf
<1>4. CASE t[n].at[1] = 2
  BY <1>1, <1>4, OneLine DEF MainOf
<1>5. CASE t[n].at[1] = 3 /\ WantsNull
  BY <1>5 DEF MainOf, OnlyNull
<1>6. CASE t[n].at[1] = 3 /\ ~WantsNull
  BY <1>1, <1>6, OneLine DEF MainOf
<1> QED
  BY <1>1, <1>2, <1>3, <1>4, <1>5, <1>6

LEMMA OneRendering ==
  ASSUME Types, NoAddresses, NEW b \in [Refs -> 0..MaxContent],
         \A k \in ScriptKeys : ArgOf(LastWith(k)) \in ScriptRefs,
         NEW d, Rendered(d, Each(b)), NEW e, Rendered(e, Each(b))
  PROVE  d = e
<1>1. MainConf \notin ScriptKeys => d[MainConf] = e[MainConf]
  <2>1. SUFFICES ASSUME MainConf \notin ScriptKeys PROVE d[MainConf] = e[MainConf]
    OBVIOUS
  <2> DEFINE t == d[MainConf]
             u == e[MainConf]
  <2>2. MainOf(t, Each(b)) /\ MainOf(u, Each(b))
    BY <2>1 DEF Rendered
  <2> HIDE DEF t, u
  <2>3. t \in Seq(TextLines) /\ Ascending(t) /\ u \in Seq(TextLines) /\ Ascending(u)
    BY <2>2 DEF MainOf
  <2>4. /\ \A n \in DOMAIN t : \E m \in DOMAIN u : u[m] = t[n]
        /\ \A n \in DOMAIN u : \E m \in DOMAIN t : t[m] = u[n]
    BY <2>2, MainLines
  <2>5. t = u
    BY <2>3, <2>4, OneText
  <2> QED
    BY <2>5 DEF t, u
<1>2. ParsersConf \notin ScriptKeys => d[ParsersConf] = e[ParsersConf]
  <2>1. SUFFICES ASSUME ParsersConf \notin ScriptKeys PROVE d[ParsersConf] = e[ParsersConf]
    OBVIOUS
  <2> DEFINE t == d[ParsersConf]
             u == e[ParsersConf]
  <2>2. ParsersOf(t, Each(b)) /\ ParsersOf(u, Each(b))
    BY <2>1 DEF Rendered
  <2> HIDE DEF t, u
  <2>3. /\ t \in Seq(TextLines) /\ Ascending(t) /\ \A n \in DOMAIN t : t[n].at[1] = 4
        /\ u \in Seq(TextLines) /\ Ascending(u) /\ \A n \in DOMAIN u : u[n].at[1] = 4
        /\ Shows(t, 4, FieldsOf(Kinds[4]), Each(b)) /\ Shows(u, 4, FieldsOf(Kinds[4]), Each(b))
    BY <2>2 DEF ParsersOf
  <2>4. \A n \in DOMAIN t : \E m \in DOMAIN u : u[m] = t[n]
    BY <2>3, OneLine
  <2>5. \A n \in DOMAIN u : \E m \in DOMAIN t : t[m] = u[n]
    BY <2>3, OneLine
  <2>6. t = u
    BY <2>3, <2>4, <2>5, OneText
  <2> QED
    BY <2>6 DEF t, u
<1>3. ASSUME NEW k \in ScriptKeys
      PROVE  d[k] = e[k]
  <2>1. Each(b)[ArgOf(LastWith(k))] = {b[ArgOf(LastWith(k))]}
    BY DEF Each, Refs
  <2> QED
    BY <2>1 DEF Rendered
<1>4. \A k \in {MainConf, ParsersConf} \cup ScriptKeys : d[k] = e[k]
  BY <1>1, <1>2, <1>3
<1> QED
  BY <1>4 DEF Rendered

LEMMA BasisStep == Types /\ TextInv /\ ScriptInv /\ BasisInv /\ [Next]_vars => BasisInv'
<1> SUFFICES ASSUME Types, TextInv, ScriptInv, BasisInv, [Next]_vars PROVE BasisInv'
  OBVIOUS
<1>1. world' = world
  BY DEF Next, Change, Begin, Load, RenderField, Fail, EndList, LoadScript, Publish, vars
<1>2. CASE Publish
  <2>1. CASE Undisturbed
    <3>1. seen = Each(refs)
      BY <2>1 DEF Types, Undisturbed, Each
    <3>2. Rendered(published', Each(refs))
      BY <1>2, <3>1, PublishRendered
    <3>3. basis' = {refs} /\ refs \in [Refs -> 0..MaxContent]
      BY <1>2, <2>1 DEF Publish, Types
    <3> QED
      BY <1>1, <3>2, <3>3 DEF BasisInv, Rendered, MainOf, ParsersOf, ScriptKeys, LastWith,
                              LuaFilters, FieldsOf, WantsNull
  <2>2. CASE ~Undisturbed
    BY <1>2, <2>2 DEF Publish, BasisInv
  <2> QED
    BY <2>1, <2>2
<1>3. CASE ~Publish
  <2>1. published' = published /\ basis' = basis
    BY <1>3 DEF Next, Change, Begin, Load, RenderField, Fail, EndList, LoadScript, vars, output
  <2> QED
    BY <1>1, <2>1 DEF BasisInv, Rendered, MainOf, ParsersOf, ScriptKeys, LastWith,
                      LuaFilters, FieldsOf, WantsNull
<1> QED
  BY <1>2, <1>3

\* NoPermutations: as long as no field is printed as an address, passes that
\* read the same contents publish the same data, in whatever order the caches
\* and the maps return the objects and the keys.
THEOREM NoneIsPermuted == ASSUME NoAddresses PROVE Spec => NoPermutations
<1>1. ASSUME Types, TextInv, ScriptInv, BasisInv, Publish, Undisturbed, refs \in basis
      PROVE  published' = published
  <2>1. seen = Each(refs) /\ refs \in [Refs -> 0..MaxContent]
    BY <1>1 DEF Types, Undisturbed, Each
  <2>2. Rendered(published', Each(refs)) /\ Rendered(published, Each(refs))
    BY <1>1, <2>1, PublishRendered DEF BasisInv
  <2>3. \A k \in ScriptKeys : ArgOf(LastWith(k)) \in ScriptRefs
    BY <1>1, LastIsAFilter
  <2> QED
    BY <1>1, <2>1, <2>2, <2>3, OneRendering
<1>2. Init => TextInv /\ ScriptInv /\ BasisInv
  BY DEF Init, TextInv, ScriptInv, BasisInv
<1>3. Types /\ TextInv /\ ScriptInv /\ BasisInv /\ [Next]_vars =>
        [Publish /\ Undisturbed /\ refs \in basis => published' = published]_vars
  BY <1>1
<1> QED
  BY <1>2, <1>3, InitTypes, TypeStep, TextStep, ScriptStep, BasisStep, PTL
     DEF Spec, NoPermutations
=============================================================================
