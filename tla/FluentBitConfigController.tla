--------------------- MODULE FluentBitConfigController ---------------------
(***************************************************************************)
(* The FluentBitConfig reconciler of the operator                          *)
(* (controllers/fluentbitconfig_controller.go) in one namespace: whatever  *)
(* watched object changes, one pass renders every FluentBitConfig of the   *)
(* namespace into the Secret of the same name.                             *)
(*                                                                         *)
(* Everything the pass reads comes from informer caches that trail the API *)
(* server, each at its own pace; the Secret is written by CreateOrPatch,   *)
(* which sends only the keys in which the rendering differs from the       *)
(* cached Secret.  An object's past and future is a history of contents    *)
(* given by the world that is looked at, and the variables hold positions  *)
(* in it, so that a content may come back (A, B, A) and what was rendered  *)
(* from which state can still be told.                                     *)
(*                                                                         *)
(* Managers elect no leader unless they are told to: while the operator's  *)
(* Deployment is updated the new one starts, with caches and flags of its  *)
(* own, before the old one ends.                                           *)
(***************************************************************************)
EXTENDS Integers, Sequences, FiniteSets

CONSTANTS
    Configs,        \* the names of the FluentBitConfigs
    Managers,       \* the pods of the operator that an update involves
    Worlds,         \* what to look at, records with the fields
                    \*   cfgHistory  per config, the states [uid, spec] it goes through
                    \*   srcHistory  per source, the contents it goes through
                    \*   items       per listed kind, how many objects its list returns
                    \*   selects     per config, the sources its selectors and plugins reach
                    \*   compress    per manager, its flag -use-compression
                    \*   managers    the managers that run, one after the other
                    \*   name        per listed kind, the name its changing object goes by
                    \*   resync      whether the periodic resync comes: "no", "may", "must"
                    \*   maxPending  bound: events of one Secret on their way to a cache
    MaxFaults       \* bound: failed writes, foreign writes, restarts, updates

Lists == <<"input", "filter", "output", "parser">>  \* in the order they are read
ListNames == {Lists[i] : i \in 1 .. Len(Lists)}
Refs == {"secret", "configMap"}     \* what plugins and Lua filters refer to
Sources == ListNames \cup Refs

Absent == "absent"      \* spec of a config that does not exist
Invalid == "invalid"    \* spec with a selector that cannot be parsed
Missing == "missing"    \* a referenced object, or its key, does not exist

ASSUME WorldAssumption ==
    \A w \in Worlds :
        /\ w.cfgHistory \in [Configs -> Seq([uid : Nat, spec : STRING])]
        /\ w.srcHistory \in [Sources -> Seq(STRING)]
        /\ \A c \in Configs : w.cfgHistory[c] # <<>>
        /\ \A s \in Sources : w.srcHistory[s] # <<>>
        /\ \A s \in ListNames : \A i \in DOMAIN w.srcHistory[s] :
                w.srcHistory[s][i] # Missing
        /\ w.items \in [ListNames -> Nat \ {0}]
        /\ w.selects \in [Configs -> SUBSET Sources]
        /\ w.compress \in [Managers -> BOOLEAN]
        /\ w.managers \in Seq(Managers) /\ w.managers # <<>>
        /\ \A i, j \in DOMAIN w.managers : w.managers[i] = w.managers[j] => i = j
        /\ w.name \in [ListNames -> STRING]
        /\ w.resync \in {"no", "may", "must"}
        /\ w.maxPending \in Nat \ {0}

ASSUME BoundsAssumption == MaxFaults \in Nat

VARIABLES
    world,      \* the world
    cfg, src,   \* per config and per source, its position at the server
    live,       \* per config, its Secret at the server
    up,         \* the managers that run
    cfgCache, srcCache, secCache,   \* per manager, what its caches have of these
    secEvents,  \* per manager and config, the states of the Secret to be delivered
    queue,      \* per manager, the names waiting in its work queue
    pass,       \* per manager and worker, the local variables of Reconcile
    faults      \* faults so far

server == <<cfg, src, live>>
caches == <<cfgCache, srcCache, secCache, secEvents>>
vars == <<world, server, up, caches, queue, pass, faults>>

\* A request carries a name but no kind: objects of different kinds share one.
RequestsOf(S) == {world.name[s] : s \in S}
Keys == Configs \cup RequestsOf(ListNames)

-----------------------------------------------------------------------------
(* What is rendered                                                        *)

CfgAt(c, v) == world.cfgHistory[c][v]
Exists(c, v) == CfgAt(c, v).spec # Absent

\* One key of the Secret: the positions it was rendered from, the order of the
\* objects in the lists it was rendered from, and whether it is gzip data.
NoKey == [ver |-> <<>>, order |-> <<>>, gzip |-> FALSE]
NoSecret == [owner |-> 0, main |-> NoKey, parsers |-> NoKey, scripts |-> NoKey]

\* The bytes of a key: two keys are equal to the API server, and to the
\* reflect.DeepEqual of CreateOrPatch, when these are.
ContentAt(c, s, v) == IF s = "config" THEN CfgAt(c, v).spec ELSE world.srcHistory[s][v]
Bytes(c, k) == [data |-> [s \in DOMAIN k.ver |-> ContentAt(c, s, k.ver[s])],
                order |-> k.order, gzip |-> k.gzip]
SameBytes(c, k, l) == Bytes(c, k) = Bytes(c, l)
SameSecret(c, x, y) ==
    /\ x.owner = y.owner
    /\ SameBytes(c, x.main, y.main)
    /\ SameBytes(c, x.parsers, y.parsers)
    /\ SameBytes(c, x.scripts, y.scripts)

\* A list comes out of the informer cache in any order.
Orders(s) == {o \in [1 .. world.items[s] -> 1 .. world.items[s]] :
                  \A i, j \in DOMAIN o : o[i] = o[j] => i = j}

\* Load sorts a list by name.  It receives the list by value but sorts the
\* array the caller's list shares: afterwards Reconcile's list is sorted too,
\* and RenderLuaScript, which does not sort the filters, relies on that.
SortByName(o) == [i \in DOMAIN o |-> i]
AfterLoad_Copy(o) == o
AfterLoad(o) == SortByName(o)

Part(ver, S, order) == [ver |-> [s \in S |-> ver[s]], order |-> order, gzip |-> FALSE]

\* fluent-bit.conf: [Service] of the config, then inputs, filters, outputs.
RenderMainConfig(c, ver, order) ==
    LET S == world.selects[c] \cap {"input", "filter", "output"} IN
    Part(ver, S \cup {"config"} \cup (world.selects[c] \cap {"secret"}),
         [s \in S |-> SortByName(order[s])])

RenderParserConfig(c, ver, order) ==
    LET S == world.selects[c] \cap {"parser"} IN
    Part(ver, S, [s \in S |-> SortByName(order[s])])

\* The Lua filters may name scripts with one key: the script of the filter
\* that comes last in the list is the one kept.
RenderLuaScript(c, ver, order) ==
    LET S == {"filter", "configMap"} IN
    IF S \subseteq world.selects[c]
      THEN Part(ver, S, <<order["filter"][world.items["filter"]]>>) ELSE NoKey

\* The Secret that a pass wants, from the positions and the orders it read.
\* Only fluent-bit.conf is ever compressed.
Wanted(c, ver, order, compress) ==
    [owner   |-> CfgAt(c, ver["config"]).uid,
     main    |-> [RenderMainConfig(c, ver, order) EXCEPT !.gzip = compress],
     parsers |-> RenderParserConfig(c, ver, order),
     scripts |-> RenderLuaScript(c, ver, order)]

-----------------------------------------------------------------------------
(* The API server, its watches and the work queue                          *)

HasRoom(c) == \A m \in up : Len(secEvents[m][c]) < world.maxPending

\* The Secret of c becomes x.  An update that changes no byte makes no event.
Put(c, x) ==
    /\ HasRoom(c)
    /\ IF SameSecret(c, x, live[c])
         THEN UNCHANGED <<live, secEvents>>
         ELSE /\ live' = [live EXCEPT ![c] = x]
              /\ secEvents' = [m \in Managers |->
                    IF m \in up THEN [secEvents[m] EXCEPT ![c] = Append(@, x)]
                                ELSE secEvents[m]]

\* Kinds whose events SetupWithManager turns into requests; the referenced
\* Secrets and ConfigMaps are read through the cache and not among them.
Watched == ListNames

\* Owns(&corev1.Secret{}): an event of a Secret requests the config it is
\* named after.
OwnerRequests_None(c) == {}
OwnerRequests(c) == {c}

\* MaxConcurrentReconciles is left at its default.
Workers_Two == {1, 2}
Workers == {1}
Agents == Managers \X Workers
M(w) == w[1]        \* the manager whose worker w is

Idle == [pc |-> "idle", key |-> CHOOSE k \in Keys : TRUE,
         listed |-> [c \in Configs |-> 1], todo |-> {},
         config |-> CHOOSE c \in Configs : TRUE, next |-> 1,
         ver |-> [s \in Sources \cup {"config"} |-> 1],
         order |-> [s \in ListNames |-> [i \in 1 .. world.items[s] |-> i]],
         base |-> NoSecret]

\* The manager's periodic resync (10 hours by default) and its first list
\* request every cached object of a watched kind.
AllRequests(cached) == {c \in Configs : Exists(c, cached[c])} \cup RequestsOf(Watched)

NoEvents == [c \in Configs |-> <<>>]

Init ==
    /\ world \in Worlds
    /\ cfg = [c \in Configs |-> 1] /\ src = [s \in Sources |-> 1]
    /\ live = [c \in Configs |-> NoSecret]
    /\ up = {Head(world.managers)}
    /\ cfgCache = [m \in Managers |-> cfg] /\ srcCache = [m \in Managers |-> src]
    /\ secCache = [m \in Managers |-> live]
    /\ secEvents = [m \in Managers |-> NoEvents]
    /\ queue = [m \in Managers |-> IF m \in up THEN AllRequests(cfg) ELSE {}]
    /\ pass = [w \in Agents |-> Idle]
    /\ faults = 0

EditConfig(c) ==
    /\ cfg[c] < Len(world.cfgHistory[c])
    /\ cfg' = [cfg EXCEPT ![c] = @ + 1]
    /\ UNCHANGED <<world, src, live, up, caches, queue, pass, faults>>

EditSource(s) ==
    /\ src[s] < Len(world.srcHistory[s])
    /\ src' = [src EXCEPT ![s] = @ + 1]
    /\ UNCHANGED <<world, cfg, live, up, caches, queue, pass, faults>>

Request(m, names) == queue' = [queue EXCEPT ![m] = @ \cup names]

DeliverConfig(m, c) ==
    /\ cfgCache[m][c] < cfg[c]
    /\ cfgCache' = [cfgCache EXCEPT ![m][c] = @ + 1]
    /\ Request(m, {c})
    /\ UNCHANGED <<world, server, up, srcCache, secCache, secEvents, pass, faults>>

DeliverSource(m, s) ==
    /\ srcCache[m][s] < src[s]
    /\ srcCache' = [srcCache EXCEPT ![m][s] = @ + 1]
    /\ Request(m, RequestsOf({s} \cap Watched))
    /\ UNCHANGED <<world, server, up, cfgCache, secCache, secEvents, pass, faults>>

DeliverSecret(m, c) ==
    /\ secEvents[m][c] # <<>>
    /\ secCache' = [secCache EXCEPT ![m][c] = Head(secEvents[m][c])]
    /\ secEvents' = [secEvents EXCEPT ![m][c] = Tail(@)]
    /\ Request(m, OwnerRequests(c))
    /\ UNCHANGED <<world, server, up, cfgCache, srcCache, pass, faults>>

\* The garbage collector deletes a Secret whose owner, by uid, is gone.
Orphaned(c) ==
    /\ live[c] # NoSecret
    /\ ~ (Exists(c, cfg[c]) /\ CfgAt(c, cfg[c]).uid = live[c].owner)

CollectGarbage(c) ==
    /\ Orphaned(c)
    /\ Put(c, NoSecret)
    /\ UNCHANGED <<world, cfg, src, up, cfgCache, srcCache, secCache, queue, pass, faults>>

Fault == faults < MaxFaults /\ faults' = faults + 1

\* Someone else deletes the Secret or spoils a key of it.
Tamper(c) ==
    /\ Fault
    /\ live[c] # NoSecret
    /\ \E x \in {NoSecret, [live[c] EXCEPT !.parsers = NoKey]} : Put(c, x)
    /\ UNCHANGED <<world, cfg, src, up, cfgCache, srcCache, secCache, queue, pass>>

Resync(m) ==
    /\ world.resync # "no" /\ ~ (AllRequests(cfgCache[m]) \subseteq queue[m])
    /\ Request(m, AllRequests(cfgCache[m]))
    /\ UNCHANGED <<world, server, up, caches, pass, faults>>

\* Manager m starts, with what the server has now in its caches.
Start(m) ==
    /\ cfgCache' = [cfgCache EXCEPT ![m] = cfg]
    /\ srcCache' = [srcCache EXCEPT ![m] = src]
    /\ secCache' = [secCache EXCEPT ![m] = live]
    /\ secEvents' = [secEvents EXCEPT ![m] = NoEvents]
    /\ queue' = [queue EXCEPT ![m] = AllRequests(cfg)]
    /\ pass' = [w \in Agents |-> IF M(w) = m THEN Idle ELSE pass[w]]

Restart(m) ==
    /\ m \in up
    /\ Fault /\ Start(m)
    /\ UNCHANGED <<world, server, up>>

\* The Deployment is updated: a second manager starts ...
RollOut(m) ==
    /\ \E i \in 2 .. Len(world.managers) :
          up = {world.managers[i - 1]} /\ m = world.managers[i]
    /\ Fault /\ Start(m)
    /\ up' = up \cup {m}
    /\ UNCHANGED <<world, server>>

\* ... and the first one is stopped, whatever it is doing.
Retire(m) ==
    /\ \E i \in 2 .. Len(world.managers) :
          up = {world.managers[i - 1], world.managers[i]} /\ m = world.managers[i - 1]
    /\ up' = up \ {m}
    /\ secEvents' = [secEvents EXCEPT ![m] = NoEvents]
    /\ queue' = [queue EXCEPT ![m] = {}]
    /\ pass' = [w \in Agents |-> IF M(w) = m THEN Idle ELSE pass[w]]
    /\ cfgCache' = [cfgCache EXCEPT ![m] = [c \in Configs |-> 1]]
    /\ srcCache' = [srcCache EXCEPT ![m] = [s \in Sources |-> 1]]
    /\ secCache' = [secCache EXCEPT ![m] = [c \in Configs |-> NoSecret]]
    /\ UNCHANGED <<world, server, faults>>

-----------------------------------------------------------------------------
(* Reconcile, by worker w                                                  *)

Busy(w) == pass[w].pc # "idle"

\* Any error: Reconcile returns it, and the queue takes the request back
\* with a growing delay.
RetryRequests(w) == {pass[w].key}

Fail(w) ==
    /\ Request(M(w), RetryRequests(w))
    /\ pass' = [pass EXCEPT ![w] = Idle]

\* The worker takes a request; Reconcile lists the configs of its namespace.
\* The queue never hands out a key that is being processed.
Listed_All(v) == Configs
Listed(v) == {c \in Configs : Exists(c, v[c])}

Begin(w) ==
    /\ ~ Busy(w)
    /\ \E k \in queue[M(w)] :
          /\ \A x \in Agents : M(x) = M(w) /\ Busy(x) => pass[x].key # k
          /\ queue' = [queue EXCEPT ![M(w)] = @ \ {k}]
          /\ pass' = [pass EXCEPT ![w] =
                        [Idle EXCEPT !.pc = "next", !.key = k,
                                     !.listed = cfgCache[M(w)],
                                     !.todo = Listed(cfgCache[M(w)])]]
    /\ UNCHANGED <<world, server, up, caches, faults>>

\* The next config of the list, which is in the cache's arbitrary order.
\* Selectors are parsed before each list; an invalid one ends the pass.
Candidates_Ordered(todo) == IF todo = {} THEN {} ELSE {CHOOSE c \in todo : TRUE}
Candidates(todo) == todo

Take(w, c) ==
    /\ pass[w].pc = "next"
    /\ c \in Candidates(pass[w].todo)
    /\ IF CfgAt(c, pass[w].listed[c]).spec = Invalid
         THEN Fail(w)
         ELSE /\ pass' = [pass EXCEPT ![w].pc = "list", ![w].todo = @ \ {c},
                                      ![w].config = c, ![w].next = 1,
                                      ![w].ver["config"] = pass[w].listed[c]]
              /\ UNCHANGED queue
    /\ UNCHANGED <<world, server, up, caches, faults>>

Return(w) ==
    /\ pass[w].pc = "next"
    /\ pass[w].todo = {}
    /\ pass' = [pass EXCEPT ![w] = Idle]
    /\ UNCHANGED <<world, server, up, caches, queue, faults>>

\* Inputs, filters, outputs, parsers: one list after the other.
ReadList(w) ==
    LET s == Lists[pass[w].next] IN
    /\ pass[w].pc = "list"
    /\ \E o \in Orders(s) :
          pass' = [pass EXCEPT ![w].ver[s] = srcCache[M(w)][s], ![w].order[s] = o,
                               ![w].next = IF @ = Len(Lists) THEN 1 ELSE @ + 1,
                               ![w].pc = IF s = Lists[Len(Lists)] THEN "render" ELSE @]
    /\ UNCHANGED <<world, server, up, caches, queue, faults>>

\* Reads the referenced object r through the cache, if the config needs it.
LoadRef(w, r, then, order) ==
    IF r \in world.selects[pass[w].config] /\ world.srcHistory[r][srcCache[M(w)][r]] = Missing
      THEN Fail(w)
      ELSE /\ pass' = [pass EXCEPT ![w].pc = then, ![w].ver[r] = srcCache[M(w)][r],
                        ![w].order = order]
           /\ UNCHANGED queue

\* RenderMainConfig and RenderParserConfig, with the Secrets plugins need.
Render(w) ==
    /\ pass[w].pc = "render"
    /\ LoadRef(w, "secret", "scripts",
               [s \in ListNames |-> AfterLoad(pass[w].order[s])])
    /\ UNCHANGED <<world, server, up, caches, faults>>

RenderScripts(w) ==
    /\ pass[w].pc = "scripts"
    /\ LoadRef(w, "configMap", "get", pass[w].order)
    /\ UNCHANGED <<world, server, up, caches, faults>>

\* CreateOrPatch: read the Secret from the cache ...
GetSecret(w) ==
    /\ pass[w].pc = "get"
    /\ pass' = [pass EXCEPT ![w].pc = "write", ![w].base = secCache[M(w)][pass[w].config]]
    /\ UNCHANGED <<world, server, up, caches, queue, faults>>

\* ... and create it, or send the keys in which the wanted Secret differs
\* from what was read, or nothing.  The patch carries no resource version.
\* Mutant: RenderLuaScript lists the filters again.
Target_Relists(w) ==
    LET ver == [pass[w].ver EXCEPT !["filter"] = srcCache[M(w)]["filter"]] IN
    [Wanted(pass[w].config, pass[w].ver, pass[w].order, world.compress[M(w)])
        EXCEPT !.scripts = RenderLuaScript(pass[w].config, ver, pass[w].order)]
Target(w) ==
    Wanted(pass[w].config, pass[w].ver, pass[w].order, world.compress[M(w)])

Patched(c, base, want) ==
    LET Key(b, x, l) == IF SameBytes(c, b, x) THEN l ELSE x IN
    [owner   |-> IF base.owner = want.owner THEN live[c].owner ELSE want.owner,
     main    |-> Key(base.main, want.main, live[c].main),
     parsers |-> Key(base.parsers, want.parsers, live[c].parsers),
     scripts |-> Key(base.scripts, want.scripts, live[c].scripts)]

Unneeded(w) ==
    LET c == pass[w].config IN
    pass[w].base # NoSecret /\ SameSecret(c, pass[w].base, Target(w))

\* Create fails on a Secret that exists, a patch on one that does not.
Refused(w) == (pass[w].base = NoSecret) # (live[pass[w].config] = NoSecret)

Outcome(w) ==
    LET c == pass[w].config IN
    IF pass[w].base = NoSecret THEN Target(w) ELSE Patched(c, pass[w].base, Target(w))

Store(w) == Put(pass[w].config, Outcome(w))

WriteSecret(w) ==
    /\ pass[w].pc = "write"
    /\ IF Unneeded(w) \/ ~ Refused(w)
         THEN pass' = [pass EXCEPT ![w].pc = "next", ![w].base = NoSecret,
                                   ![w].ver = Idle.ver, ![w].order = Idle.order]
              /\ UNCHANGED queue
         ELSE Fail(w)
    /\ IF Unneeded(w) \/ Refused(w) THEN UNCHANGED <<live, secEvents>> ELSE Store(w)
    /\ UNCHANGED <<world, cfg, src, up, cfgCache, srcCache, secCache, faults>>

\* The write, or only its answer, is lost.
LoseWrite(w) ==
    /\ pass[w].pc = "write"
    /\ ~ Unneeded(w)
    /\ Fault
    /\ Fail(w)
    /\ UNCHANGED <<live, secEvents>> \/ (~ Refused(w) /\ Store(w))
    /\ UNCHANGED <<world, cfg, src, up, cfgCache, srcCache, secCache>>

-----------------------------------------------------------------------------

Step(w) ==
    \/ Begin(w) \/ Return(w) \/ ReadList(w) \/ Render(w) \/ RenderScripts(w)
    \/ GetSecret(w) \/ WriteSecret(w)
    \/ \E c \in Configs : Take(w, c)

DeliverObjects ==
    \E m \in up : \/ \E c \in Configs : DeliverConfig(m, c)
                  \/ \E s \in Sources : DeliverSource(m, s)
DeliverSecrets(m) == \E c \in Configs : DeliverSecret(m, c)

Next ==
    \/ \E c \in Configs : EditConfig(c) \/ CollectGarbage(c) \/ Tamper(c)
    \/ \E s \in Sources : EditSource(s)
    \/ DeliverObjects
    \/ \E m \in Managers : DeliverSecrets(m) \/ Restart(m) \/ RollOut(m) \/ Retire(m)
    \/ \E m \in up : Resync(m)
    \/ \E w \in Agents : Step(w) \/ LoseWrite(w)

Spec == Init /\ [][Next]_vars

\* The workers keep working, the watches keep delivering, garbage is
\* collected, an update is completed, and the random order of the cache favours
\* no config for ever.  The resync comes where it is counted on.
Fairness ==
    /\ \A w \in Agents : WF_vars(Step(w))
    /\ \A c \in Configs : SF_vars(\E w \in Agents : Take(w, c))
    /\ WF_vars(DeliverObjects)
    /\ \A m \in Managers : WF_vars(DeliverSecrets(m))
    /\ WF_vars(\E c \in Configs : CollectGarbage(c))
    /\ WF_vars(\E m \in Managers : Retire(m))
    /\ WF_vars(world.resync = "must" /\ \E m \in up : Resync(m))

FairSpec == Spec /\ Fairness
=============================================================================
