--------------------- MODULE FluentBitConfigProperties ---------------------
(***************************************************************************)
(* What FluentBitConfigController must and must not do.                    *)
(***************************************************************************)
EXTENDS FluentBitConfigController

\* Positions stay inside the histories, the caches never run ahead of the
\* server, what is on its way to a cache ends in what the server has, only names
\* are queued, no key is processed twice at a time, and a pass works through
\* configs that existed when it listed them.
TypeOK ==
    /\ \A c \in Configs : /\ cfg[c] \in 1 .. Len(world.cfgHistory[c])
                          /\ live[c].owner \in {0} \cup
                                {CfgAt(c, v).uid : v \in 1 .. cfg[c]}
    /\ \A s \in Sources : src[s] \in 1 .. Len(world.srcHistory[s])
    /\ up \subseteq Managers
    /\ \A m \in up :
          /\ \A c \in Configs :
                /\ cfgCache[m][c] \in 1 .. cfg[c]
                /\ live[c] = IF secEvents[m][c] = <<>> THEN secCache[m][c]
                             ELSE secEvents[m][c][Len(secEvents[m][c])]
          /\ \A s \in Sources : srcCache[m][s] \in 1 .. src[s]
          /\ queue[m] \subseteq Keys
    /\ faults \in 0 .. MaxFaults
    /\ \A w \in Agents :
          /\ pass[w].pc \in {"idle", "next", "list", "render", "scripts", "get", "write"}
          /\ M(w) \notin up => ~ Busy(w)
          /\ \A x \in Agents \ {w} :
                M(x) = M(w) /\ Busy(w) /\ Busy(x) => pass[w].key # pass[x].key
          /\ \A c \in pass[w].todo \cup (IF pass[w].pc \in {"idle", "next"} THEN {}
                                         ELSE {pass[w].config}) :
                Exists(c, pass[w].listed[c])

-----------------------------------------------------------------------------

Now(c, s) == IF s = "config" THEN cfg[c] ELSE src[s]

\* Key k of the Secret of c is rendered from S, and with today's contents.
Shows(c, k, S) ==
    /\ DOMAIN k.ver = S
    /\ \A s \in S : ContentAt(c, s, k.ver[s]) = ContentAt(c, s, Now(c, s))

\* The Secret of c belongs to it and holds what it selects, as it is now and
\* in the form that the managers' flags ask for.
UpToDate(c) ==
    LET S == world.selects[c] IN
    /\ live[c].owner = CfgAt(c, cfg[c]).uid
    /\ \A m \in up : live[c].main.gzip = world.compress[m]
    /\ Shows(c, live[c].main, {"config"} \cup (S \ {"parser", "configMap"}))
    /\ Shows(c, live[c].parsers, S \cap {"parser"})
    /\ Shows(c, live[c].scripts, IF {"filter", "configMap"} \subseteq S
                                   THEN {"filter", "configMap"} ELSE {})

\* No rendering of c exists: a selector is invalid, or something it refers to
\* is missing.
Broken(c) ==
    \/ CfgAt(c, cfg[c]).spec = Invalid
    \/ \E r \in Refs \cap world.selects[c] : world.srcHistory[r][src[r]] = Missing

\* The Secret of c is what its config and the sources say, and there is none
\* without a config.
Settled(c) ==
    IF Exists(c, cfg[c]) THEN Broken(c) \/ UpToDate(c)
                         ELSE live[c] = NoSecret

\* The managers' caches have seen everything and nothing is queued, worked on
\* or due to be collected: only an outside event can set the controller to work again,
\* and no resync is counted on.
AtRest ==
    /\ world.resync # "must"
    /\ \A m \in up : /\ queue[m] = {} /\ secEvents[m] = NoEvents
                     /\ cfgCache[m] = cfg /\ srcCache[m] = src
    /\ \A w \in Agents : ~ Busy(w)
    /\ \A c \in Configs : ~ Orphaned(c)

\* No wake-up is lost: whatever was read stale, overwritten, refused or
\* patched against an old Secret on the way, when nothing is left to make
\* Reconcile run again every Secret is right, also beside another manager that
\* writes the same Secrets.  (Reconcile with the watches of
\* SetupWithManager, fluentbitconfig_controller.go:178-185.)
NoLostWakeup == AtRest => \A c \in Configs : Settled(c)

\* What NoLostWakeup relies on where no resync is counted on, as the Secrets and
\* ConfigMaps that configs refer to are not watched: they may appear, as a
\* failed pass comes back, but not change.
RefsAppear ==
    \A w \in Worlds : w.resync # "must" =>
        \A c \in Configs : \A r \in Refs \cap w.selects[c] :
            \A i \in 1 .. Len(w.srcHistory[r]) - 1 : w.srcHistory[r][i] = Missing

\* A pass never publishes a key rendered from older objects than those the
\* published key was rendered from: nothing orders two passes but the single
\* worker, as a patch carries no resource version.  With an update of the
\* operator it may: the new manager's caches can be older than the old one's.
Backwards(old, new) ==
    \E s \in DOMAIN old.ver \cap DOMAIN new.ver : new.ver[s] < old.ver[s]

NeverBackwards ==
    [][\A w \in Agents, c \in Configs : Len(world.managers) = 1 /\ WriteSecret(w) =>
          LET old == live[c]
              new == live'[c]
          IN  /\ ~ Backwards(old.main, new.main)
              /\ ~ Backwards(old.parsers, new.parsers)
              /\ ~ Backwards(old.scripts, new.scripts)]_vars

\* What a file of the Secret shows of each input.
Inputs == Sources \cup {"config"}
Files == {"main", "parsers", "scripts"}
Shown(k) == [i \in Inputs |-> IF i \in DOMAIN k.ver THEN k.ver[i] ELSE 0]

Publisher == INSTANCE ConfigPublisher WITH
    now <- [c \in Configs |-> [i \in Inputs |-> Now(c, i)]],
    published <- [c \in Configs |-> [f \in Files |-> Shown(live[c][f])]],
    alone <- (Len(world.managers) = 1)

\* The manager keeps the promise of ConfigPublisher, whatever is read stale,
\* refused, lost or patched against an old Secret, and an update of the operator
\* breaks no more of it than that old files may come back: a file is rendered
\* from states that have been, and the files that are sent together, such as
\* fluent-bit.conf and the scripts that it runs, come from the same lists
\* (Reconcile, fluentbitconfig_controller.go:61-156).
ImplementsPublisher == Publisher!Spec

\* Once nobody edits anything, each config's Secret becomes what it has to be
\* and stays so; a config that cannot be rendered holds up only itself.
Converges == \A c \in Configs : <>[]Settled(c)

\* The controller falls quiet: the events of its own writes, which request
\* another pass, do not keep it writing for ever, and two managers whose flags
\* differ, each of which undoes what the other one does, end with the update.
Quiesces == <>[][live' = live]_vars
=============================================================================
