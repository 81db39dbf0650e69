----------------------- MODULE FluentBitConfigProofs -----------------------
(***************************************************************************)
(* Theorems about the FluentBitConfig controller, for any configs, worlds, *)
(* managers and faults.  First its type invariant: Types says, in parts,   *)
(* what holds of the server, of the caches' shape, of each manager and of  *)
(* each pass.  Then: a manager that runs alone never publishes a key       *)
(* rendered from older objects than those the published one was rendered   *)
(* from; BackInv is the invariant: what is published is no newer than what *)
(* a pass has read, that is no newer than the caches, and they trail the   *)
(* server.  Then that the promise of ConfigPublisher is kept, also with    *)
(* two managers: AheadInv says that nothing is read or published before it *)
(* is there.  And no wake-up is lost, also with two managers; WakeInv is   *)
(* the invariant: as long as nothing is going to make a manager run        *)
(* another pass, whatever the present one has done and read is what it     *)
(* would do and read again.  Last, what is published does not depend on    *)
(* the order of the caches' lists (SortInv), and therefore, when all is    *)
(* settled and no edit and no fault is left, nothing is written any more.  *)
(***************************************************************************)
EXTENDS FluentBitConfigProperties, TLAPS

PCs == {"idle", "next", "list", "render", "scripts", "get", "write"}
Working == PCs \ {"idle", "next"}

\* The local variables of a pass.
PassFields == {"pc", "key", "listed", "todo", "config", "next", "ver", "order", "base"}

Sequence(s) == \E T : s \in Seq(T)
Last(s) == s[Len(s)]

\* The state of the Secret that the cache of m is going to have.
Known(m, c) == IF secEvents[m][c] = <<>> THEN secCache[m][c]
               ELSE Last(secEvents[m][c])

Uids(c, n) == {CfgAt(c, v).uid : v \in 1 .. n}

ServerOK ==
    /\ world \in Worlds
    /\ cfg \in [Configs -> Nat] /\ src \in [Sources -> Nat]
    /\ \A c \in Configs : cfg[c] \in 1 .. Len(world.cfgHistory[c])
    /\ \A s \in Sources : src[s] \in 1 .. Len(world.srcHistory[s])
    /\ DOMAIN live = Configs
    /\ \A c \in Configs : DOMAIN live[c] = Files \cup {"owner"}
    /\ \A c \in Configs : live[c].owner \in {0} \cup Uids(c, cfg[c])
    /\ up \subseteq Managers /\ faults \in 0 .. MaxFaults

CachesShaped ==
    /\ cfgCache \in [Managers -> [Configs -> Nat]]
    /\ srcCache \in [Managers -> [Sources -> Nat]]
    /\ DOMAIN secCache = Managers /\ DOMAIN secEvents = Managers /\ DOMAIN queue = Managers
    /\ \A m \in Managers : DOMAIN secCache[m] = Configs /\ DOMAIN secEvents[m] = Configs

\* A manager that runs trails the server; one that does not has nothing to do.
ManagerOK(m) ==
    /\ m \in up =>
        /\ \A c \in Configs : /\ cfgCache[m][c] \in 1 .. cfg[c]
                              /\ Sequence(secEvents[m][c]) /\ Known(m, c) = live[c]
        /\ \A s \in Sources : srcCache[m][s] \in 1 .. src[s]
        /\ queue[m] \subseteq Keys
    /\ m \notin up => queue[m] = {} /\ secEvents[m] = NoEvents

\* A pass works through configs that existed when it listed them.
WorkOK(p) ==
    /\ DOMAIN p = PassFields
    /\ p.pc \in PCs
    /\ p.next \in 1 .. Len(Lists)
    /\ p.ver \in [Inputs -> Nat]
    /\ p.pc # "idle" =>
         /\ p.key \in Keys /\ p.listed \in [Configs -> Nat]
         /\ p.todo \subseteq Configs
         /\ \A c \in Configs : p.listed[c] \in 1 .. cfg[c]
         /\ \A c \in p.todo : Exists(c, p.listed[c])
    /\ p.pc = "idle" => p.todo = {}
    /\ p.pc \in Working =>
         /\ p.config \in Configs /\ Exists(p.config, p.listed[p.config])
         /\ p.ver["config"] = p.listed[p.config]

WorkersOK ==
    /\ DOMAIN pass = Agents
    /\ \A w \in Agents : WorkOK(pass[w]) /\ (M(w) \notin up => pass[w].pc = "idle")

Types == ServerOK /\ CachesShaped /\ (\A m \in Managers : ManagerOK(m)) /\ WorkersOK

-----------------------------------------------------------------------------
(* Facts about lists, sequences, workers and the values of the variables.   *)

LEMMA ListFacts ==
    /\ Len(Lists) = 4 /\ ListNames = {"input", "filter", "output", "parser"}
    /\ Lists[1] = "input" /\ Lists[2] = "filter" /\ Lists[3] = "output"
    /\ Lists[4] = "parser"
<1>1. Len(Lists) = 4
    BY DEF Lists
<1>2. /\ Lists[1] = "input" /\ Lists[2] = "filter" /\ Lists[3] = "output"
      /\ Lists[4] = "parser"
    BY DEF Lists
<1>3. ListNames = {"input", "filter", "output", "parser"}
    BY <1>1, <1>2 DEF ListNames
<1> QED
    BY <1>1, <1>2, <1>3

\* A manager has one worker: MaxConcurrentReconciles is left at its default.
LEMMA OneWorker ==
    ASSUME NEW w \in Agents, NEW x \in Agents, M(w) = M(x)
    PROVE  w = x
    BY DEF Agents, Workers, M

\* What the end of a sequence is when it grows at the end and shrinks at the front.
LEMMA SequenceFacts ==
    /\ \A s, x : Sequence(s) => /\ Sequence(Append(s, x)) /\ Append(s, x) # <<>>
                                /\ Last(Append(s, x)) = x
    /\ \A s : Sequence(s) /\ s # <<>> =>
                 /\ Sequence(Tail(s))
                 /\ Tail(s) = <<>> => Head(s) = Last(s)
                 /\ Tail(s) # <<>> => Last(Tail(s)) = Last(s)
    /\ Sequence(<<>>)
<1>1. ASSUME NEW s, NEW x, NEW T, s \in Seq(T)
      PROVE  /\ Append(s, x) \in Seq(T \cup {x}) /\ Append(s, x) # <<>>
             /\ Last(Append(s, x)) = x
    <2>1. s \in Seq(T \cup {x})
        BY <1>1
    <2> QED
        BY <2>1 DEF Last
<1>2. ASSUME NEW s, NEW T, s \in Seq(T), s # <<>>
      PROVE  /\ Tail(s) \in Seq(T)
             /\ Tail(s) = <<>> => Head(s) = Last(s)
             /\ Tail(s) # <<>> => Last(Tail(s)) = Last(s)
    <2> PICK t : t = Tail(s)
        OBVIOUS
    <2>1. /\ t \in Seq(T) /\ Len(s) \in Nat /\ Len(s) >= 1 /\ Len(t) = Len(s) - 1
          /\ Head(s) = s[1] /\ \A i \in 1 .. Len(s) - 1 : t[i] = s[i + 1]
        <3>1. \A u \in Seq(T) : u # <<>> =>
                 /\ Tail(u) \in Seq(T) /\ Len(u) \in Nat /\ Len(u) >= 1
                 /\ Len(Tail(u)) = Len(u) - 1 /\ Head(u) = u[1]
                 /\ \A i \in 1 .. Len(u) - 1 : Tail(u)[i] = u[i + 1]
            OBVIOUS
        <3> QED
            BY <1>2, <3>1
    <2>2. t = <<>> <=> Len(t) = 0
        <3>1. \A u \in Seq(T) : u = <<>> <=> Len(u) = 0
            OBVIOUS
        <3> QED
            BY <2>1, <3>1
    <2>3. t # <<>> => Last(t) = Last(s)
        <3>1. t # <<>> => Len(s) - 1 \in 1 .. Len(s) - 1 /\ (Len(s) - 1) + 1 = Len(s)
            BY <2>1, <2>2
        <3> QED
            BY <2>1, <3>1 DEF Last
    <2>4. t = <<>> => Head(s) = Last(s)
        BY <2>1, <2>2 DEF Last
    <2> QED
        BY <2>1, <2>3, <2>4
<1>3. <<>> \in Seq({})
    OBVIOUS
<1> QED
    BY <1>1, <1>2, <1>3 DEF Sequence

LEMMA Histories ==
    ASSUME world \in Worlds
    PROVE  /\ \A c \in Configs : Len(world.cfgHistory[c]) \in Nat \ {0}
           /\ \A s \in Sources : Len(world.srcHistory[s]) \in Nat \ {0}
           /\ \A c \in Configs : world.selects[c] \subseteq Sources
<1>1. \A c \in Configs : /\ world.cfgHistory[c] \in Seq([uid : Nat, spec : STRING])
                         /\ world.cfgHistory[c] # <<>>
    BY WorldAssumption
<1>2. \A s \in Sources : world.srcHistory[s] \in Seq(STRING) /\ world.srcHistory[s] # <<>>
    BY WorldAssumption
<1>3. \A c \in Configs : world.selects[c] \subseteq Sources
    BY WorldAssumption
<1> QED
    BY <1>1, <1>2, <1>3

LEMMA IdleWork ==
    ASSUME NEW p, p = Idle
    PROVE  WorkOK(p) /\ p.pc = "idle"
<1>1. /\ p.pc = "idle" /\ p.todo = {} /\ p.next = 1 /\ p.ver \in [Inputs -> Nat]
      /\ DOMAIN p = PassFields
    BY DEF Idle, Inputs, PassFields
<1> QED
    BY <1>1, ListFacts DEF WorkOK, PCs, Working

\* Edits only add states to a history: what a pass works through stays true.
LEMMA WorkKept ==
    ASSUME Types, UNCHANGED world, \A c \in Configs : cfg'[c] \in Nat /\ cfg[c] <= cfg'[c],
           NEW p, WorkOK(p)
    PROVE  WorkOK(p)'
<1>1. \A c \in Configs : cfg[c] \in Nat
    BY DEF Types, ServerOK
<1> QED
    BY <1>1 DEF WorkOK, Exists, CfgAt, Keys, RequestsOf

LEMMA WorkersKept ==
    ASSUME Types, UNCHANGED <<world, up, pass>>,
           \A c \in Configs : cfg'[c] \in Nat /\ cfg[c] <= cfg'[c]
    PROVE  WorkersOK'
<1> SUFFICES ASSUME NEW w \in Agents, NEW p, p = pass[w] PROVE WorkOK(p)'
    BY DEF Types, WorkersOK, WorkOK, Exists, CfgAt, Keys, RequestsOf
<1> QED
    BY WorkKept DEF Types, WorkersOK

\* The workers, one by one.
LEMMA EachWorks ==
    ASSUME DOMAIN pass' = Agents,
           \A x \in Agents : \A q : q = pass'[x] =>
               WorkOK(q)' /\ (M(x) \notin up' => q.pc = "idle")
    PROVE  WorkersOK'
<1> SUFFICES ASSUME NEW x \in Agents, NEW q, q = pass'[x],
                    WorkOK(q)' /\ (M(x) \notin up' => q.pc = "idle")
             PROVE  WorkOK(pass[x])' /\ (M(x) \notin up' => pass'[x].pc = "idle")
    BY DEF WorkersOK
<1> QED
    BY DEF WorkOK, Exists, CfgAt

LEMMA WorkerMoves ==
    ASSUME Types, UNCHANGED <<world, cfg, up>>, NEW w \in Agents, M(w) \in up,
           NEW p, WorkOK(p), pass' = [pass EXCEPT ![w] = p]
    PROVE  WorkersOK'
<1>1. /\ DOMAIN pass' = Agents /\ pass'[w] = p
      /\ \A x \in Agents : x # w => pass'[x] = pass[x]
    BY DEF Types, WorkersOK
<1>2. \A c \in Configs : cfg'[c] \in Nat /\ cfg[c] <= cfg'[c]
    BY DEF Types, ServerOK
<1> SUFFICES ASSUME NEW x \in Agents, NEW q, q = pass'[x]
             PROVE  WorkOK(q)' /\ (M(x) \notin up => q.pc = "idle")
    BY <1>1, EachWorks
<1>3. WorkOK(q) /\ (M(x) \notin up => q.pc = "idle")
    BY <1>1 DEF Types, WorkersOK
<1> QED
    BY <1>2, <1>3, WorkKept

\* A write reaches the server and the end of what is on its way to each cache.
LEMMA WritePut ==
    ASSUME Types, UNCHANGED <<world, cfg, src, up, cfgCache, srcCache, secCache>>,
           UNCHANGED faults \/ Fault,
           NEW c \in Configs, NEW x, Put(c, x), DOMAIN x = Files \cup {"owner"},
           x.owner \in {0} \cup Uids(c, cfg[c])
    PROVE  /\ ServerOK'
           /\ DOMAIN secEvents' = Managers
           /\ \A m \in Managers : DOMAIN secEvents'[m] = Configs
           /\ \A m \in up, d \in Configs : Sequence(secEvents'[m][d]) /\ Known(m, d)' = live'[d]
           /\ \A m \in Managers \ up : secEvents'[m] = secEvents[m]
<1>1. ServerOK'
    <2>1. /\ DOMAIN live' = Configs
          /\ \A d \in Configs : /\ DOMAIN live'[d] = Files \cup {"owner"}
                                /\ live'[d].owner \in {0} \cup Uids(d, cfg[d])
        BY DEF Types, ServerOK, Put
    <2>2. faults' \in 0 .. MaxFaults
        BY BoundsAssumption DEF BoundsAssumption, Types, ServerOK, Fault
    <2>3. \A d \in Configs : Uids(d, cfg[d])' = Uids(d, cfg[d])
        BY DEF Uids, CfgAt
    <2> QED
        BY <2>1, <2>2, <2>3 DEF Types, ServerOK
<1>2. CASE UNCHANGED <<live, secEvents>>
    BY <1>1, <1>2 DEF Types, ServerOK, CachesShaped, ManagerOK, Known
<1>3. CASE /\ live' = [live EXCEPT ![c] = x]
           /\ secEvents' = [m \in Managers |->
                    IF m \in up THEN [secEvents[m] EXCEPT ![c] = Append(@, x)]
                                ELSE secEvents[m]]
    <2>1. /\ DOMAIN secEvents' = Managers
          /\ \A m \in Managers : DOMAIN secEvents'[m] = Configs
          /\ \A m \in Managers \ up : secEvents'[m] = secEvents[m]
        BY <1>3 DEF Types, CachesShaped
    <2>2. ASSUME NEW m \in up, NEW d \in Configs
          PROVE  Sequence(secEvents'[m][d]) /\ Known(m, d)' = live'[d]
        <3>1. /\ m \in Managers /\ Sequence(secEvents[m][d]) /\ Known(m, d) = live[d]
            BY <2>2 DEF Types, ServerOK, ManagerOK
        <3>2. CASE d = c
            <4>1. secEvents'[m][c] = Append(secEvents[m][c], x) /\ live'[c] = x
                BY <1>3, <3>1 DEF Types, CachesShaped, ServerOK
            <4> QED
                BY <3>1, <3>2, <4>1, SequenceFacts DEF Known
        <3>3. CASE d # c
            <4>1. secEvents'[m][d] = secEvents[m][d] /\ live'[d] = live[d]
                BY <1>3, <3>1, <3>3 DEF Types, CachesShaped, ServerOK
            <4> QED
                BY <3>1, <4>1 DEF Known
        <3> QED
            BY <3>2, <3>3
    <2> QED
        BY <1>1, <2>1, <2>2
<1> QED
    BY <1>2, <1>3 DEF Put

\* Writes to a Secret leave what else the managers know.
LEMMA WriteTypes ==
    ASSUME Types, UNCHANGED <<world, cfg, src, up, cfgCache, srcCache, secCache>>,
           UNCHANGED faults \/ Fault,
           NEW c \in Configs, NEW x, Put(c, x), DOMAIN x = Files \cup {"owner"},
           x.owner \in {0} \cup Uids(c, cfg[c]),
           DOMAIN queue' = Managers,
           \A m \in up : queue'[m] \subseteq Keys,
           \A m \in Managers \ up : queue'[m] = {}
    PROVE  ServerOK' /\ CachesShaped' /\ \A m \in Managers : ManagerOK(m)'
<1>1. CachesShaped'
    BY WritePut DEF Types, CachesShaped
<1>2. UNCHANGED Keys
    BY DEF Keys, RequestsOf
<1>3. \A m \in Managers : ManagerOK(m)'
    BY <1>2, WritePut DEF Types, ManagerOK
<1> QED
    BY <1>1, <1>3, WritePut

-----------------------------------------------------------------------------
(* Every step keeps the types.                                              *)

LEMMA RequestTypes ==
    ASSUME Types, UNCHANGED <<world, up>>, NEW m \in up, NEW S, S \subseteq Keys, Request(m, S)
    PROVE  /\ DOMAIN queue' = Managers
           /\ \A n \in up : queue'[n] \subseteq Keys
           /\ \A n \in Managers \ up : queue'[n] = {}
           /\ UNCHANGED Keys
    BY DEF Types, ServerOK, CachesShaped, ManagerOK, Request, Keys, RequestsOf

LEMMA EditsKeepTypes ==
    ASSUME Types, (\E c \in Configs : EditConfig(c)) \/ (\E s \in Sources : EditSource(s))
    PROVE  Types'
<1>1. /\ UNCHANGED <<world, live, up, cfgCache, srcCache, secCache, secEvents, queue, pass, faults>>
      /\ cfg' \in [Configs -> Nat] /\ src' \in [Sources -> Nat]
      /\ \A c \in Configs : cfg[c] <= cfg'[c] /\ cfg'[c] \in 1 .. Len(world.cfgHistory[c])
      /\ \A s \in Sources : src[s] <= src'[s] /\ src'[s] \in 1 .. Len(world.srcHistory[s])
    <2>1. ASSUME NEW c \in Configs, EditConfig(c) PROVE <1>1
        BY <2>1, Histories DEF EditConfig, caches, Types, ServerOK
    <2>2. ASSUME NEW s \in Sources, EditSource(s) PROVE <1>1
        BY <2>2, Histories DEF EditSource, caches, Types, ServerOK
    <2> QED
        BY <2>1, <2>2
<1>2. ServerOK'
    <2>1. \A c \in Configs : live[c].owner \in {0} \cup Uids(c, cfg[c])'
        BY <1>1 DEF Types, ServerOK, Uids, CfgAt
    <2> QED
        BY <1>1, <2>1 DEF Types, ServerOK
<1>3. CachesShaped'
    BY <1>1 DEF Types, CachesShaped
<1>4. \A m \in Managers : ManagerOK(m)'
    <2>1. \A c \in Configs : cfg[c] \in Nat /\ cfg'[c] \in Nat
        BY <1>1 DEF Types, ServerOK
    <2>2. \A s \in Sources : src[s] \in Nat /\ src'[s] \in Nat
        BY <1>1 DEF Types, ServerOK
    <2>3. UNCHANGED Keys
        BY <1>1 DEF Keys, RequestsOf
    <2> QED
        BY <1>1, <2>1, <2>2, <2>3 DEF Types, ManagerOK, Known
<1>5. WorkersOK'
    BY <1>1, WorkersKept
<1> QED
    BY <1>2, <1>3, <1>4, <1>5 DEF Types

LEMMA DeliveriesKeepTypes ==
    ASSUME Types, DeliverObjects
    PROVE  Types'
<1>1. PICK m \in up : (\E c \in Configs : DeliverConfig(m, c)) \/ (\E s \in Sources : DeliverSource(m, s))
    BY DEF DeliverObjects
<1>2. /\ UNCHANGED <<world, cfg, src, live, up, secCache, secEvents, pass, faults>>
      /\ cfgCache' \in [Managers -> [Configs -> Nat]]
      /\ srcCache' \in [Managers -> [Sources -> Nat]]
      /\ \A n \in up, c \in Configs : cfgCache'[n][c] \in 1 .. cfg[c]
      /\ \A n \in up, s \in Sources : srcCache'[n][s] \in 1 .. src[s]
      /\ \E S \in SUBSET Keys : Request(m, S)
    <2>1. m \in Managers /\ up \subseteq Managers
        BY DEF Types, ServerOK
    <2>2. ASSUME NEW c \in Configs, DeliverConfig(m, c) PROVE <1>2
        BY <2>1, <2>2 DEF DeliverConfig, server, Types, ServerOK, CachesShaped, ManagerOK, Keys
    <2>3. ASSUME NEW s \in Sources, DeliverSource(m, s) PROVE <1>2
        <3>1. RequestsOf({s} \cap Watched) \in SUBSET Keys
            BY DEF Keys, RequestsOf, Watched
        <3>2. /\ Request(m, RequestsOf({s} \cap Watched))
              /\ srcCache' = [srcCache EXCEPT ![m][s] = @ + 1] /\ srcCache[m][s] < src[s]
              /\ UNCHANGED <<world, cfg, src, live, up, secCache, secEvents, cfgCache, pass,
                             faults>>
            BY <2>3 DEF DeliverSource, server
        <3>3. /\ srcCache' \in [Managers -> [Sources -> Nat]]
              /\ \A n \in up, t \in Sources : srcCache'[n][t] \in 1 .. src[t]
            BY <2>1, <3>2 DEF Types, ServerOK, CachesShaped, ManagerOK
        <3> QED
            BY <2>1, <3>1, <3>2, <3>3 DEF Types, CachesShaped, ManagerOK
    <2> QED
        BY <1>1, <2>2, <2>3
<1>3. /\ DOMAIN queue' = Managers /\ UNCHANGED Keys
      /\ \A n \in up : queue'[n] \subseteq Keys
      /\ \A n \in Managers \ up : queue'[n] = {}
    BY <1>2, RequestTypes
<1>4. ServerOK'
    BY <1>2 DEF Types, ServerOK, Uids, CfgAt
<1>5. CachesShaped'
    BY <1>2, <1>3 DEF Types, CachesShaped
<1>6. \A n \in Managers : ManagerOK(n)'
    BY <1>2, <1>3 DEF Types, ManagerOK, Known
<1>7. WorkersOK'
    BY <1>2, WorkersKept DEF Types, ServerOK
<1> QED
    BY <1>4, <1>5, <1>6, <1>7 DEF Types

LEMMA SecretsKeepTypes ==
    ASSUME Types, NEW m \in Managers, DeliverSecrets(m)
    PROVE  Types'
<1>1. PICK c \in Configs : DeliverSecret(m, c)
    BY DEF DeliverSecrets
<1>2. m \in up /\ Sequence(secEvents[m][c]) /\ secEvents[m][c] # <<>>
    BY <1>1 DEF DeliverSecret, Types, ManagerOK, NoEvents
<1>3. /\ UNCHANGED <<world, cfg, src, live, up, cfgCache, srcCache, pass, faults>>
      /\ secCache' = [secCache EXCEPT ![m][c] = Head(secEvents[m][c])]
      /\ secEvents' = [secEvents EXCEPT ![m][c] = Tail(secEvents[m][c])]
    BY <1>1 DEF DeliverSecret, server, Types, CachesShaped
<1>4. /\ DOMAIN queue' = Managers /\ UNCHANGED Keys
      /\ \A n \in up : queue'[n] \subseteq Keys
      /\ \A n \in Managers \ up : queue'[n] = {}
    <2>1. OwnerRequests(c) \subseteq Keys
        BY DEF OwnerRequests, Keys
    <2> QED
        BY <1>1, <1>2, <1>3, <2>1, RequestTypes DEF DeliverSecret
<1>5. ServerOK'
    BY <1>3 DEF Types, ServerOK, Uids, CfgAt
<1>6. CachesShaped'
    BY <1>3, <1>4 DEF Types, CachesShaped
<1>7. ASSUME NEW n \in up, NEW d \in Configs
      PROVE  Sequence(secEvents'[n][d]) /\ Known(n, d)' = live[d]
    <2>1. n \in Managers /\ Sequence(secEvents[n][d]) /\ Known(n, d) = live[d]
        BY <1>7 DEF Types, ServerOK, ManagerOK
    <2>2. CASE n = m /\ d = c
        <3>1. /\ secCache'[m][c] = Head(secEvents[m][c])
              /\ secEvents'[m][c] = Tail(secEvents[m][c])
            BY <1>3 DEF Types, CachesShaped
        <3> QED
            BY <1>2, <2>1, <2>2, <3>1, SequenceFacts DEF Known
    <2>3. CASE ~ (n = m /\ d = c)
        <3>1. secCache'[n][d] = secCache[n][d] /\ secEvents'[n][d] = secEvents[n][d]
            BY <1>3, <2>1, <2>3 DEF Types, CachesShaped
        <3> QED
            BY <2>1, <3>1 DEF Known
    <2> QED
        BY <2>2, <2>3
<1>8. ASSUME NEW n \in Managers PROVE ManagerOK(n)'
    <2>1. CASE n \in up
        BY <1>3, <1>4, <1>7, <2>1 DEF Types, ManagerOK
    <2>2. CASE n \notin up
        <3>1. secEvents'[n] = secEvents[n]
            BY <1>2, <1>3, <2>2 DEF Types, CachesShaped
        <3> QED
            BY <1>3, <1>4, <2>2, <3>1 DEF Types, ManagerOK
    <2> QED
        BY <2>1, <2>2
<1>9. WorkersOK'
    BY <1>3, WorkersKept DEF Types, ServerOK
<1> QED
    BY <1>5, <1>6, <1>8, <1>9 DEF Types

LEMMA ResyncKeepsTypes ==
    ASSUME Types, NEW m \in up, Resync(m)
    PROVE  Types'
<1>1. UNCHANGED <<world, cfg, src, live, up, cfgCache, srcCache, secCache, secEvents, pass, faults>>
    BY DEF Resync, server, caches
<1>2. /\ DOMAIN queue' = Managers /\ UNCHANGED Keys
      /\ \A n \in up : queue'[n] \subseteq Keys
      /\ \A n \in Managers \ up : queue'[n] = {}
    <2>1. AllRequests(cfgCache[m]) \subseteq Keys
        BY DEF AllRequests, Watched, Keys, RequestsOf
    <2> QED
        BY <1>1, <2>1, RequestTypes DEF Resync
<1>3. ServerOK' /\ CachesShaped' /\ \A n \in Managers : ManagerOK(n)'
    BY <1>1, <1>2 DEF Types, ServerOK, Uids, CfgAt, CachesShaped, ManagerOK, Known
<1>4. WorkersOK'
    BY <1>1, WorkersKept DEF Types, ServerOK
<1> QED
    BY <1>3, <1>4 DEF Types

LEMMA OthersKeepTypes ==
    ASSUME Types, NEW c \in Configs, CollectGarbage(c) \/ Tamper(c)
    PROVE  Types'
<1>1. /\ \E x \in {NoSecret, [live[c] EXCEPT !.parsers = NoKey]} : Put(c, x)
      /\ UNCHANGED faults \/ Fault
      /\ UNCHANGED <<world, cfg, src, up, cfgCache, srcCache, secCache, queue, pass>>
    BY DEF CollectGarbage, Tamper
<1>2. ASSUME NEW x \in {NoSecret, [live[c] EXCEPT !.parsers = NoKey]}
      PROVE  DOMAIN x = Files \cup {"owner"} /\ x.owner \in {0} \cup Uids(c, cfg[c])
    <2>1. CASE x = NoSecret
        BY <2>1 DEF NoSecret, Files
    <2>2. CASE x = [live[c] EXCEPT !.parsers = NoKey]
        BY <2>2 DEF Types, ServerOK, Files
    <2> QED
        BY <2>1, <2>2
<1>3. /\ DOMAIN queue' = Managers /\ \A m \in up : queue'[m] \subseteq Keys
      /\ \A m \in Managers \ up : queue'[m] = {}
    <2>1. queue' = queue
        BY <1>1
    <2> QED
        BY <2>1 DEF Types, ServerOK, CachesShaped, ManagerOK
<1>4. ServerOK' /\ CachesShaped' /\ \A m \in Managers : ManagerOK(m)'
    BY <1>1, <1>2, <1>3, WriteTypes
<1>5. WorkersOK'
    BY <1>1, WorkersKept DEF Types, ServerOK
<1> QED
    BY <1>4, <1>5 DEF Types

LEMMA StartsKeepTypes ==
    ASSUME Types, NEW m \in Managers, Restart(m) \/ RollOut(m)
    PROVE  Types'
<1>1. /\ Start(m) /\ UNCHANGED <<world, cfg, src, live>> /\ Fault /\ up' = up \cup {m}
    BY DEF Restart, RollOut, server
<1>2. ServerOK'
    BY <1>1, BoundsAssumption DEF BoundsAssumption, Fault, Types, ServerOK, Uids, CfgAt
<1>3. /\ CachesShaped' /\ UNCHANGED Keys
      /\ \A n \in Managers \ {m} : /\ cfgCache'[n] = cfgCache[n] /\ srcCache'[n] = srcCache[n]
                                   /\ secCache'[n] = secCache[n] /\ secEvents'[n] = secEvents[n]
                                   /\ queue'[n] = queue[n]
      /\ cfgCache'[m] = cfg /\ srcCache'[m] = src /\ secCache'[m] = live
      /\ secEvents'[m] = NoEvents /\ queue'[m] = AllRequests(cfg)
    BY <1>1 DEF Start, Types, ServerOK, CachesShaped, NoEvents, Keys, RequestsOf
<1>4. AllRequests(cfg) \subseteq Keys
    BY DEF AllRequests, Watched, Keys, RequestsOf
<1>5. ASSUME NEW n \in Managers PROVE ManagerOK(n)'
    <2>1. CASE n = m
        <3>1. \A c \in Configs : cfg[c] \in 1 .. cfg[c]
            BY DEF Types, ServerOK
        <3>2. \A s \in Sources : src[s] \in 1 .. src[s]
            BY DEF Types, ServerOK
        <3>3. \A c \in Configs : Sequence(secEvents'[m][c]) /\ Known(m, c)' = live[c]
            BY <1>3, SequenceFacts DEF NoEvents, Known
        <3> QED
            BY <1>1, <1>3, <1>4, <2>1, <3>1, <3>2, <3>3 DEF ManagerOK
    <2>2. CASE n # m
        BY <1>1, <1>3, <2>2 DEF Types, ManagerOK, Known
    <2> QED
        BY <2>1, <2>2
<1>6. WorkersOK'
    <2>1. /\ DOMAIN pass' = Agents
          /\ \A w \in Agents : pass'[w] = IF M(w) = m THEN Idle ELSE pass[w]
        BY <1>1 DEF Start
    <2>2. ASSUME NEW w \in Agents, NEW q, q = pass'[w]
          PROVE  WorkOK(q)' /\ (M(w) \notin up' => q.pc = "idle")
        <3>1. WorkOK(q) /\ (M(w) \notin up' => q.pc = "idle")
            BY <1>1, <2>1, <2>2, IdleWork DEF Types, WorkersOK
        <3>2. \A c \in Configs : cfg'[c] \in Nat /\ cfg[c] <= cfg'[c]
            BY <1>1 DEF Types, ServerOK
        <3> QED
            BY <1>1, <3>1, <3>2, WorkKept
    <2> QED
        BY <2>1, <2>2, EachWorks
<1> QED
    BY <1>2, <1>3, <1>5, <1>6 DEF Types

LEMMA RetireKeepsTypes ==
    ASSUME Types, NEW m \in Managers, Retire(m)
    PROVE  Types'
<1>1. UNCHANGED <<world, cfg, src, live, faults>> /\ up' = up \ {m}
    BY DEF Retire, server
<1>2. ServerOK'
    BY <1>1 DEF Types, ServerOK, Uids, CfgAt
<1>3. /\ CachesShaped' /\ UNCHANGED Keys
      /\ \A n \in Managers \ {m} : /\ cfgCache'[n] = cfgCache[n] /\ srcCache'[n] = srcCache[n]
                                   /\ secCache'[n] = secCache[n] /\ secEvents'[n] = secEvents[n]
                                   /\ queue'[n] = queue[n]
      /\ secEvents'[m] = NoEvents /\ queue'[m] = {}
    BY <1>1 DEF Retire, Types, ServerOK, CachesShaped, NoEvents, Keys, RequestsOf
<1>4. ASSUME NEW n \in Managers PROVE ManagerOK(n)'
    <2>1. CASE n = m
        BY <1>1, <1>3, <2>1 DEF ManagerOK
    <2>2. CASE n # m
        BY <1>1, <1>3, <2>2 DEF Types, ManagerOK, Known
    <2> QED
        BY <2>1, <2>2
<1>5. WorkersOK'
    <2>1. /\ DOMAIN pass' = Agents
          /\ \A w \in Agents : pass'[w] = IF M(w) = m THEN Idle ELSE pass[w]
        BY DEF Retire
    <2>2. ASSUME NEW w \in Agents, NEW q, q = pass'[w]
          PROVE  WorkOK(q)' /\ (M(w) \notin up' => q.pc = "idle")
        <3>1. WorkOK(q) /\ (M(w) \notin up' => q.pc = "idle")
            BY <1>1, <2>1, <2>2, IdleWork DEF Types, WorkersOK
        <3>2. \A c \in Configs : cfg'[c] \in Nat /\ cfg[c] <= cfg'[c]
            BY <1>1 DEF Types, ServerOK
        <3> QED
            BY <1>1, <3>1, <3>2, WorkKept
    <2> QED
        BY <2>1, <2>2, EachWorks
<1> QED
    BY <1>2, <1>3, <1>4, <1>5 DEF Types

\* A step of a worker that writes nothing.
LEMMA QuietStep ==
    ASSUME Types, NEW w \in Agents, M(w) \in up, NEW p, WorkOK(p),
           pass' = [pass EXCEPT ![w] = p],
           UNCHANGED <<world, cfg, src, live, up, cfgCache, srcCache, secCache, secEvents, faults>>,
           UNCHANGED queue \/ \E S \in SUBSET Keys : Request(M(w), S)
    PROVE  Types'
<1>1. ServerOK'
    BY DEF Types, ServerOK, Uids, CfgAt
<1>2. /\ DOMAIN queue' = Managers /\ UNCHANGED Keys
      /\ \A n \in up : queue'[n] \subseteq Keys
      /\ \A n \in Managers \ up : queue'[n] = {}
    <2>1. CASE UNCHANGED queue
        BY <2>1 DEF Types, ServerOK, CachesShaped, ManagerOK, Keys, RequestsOf
    <2>2. CASE \E S \in SUBSET Keys : Request(M(w), S)
        BY <2>2, RequestTypes
    <2> QED
        BY <2>1, <2>2
<1>3. CachesShaped' /\ \A n \in Managers : ManagerOK(n)'
    BY <1>2 DEF Types, CachesShaped, ManagerOK, Known
<1>4. WorkersOK'
    BY WorkerMoves
<1> QED
    BY <1>1, <1>3, <1>4 DEF Types

\* The variables of a worker that does something.
LEMMA Worker ==
    ASSUME Types, NEW w \in Agents, NEW q, q = pass[w]
    PROVE  /\ WorkOK(q) /\ DOMAIN pass = Agents
           /\ q.pc # "idle" => M(w) \in up
    BY DEF Types, WorkersOK

\* An error ends the pass and puts its request back into the queue.
LEMMA Failing ==
    ASSUME Types, NEW w \in Agents, pass[w].pc # "idle", Fail(w)
    PROVE  /\ \E p : WorkOK(p) /\ pass' = [pass EXCEPT ![w] = p]
           /\ \E S \in SUBSET Keys : Request(M(w), S)
<1>1. RetryRequests(w) \in SUBSET Keys
    BY Worker DEF RetryRequests, WorkOK
<1> QED
    BY <1>1, IdleWork DEF Fail

LEMMA QuietKeepsTypes ==
    ASSUME Types, NEW w \in Agents, pass[w].pc # "idle",
           UNCHANGED <<world, cfg, src, live, up, cfgCache, srcCache, secCache, secEvents, faults>>,
           \/ Fail(w)
           \/ UNCHANGED queue /\ \E p : WorkOK(p) /\ pass' = [pass EXCEPT ![w] = p]
    PROVE  Types'
<1>1. M(w) \in up
    BY Worker
<1> QED
    BY <1>1, Failing, QuietStep

LEMMA BeginKeepsTypes ==
    ASSUME Types, NEW w \in Agents, Begin(w)
    PROVE  Types'
<1> PICK m : m = M(w)
    OBVIOUS
<1>1. PICK k, p :
         /\ k \in queue[m]
         /\ p = [Idle EXCEPT !.pc = "next", !.key = k, !.listed = cfgCache[m],
                             !.todo = Listed(cfgCache[m])]
         /\ pass' = [pass EXCEPT ![w] = p]
         /\ queue' = [queue EXCEPT ![m] = @ \ {k}]
    BY DEF Begin
<1>2. m \in Managers /\ m \in up /\ k \in Keys
    <2>1. m \in Managers
        BY DEF M, Agents
    <2> QED
        BY <1>1, <2>1 DEF Types, ManagerOK
<1>3. WorkOK(p)
    <2> PICK i : i = Idle
        OBVIOUS
    <2>1. /\ DOMAIN i = PassFields /\ i.next = 1 /\ i.ver \in [Inputs -> Nat]
        BY DEF Idle, Inputs, PassFields
    <2>2. /\ p.pc = "next" /\ p.todo = Listed(cfgCache[m]) /\ p.next = 1 /\ p.key = k
          /\ p.ver \in [Inputs -> Nat] /\ p.listed = cfgCache[m] /\ DOMAIN p = PassFields
        BY <1>1, <2>1 DEF PassFields
    <2>3. /\ p.listed \in [Configs -> Nat] /\ \A c \in Configs : p.listed[c] \in 1 .. cfg[c]
        BY <1>2, <2>2 DEF Types, CachesShaped, ManagerOK
    <2> QED
        BY <1>2, <2>2, <2>3, ListFacts DEF WorkOK, Listed, PCs, Working
<1>4. UNCHANGED <<world, cfg, src, live, up, cfgCache, srcCache, secCache, secEvents, faults>>
    BY DEF Begin, server, caches
<1>5. ServerOK' /\ CachesShaped' /\ \A n \in Managers : ManagerOK(n)'
    <2>1. \A n \in Managers : queue'[n] \subseteq queue[n]
        BY <1>1, <1>2 DEF Types, CachesShaped
    <2> QED
        BY <1>1, <1>2, <1>4, <2>1 DEF Types, ServerOK, CachesShaped, ManagerOK, Known, Uids, CfgAt,
           Keys, RequestsOf
<1> QED
    BY <1>1, <1>2, <1>3, <1>4, <1>5, WorkerMoves DEF Types

LEMMA TakeKeepsTypes ==
    ASSUME Types, NEW w \in Agents, NEW c \in Configs, Take(w, c)
    PROVE  Types'
<1> PICK q : q = pass[w]
    OBVIOUS
<1>1. /\ q.pc = "next" /\ WorkOK(q) /\ DOMAIN pass = Agents /\ c \in q.todo
    BY Worker DEF Take, Candidates
<1>2. CASE ~ Fail(w)
    <2> DEFINE p == [q EXCEPT !.pc = "list", !.todo = q.todo \ {c}, !.config = c, !.next = 1,
                              !.ver["config"] = q.listed[c]]
    <2>1. pass' = [pass EXCEPT ![w] = p] /\ UNCHANGED queue
        BY <1>1, <1>2 DEF Take, WorkOK, PassFields
    <2>2. WorkOK(p)
        <3>1. /\ p.pc = "list" /\ p.todo = q.todo \ {c} /\ p.next = 1 /\ p.config = c
              /\ p.ver \in [Inputs -> Nat] /\ p.listed = q.listed /\ p.ver["config"] = q.listed[c]
              /\ DOMAIN p = PassFields /\ p.key = q.key
            BY <1>1 DEF WorkOK, PassFields, Inputs
        <3> HIDE DEF p
        <3> QED
            BY <1>1, <3>1, ListFacts DEF WorkOK, PCs, Working
    <2> QED
        BY <1>1, <2>1, <2>2, QuietKeepsTypes DEF Take, server, caches
<1>3. CASE Fail(w)
    BY <1>1, <1>3, QuietKeepsTypes DEF Take, server, caches
<1> QED
    BY <1>2, <1>3

LEMMA ReturnKeepsTypes ==
    ASSUME Types, NEW w \in Agents, Return(w)
    PROVE  Types'
    BY IdleWork, QuietKeepsTypes DEF Return, server, caches

LEMMA ReadListKeepsTypes ==
    ASSUME Types, NEW w \in Agents, ReadList(w)
    PROVE  Types'
<1> PICK q : q = pass[w]
    OBVIOUS
<1> PICK s : s = Lists[q.next]
    OBVIOUS
<1> PICK n : n = srcCache[M(w)][s]
    OBVIOUS
<1>1. q.pc = "list" /\ WorkOK(q) /\ DOMAIN pass = Agents
    BY Worker DEF ReadList
<1>2. s \in Sources /\ s # "config" /\ q.next \in 1 .. 4 /\ n \in Nat
    <2>1. s \in Sources /\ s # "config" /\ q.next \in 1 .. 4
        BY <1>1, ListFacts DEF WorkOK, Sources
    <2>2. M(w) \in Managers
        BY DEF M, Agents
    <2> QED
        BY <2>1, <2>2 DEF Types, CachesShaped
<1>3. PICK x, p : /\ pass' = [pass EXCEPT ![w] = p]
                  /\ p = [q EXCEPT !.ver[s] = n, !.order[s] = x,
                                   !.next = IF @ = Len(Lists) THEN 1 ELSE @ + 1,
                                   !.pc = IF s = Lists[Len(Lists)] THEN "render" ELSE @]
    <2>1. PICK x : pass' = [pass EXCEPT ![w].ver[s] = n, ![w].order[s] = x,
                               ![w].next = IF @ = Len(Lists) THEN 1 ELSE @ + 1,
                               ![w].pc = IF s = Lists[Len(Lists)] THEN "render" ELSE @]
        BY <1>1 DEF ReadList
    <2> DEFINE p == [q EXCEPT !.ver[s] = n, !.order[s] = x,
                              !.next = IF @ = Len(Lists) THEN 1 ELSE @ + 1,
                              !.pc = IF s = Lists[Len(Lists)] THEN "render" ELSE @]
    <2>2. pass' = [pass EXCEPT ![w] = p]
        BY <1>1, <2>1 DEF WorkOK, PassFields
    <2> QED
        BY <2>2
<1>4. /\ p.ver = [q.ver EXCEPT ![s] = n]
      /\ p.next = IF q.next = 4 THEN 1 ELSE q.next + 1
      /\ p.pc = IF s = "parser" THEN "render" ELSE "list"
      /\ p.config = q.config /\ p.listed = q.listed /\ p.todo = q.todo /\ p.key = q.key
      /\ DOMAIN p = PassFields
    BY <1>1, <1>3, ListFacts DEF WorkOK, PassFields
<1>5. WorkOK(p)
    <2>1. p.ver \in [Inputs -> Nat] /\ p.ver["config"] = q.ver["config"]
        BY <1>1, <1>2, <1>4 DEF WorkOK, Inputs
    <2> QED
        BY <1>1, <1>2, <1>4, <2>1, ListFacts DEF WorkOK, PCs, Working
<1> QED
    BY <1>1, <1>3, <1>5, QuietKeepsTypes DEF ReadList, server, caches

LEMMA RenderKeepsTypes ==
    ASSUME Types, NEW w \in Agents, Render(w) \/ RenderScripts(w)
    PROVE  Types'
<1> PICK q : q = pass[w]
    OBVIOUS
<1>1. /\ q.pc \in {"render", "scripts"} /\ WorkOK(q) /\ DOMAIN pass = Agents
      /\ UNCHANGED <<world, cfg, src, live, up, cfgCache, srcCache, secCache, secEvents, faults>>
    BY Worker DEF Render, RenderScripts, server, caches
<1>2. CASE Fail(w)
    BY <1>1, <1>2, QuietKeepsTypes
<1>3. CASE ~ Fail(w)
    <2>1. PICK r, t, x, n :
            /\ r \in Refs /\ t \in {"scripts", "get"}
            /\ pass' = [pass EXCEPT ![w].pc = t, ![w].ver[r] = n, ![w].order = x]
            /\ n = srcCache[M(w)][r] /\ UNCHANGED queue
        BY <1>3 DEF Render, RenderScripts, LoadRef, Refs
    <2>2. PICK p : /\ p = [q EXCEPT !.pc = t, !.ver[r] = n, !.order = x]
                   /\ pass' = [pass EXCEPT ![w] = p]
        <3> DEFINE p == [q EXCEPT !.pc = t, !.ver[r] = n, !.order = x]
        <3>1. pass' = [pass EXCEPT ![w] = p]
            BY <1>1, <2>1 DEF WorkOK, PassFields
        <3> QED
            BY <3>1
    <2>3. /\ p.pc = t /\ p.ver = [q.ver EXCEPT ![r] = n] /\ p.next = q.next /\ p.key = q.key
          /\ p.config = q.config /\ p.listed = q.listed /\ p.todo = q.todo
          /\ DOMAIN p = PassFields
        BY <1>1, <2>2 DEF WorkOK, PassFields
    <2>4. n \in Nat /\ r \in Sources /\ r # "config"
        <3>1. M(w) \in Managers
            BY DEF M, Agents
        <3> QED
            BY <2>1, <3>1 DEF Types, CachesShaped, Sources, Refs
    <2>5. p.ver \in [Inputs -> Nat] /\ p.ver["config"] = q.ver["config"]
        BY <1>1, <2>3, <2>4 DEF WorkOK, Inputs
    <2>6. WorkOK(p)
        BY <1>1, <2>1, <2>3, <2>5 DEF WorkOK, PCs, Working
    <2> QED
        BY <1>1, <2>1, <2>2, <2>6, QuietKeepsTypes
<1> QED
    BY <1>2, <1>3

LEMMA GetKeepsTypes ==
    ASSUME Types, NEW w \in Agents, GetSecret(w)
    PROVE  Types'
<1> PICK q : q = pass[w]
    OBVIOUS
<1>1. q.pc = "get" /\ WorkOK(q) /\ DOMAIN pass = Agents
    BY Worker DEF GetSecret
<1>2. PICK x, p : /\ p = [q EXCEPT !.pc = "write", !.base = x]
                  /\ pass' = [pass EXCEPT ![w] = p]
    BY <1>1 DEF GetSecret
<1>3. /\ p.pc = "write" /\ p.ver = q.ver /\ p.next = q.next /\ p.key = q.key
      /\ p.config = q.config /\ p.listed = q.listed /\ p.todo = q.todo
      /\ DOMAIN p = PassFields
    BY <1>1, <1>2 DEF WorkOK, PassFields
<1>4. WorkOK(p)
    BY <1>1, <1>3 DEF WorkOK, PCs, Working
<1> QED
    BY <1>1, <1>2, <1>4, QuietKeepsTypes DEF GetSecret, server, caches

\* The Secret belongs to a config that was there when the pass listed it.
LEMMA StoredTypes ==
    ASSUME Types, NEW w \in Agents, pass[w].pc = "write", NEW x, x = Outcome(w)
    PROVE  /\ pass[w].config \in Configs
           /\ DOMAIN x = Files \cup {"owner"}
           /\ x.owner \in {0} \cup Uids(pass[w].config, cfg[pass[w].config])
<1> PICK q : q = pass[w] /\ WorkOK(q)
    BY Worker
<1> PICK c : c = q.config
    OBVIOUS
<1> PICK t : t = Target(w)
    OBVIOUS
<1>1. c \in Configs /\ q.ver["config"] \in 1 .. cfg[c]
    BY DEF WorkOK, Working, PCs
<1>2. DOMAIN t = Files \cup {"owner"} /\ t.owner \in Uids(c, cfg[c])
    <2>1. t = Wanted(c, q.ver, q.order, world.compress[M(w)])
        BY DEF Target
    <2>2. DOMAIN t = Files \cup {"owner"} /\ t.owner = CfgAt(c, q.ver["config"]).uid
        BY <2>1 DEF Wanted, Files
    <2> QED
        BY <1>1, <2>2 DEF Uids
<1>3. live[c].owner \in {0} \cup Uids(c, cfg[c])
    BY <1>1 DEF Types, ServerOK
<1>4. CASE q.base = NoSecret
    BY <1>1, <1>2, <1>4 DEF Outcome
<1>5. CASE q.base # NoSecret
    <2>1. x = Patched(c, q.base, t)
        BY <1>5 DEF Outcome
    <2>2. DOMAIN x = Files \cup {"owner"} /\ x.owner \in {live[c].owner, t.owner}
        BY <2>1 DEF Patched, Files
    <2> QED
        BY <1>1, <1>2, <1>3, <2>2
<1> QED
    BY <1>4, <1>5

LEMMA WritesKeepTypes ==
    ASSUME Types, NEW w \in Agents, WriteSecret(w) \/ LoseWrite(w)
    PROVE  Types'
<1> PICK q : q = pass[w]
    OBVIOUS
<1>1. /\ q.pc = "write" /\ WorkOK(q) /\ DOMAIN pass = Agents /\ M(w) \in up
      /\ UNCHANGED <<world, cfg, src, up, cfgCache, srcCache, secCache>>
      /\ UNCHANGED faults \/ Fault
      /\ UNCHANGED <<live, secEvents>> \/ Store(w)
    BY Worker DEF WriteSecret, LoseWrite
<1>2. /\ \E p : WorkOK(p) /\ pass' = [pass EXCEPT ![w] = p]
      /\ UNCHANGED queue \/ \E S \in SUBSET Keys : Request(M(w), S)
    <2>1. CASE Fail(w)
        BY <1>1, <2>1, Failing
    <2>2. CASE ~ Fail(w)
        <3>1. /\ UNCHANGED queue
              /\ pass' = [pass EXCEPT ![w].pc = "next", ![w].base = NoSecret,
                                      ![w].ver = Idle.ver, ![w].order = Idle.order]
            BY <2>2 DEF WriteSecret, LoseWrite
        <3> PICK v, z : v = Idle.ver /\ z = Idle.order
            OBVIOUS
        <3>2. PICK p : /\ p = [q EXCEPT !.pc = "next", !.base = NoSecret, !.ver = v, !.order = z]
                       /\ pass' = [pass EXCEPT ![w] = p]
            <4> DEFINE p == [q EXCEPT !.pc = "next", !.base = NoSecret, !.ver = v, !.order = z]
            <4>1. pass' = [pass EXCEPT ![w] = p]
                BY <1>1, <3>1 DEF WorkOK, PassFields
            <4> QED
                BY <4>1
        <3>3. v \in [Inputs -> Nat]
            BY IdleWork DEF WorkOK
        <3>4. WorkOK(p)
            BY <1>1, <3>2, <3>3 DEF WorkOK, PassFields, PCs, Working
        <3> QED
            BY <3>1, <3>2, <3>4
    <2> QED
        BY <2>1, <2>2
<1>3. /\ DOMAIN queue' = Managers
      /\ \A m \in up : queue'[m] \subseteq Keys
      /\ \A m \in Managers \ up : queue'[m] = {}
    <2>1. CASE UNCHANGED queue
        BY <2>1 DEF Types, ServerOK, CachesShaped, ManagerOK
    <2>2. CASE \E S \in SUBSET Keys : Request(M(w), S)
        BY <1>1, <2>2, RequestTypes
    <2> QED
        BY <1>2, <2>1, <2>2
<1>4. ServerOK' /\ CachesShaped' /\ \A m \in Managers : ManagerOK(m)'
    <2>1. CASE UNCHANGED <<live, secEvents>>
        <3>1. ServerOK'
            BY <1>1, <2>1, BoundsAssumption
               DEF BoundsAssumption, Fault, Types, ServerOK, Uids, CfgAt
        <3>2. UNCHANGED Keys
            BY <1>1 DEF Keys, RequestsOf
        <3> QED
            BY <1>1, <1>3, <2>1, <3>1, <3>2 DEF Types, CachesShaped, ManagerOK, Known
    <2>2. CASE Store(w)
        BY <1>1, <1>3, <2>2, StoredTypes, WriteTypes DEF Store
    <2> QED
        BY <1>1, <2>1, <2>2
<1>5. WorkersOK'
    BY <1>1, <1>2, WorkerMoves
<1> QED
    BY <1>4, <1>5 DEF Types

LEMMA TypesNext == Types /\ [Next]_vars => Types'
<1> SUFFICES ASSUME Types, [Next]_vars PROVE Types'
    OBVIOUS
<1>1. CASE UNCHANGED vars
    <2>1. ServerOK' /\ CachesShaped' /\ \A m \in Managers : ManagerOK(m)'
        BY <1>1 DEF vars, server, caches, Types, ServerOK, CachesShaped, ManagerOK, Known,
           Uids, CfgAt, Keys, RequestsOf
    <2> QED
        BY <1>1, <2>1, WorkersKept DEF vars, server, caches, Types, ServerOK
<1>2. ASSUME NEW w \in Agents, Step(w) \/ LoseWrite(w) PROVE Types'
    BY <1>2, BeginKeepsTypes, TakeKeepsTypes, ReturnKeepsTypes, ReadListKeepsTypes,
       RenderKeepsTypes, GetKeepsTypes, WritesKeepTypes DEF Step
<1>3. ASSUME NEW m \in Managers, DeliverSecrets(m) \/ Restart(m) \/ RollOut(m) \/ Retire(m)
      PROVE  Types'
    BY <1>3, SecretsKeepTypes, StartsKeepTypes, RetireKeepsTypes
<1>4. ASSUME \/ \E c \in Configs : EditConfig(c) \/ CollectGarbage(c) \/ Tamper(c)
             \/ \E s \in Sources : EditSource(s)
      PROVE  Types'
    BY <1>4, EditsKeepTypes, OthersKeepTypes
<1> QED
    BY <1>1, <1>2, <1>3, <1>4, DeliveriesKeepTypes, ResyncKeepsTypes DEF Next

LEMMA TypesInit == Init => Types
<1> SUFFICES ASSUME Init PROVE Types
    OBVIOUS
<1>1. world \in Worlds
    BY DEF Init
<1>2. Head(world.managers) \in Managers
    <2>1. world.managers \in Seq(Managers) /\ world.managers # <<>>
        BY <1>1, WorldAssumption
    <2> QED
        BY <2>1
<1>3. ServerOK
    <2>1. DOMAIN NoSecret = Files \cup {"owner"} /\ NoSecret.owner = 0
        BY DEF NoSecret, Files
    <2> QED
        BY <1>1, <1>2, <2>1, Histories, BoundsAssumption DEF BoundsAssumption, Init, ServerOK
<1>4. CachesShaped
    BY DEF Init, CachesShaped, NoEvents
<1>5. ASSUME NEW m \in Managers PROVE ManagerOK(m)
    <2>1. AllRequests(cfg) \subseteq Keys
        BY DEF AllRequests, Watched, Keys, RequestsOf
    <2>2. \A c \in Configs : Sequence(secEvents[m][c]) /\ Known(m, c) = live[c]
        BY SequenceFacts DEF Init, NoEvents, Known
    <2> QED
        BY <2>1, <2>2 DEF Init, ManagerOK
<1>6. WorkersOK
    BY IdleWork DEF Init, WorkersOK
<1> QED
    BY <1>3, <1>4, <1>5, <1>6 DEF Types

\* Positions stay inside the histories, no cache runs ahead of the server, what is
\* on its way to a cache ends in what the server has, and a pass works through
\* configs that existed when it listed them: for any number of configs and managers.
THEOREM ConfigTypes == Spec => []TypeOK
<1>1. Types => TypeOK
    <2> SUFFICES ASSUME Types PROVE TypeOK
        OBVIOUS
    <2>1. ASSUME NEW w \in Agents
          PROVE  /\ pass[w].pc \in PCs /\ (M(w) \notin up => ~ Busy(w))
                 /\ \A x \in Agents \ {w} : M(x) # M(w)
                 /\ \A c \in pass[w].todo \cup (IF pass[w].pc \in {"idle", "next"} THEN {}
                                                ELSE {pass[w].config}) :
                       Exists(c, pass[w].listed[c])
        <3>1. WorkOK(pass[w]) /\ (M(w) \notin up => pass[w].pc = "idle")
            BY DEF Types, WorkersOK
        <3> QED
            BY <3>1, OneWorker DEF WorkOK, Busy, Working
    <2> QED
        BY <2>1 DEF Types, TypeOK, ServerOK, ManagerOK, Known, Last, Uids, PCs
<1> QED
    BY <1>1, TypesInit, TypesNext, PTL DEF Spec

-----------------------------------------------------------------------------
(* What a lone manager publishes, and what wakes it.                        *)

Cached(o, c, s) == IF s = "config" THEN cfgCache[o][c] ELSE srcCache[o][s]

\* What a pass has read of the sources so far.
Read(p) ==
    {s \in Sources :
        \/ p.pc \in {"get", "write"}
        \/ p.pc = "scripts" /\ s # "configMap"
        \/ p.pc = "render" /\ s \in ListNames
        \/ p.pc = "list" /\ \E i \in 1 .. Len(Lists) : i < p.next /\ s = Lists[i]}

PositionsOK ==
    /\ cfg \in [Configs -> Nat] /\ src \in [Sources -> Nat]
    /\ cfgCache \in [Managers -> [Configs -> Nat]]
    /\ srcCache \in [Managers -> [Sources -> Nat]]
    /\ DOMAIN live = Configs
    /\ \A c \in Configs : DOMAIN live[c] = Files \cup {"owner"}

\* A pass's variables, but for the lists' orders and the Secret it has read.
PassShaped(p) ==
    /\ DOMAIN p = PassFields
    /\ p.pc \in PCs
    /\ p.todo \subseteq Configs
    /\ p.next \in 1 .. Len(Lists)
    /\ p.ver \in [Inputs -> Nat]
    /\ p.listed \in [Configs -> Nat]
    /\ p.pc \in Working => p.config \in Configs

\* Manager o runs alone.
Alone(o) ==
    /\ up = {o}
    /\ \A m \in Managers \ {o} : queue[m] = {} /\ secEvents[m] = NoEvents
    /\ \A w \in Agents : M(w) # o => ~ Busy(w)

\* Its caches are behind the server, ...
CachesTrail(o) ==
    /\ \A c \in Configs : cfgCache[o][c] <= cfg[c]
    /\ \A s \in Sources : srcCache[o][s] <= src[s]

\* ... what is published is behind the caches, ...
Published(o) ==
    \A c \in Configs, k \in Files : \A s \in DOMAIN live[c][k].ver :
        /\ s \in Inputs /\ live[c][k].ver[s] \in Nat
        /\ live[c][k].ver[s] <= Cached(o, c, s)

\* ... and what a pass has read is between the two.
ListedBetween(o, p) ==
    \A c \in Configs :
        /\ p.listed[c] <= cfgCache[o][c]
        /\ \A k \in Files : "config" \in DOMAIN live[c][k].ver =>
                               live[c][k].ver["config"] <= p.listed[c]

ReadBetween(o, p) ==
    /\ p.ver["config"] = p.listed[p.config]
    /\ \A s \in Read(p) :
          /\ p.ver[s] <= srcCache[o][s]
          /\ \A k \in Files : s \in DOMAIN live[p.config][k].ver =>
                                 live[p.config][k].ver[s] <= p.ver[s]

PassOK(o, p) ==
    /\ PassShaped(p)
    /\ p.pc # "idle" => ListedBetween(o, p)
    /\ p.pc \in Working => ReadBetween(o, p)

Passes(o) == DOMAIN pass = Agents /\ \A w \in Agents : PassOK(o, pass[w])

OrderInv(o) ==
    /\ PositionsOK /\ Alone(o) /\ CachesTrail(o) /\ Published(o) /\ Passes(o)

BackInv == world \in Worlds /\ \A o \in Managers : world.managers = <<o>> => OrderInv(o)

-----------------------------------------------------------------------------
(* Facts about a pass, a write and a request.                               *)

LEMMA NoKeyIsEmpty == DOMAIN NoKey.ver = {}
    BY DEF NoKey

LEMMA IdlePass ==
    ASSUME NEW o, NEW p, p = Idle
    PROVE  PassOK(o, p)
<1>1. /\ p.pc = "idle" /\ p.todo = {} /\ p.next = 1 /\ p.ver \in [Inputs -> Nat]
      /\ p.listed \in [Configs -> Nat] /\ DOMAIN p = PassFields
    BY DEF Idle, Inputs, PassFields
<1> QED
    BY <1>1, ListFacts DEF PassOK, PassShaped, PCs, Working

LEMMA PutEffect ==
    ASSUME PositionsOK, NEW o \in Managers, Alone(o), NEW c \in Configs, NEW x, Put(c, x)
    PROVE  /\ UNCHANGED live \/ live' = [live EXCEPT ![c] = x]
           /\ \A m \in Managers \ {o} : secEvents'[m] = secEvents[m]
    BY DEF Put, Alone, PositionsOK

LEMMA RequestEffect ==
    ASSUME NEW o \in Managers, Alone(o), NEW S, Request(o, S)
    PROVE  \A m \in Managers \ {o} : queue'[m] = {}
    BY DEF Request, Alone

-----------------------------------------------------------------------------
(* What others do: the caches follow the server, keys are lost.             *)

\* The caches may move towards the server, and the server away from them.
LEMMA CachesRise ==
    ASSUME NEW o \in Managers, OrderInv(o), UNCHANGED <<live, pass, up>>, PositionsOK',
           \A c \in Configs : cfgCache[o][c] <= cfgCache'[o][c] /\ cfgCache'[o][c] <= cfg'[c],
           \A s \in Sources : srcCache[o][s] <= srcCache'[o][s] /\ srcCache'[o][s] <= src'[s],
           \A m \in Managers \ {o} : queue'[m] = queue[m] /\ secEvents'[m] = secEvents[m]
    PROVE  OrderInv(o)'
<1> USE DEF OrderInv
<1>1. Alone(o)'
    BY DEF Alone, Busy
<1>2. CachesTrail(o)'
    BY DEF CachesTrail
<1>3. Published(o)'
    <2> SUFFICES ASSUME NEW c \in Configs, NEW k \in Files, NEW s \in DOMAIN live[c][k].ver
                 PROVE  /\ s \in Inputs /\ live[c][k].ver[s] \in Nat
                        /\ live[c][k].ver[s] <= Cached(o, c, s)'
        BY DEF Published
    <2>1. /\ s \in Inputs /\ live[c][k].ver[s] \in Nat
          /\ live[c][k].ver[s] <= Cached(o, c, s)
        BY DEF Published
    <2>2. Cached(o, c, s) \in Nat /\ Cached(o, c, s)' \in Nat /\ Cached(o, c, s) <= Cached(o, c, s)'
        BY <2>1 DEF Cached, PositionsOK, Inputs
    <2> QED
        BY <2>1, <2>2
<1>4. Passes(o)'
    <2> SUFFICES ASSUME NEW w \in Agents, NEW p, p = pass[w] PROVE PassOK(o, p)'
        BY DEF Passes, PassOK, PassShaped, ListedBetween, ReadBetween, Read
    <2>1. PassOK(o, p)
        BY DEF Passes
    <2>2. ASSUME p.pc # "idle" PROVE ListedBetween(o, p)'
        <3>1. ListedBetween(o, p) /\ p.listed \in [Configs -> Nat]
            BY <2>1, <2>2 DEF PassOK, PassShaped
        <3>2. \A c \in Configs : cfgCache[o][c] \in Nat /\ cfgCache'[o][c] \in Nat
            BY DEF PositionsOK
        <3> QED
            BY <3>1, <3>2 DEF ListedBetween
    <2>3. ASSUME p.pc \in Working PROVE ReadBetween(o, p)'
        <3>1. ReadBetween(o, p) /\ p.ver \in [Inputs -> Nat]
            BY <2>1, <2>3 DEF PassOK, PassShaped
        <3>2. \A s \in Read(p) : /\ s \in Sources /\ p.ver[s] \in Nat
                                 /\ srcCache[o][s] \in Nat /\ srcCache'[o][s] \in Nat
            BY <3>1 DEF PositionsOK, Read, Inputs
        <3> QED
            BY <3>1, <3>2 DEF ReadBetween, Read
    <2> QED
        BY <2>1, <2>2, <2>3 DEF PassOK, PassShaped
<1> QED
    BY <1>1, <1>2, <1>3, <1>4

\* Others write nothing they rendered themselves: they only empty keys.
LEMMA KeysFall ==
    ASSUME NEW o \in Managers, OrderInv(o), NEW c \in Configs, NEW x, Put(c, x),
           UNCHANGED <<cfg, src, cfgCache, srcCache, pass, up, queue>>,
           DOMAIN x = Files \cup {"owner"}, \A k \in Files : x[k] \in {NoKey, live[c][k]}
    PROVE  OrderInv(o)'
<1> USE DEF OrderInv
<1>1. /\ DOMAIN live' = Configs
      /\ \A d \in Configs : /\ DOMAIN live'[d] = Files \cup {"owner"}
                            /\ \A k \in Files : live'[d][k] \in {NoKey, live[d][k]}
    BY PutEffect DEF PositionsOK
<1>2. \A d \in Configs, k \in Files : \A s \in DOMAIN live'[d][k].ver :
         s \in DOMAIN live[d][k].ver /\ live'[d][k].ver[s] = live[d][k].ver[s]
    BY <1>1, NoKeyIsEmpty
<1>3. PositionsOK'
    BY <1>1 DEF PositionsOK
<1>4. Alone(o)'
    BY PutEffect DEF Alone, Busy
<1>5. CachesTrail(o)'
    BY DEF CachesTrail
<1>6. Published(o)'
    BY <1>2 DEF Published, Cached
<1>7. Passes(o)'
    <2> SUFFICES ASSUME NEW w \in Agents, NEW p, p = pass[w] PROVE PassOK(o, p)'
        BY DEF Passes, PassOK, PassShaped, ListedBetween, ReadBetween, Read
    <2>1. PassOK(o, p)
        BY DEF Passes
    <2>2. p.pc # "idle" => ListedBetween(o, p)'
        BY <1>2, <2>1 DEF PassOK, ListedBetween
    <2>3. p.pc \in Working => ReadBetween(o, p)'
        BY <1>2, <2>1 DEF PassOK, PassShaped, ReadBetween, Read
    <2> QED
        BY <2>1, <2>2, <2>3 DEF PassOK, PassShaped
<1> QED
    BY <1>3, <1>4, <1>5, <1>6, <1>7

LEMMA OthersKeepOrder ==
    ASSUME NEW o \in Managers, OrderInv(o),
           \/ \E c \in Configs : EditConfig(c) \/ CollectGarbage(c) \/ Tamper(c)
           \/ \E s \in Sources : EditSource(s)
           \/ DeliverObjects
           \/ \E m \in Managers : DeliverSecrets(m)
           \/ \E m \in up : Resync(m)
    PROVE  OrderInv(o)'
<1> USE DEF OrderInv
<1>1. ASSUME NEW c \in Configs, EditConfig(c) PROVE OrderInv(o)'
    <2>1. /\ cfg' = [cfg EXCEPT ![c] = @ + 1]
          /\ UNCHANGED <<src, live, up, cfgCache, srcCache, secEvents, queue, pass>>
        BY <1>1 DEF EditConfig, caches
    <2>2. PositionsOK' /\ \A d \in Configs : cfgCache[o][d] <= cfg'[d]
        BY <2>1 DEF PositionsOK, CachesTrail
    <2>3. /\ \A d \in Configs : cfgCache[o][d] <= cfgCache[o][d]
          /\ \A s \in Sources : srcCache[o][s] <= srcCache[o][s] /\ srcCache[o][s] <= src[s]
        BY DEF PositionsOK, CachesTrail
    <2> QED
        BY <2>1, <2>2, <2>3, CachesRise
<1>2. ASSUME NEW s \in Sources, EditSource(s) PROVE OrderInv(o)'
    <2>1. /\ src' = [src EXCEPT ![s] = @ + 1]
          /\ UNCHANGED <<cfg, live, up, cfgCache, srcCache, secEvents, queue, pass>>
        BY <1>2 DEF EditSource, caches
    <2>2. PositionsOK' /\ \A t \in Sources : srcCache[o][t] <= src'[t]
        BY <2>1 DEF PositionsOK, CachesTrail
    <2>3. /\ \A t \in Sources : srcCache[o][t] <= srcCache[o][t]
          /\ \A d \in Configs : cfgCache[o][d] <= cfgCache[o][d] /\ cfgCache[o][d] <= cfg[d]
        BY DEF PositionsOK, CachesTrail
    <2> QED
        BY <2>1, <2>2, <2>3, CachesRise
<1>3. ASSUME NEW c \in Configs, DeliverConfig(o, c) PROVE OrderInv(o)'
    <2>1. /\ cfgCache[o][c] < cfg[c] /\ cfgCache' = [cfgCache EXCEPT ![o][c] = @ + 1]
          /\ Request(o, {c})
          /\ UNCHANGED <<cfg, src, live, up, srcCache, secEvents, pass>>
        BY <1>3 DEF DeliverConfig, server
    <2>2. /\ PositionsOK'
          /\ \A d \in Configs : cfgCache[o][d] <= cfgCache'[o][d] /\ cfgCache'[o][d] <= cfg[d]
        BY <2>1 DEF PositionsOK, CachesTrail
    <2>3. \A s \in Sources : srcCache[o][s] <= srcCache[o][s] /\ srcCache[o][s] <= src[s]
        BY DEF PositionsOK, CachesTrail
    <2>4. \A m \in Managers \ {o} : queue'[m] = queue[m]
        BY <2>1, RequestEffect DEF Alone
    <2> QED
        BY <2>1, <2>2, <2>3, <2>4, CachesRise
<1>4. ASSUME NEW s \in Sources, DeliverSource(o, s) PROVE OrderInv(o)'
    <2>1. /\ srcCache[o][s] < src[s] /\ srcCache' = [srcCache EXCEPT ![o][s] = @ + 1]
          /\ Request(o, RequestsOf({s} \cap Watched))
          /\ UNCHANGED <<cfg, src, live, up, cfgCache, secEvents, pass>>
        BY <1>4 DEF DeliverSource, server
    <2>2. /\ PositionsOK'
          /\ \A t \in Sources : srcCache[o][t] <= srcCache'[o][t] /\ srcCache'[o][t] <= src[t]
        BY <2>1 DEF PositionsOK, CachesTrail
    <2>3. \A d \in Configs : cfgCache[o][d] <= cfgCache[o][d] /\ cfgCache[o][d] <= cfg[d]
        BY DEF PositionsOK, CachesTrail
    <2>4. \A m \in Managers \ {o} : queue'[m] = queue[m]
        BY <2>1, RequestEffect DEF Alone
    <2> QED
        BY <2>1, <2>2, <2>3, <2>4, CachesRise
<1>5. ASSUME NEW m \in Managers,
             (\E c \in Configs : DeliverSecret(m, c)) \/ (m \in up /\ Resync(m))
      PROVE  OrderInv(o)'
    <2>1. m = o
        BY <1>5 DEF DeliverSecret, Alone, NoEvents
    <2>2. /\ \E S : Request(o, S)
          /\ \A n \in Managers \ {o} : secEvents'[n] = secEvents[n]
          /\ UNCHANGED <<cfg, src, live, up, cfgCache, srcCache, pass>>
        <3>1. CASE \E c \in Configs : DeliverSecret(o, c)
            BY <3>1 DEF DeliverSecret, server
        <3>2. CASE Resync(o)
            BY <3>2 DEF Resync, server, caches
        <3> QED
            BY <1>5, <2>1, <3>1, <3>2
    <2>3. /\ PositionsOK'
          /\ \A d \in Configs : cfgCache[o][d] <= cfgCache[o][d] /\ cfgCache[o][d] <= cfg[d]
          /\ \A s \in Sources : srcCache[o][s] <= srcCache[o][s] /\ srcCache[o][s] <= src[s]
        BY <2>2 DEF PositionsOK, CachesTrail
    <2>4. \A n \in Managers \ {o} : queue'[n] = queue[n]
        BY <2>2, RequestEffect DEF Alone
    <2> QED
        BY <2>2, <2>3, <2>4, CachesRise
<1>6. ASSUME NEW c \in Configs, CollectGarbage(c) \/ Tamper(c) PROVE OrderInv(o)'
    <2>1. /\ \E x \in {NoSecret, [live[c] EXCEPT !.parsers = NoKey]} : Put(c, x)
          /\ UNCHANGED <<cfg, src, cfgCache, srcCache, pass, up, queue>>
        BY <1>6 DEF CollectGarbage, Tamper
    <2>2. ASSUME NEW x \in {NoSecret, [live[c] EXCEPT !.parsers = NoKey]}
          PROVE  DOMAIN x = Files \cup {"owner"} /\ \A k \in Files : x[k] \in {NoKey, live[c][k]}
        <3>1. CASE x = NoSecret
            BY <3>1 DEF NoSecret, Files
        <3>2. CASE x = [live[c] EXCEPT !.parsers = NoKey]
            BY <3>2 DEF PositionsOK, Files
        <3> QED
            BY <3>1, <3>2
    <2> QED
        BY <2>1, <2>2, KeysFall
<1>7. ASSUME DeliverObjects PROVE OrderInv(o)'
    <2>1. up = {o}
        BY DEF Alone
    <2> QED
        BY <1>3, <1>4, <1>7, <2>1 DEF DeliverObjects
<1> QED
    BY <1>1, <1>2, <1>5, <1>6, <1>7 DEF DeliverSecrets, Alone

-----------------------------------------------------------------------------
(* What the worker does.                                                    *)

LEMMA RestartKeepsOrder ==
    ASSUME NEW o \in Managers, OrderInv(o), \E m \in Managers : Restart(m)
    PROVE  OrderInv(o)'
<1> USE DEF OrderInv
<1>1. /\ Start(o) /\ UNCHANGED <<cfg, src, live, up>>
    BY DEF Restart, Alone, server
<1>2. /\ cfgCache'[o] = cfg /\ srcCache'[o] = src /\ PositionsOK'
    BY <1>1 DEF Start, PositionsOK
<1>3. \A m \in Managers \ {o} : queue'[m] = {} /\ secEvents'[m] = NoEvents
    BY <1>1 DEF Start, Alone
<1>4. /\ DOMAIN pass' = Agents
      /\ \A w \in Agents : pass'[w] = IF M(w) = o THEN Idle ELSE pass[w]
    BY <1>1 DEF Start
<1>5. \A w \in Agents : pass'[w].pc = "idle" /\ PassShaped(pass'[w])
    <2>1. \A w \in Agents : PassOK(o, pass'[w])
        BY <1>4, IdlePass DEF Alone, Busy, Passes
    <2>2. Idle.pc = "idle"
        BY DEF Idle
    <2> QED
        BY <1>4, <2>1, <2>2 DEF Alone, Busy, PassOK
<1>6. Alone(o)'
    BY <1>1, <1>3, <1>5 DEF Alone, Busy
<1>7. CachesTrail(o)'
    BY <1>1, <1>2 DEF CachesTrail, PositionsOK
<1>8. Published(o)'
    <2> SUFFICES ASSUME NEW c \in Configs, NEW k \in Files, NEW s \in DOMAIN live[c][k].ver
                 PROVE  /\ s \in Inputs /\ live[c][k].ver[s] \in Nat
                        /\ live[c][k].ver[s] <= Cached(o, c, s)'
        BY <1>1 DEF Published
    <2>1. /\ s \in Inputs /\ live[c][k].ver[s] \in Nat
          /\ live[c][k].ver[s] <= Cached(o, c, s)
        BY DEF Published
    <2>2. /\ Cached(o, c, s) \in Nat /\ Cached(o, c, s)' \in Nat
          /\ Cached(o, c, s) <= Cached(o, c, s)'
        BY <1>2, <2>1 DEF Cached, PositionsOK, CachesTrail, Inputs
    <2> QED
        BY <2>1, <2>2
<1>9. Passes(o)'
    BY <1>4, <1>5 DEF Passes, PassOK, PassShaped, Working
<1> QED
    BY <1>2, <1>6, <1>7, <1>8, <1>9

\* A step of the worker that writes nothing.
LEMMA PassMoves ==
    ASSUME NEW o \in Managers, OrderInv(o), NEW w \in Agents, M(w) = o, NEW p,
           PassOK(o, p), pass' = [pass EXCEPT ![w] = p],
           UNCHANGED <<cfg, src, live, up, cfgCache, srcCache, secEvents>>,
           \A m \in Managers \ {o} : queue'[m] = queue[m]
    PROVE  OrderInv(o)'
<1> USE DEF OrderInv
<1>1. /\ DOMAIN pass' = Agents /\ pass'[w] = p
      /\ \A x \in Agents : x # w => pass'[x] = pass[x]
    BY DEF Passes
<1>2. \A x \in Agents : PassOK(o, pass'[x])
    BY <1>1 DEF Passes
<1>3. Passes(o)'
    <2> SUFFICES ASSUME NEW x \in Agents, NEW q, q = pass'[x] PROVE PassOK(o, q)'
        BY <1>1 DEF Passes, PassOK, PassShaped, ListedBetween, ReadBetween, Read
    <2>1. PassOK(o, q)
        BY <1>2
    <2> QED
        BY <2>1 DEF PassOK, PassShaped, ListedBetween, ReadBetween, Read
<1>5. Alone(o)'
    BY <1>1 DEF Alone, Busy
<1>6. PositionsOK' /\ CachesTrail(o)' /\ Published(o)'
    BY DEF PositionsOK, CachesTrail, Published, Cached
<1> QED
    BY <1>3, <1>5, <1>6

\* An error ends the pass and touches no other manager.
LEMMA FailMoves ==
    ASSUME NEW o \in Managers, OrderInv(o), NEW w \in Agents, M(w) = o, Fail(w)
    PROVE  /\ \E p : PassOK(o, p) /\ pass' = [pass EXCEPT ![w] = p]
           /\ \A m \in Managers \ {o} : queue'[m] = queue[m]
<1>1. \A m \in Managers \ {o} : queue'[m] = queue[m]
    BY RequestEffect DEF Fail, OrderInv, Alone
<1> QED
    BY <1>1, IdlePass DEF Fail

LEMMA BeginKeepsOrder ==
    ASSUME NEW o \in Managers, OrderInv(o), NEW w \in Agents, Begin(w)
    PROVE  OrderInv(o)'
<1>1. M(w) = o /\ \A m \in Managers \ {o} : queue'[m] = queue[m]
    BY DEF Begin, OrderInv, Alone, Agents, M
<1>2. PICK k, p : /\ p = [Idle EXCEPT !.pc = "next", !.key = k, !.listed = cfgCache[o],
                                      !.todo = Listed(cfgCache[o])]
                  /\ pass' = [pass EXCEPT ![w] = p]
    BY <1>1 DEF Begin
<1>3. PassOK(o, p)
    <2> PICK i : i = Idle
        OBVIOUS
    <2>1. /\ p.pc = "next" /\ p.todo \subseteq Configs /\ p.next = 1
          /\ p.ver \in [Inputs -> Nat] /\ p.listed = cfgCache[o]
          /\ DOMAIN p = PassFields
        <3>1. /\ DOMAIN i = PassFields
              /\ i.pc = "idle" /\ i.next = 1 /\ i.ver \in [Inputs -> Nat]
            BY DEF Idle, Inputs, PassFields
        <3>2. p = [i EXCEPT !.pc = "next", !.key = k, !.listed = cfgCache[o],
                            !.todo = Listed(cfgCache[o])]
            BY <1>2
        <3> QED
            BY <3>1, <3>2 DEF Listed, PassFields
    <2>2. ListedBetween(o, p)
        <3> SUFFICES ASSUME NEW c \in Configs
                     PROVE  /\ p.listed[c] <= cfgCache[o][c]
                            /\ \A k2 \in Files : "config" \in DOMAIN live[c][k2].ver =>
                                   live[c][k2].ver["config"] <= p.listed[c]
            BY DEF ListedBetween
        <3>1. p.listed[c] = cfgCache[o][c] /\ cfgCache[o][c] \in Nat
            BY <2>1 DEF OrderInv, PositionsOK
        <3> QED
            BY <3>1 DEF OrderInv, Published, Cached
    <2> QED
        BY <2>1, <2>2, ListFacts DEF PassOK, PassShaped, PCs, Working, OrderInv, PositionsOK
<1> QED
    BY <1>1, <1>2, <1>3, PassMoves DEF Begin, server, caches

LEMMA TakeKeepsOrder ==
    ASSUME NEW o \in Managers, OrderInv(o), NEW w \in Agents, NEW c \in Configs, Take(w, c)
    PROVE  OrderInv(o)'
<1>1. M(w) = o /\ UNCHANGED <<cfg, src, live, up, cfgCache, srcCache, secEvents>>
      /\ pass[w].pc = "next"
    BY DEF Take, OrderInv, Alone, Busy, server, caches
<1>2. CASE Fail(w)
    BY <1>1, <1>2, FailMoves, PassMoves
<1>3. CASE ~ Fail(w)
    <2> PICK q : q = pass[w]
        OBVIOUS
    <2> DEFINE p == [q EXCEPT !.pc = "list", !.todo = q.todo \ {c}, !.config = c, !.next = 1,
                              !.ver["config"] = q.listed[c]]
    <2>1. PassOK(o, q)
        BY DEF OrderInv, Passes
    <2>2. pass' = [pass EXCEPT ![w] = p] /\ UNCHANGED queue
        BY <1>3, <2>1 DEF Take, PassOK, PassShaped, PassFields, OrderInv, Passes
    <2>3. /\ p.pc = "list" /\ p.todo \subseteq Configs /\ p.next = 1 /\ p.config = c
          /\ p.ver \in [Inputs -> Nat] /\ p.listed = q.listed /\ p.ver["config"] = q.listed[c]
          /\ DOMAIN p = PassFields
        BY <2>1 DEF PassOK, PassShaped, PassFields, Inputs
    <2> HIDE DEF p
    <2>4. ListedBetween(o, p)
        BY <1>1, <2>1, <2>3 DEF PassOK, ListedBetween
    <2>5. Read(p) = {}
        BY <2>3, ListFacts DEF Read
    <2>6. PassOK(o, p)
        BY <2>1, <2>3, <2>4, <2>5, ListFacts DEF PassOK, PassShaped, ReadBetween, PCs, Working
    <2> QED
        BY <1>1, <2>2, <2>6, PassMoves
<1> QED
    BY <1>2, <1>3

LEMMA ReturnKeepsOrder ==
    ASSUME NEW o \in Managers, OrderInv(o), NEW w \in Agents, Return(w)
    PROVE  OrderInv(o)'
<1>1. M(w) = o
    BY DEF Return, OrderInv, Alone, Busy
<1> QED
    BY <1>1, IdlePass, PassMoves DEF Return, server, caches

\* A pass that goes on with the same config, and has read r as well if need be.
LEMMA ReadMore ==
    ASSUME NEW o \in Managers, OrderInv(o), NEW w \in Agents, pass[w].pc \in Working,
           NEW r \in Sources, NEW p, PassShaped(p), p.pc \in Working,
           p.config = pass[w].config, p.listed = pass[w].listed,
           p.ver = [pass[w].ver EXCEPT ![r] = srcCache[o][r]],
           Read(p) \subseteq Read(pass[w]) \cup {r}
    PROVE  PassOK(o, p)
<1> PICK q : q = pass[w]
    OBVIOUS
<1>1. PassOK(o, q)
    BY DEF OrderInv, Passes
<1>2. "config" \notin Sources
    BY ListFacts DEF Sources, Refs
<1>3. /\ q.ver \in [Inputs -> Nat] /\ r \in Inputs /\ "config" \in Inputs
      /\ q.config \in Configs /\ srcCache[o][r] \in Nat
    BY <1>1 DEF PassOK, PassShaped, Inputs, OrderInv, PositionsOK
<1>4. ListedBetween(o, p)
    BY <1>1 DEF PassOK, ListedBetween, Working
<1>5. p.ver["config"] = p.listed[p.config]
    BY <1>1, <1>2, <1>3 DEF PassOK, ReadBetween
<1>6. ASSUME NEW s \in Read(p)
      PROVE  /\ p.ver[s] <= srcCache[o][s]
             /\ \A k \in Files : s \in DOMAIN live[p.config][k].ver =>
                                    live[p.config][k].ver[s] <= p.ver[s]
    <2>1. CASE s = r
        <3>1. p.ver[s] = srcCache[o][r]
            BY <1>3, <2>1
        <3>2. \A k \in Files : r \in DOMAIN live[q.config][k].ver =>
                                  live[q.config][k].ver[r] <= srcCache[o][r]
            BY <1>2, <1>3 DEF OrderInv, Published, Cached
        <3> QED
            BY <1>3, <2>1, <3>1, <3>2
    <2>2. CASE s # r
        <3>1. s \in Read(q) /\ p.ver[s] = q.ver[s]
            BY <1>3, <2>2 DEF Read, Inputs
        <3> QED
            BY <1>1, <3>1 DEF PassOK, ReadBetween
    <2> QED
        BY <2>1, <2>2
<1> QED
    BY <1>4, <1>5, <1>6 DEF PassOK, ReadBetween

LEMMA ReadListKeepsOrder ==
    ASSUME NEW o \in Managers, OrderInv(o), NEW w \in Agents, ReadList(w)
    PROVE  OrderInv(o)'
<1> PICK q : q = pass[w]
    OBVIOUS
<1>1. M(w) = o /\ q.pc = "list" /\ PassOK(o, q)
    BY DEF ReadList, OrderInv, Alone, Busy, Passes
<1> PICK s : s = Lists[q.next]
    OBVIOUS
<1>2. s \in Sources /\ q.next \in 1 .. 4
    BY <1>1, ListFacts DEF PassOK, PassShaped, Sources
<1>3. PICK x, p : /\ pass' = [pass EXCEPT ![w] = p]
                  /\ p = [q EXCEPT !.ver[s] = srcCache[o][s], !.order[s] = x,
                                   !.next = IF @ = Len(Lists) THEN 1 ELSE @ + 1,
                                   !.pc = IF s = Lists[Len(Lists)] THEN "render" ELSE @]
    <2>1. PICK x : pass' = [pass EXCEPT ![w].ver[s] = srcCache[o][s], ![w].order[s] = x,
                               ![w].next = IF @ = Len(Lists) THEN 1 ELSE @ + 1,
                               ![w].pc = IF s = Lists[Len(Lists)] THEN "render" ELSE @]
        BY <1>1 DEF ReadList
    <2> DEFINE p == [q EXCEPT !.ver[s] = srcCache[o][s], !.order[s] = x,
                              !.next = IF @ = Len(Lists) THEN 1 ELSE @ + 1,
                              !.pc = IF s = Lists[Len(Lists)] THEN "render" ELSE @]
    <2>2. pass' = [pass EXCEPT ![w] = p]
        BY <1>1, <2>1 DEF OrderInv, Passes, PassOK, PassShaped, PassFields
    <2> QED
        BY <2>2
<1>4. /\ p.ver = [q.ver EXCEPT ![s] = srcCache[o][s]]
      /\ p.next = IF q.next = 4 THEN 1 ELSE q.next + 1
      /\ p.pc = IF s = "parser" THEN "render" ELSE "list"
      /\ p.config = q.config /\ p.listed = q.listed /\ p.todo = q.todo
      /\ DOMAIN p = PassFields
    BY <1>1, <1>3, ListFacts DEF PassOK, PassShaped, PassFields
<1>5. PassShaped(p)
    <2>1. p.ver \in [Inputs -> Nat]
        BY <1>1, <1>2, <1>4 DEF PassOK, PassShaped, OrderInv, PositionsOK, Inputs
    <2> QED
        BY <1>1, <1>2, <1>4, <2>1, ListFacts DEF PassOK, PassShaped, PCs, Working
<1>6. Read(p) \subseteq Read(q) \cup {s}
    <2>1. CASE q.next = 4
        BY <1>1, <1>4, <2>1, ListFacts DEF Read
    <2>2. CASE q.next \in 1 .. 3
        BY <1>1, <1>4, <2>2, ListFacts DEF Read
    <2> QED
        BY <1>2, <2>1, <2>2
<1>7. PassOK(o, p)
    BY <1>1, <1>2, <1>4, <1>5, <1>6, ReadMore DEF Working, PCs
<1> QED
    BY <1>1, <1>3, <1>7, PassMoves DEF ReadList, server, caches

LEMMA RenderKeepsOrder ==
    ASSUME NEW o \in Managers, OrderInv(o), NEW w \in Agents, Render(w) \/ RenderScripts(w)
    PROVE  OrderInv(o)'
<1> PICK q : q = pass[w]
    OBVIOUS
<1>1. /\ M(w) = o /\ q.pc \in {"render", "scripts"} /\ PassOK(o, q)
      /\ UNCHANGED <<cfg, src, live, up, cfgCache, srcCache, secEvents>>
    BY DEF Render, RenderScripts, OrderInv, Alone, Busy, Passes, server, caches
<1>2. CASE Fail(w)
    BY <1>1, <1>2, FailMoves, PassMoves
<1>3. CASE ~ Fail(w)
    <2>1. PICK r, t, x :
            /\ pass' = [pass EXCEPT ![w].pc = t, ![w].ver[r] = srcCache[o][r], ![w].order = x]
            /\ UNCHANGED queue
            /\ \/ q.pc = "render" /\ r = "secret" /\ t = "scripts"
               \/ q.pc = "scripts" /\ r = "configMap" /\ t = "get"
        BY <1>1, <1>3 DEF Render, RenderScripts, LoadRef
    <2> r \in Refs
        BY <2>1 DEF Refs
    <2>2. PICK p : /\ p = [q EXCEPT !.pc = t, !.ver[r] = srcCache[o][r], !.order = x]
                   /\ pass' = [pass EXCEPT ![w] = p]
        <3> DEFINE p == [q EXCEPT !.pc = t, !.ver[r] = srcCache[o][r], !.order = x]
        <3>1. pass' = [pass EXCEPT ![w] = p]
            BY <1>1, <2>1 DEF OrderInv, Passes, PassOK, PassShaped, PassFields
        <3> QED
            BY <3>1
    <2>3. /\ p.pc = t /\ p.ver = [q.ver EXCEPT ![r] = srcCache[o][r]] /\ p.next = q.next
          /\ p.config = q.config /\ p.listed = q.listed /\ p.todo = q.todo
          /\ DOMAIN p = PassFields
        BY <1>1, <2>2 DEF PassOK, PassShaped, PassFields
    <2>4. p.pc \in {"scripts", "get"} /\ r \in Sources
        BY <2>1, <2>3 DEF Sources
    <2>5. PassShaped(p)
        BY <1>1, <2>3, <2>4 DEF PassOK, PassShaped, OrderInv, PositionsOK, Inputs, PCs, Working
    <2>6. Read(p) \subseteq Read(q) \cup {r}
        BY <2>1, <2>3, ListFacts DEF Read, Sources, Refs
    <2>7. PassOK(o, p)
        BY <1>1, <2>3, <2>4, <2>5, <2>6, ReadMore DEF Working, PCs
    <2> QED
        BY <1>1, <2>1, <2>2, <2>7, PassMoves
<1> QED
    BY <1>2, <1>3

LEMMA GetKeepsOrder ==
    ASSUME NEW o \in Managers, OrderInv(o), NEW w \in Agents, GetSecret(w)
    PROVE  OrderInv(o)'
<1> PICK q : q = pass[w]
    OBVIOUS
<1>1. M(w) = o /\ q.pc = "get" /\ PassOK(o, q)
    BY DEF GetSecret, OrderInv, Alone, Busy, Passes
<1>2. PICK x, p : /\ p = [q EXCEPT !.pc = "write", !.base = x]
                  /\ pass' = [pass EXCEPT ![w] = p]
    BY DEF GetSecret, OrderInv, Passes
<1>3. /\ p.pc = "write" /\ p.ver = q.ver /\ p.next = q.next
      /\ p.config = q.config /\ p.listed = q.listed /\ p.todo = q.todo
      /\ DOMAIN p = PassFields
    BY <1>1, <1>2 DEF PassOK, PassShaped, PassFields
<1>4. Read(p) = Read(q)
    BY <1>1, <1>3 DEF Read
<1>5. PassOK(o, p)
    BY <1>1, <1>3, <1>4 DEF PassOK, PassShaped, ListedBetween, ReadBetween, PCs, Working
<1> QED
    BY <1>1, <1>2, <1>5, PassMoves DEF GetSecret, server, caches

-----------------------------------------------------------------------------
(* What a pass writes.                                                      *)

\* The parts of what a pass wants were rendered from what it has read.
LEMMA WantedParts ==
    ASSUME NEW c, NEW ver, NEW order, NEW z, NEW k \in Files, NEW t,
           t = Wanted(c, ver, order, z)[k], world.selects[c] \subseteq Sources
    PROVE  \A s \in DOMAIN t.ver : s \in Inputs /\ t.ver[s] = ver[s]
<1>1. CASE k = "main"
    BY <1>1 DEF Wanted, RenderMainConfig, Part, Inputs
<1>2. CASE k = "parsers"
    BY <1>2 DEF Wanted, RenderParserConfig, Part, Inputs
<1>3. CASE k = "scripts"
    <2>1. t = RenderLuaScript(c, ver, order)
        BY <1>3 DEF Wanted
    <2> QED
        BY <2>1, NoKeyIsEmpty DEF RenderLuaScript, Part, Inputs
<1> QED
    BY <1>1, <1>2, <1>3 DEF Files

\* Each part of the Secret stays as it is or is what the pass wants.
LEMMA StoredParts ==
    ASSUME world \in Worlds, DOMAIN live = Configs,
           \A d \in Configs : DOMAIN live[d] = Files \cup {"owner"},
           NEW w \in Agents, pass[w].config \in Configs, Store(w)
    PROVE  /\ DOMAIN live' = Configs
           /\ \A d \in Configs :
                /\ DOMAIN live'[d] = Files \cup {"owner"}
                /\ d # pass[w].config => live'[d] = live[d]
                /\ \A k \in Files : \/ live'[d][k] = live[d][k]
                                    \/ \A s \in DOMAIN live'[d][k].ver :
                                          /\ s \in Inputs
                                          /\ live'[d][k].ver[s] = pass[w].ver[s]
<1> PICK c \in Configs : c = pass[w].config
    OBVIOUS
<1> PICK x : x = Outcome(w)
    OBVIOUS
<1> PICK t : t = Target(w)
    OBVIOUS
<1>1. world.selects[c] \subseteq Sources
    BY WorldAssumption
<1>2. /\ DOMAIN t = Files \cup {"owner"}
      /\ \A k \in Files : \A s \in DOMAIN t[k].ver : s \in Inputs /\ t[k].ver[s] = pass[w].ver[s]
    <2>1. t = Wanted(c, pass[w].ver, pass[w].order, world.compress[M(w)])
        BY DEF Target
    <2>2. DOMAIN t = Files \cup {"owner"}
        BY <2>1 DEF Wanted, Files
    <2>3. ASSUME NEW k \in Files, NEW u, u = t[k]
          PROVE  \A s \in DOMAIN u.ver : s \in Inputs /\ u.ver[s] = pass[w].ver[s]
        BY <1>1, <2>1, <2>3, WantedParts
    <2> QED
        BY <2>2, <2>3
<1>3. DOMAIN x = Files \cup {"owner"} /\ \A k \in Files : x[k] \in {t[k], live[c][k]}
    <2>1. CASE pass[w].base = NoSecret
        BY <1>2, <2>1 DEF Outcome
    <2>2. CASE pass[w].base # NoSecret
        <3>1. x = Patched(c, pass[w].base, t)
            BY <2>2 DEF Outcome
        <3> QED
            BY <3>1 DEF Patched, Files
    <2> QED
        BY <2>1, <2>2
<1>4. UNCHANGED live \/ live' = [live EXCEPT ![c] = x]
    BY DEF Store, Put
<1> QED
    BY <1>2, <1>3, <1>4

\* A write moves no key back, and the keys stay behind the caches.
LEMMA WriteForward ==
    ASSUME NEW o \in Managers, OrderInv(o), NEW w \in Agents, M(w) = o,
           pass[w].pc = "write", NEW d \in Configs, NEW k \in Files, NEW y,
           \/ y = live[d][k]
           \/ /\ d = pass[w].config
              /\ \A s \in DOMAIN y.ver : s \in Inputs /\ y.ver[s] = pass[w].ver[s]
    PROVE  /\ \A s \in DOMAIN y.ver :
                /\ s \in Inputs /\ y.ver[s] \in Nat /\ y.ver[s] <= Cached(o, d, s)
                /\ s = "config" => y.ver[s] <= pass[w].listed[d]
           /\ ~ Backwards(live[d][k], y)
<1> PICK p : p = pass[w]
    OBVIOUS
<1>1. PassOK(o, p) /\ p.pc = "write"
    BY DEF OrderInv, Passes
<1>2. \A s \in DOMAIN live[d][k].ver :
        /\ s \in Inputs /\ live[d][k].ver[s] \in Nat /\ live[d][k].ver[s] <= Cached(o, d, s)
        /\ s = "config" => live[d][k].ver[s] <= p.listed[d]
    BY <1>1 DEF OrderInv, Published, PassOK, ListedBetween
<1>3. CASE y = live[d][k]
    BY <1>2, <1>3 DEF Backwards
<1>4. CASE /\ d = p.config
           /\ \A s \in DOMAIN y.ver : s \in Inputs /\ y.ver[s] = p.ver[s]
    <2>1. Read(p) = Sources
        BY <1>1 DEF Read
    <2>2. ASSUME NEW s \in Inputs
          PROVE  /\ p.ver[s] \in Nat /\ p.ver[s] <= Cached(o, d, s)
                 /\ s = "config" => p.ver[s] <= p.listed[d]
                 /\ s \in DOMAIN live[d][k].ver => live[d][k].ver[s] <= p.ver[s]
        <3>1. p.ver[s] \in Nat
            BY <1>1 DEF PassOK, PassShaped
        <3>2. CASE s = "config"
            BY <1>1, <1>2, <1>4, <3>1, <3>2
               DEF PassOK, ListedBetween, ReadBetween, Cached, Working, PCs
        <3>3. CASE s # "config"
            BY <1>1, <1>4, <2>1, <3>1, <3>3 DEF PassOK, ReadBetween, Cached, Working, PCs, Inputs
        <3> QED
            BY <3>1, <3>2, <3>3
    <2> QED
        BY <1>2, <1>4, <2>2 DEF Backwards
<1> QED
    BY <1>3, <1>4

\* What the worker does with the Secret it has read: it stores something or
\* nothing, and goes on with other variables.
LEMMA WriteKeepsOrder ==
    ASSUME NEW o \in Managers, OrderInv(o), world \in Worlds, NEW w \in Agents, M(w) = o,
           pass[w].pc = "write", UNCHANGED <<live, secEvents>> \/ Store(w),
           NEW p, PassShaped(p), pass' = [pass EXCEPT ![w] = p],
           p.pc \notin Working, p.pc # "idle" => p.listed = pass[w].listed,
           UNCHANGED <<cfg, src, up, cfgCache, srcCache>>,
           \A m \in Managers \ {o} : queue'[m] = queue[m]
    PROVE  /\ OrderInv(o)'
           /\ \A d \in Configs, k \in Files : ~ Backwards(live[d][k], live'[d][k])
<1> PICK q : q = pass[w] /\ PassOK(o, q)
    BY DEF OrderInv, Passes
<1>1. /\ DOMAIN live' = Configs
      /\ \A d \in Configs :
           /\ DOMAIN live'[d] = Files \cup {"owner"}
           /\ \A k \in Files :
                \/ live'[d][k] = live[d][k]
                \/ /\ d = q.config
                   /\ \A s \in DOMAIN live'[d][k].ver : s \in Inputs /\ live'[d][k].ver[s] = q.ver[s]
    <2>1. CASE UNCHANGED <<live, secEvents>>
        BY <2>1 DEF OrderInv, PositionsOK
    <2>2. CASE Store(w)
        <3>1. q.config \in Configs
            BY DEF PassOK, PassShaped, Working, PCs
        <3> QED
            BY <2>2, <3>1, StoredParts DEF OrderInv, PositionsOK
    <2> QED
        BY <2>1, <2>2
<1>2. \A d \in Configs, k \in Files :
        /\ \A s \in DOMAIN live'[d][k].ver :
              /\ s \in Inputs /\ live'[d][k].ver[s] \in Nat
              /\ live'[d][k].ver[s] <= Cached(o, d, s)
              /\ s = "config" => live'[d][k].ver[s] <= q.listed[d]
        /\ ~ Backwards(live[d][k], live'[d][k])
    BY <1>1, WriteForward
<1>3. PositionsOK' /\ CachesTrail(o)'
    BY <1>1 DEF OrderInv, PositionsOK, CachesTrail
<1>4. Published(o)'
    BY <1>2 DEF Published, Cached
<1>5. Alone(o)'
    <2>1. \A m \in Managers \ {o} : secEvents'[m] = secEvents[m]
        <3>1. pass[w].config \in Configs
            BY DEF OrderInv, Passes, PassOK, PassShaped, Working, PCs
        <3> QED
            BY <3>1, PutEffect DEF Store, OrderInv
    <2>2. \A x \in Agents : x # w => pass'[x] = pass[x]
        BY DEF OrderInv, Passes
    <2> QED
        BY <2>1, <2>2 DEF OrderInv, Alone, Busy
<1>6. Passes(o)'
    <2>1. DOMAIN pass' = Agents
        BY DEF OrderInv, Passes
    <2>2. ASSUME NEW x \in Agents, NEW r, r = pass'[x] PROVE PassOK(o, r)'
        <3>1. CASE x = w
            <4>1. r = p
                BY <2>2, <3>1 DEF OrderInv, Passes
            <4>2. p.pc # "idle" => ListedBetween(o, p)'
                BY <1>2 DEF ListedBetween, PassOK, Working, PCs
            <4> QED
                BY <4>1, <4>2 DEF PassOK, PassShaped
        <3>2. CASE x # w
            <4>1. r = pass[x] /\ r.pc = "idle" /\ PassOK(o, r)
                BY <2>2, <3>2, OneWorker DEF OrderInv, Passes, Alone, Busy
            <4> QED
                BY <4>1 DEF PassOK, PassShaped, Working
        <3> QED
            BY <3>1, <3>2
    <2> QED
        BY <2>1, <2>2 DEF Passes, PassOK, PassShaped, ListedBetween, ReadBetween, Read
<1> QED
    BY <1>2, <1>3, <1>4, <1>5, <1>6 DEF OrderInv

LEMMA WritesKeepOrder ==
    ASSUME NEW o \in Managers, OrderInv(o), world \in Worlds, NEW w \in Agents,
           WriteSecret(w) \/ LoseWrite(w)
    PROVE  /\ OrderInv(o)'
           /\ \A d \in Configs, k \in Files : ~ Backwards(live[d][k], live'[d][k])
<1> PICK q : q = pass[w]
    OBVIOUS
<1>1. /\ M(w) = o /\ q.pc = "write" /\ PassOK(o, q) /\ DOMAIN pass = Agents
      /\ UNCHANGED <<cfg, src, up, cfgCache, srcCache>>
      /\ UNCHANGED <<live, secEvents>> \/ Store(w)
    BY DEF WriteSecret, LoseWrite, OrderInv, Alone, Busy, Passes
<1>2. CASE Fail(w)
    <2>1. PICK p : p = Idle
        OBVIOUS
    <2>2. PassShaped(p) /\ p.pc = "idle" /\ pass' = [pass EXCEPT ![w] = p]
        <3>1. Idle.pc = "idle"
            BY DEF Idle
        <3> QED
            BY <1>2, <2>1, <3>1, IdlePass DEF Fail, PassOK
    <2>3. \A m \in Managers \ {o} : queue'[m] = queue[m]
        BY <1>1, <1>2, FailMoves
    <2> QED
        BY <1>1, <2>2, <2>3, WriteKeepsOrder DEF Working
<1>3. CASE ~ Fail(w)
    <2>1. /\ UNCHANGED queue
          /\ pass' = [pass EXCEPT ![w].pc = "next", ![w].base = NoSecret,
                                  ![w].ver = Idle.ver, ![w].order = Idle.order]
        BY <1>3 DEF WriteSecret, LoseWrite
    <2> PICK v, z : v = Idle.ver /\ z = Idle.order
        OBVIOUS
    <2>2. PICK p : /\ p = [q EXCEPT !.pc = "next", !.base = NoSecret, !.ver = v, !.order = z]
                   /\ pass' = [pass EXCEPT ![w] = p]
        <3> DEFINE p == [q EXCEPT !.pc = "next", !.base = NoSecret, !.ver = v, !.order = z]
        <3>1. pass' = [pass EXCEPT ![w] = p]
            BY <1>1, <2>1 DEF PassOK, PassShaped, PassFields
        <3> QED
            BY <3>1
    <2>3. v \in [Inputs -> Nat]
        BY IdlePass DEF PassOK, PassShaped
    <2>4. PassShaped(p) /\ p.pc = "next" /\ p.listed = q.listed
        BY <1>1, <2>2, <2>3 DEF PassOK, PassShaped, PassFields, PCs, Working
    <2>5. p.pc \notin Working /\ p.listed = pass[w].listed /\ pass[w].pc = "write"
        BY <1>1, <2>4 DEF Working
    <2>6. \A m \in Managers \ {o} : queue'[m] = queue[m]
        BY <2>1
    <2> QED
        BY <1>1, <2>2, <2>4, <2>5, <2>6, WriteKeepsOrder
<1> QED
    BY <1>2, <1>3

\* No step of a manager that runs alone breaks the order.
LEMMA OrderNext ==
    ASSUME NEW o \in Managers, OrderInv(o), world \in Worlds, world.managers = <<o>>,
           [Next]_vars
    PROVE  OrderInv(o)'
<1>1. CASE UNCHANGED vars
    BY <1>1 DEF vars, server, caches, OrderInv, PositionsOK, Alone, Busy, CachesTrail,
       Published, Cached, Passes, PassOK, PassShaped, ListedBetween, ReadBetween, Read
<1>2. ASSUME NEW m \in Managers, RollOut(m) \/ Retire(m) PROVE FALSE
    <2>1. Len(world.managers) = 1
        OBVIOUS
    <2> QED
        BY <1>2, <2>1 DEF RollOut, Retire
<1>3. ASSUME NEW w \in Agents, Step(w) \/ LoseWrite(w) PROVE OrderInv(o)'
    BY <1>3, BeginKeepsOrder, TakeKeepsOrder, ReturnKeepsOrder, ReadListKeepsOrder,
       RenderKeepsOrder, GetKeepsOrder, WritesKeepOrder DEF Step
<1> QED
    BY <1>1, <1>2, <1>3, OthersKeepOrder, RestartKeepsOrder DEF Next

LEMMA LoneManager ==
    ASSUME world \in Worlds, Len(world.managers) = 1
    PROVE  \E o \in Managers : world.managers = <<o>>
<1>1. world.managers \in Seq(Managers)
    BY WorldAssumption
<1>2. ASSUME NEW T, NEW s \in Seq(T), Len(s) = 1 PROVE \E x \in T : s = <<x>>
    BY <1>2
<1> QED
    BY <1>1, <1>2

LEMMA SameWorld == ASSUME [Next]_vars PROVE UNCHANGED world
<1>1. ASSUME NEW w \in Agents, Step(w) \/ LoseWrite(w) PROVE UNCHANGED world
    BY <1>1 DEF Step, LoseWrite, Begin, Take, Return, ReadList, Render, RenderScripts,
       GetSecret, WriteSecret
<1>2. ASSUME NEW m \in Managers,
             DeliverSecrets(m) \/ Restart(m) \/ RollOut(m) \/ Retire(m) \/ Resync(m)
      PROVE  UNCHANGED world
    BY <1>2 DEF DeliverSecrets, DeliverSecret, Restart, RollOut, Retire, Resync
<1>3. ASSUME \E m \in up : Resync(m) PROVE UNCHANGED world
    BY <1>3 DEF Resync
<1>4. ASSUME DeliverObjects PROVE UNCHANGED world
    BY <1>4 DEF DeliverObjects, DeliverConfig, DeliverSource
<1>5. ASSUME \/ \E c \in Configs : EditConfig(c) \/ CollectGarbage(c) \/ Tamper(c)
             \/ \E s \in Sources : EditSource(s)
      PROVE  UNCHANGED world
    BY <1>5 DEF EditConfig, CollectGarbage, Tamper, EditSource
<1> QED
    BY <1>1, <1>2, <1>3, <1>4, <1>5 DEF Next, vars

LEMMA BackNext == BackInv /\ [Next]_vars => BackInv'
    BY SameWorld, OrderNext DEF BackInv

LEMMA BackInit == Init => BackInv
<1> SUFFICES ASSUME Init, NEW o \in Managers, world.managers = <<o>> PROVE OrderInv(o)
    BY DEF BackInv, Init
<1>1. PositionsOK
    BY DEF Init, PositionsOK, NoSecret, Files
<1>2. \A w \in Agents : PassOK(o, pass[w]) /\ pass[w].pc = "idle"
    <2>1. Idle.pc = "idle"
        BY DEF Idle
    <2> QED
        BY <2>1, IdlePass DEF Init
<1>3. Alone(o)
    <2>1. Head(world.managers) = o
        OBVIOUS
    <2> QED
        BY <1>2, <2>1 DEF Init, Alone, Busy
<1>4. CachesTrail(o)
    BY DEF Init, CachesTrail
<1>5. Published(o)
    <2>1. \A c \in Configs, k \in Files : live[c][k] = NoKey
        BY DEF Init, NoSecret, Files
    <2> QED
        BY <2>1, NoKeyIsEmpty DEF Published
<1> QED
    BY <1>1, <1>2, <1>3, <1>4, <1>5 DEF OrderInv, Passes, Init

\* A manager that runs alone publishes no key rendered from older objects than
\* the published one, whatever is edited, deleted or lost meanwhile: its only
\* worker reads no object older than the one it rendered last.
THEOREM OnlyForward == Spec => NeverBackwards
<1>1. ASSUME BackInv, [Next]_vars, NEW w \in Agents, NEW c \in Configs,
             Len(world.managers) = 1, WriteSecret(w)
      PROVE  /\ ~ Backwards(live[c].main, live'[c].main)
             /\ ~ Backwards(live[c].parsers, live'[c].parsers)
             /\ ~ Backwards(live[c].scripts, live'[c].scripts)
    <2>1. PICK o \in Managers : world.managers = <<o>>
        BY <1>1, LoneManager DEF BackInv
    <2>2. \A d \in Configs, k \in Files : ~ Backwards(live[d][k], live'[d][k])
        BY <1>1, <2>1, WritesKeepOrder DEF BackInv
    <2> QED
        BY <2>2 DEF Files
<1>2. BackInv /\ [Next]_vars =>
        [\A w \in Agents, c \in Configs : Len(world.managers) = 1 /\ WriteSecret(w) =>
            LET old == live[c]
                new == live'[c]
            IN  /\ ~ Backwards(old.main, new.main)
                /\ ~ Backwards(old.parsers, new.parsers)
                /\ ~ Backwards(old.scripts, new.scripts)]_vars
    BY <1>1
<1>3. Spec => []BackInv
    BY BackInit, BackNext, PTL DEF Spec
<1> QED
    BY <1>2, <1>3, PTL DEF Spec, NeverBackwards

-----------------------------------------------------------------------------
(* The promise of ConfigPublisher.                                          *)

\* What has been read, and what is published, are states that have been.
AheadInv ==
    /\ \A w \in Agents, s \in Sources : pass[w].ver[s] <= src[s]
    /\ \A c \in Configs, f \in Files : \A i \in DOMAIN live[c][f].ver :
          i \in Inputs /\ live[c][f].ver[i] \in Nat /\ live[c][f].ver[i] <= Now(c, i)

LEMMA AheadInit == Init => AheadInv
<1> SUFFICES ASSUME Init PROVE AheadInv
    OBVIOUS
<1>1. \A s \in Sources : Idle.ver[s] = 1
    BY DEF Idle
<1>2. \A c \in Configs, f \in Files : live[c][f] = NoKey
    BY DEF Init, NoSecret, Files
<1> QED
    BY <1>1, <1>2, NoKeyIsEmpty DEF Init, AheadInv

\* The server's states go on, the Secrets stay.
LEMMA OnlyEdits ==
    ASSUME Types, AheadInv, UNCHANGED <<world, live>>,
           \A c \in Configs : cfg'[c] \in Nat /\ cfg[c] <= cfg'[c],
           \A s \in Sources : src'[s] \in Nat /\ src[s] <= src'[s],
           \A w \in Agents, s \in Sources : pass'[w].ver[s] <= src'[s]
    PROVE  AheadInv' /\ Publisher!Edit
<1>1. \A c \in Configs, i \in Inputs :
        Now(c, i) \in Nat /\ Now(c, i)' \in Nat /\ Now(c, i) <= Now(c, i)'
    BY DEF Types, ServerOK, Now, Inputs
<1>2. AheadInv'
    BY <1>1 DEF AheadInv
<1>3. Publisher!Edit
    BY <1>1 DEF Publisher!Edit, Shown
<1> QED
    BY <1>2, <1>3

\* One Secret is written: each file stays as it is, or is of the rendering v.
LEMMA OnlyWrites ==
    ASSUME Types, AheadInv, UNCHANGED <<world, cfg, src>>, NEW c \in Configs,
           DOMAIN live' = Configs, \A d \in Configs \ {c} : live'[d] = live[d],
           NEW v, \A i \in Inputs : v[i] \in Nat /\ v[i] <= Now(c, i),
           \A f \in Files :
               \/ live'[c][f] = live[c][f]
               \/ \A i \in DOMAIN live'[c][f].ver : i \in Inputs /\ live'[c][f].ver[i] = v[i],
           Len(world.managers) = 1 =>
               \A f \in Files : ~ Backwards(live[c][f], live'[c][f]),
           \A w \in Agents, s \in Sources : pass'[w].ver[s] <= src[s]
    PROVE  AheadInv' /\ Publisher!Write(c)
<1>1. UNCHANGED [d \in Configs |-> [i \in Inputs |-> Now(d, i)]]
    BY DEF Now
<1>2. AheadInv'
    <2> SUFFICES ASSUME NEW d \in Configs, NEW f \in Files, NEW i \in DOMAIN live'[d][f].ver
                 PROVE  /\ i \in Inputs /\ live'[d][f].ver[i] \in Nat
                        /\ live'[d][f].ver[i] <= Now(d, i)'
        BY DEF AheadInv
    <2>1. Now(d, i)' = Now(d, i)
        BY DEF Now
    <2> QED
        BY <2>1 DEF AheadInv
<1> DEFINE old(f) == Shown(live[c][f])
           new(f) == Shown(live'[c][f])
<1>3. ASSUME NEW f \in Files
      PROVE  /\ old(f) \in [Inputs -> Nat] /\ new(f) \in [Inputs -> Nat]
             /\ new(f) # old(f) => \A i \in Inputs : new(f)[i] \in {0, v[i]}
             /\ Len(world.managers) = 1 =>
                  \A i \in Inputs : new(f)[i] = 0 \/ old(f)[i] <= new(f)[i]
    <2>1. /\ \A i \in DOMAIN live[c][f].ver : live[c][f].ver[i] \in Nat
          /\ \A i \in DOMAIN live'[c][f].ver : live'[c][f].ver[i] \in Nat
        BY <1>2 DEF AheadInv
    <2>2. old(f) \in [Inputs -> Nat] /\ new(f) \in [Inputs -> Nat]
        BY <2>1 DEF Shown
    <2>3. new(f) # old(f) => \A i \in Inputs : new(f)[i] \in {0, v[i]}
        BY DEF Shown
    <2>4. ASSUME Len(world.managers) = 1, NEW i \in Inputs
          PROVE  new(f)[i] = 0 \/ old(f)[i] <= new(f)[i]
        <3>1. ~ Backwards(live[c][f], live'[c][f])
            BY <2>4
        <3> QED
            BY <2>1, <3>1 DEF Shown, Backwards
    <2> QED
        BY <2>2, <2>3, <2>4
<1>4. Publisher!Write(c)
    <2>1. \A d \in Configs, f \in Files : Shown(live'[d][f]) \in [Inputs -> Nat]
        BY <1>2 DEF AheadInv, Shown
    <2> PICK n : n = [d \in Configs |-> [i \in Inputs |-> Now(d, i)]]
        OBVIOUS
    <2> PICK was : was = [d \in Configs |-> [f \in Files |-> Shown(live[d][f])]]
        OBVIOUS
    <2> PICK is : is = [d \in Configs |-> [f \in Files |-> Shown(live'[d][f])]]
        OBVIOUS
    <2>2. /\ is \in [Configs -> [Files -> [Inputs -> Nat]]]
          /\ \A d \in Configs \ {c} : is[d] = was[d]
        BY <2>1
    <2>3. \A f \in Files : was[c][f] = old(f) /\ is[c][f] = new(f)
        OBVIOUS
    <2>4. /\ \A i \in Inputs : n[c][i] = Now(c, i)
          /\ n = [d \in Configs |-> [i \in Inputs |-> Now(d, i)]]'
        BY <1>1
    <2>5. is = [d \in Configs |-> [f \in Files |-> Shown(live[d][f])]]'
        BY DEF Shown
    <2> HIDE DEF old, new
    <2>6. \A f \in Files, i \in Inputs : is[c][f] # was[c][f] => is[c][f][i] <= n[c][i]
        <3>1. \A i \in Inputs : v[i] <= n[c][i] /\ 0 <= n[c][i]
            BY <2>4 DEF Types, ServerOK, Now, Inputs
        <3> QED
            BY <1>3, <2>3, <3>1
    <2>7. \A f, g \in Files, i \in Inputs :
            is[c][f] # was[c][f] /\ is[c][g] # was[c][g]
              => is[c][f][i] \in {0, is[c][g][i]} \/ is[c][g][i] = 0
        BY <1>3, <2>3
    <2>8. Len(world.managers) = 1 =>
            \A f \in Files, i \in Inputs : is[c][f][i] = 0 \/ was[c][f][i] <= is[c][f][i]
        BY <1>3, <2>3
    <2> QED
        BY <2>2, <2>4, <2>5, <2>6, <2>7, <2>8 DEF Publisher!Write
<1> QED
    BY <1>2, <1>4

\* Others empty files.
LEMMA OthersPublish ==
    ASSUME Types, AheadInv, NEW c \in Configs, CollectGarbage(c) \/ Tamper(c)
    PROVE  AheadInv' /\ (UNCHANGED <<world, cfg, src, live>> \/ Publisher!Write(c))
<1> DEFINE v == [i \in Inputs |-> 0]
<1>1. /\ UNCHANGED <<world, cfg, src, pass>>
      /\ UNCHANGED live \/ \E x \in {NoSecret, [live[c] EXCEPT !.parsers = NoKey]} :
                             live' = [live EXCEPT ![c] = x]
    BY DEF CollectGarbage, Tamper, Put
<1>2. CASE UNCHANGED live
    BY <1>1, <1>2 DEF AheadInv, Now
<1>3. CASE \E x \in {NoSecret, [live[c] EXCEPT !.parsers = NoKey]} :
             live' = [live EXCEPT ![c] = x]
    <2>1. DOMAIN live' = Configs /\ \A d \in Configs \ {c} : live'[d] = live[d]
        BY <1>3 DEF Types, ServerOK
    <2>2. \A f \in Files : live'[c][f] \in {NoKey, live[c][f]}
        BY <1>3 DEF Types, ServerOK, NoSecret, Files
    <2>3. \A f \in Files : ~ Backwards(live[c][f], live'[c][f])
        <3> SUFFICES ASSUME NEW f \in Files, live'[c][f] = live[c][f]
                     PROVE  ~ Backwards(live[c][f], live[c][f])
            BY <2>2, NoKeyIsEmpty DEF Backwards
        <3> QED
            BY DEF Backwards, AheadInv
    <2>4. \A i \in Inputs : v[i] \in Nat /\ v[i] <= Now(c, i)
        BY DEF Types, ServerOK, Now, Inputs
    <2>5. \A f \in Files : \/ live'[c][f] = live[c][f]
                           \/ DOMAIN live'[c][f].ver = {}
        BY <2>2, NoKeyIsEmpty
    <2>6. \A w \in Agents, s \in Sources : pass'[w].ver[s] <= src[s]
        BY <1>1 DEF AheadInv
    <2> HIDE DEF v
    <2> QED
        BY <1>1, <2>1, <2>3, <2>4, <2>5, <2>6, OnlyWrites
<1> QED
    BY <1>1, <1>2, <1>3

\* A pass writes what it has read, in whatever part of it the patch consists.
LEMMA PassesPublish ==
    ASSUME Types, AheadInv, BackInv, NEW w \in Agents, WriteSecret(w) \/ LoseWrite(w)
    PROVE  /\ AheadInv'
           /\ UNCHANGED <<world, cfg, src, live>> \/ \E c \in Configs : Publisher!Write(c)
<1> PICK p : p = pass[w]
    OBVIOUS
<1>1. /\ UNCHANGED <<world, cfg, src>> /\ p.pc = "write" /\ world \in Worlds
      /\ UNCHANGED live \/ Store(w)
      /\ \E q : pass' = [pass EXCEPT ![w] = q] /\ q.ver = Idle.ver
    <2>1. pass' = [pass EXCEPT ![w] = Idle] \/
          pass' = [pass EXCEPT ![w].pc = "next", ![w].base = NoSecret,
                               ![w].ver = Idle.ver, ![w].order = Idle.order]
        BY DEF WriteSecret, LoseWrite, Fail
    <2>2. \E q : pass' = [pass EXCEPT ![w] = q] /\ q.ver = Idle.ver
        <3>1. CASE pass' = [pass EXCEPT ![w] = Idle]
            BY <3>1
        <3>2. CASE pass' = [pass EXCEPT ![w].pc = "next", ![w].base = NoSecret,
                                        ![w].ver = Idle.ver, ![w].order = Idle.order]
            <4> PICK u, z : u = Idle.ver /\ z = Idle.order
                OBVIOUS
            <4> DEFINE q == [p EXCEPT !.pc = "next", !.base = NoSecret, !.ver = u, !.order = z]
            <4>1. pass' = [pass EXCEPT ![w] = q]
                BY <3>2 DEF Types, WorkersOK, WorkOK, PassFields
            <4>2. q.ver = u
                BY DEF Types, WorkersOK, WorkOK, PassFields
            <4> QED
                BY <4>1, <4>2
        <3> QED
            BY <2>1, <3>1, <3>2
    <2> QED
        BY <2>2 DEF WriteSecret, LoseWrite, Types, ServerOK
<1>2. \A x \in Agents, s \in Sources : pass'[x].ver[s] <= src[s]
    <2>1. \A s \in Sources : Idle.ver[s] <= src[s]
        BY DEF Idle, Types, ServerOK
    <2> QED
        BY <1>1, <2>1 DEF AheadInv, Types, WorkersOK
<1>3. CASE UNCHANGED live
    BY <1>1, <1>2, <1>3 DEF AheadInv, Now
<1>4. CASE Store(w)
    <2> PICK c \in Configs : c = p.config
        BY <1>1 DEF Types, WorkersOK, WorkOK, Working, PCs
    <2>1. /\ DOMAIN live' = Configs /\ \A d \in Configs \ {c} : live'[d] = live[d]
          /\ \A f \in Files :
                \/ live'[c][f] = live[c][f]
                \/ \A i \in DOMAIN live'[c][f].ver : i \in Inputs /\ live'[c][f].ver[i] = p.ver[i]
        <3>1. /\ DOMAIN live = Configs /\ pass[w].config \in Configs
              /\ \A d \in Configs : DOMAIN live[d] = Files \cup {"owner"}
            BY DEF Types, ServerOK
        <3> QED
            BY <1>1, <1>4, <3>1, StoredParts
    <2>2. \A i \in Inputs : p.ver[i] \in Nat /\ p.ver[i] <= Now(c, i)
        <3>1. WorkOK(p) /\ p.pc \in Working
            BY <1>1 DEF Types, WorkersOK, Working, PCs
        <3> QED
            BY <3>1 DEF WorkOK, Now, Inputs, AheadInv, Working, PCs
    <2>3. Len(world.managers) = 1 => \A f \in Files : ~ Backwards(live[c][f], live'[c][f])
        <3> SUFFICES ASSUME Len(world.managers) = 1
                     PROVE  \A f \in Files : ~ Backwards(live[c][f], live'[c][f])
            OBVIOUS
        <3>1. PICK o \in Managers : world.managers = <<o>>
            BY <1>1, LoneManager
        <3> QED
            BY <1>1, <3>1, WritesKeepOrder DEF BackInv
    <2> QED
        BY <1>1, <1>2, <2>1, <2>2, <2>3, OnlyWrites
<1> QED
    BY <1>1, <1>3, <1>4

\* The other steps of a worker: what it reads is what its cache has.
LEMMA PassesRead ==
    ASSUME Types, AheadInv, NEW w \in Agents,
           \/ Begin(w) \/ Return(w) \/ ReadList(w) \/ Render(w) \/ RenderScripts(w)
           \/ GetSecret(w) \/ \E c \in Configs : Take(w, c)
    PROVE  /\ UNCHANGED <<world, cfg, src, live>>
           /\ \A x \in Agents, s \in Sources : pass'[x].ver[s] <= src[s]
<1> PICK q : q = pass[w]
    OBVIOUS
<1>1. UNCHANGED <<world, cfg, src, live>>
    BY DEF Begin, Return, ReadList, Render, RenderScripts, GetSecret, Take, server
<1>2. /\ WorkOK(q) /\ DOMAIN pass = Agents /\ DOMAIN q = PassFields
      /\ q.ver \in [Inputs -> Nat]
    BY Worker DEF WorkOK
<1>3. PICK p : /\ pass' = [pass EXCEPT ![w] = p]
               /\ \A s \in Sources : \/ p.ver[s] \in {1, q.ver[s]}
                                     \/ q.pc # "idle" /\ p.ver[s] = srcCache[M(w)][s]
    <2> PICK i : i = Idle
        OBVIOUS
    <2>1. DOMAIN i = PassFields /\ \A s \in Sources : i.ver[s] = 1
        BY DEF Idle, PassFields
    <2>2. CASE Fail(w) \/ Return(w)
        BY <2>1, <2>2 DEF Fail, Return
    <2>3. CASE Begin(w)
        <3>1. PICK k, p : /\ pass' = [pass EXCEPT ![w] = p]
                          /\ p = [i EXCEPT !.pc = "next", !.key = k,
                                           !.listed = cfgCache[M(w)],
                                           !.todo = Listed(cfgCache[M(w)])]
            BY <2>3 DEF Begin
        <3>2. p.ver = i.ver
            BY <2>1, <3>1 DEF PassFields
        <3> QED
            BY <2>1, <3>1, <3>2
    <2>4. CASE ~ Fail(w) /\ \E c \in Configs : Take(w, c)
        <3> PICK c \in Configs : Take(w, c)
            BY <2>4
        <3> PICK l : l = q.listed[c]
            OBVIOUS
        <3>1. pass' = [pass EXCEPT ![w].pc = "list", ![w].todo = @ \ {c}, ![w].config = c,
                                   ![w].next = 1, ![w].ver["config"] = l]
            BY <2>4 DEF Take
        <3> DEFINE p == [q EXCEPT !.pc = "list", !.todo = @ \ {c}, !.config = c, !.next = 1,
                                  !.ver["config"] = l]
        <3>2. pass' = [pass EXCEPT ![w] = p] /\ p.ver = [q.ver EXCEPT !["config"] = l]
            BY <1>2, <3>1 DEF PassFields
        <3>3. \A s \in Sources : p.ver[s] = q.ver[s]
            BY <1>2, <3>2, ListFacts DEF Inputs, Sources, Refs
        <3> QED
            BY <3>2, <3>3
    <2>5. CASE ReadList(w)
        <3> PICK r : r = Lists[q.next]
            OBVIOUS
        <3> PICK v : v = srcCache[M(w)][r]
            OBVIOUS
        <3>1. PICK o :
                pass' = [pass EXCEPT ![w].ver[r] = v, ![w].order[r] = o,
                                     ![w].next = IF @ = Len(Lists) THEN 1 ELSE @ + 1,
                                     ![w].pc = IF r = Lists[Len(Lists)] THEN "render" ELSE @]
            BY <2>5 DEF ReadList
        <3> DEFINE p == [q EXCEPT !.ver[r] = v, !.order[r] = o,
                                  !.next = IF @ = Len(Lists) THEN 1 ELSE @ + 1,
                                  !.pc = IF r = Lists[Len(Lists)] THEN "render" ELSE @]
        <3>2. pass' = [pass EXCEPT ![w] = p]
            BY <1>2, <3>1 DEF PassFields
        <3>3. p.ver = [q.ver EXCEPT ![r] = v]
            BY <1>2 DEF PassFields
        <3>4. \A s \in Sources : p.ver[s] = q.ver[s] \/ (s = r /\ p.ver[s] = v)
            BY <1>2, <3>3 DEF Inputs
        <3>5. q.pc # "idle"
            BY <2>5 DEF ReadList
        <3>6. \A s \in Sources : \/ p.ver[s] \in {1, q.ver[s]}
                                 \/ q.pc # "idle" /\ p.ver[s] = srcCache[M(w)][s]
            BY <3>4, <3>5
        <3> HIDE DEF p
        <3> QED
            BY <3>2, <3>6, Zenon
    <2>6. CASE ~ Fail(w) /\ (Render(w) \/ RenderScripts(w))
        <3>1. PICK r, t, o : pass' = [pass EXCEPT ![w].pc = t, ![w].ver[r] = srcCache[M(w)][r],
                                                  ![w].order = o]
            BY <2>6 DEF Render, RenderScripts, LoadRef
        <3> PICK v : v = srcCache[M(w)][r]
            OBVIOUS
        <3> DEFINE p == [q EXCEPT !.pc = t, !.ver[r] = v, !.order = o]
        <3>2. pass' = [pass EXCEPT ![w] = p]
            BY <1>2, <3>1 DEF PassFields
        <3>3. p.ver = [q.ver EXCEPT ![r] = v]
            BY <1>2 DEF PassFields
        <3>4. \A s \in Sources : p.ver[s] = q.ver[s] \/ (s = r /\ p.ver[s] = v)
            BY <1>2, <3>3 DEF Inputs
        <3>5. q.pc # "idle"
            BY <2>6 DEF Render, RenderScripts
        <3> HIDE DEF p
        <3> QED
            BY <3>2, <3>4, <3>5
    <2>7. CASE GetSecret(w)
        <3>1. PICK b : pass' = [pass EXCEPT ![w].pc = "write", ![w].base = b]
            BY <2>7 DEF GetSecret
        <3> DEFINE p == [q EXCEPT !.pc = "write", !.base = b]
        <3>2. pass' = [pass EXCEPT ![w] = p] /\ p.ver = q.ver
            BY <1>2, <3>1 DEF PassFields
        <3> QED
            BY <3>2
    <2> QED
        BY <2>2, <2>3, <2>4, <2>5, <2>6, <2>7
<1>4. \A s \in Sources : 1 <= src[s] /\ q.ver[s] <= src[s]
    BY DEF Types, ServerOK, AheadInv
<1>5. q.pc # "idle" => \A s \in Sources : srcCache[M(w)][s] <= src[s]
    BY <1>4, Worker DEF Types, ServerOK, ManagerOK
<1>6. \A s \in Sources : p.ver[s] <= src[s]
    BY <1>3, <1>4, <1>5
<1> QED
    BY <1>1, <1>2, <1>3, <1>6 DEF AheadInv

LEMMA PublisherStep ==
    ASSUME Types, AheadInv, BackInv, [Next]_vars
    PROVE  AheadInv' /\ [Publisher!Next]_(Publisher!vars)
<1>1. \A c \in Configs : cfg[c] \in Nat
    BY DEF Types, ServerOK
<1>2. \A s \in Sources : src[s] \in Nat
    BY DEF Types, ServerOK
<1>3. ASSUME UNCHANGED <<world, cfg, src, live>> PROVE UNCHANGED Publisher!vars
    BY <1>3 DEF Publisher!vars, Now, Shown
<1>4. ASSUME UNCHANGED <<world, cfg, src, live>>,
             \A w \in Agents, s \in Sources : pass'[w].ver[s] <= src[s]
      PROVE  AheadInv'
    BY <1>4 DEF AheadInv, Now
<1>5. ASSUME UNCHANGED vars PROVE AheadInv' /\ UNCHANGED Publisher!vars
    BY <1>3, <1>4, <1>5 DEF vars, server, AheadInv
<1>6. ASSUME NEW c \in Configs, EditConfig(c) PROVE AheadInv' /\ Publisher!Next
    <2>1. /\ UNCHANGED <<world, live, src, pass>>
          /\ \A d \in Configs : cfg'[d] \in Nat /\ cfg[d] <= cfg'[d]
        BY <1>6 DEF EditConfig, Types, ServerOK
    <2> QED
        BY <1>2, <2>1, OnlyEdits DEF Publisher!Next, AheadInv
<1>7. ASSUME NEW r \in Sources, EditSource(r) PROVE AheadInv' /\ Publisher!Next
    <2>1. /\ UNCHANGED <<world, live, cfg, pass>>
          /\ \A s \in Sources : src'[s] \in Nat /\ src[s] <= src'[s]
        BY <1>7 DEF EditSource, Types, ServerOK
    <2>2. \A w \in Agents, s \in Sources : pass[w].ver[s] <= src'[s]
        <3>1. \A w \in Agents, s \in Sources : pass[w].ver[s] \in Nat
            BY DEF Types, WorkersOK, WorkOK, Inputs
        <3> QED
            BY <1>2, <2>1, <3>1 DEF AheadInv
    <2> QED
        BY <1>1, <2>1, <2>2, OnlyEdits DEF Publisher!Next
<1>8. ASSUME \/ DeliverObjects
             \/ \E m \in Managers : DeliverSecrets(m)
             \/ \E m \in up : Resync(m)
      PROVE  UNCHANGED <<world, cfg, src, live, pass>>
    BY <1>8 DEF DeliverObjects, DeliverConfig, DeliverSource, DeliverSecrets, DeliverSecret,
       Resync, server
<1>9. ASSUME NEW m \in Managers, Restart(m) \/ RollOut(m) \/ Retire(m)
      PROVE  AheadInv' /\ UNCHANGED Publisher!vars
    <2>1. /\ UNCHANGED <<world, cfg, src, live>>
          /\ pass' = [w \in Agents |-> IF M(w) = m THEN Idle ELSE pass[w]]
        BY <1>9 DEF Restart, RollOut, Retire, Start, server
    <2>2. \A s \in Sources : Idle.ver[s] <= src[s]
        BY DEF Idle, Types, ServerOK
    <2>3. \A w \in Agents, s \in Sources : pass'[w].ver[s] <= src[s]
        BY <2>1, <2>2 DEF AheadInv
    <2> QED
        BY <1>3, <1>4, <2>1, <2>3
<1>10. ASSUME NEW w \in Agents, Step(w) \/ LoseWrite(w)
       PROVE  AheadInv' /\ (UNCHANGED Publisher!vars \/ Publisher!Next)
    <2>1. CASE WriteSecret(w) \/ LoseWrite(w)
        BY <1>3, <2>1, PassesPublish DEF Publisher!Next
    <2>2. CASE Step(w) /\ ~ WriteSecret(w)
        <3>1. /\ UNCHANGED <<world, cfg, src, live>>
              /\ \A x \in Agents, s \in Sources : pass'[x].ver[s] <= src[s]
            BY <2>2, PassesRead DEF Step
        <3> QED
            BY <1>3, <1>4, <3>1
    <2> QED
        BY <1>10, <2>1, <2>2
<1>11. ASSUME NEW c \in Configs, CollectGarbage(c) \/ Tamper(c)
       PROVE  AheadInv' /\ (UNCHANGED Publisher!vars \/ Publisher!Next)
    BY <1>3, <1>11, OthersPublish DEF Publisher!Next
<1>12. ASSUME UNCHANGED <<world, cfg, src, live, pass>>
       PROVE  AheadInv' /\ UNCHANGED Publisher!vars
    BY <1>3, <1>4, <1>12 DEF AheadInv
<1> QED
    BY <1>5, <1>6, <1>7, <1>8, <1>9, <1>10, <1>11, <1>12 DEF Next

LEMMA PublisherInit == Init => Publisher!Init
<1> SUFFICES ASSUME Init PROVE Publisher!Init
    OBVIOUS
<1>1. \A c \in Configs, i \in Inputs : Now(c, i) = 1
    BY DEF Init, Now, Inputs
<1>2. \A c \in Configs, f \in Files : live[c][f] = NoKey
    BY DEF Init, NoSecret, Files
<1>3. Shown(NoKey) = [i \in Inputs |-> 0]
    BY NoKeyIsEmpty DEF Shown
<1> QED
    BY <1>1, <1>2, <1>3 DEF Publisher!Init

\* What is published is rendered from states that have been, the files that are
\* sent together from the same ones, and by a lone manager never from older
\* ones: each step of the controller, whatever it is, keeps the promise.
THEOREM PublisherImplemented == Spec => ImplementsPublisher
<1>1. Types /\ AheadInv /\ BackInv /\ [Next]_vars
        => AheadInv' /\ [Publisher!Next]_(Publisher!vars)
    BY PublisherStep
<1>2. Spec => [](Types /\ BackInv)
    BY TypesInit, TypesNext, BackInit, BackNext, PTL DEF Spec
<1> QED
    BY <1>1, <1>2, AheadInit, PublisherInit, PTL DEF Spec, ImplementsPublisher, Publisher!Spec

-----------------------------------------------------------------------------
(* No wake-up is lost.                                                      *)

\* Nothing is going to make manager m run another pass.
NothingPending(m) ==
    /\ queue[m] = {} /\ secEvents[m] = NoEvents
    /\ cfgCache[m] = cfg /\ \A s \in ListNames : srcCache[m][s] = src[s]

\* Key k of the Secret of c is rendered from S, with the contents that m sees.
ShowsSeen(m, c, k, S) ==
    /\ DOMAIN k.ver = S
    /\ \A s \in S : ContentAt(c, s, k.ver[s]) = ContentAt(c, s, Cached(m, c, s))

MainSources(c) == {"config"} \cup (world.selects[c] \ {"parser", "configMap"})
ParserSources(c) == world.selects[c] \cap {"parser"}
ScriptSources(c) == IF {"filter", "configMap"} \subseteq world.selects[c]
                      THEN {"filter", "configMap"} ELSE {}

\* A Secret x of c that manager m has no reason to write.
RightSecret(m, c, x) ==
    /\ x.owner = CfgAt(c, cfg[c]).uid
    /\ x.main.gzip = world.compress[m]
    /\ ShowsSeen(m, c, x.main, MainSources(c))
    /\ ShowsSeen(m, c, x.parsers, ParserSources(c))
    /\ ShowsSeen(m, c, x.scripts, ScriptSources(c))

\* What c refers to among S is there.
Referable(m, c, S) ==
    \A r \in Refs \cap world.selects[c] \cap S : world.srcHistory[r][srcCache[m][r]] # Missing

Right(m, c) == RightSecret(m, c, live[c]) /\ Referable(m, c, Refs)

\* The configs that pass p has no more to do for.
DoneWith(p) ==
    {c \in Configs \ p.todo : Exists(c, cfg[c]) /\ ~ (p.pc \in Working /\ p.config = c)}

\* What pass p of manager m has read, it would read again.
CurrentPass(m, p) ==
    /\ p.pc # "idle" => p.listed = cfg
    /\ \A c \in DoneWith(p) : Right(m, c)
    /\ p.pc \in Working =>
         /\ \A s \in Read(p) \cap world.selects[p.config] : p.ver[s] = srcCache[m][s]
         /\ Referable(m, p.config, Read(p))
    /\ p.pc = "write" => p.base = live[p.config]

WakeInv ==
    /\ up # {}
    /\ world.resync # "must" =>
         \A w \in Agents : M(w) \in up /\ NothingPending(M(w)) => CurrentPass(M(w), pass[w])

\* A write that makes no event changes nothing.
LEMMA PutQuiet ==
    ASSUME Types, NEW m \in up, NEW c \in Configs, NEW x, Put(c, x), secEvents'[m] = NoEvents
    PROVE  SameSecret(c, x, live[c]) /\ UNCHANGED <<live, secEvents>>
<1>1. CASE SameSecret(c, x, live[c])
    BY <1>1 DEF Put
<1>2. CASE ~ SameSecret(c, x, live[c])
    <2>1. m \in Managers /\ Sequence(secEvents[m][c]) /\ DOMAIN secEvents[m] = Configs
        BY DEF Types, ServerOK, CachesShaped, ManagerOK
    <2>2. secEvents'[m][c] = Append(secEvents[m][c], x)
        BY <1>2, <2>1 DEF Put
    <2> QED
        BY <2>1, <2>2, SequenceFacts DEF NoEvents
<1> QED
    BY <1>1, <1>2

\* What a manager that has nothing to do saw and did is the same after a step
\* that does not concern it.

LEMMA ViewKept ==
    ASSUME UNCHANGED <<world, cfg, live>>, NEW m,
           cfgCache'[m] = cfgCache[m], srcCache'[m] = srcCache[m],
           NEW p, CurrentPass(m, p)
    PROVE  CurrentPass(m, p)'
<1>1. \A S : Referable(m, p.config, S) => Referable(m, p.config, S)'
    BY DEF Referable
<1>2. \A c \in Configs : Right(m, c) => Right(m, c)'
    BY DEF Right, RightSecret, ShowsSeen, Cached, CfgAt, ContentAt, Referable,
       MainSources, ParserSources, ScriptSources
<1>3. DoneWith(p)' = DoneWith(p) /\ Read(p)' = Read(p) /\ DoneWith(p) \subseteq Configs
    BY DEF DoneWith, Exists, CfgAt, Read
<1>4. Referable(m, p.config, Read(p)) => Referable(m, p.config, Read(p))'
    BY <1>3 DEF Referable
<1> QED
    BY <1>2, <1>3, <1>4 DEF CurrentPass

\* Nor does it end anybody's rest.
LEMMA Elsewhere ==
    ASSUME WakeInv, world.resync # "must", NEW w \in Agents, M(w) \in up,
           UNCHANGED <<world, cfg, live>>, pass'[w] = pass[w],
           cfgCache'[M(w)] = cfgCache[M(w)], srcCache'[M(w)] = srcCache[M(w)],
           secEvents'[M(w)] = secEvents[M(w)], queue[M(w)] \subseteq queue'[M(w)],
           \A s \in ListNames : src'[s] = src[s],
           NothingPending(M(w))'
    PROVE  \A p : p = pass'[w] => CurrentPass(M(w), p)'
<1> PICK m : m = M(w)
    OBVIOUS
<1>1. NothingPending(m)
    BY DEF NothingPending, NoEvents
<1> SUFFICES ASSUME NEW p, p = pass'[w] PROVE CurrentPass(m, p)'
    OBVIOUS
<1>2. CurrentPass(m, p)
    BY <1>1 DEF WakeInv
<1> QED
    BY <1>2, ViewKept

-----------------------------------------------------------------------------
(* What others do.                                                         *)

LEMMA EditsWake ==
    ASSUME Types, WakeInv, world.resync # "must", NEW w \in Agents, M(w) \in up',
           (\E c \in Configs : EditConfig(c)) \/ (\E s \in Sources : EditSource(s)),
           NothingPending(M(w))'
    PROVE  \A p : p = pass'[w] => CurrentPass(M(w), p)'
<1> PICK m : m = M(w)
    OBVIOUS
<1>1. UNCHANGED <<world, live, up, cfgCache, srcCache, secEvents, queue, pass>>
    BY DEF EditConfig, EditSource, caches
<1>2. ASSUME NEW c \in Configs, EditConfig(c) PROVE FALSE
    <2>1. cfg'[c] = cfg[c] + 1 /\ cfgCache[m][c] <= cfg[c] /\ cfg[c] \in Nat /\ cfgCache[m][c] \in Nat
        BY <1>1, <1>2 DEF EditConfig, Types, ServerOK, ManagerOK
    <2>2. cfgCache[m] = cfg'
        BY <1>1 DEF NothingPending
    <2> QED
        BY <2>1, <2>2
<1>3. ASSUME NEW s \in Sources, EditSource(s) PROVE cfg' = cfg /\ s \notin ListNames
    <2>1. src'[s] = src[s] + 1 /\ srcCache[m][s] <= src[s] /\ src[s] \in Nat /\ srcCache[m][s] \in Nat
        BY <1>1, <1>3 DEF EditSource, Types, ServerOK, ManagerOK
    <2>2. s \in ListNames => srcCache[m][s] = src'[s]
        BY <1>1 DEF NothingPending
    <2> QED
        BY <1>3, <2>1, <2>2 DEF EditSource
<1>4. PICK s \in Sources : EditSource(s)
    BY <1>2
<1>5. cfg' = cfg /\ \A t \in ListNames : src'[t] = src[t]
    BY <1>3, <1>4 DEF EditSource, Types, ServerOK, Sources
<1> QED
    BY <1>1, <1>5, Elsewhere

\* A Secret that is right stays so while the manager sees the same.
LEMMA RightKept ==
    ASSUME UNCHANGED <<world, cfg>>, NEW m, NEW c, NEW x,
           \A t \in {"config"} \cup world.selects[c] : Cached(m, c, t)' = Cached(m, c, t),
           RightSecret(m, c, x)
    PROVE  RightSecret(m, c, x)'
<1>1. ASSUME NEW k, NEW S, S \subseteq {"config"} \cup world.selects[c], ShowsSeen(m, c, k, S)
      PROVE  ShowsSeen(m, c, k, S)'
    BY <1>1 DEF ShowsSeen, ContentAt, CfgAt
<1>2. /\ MainSources(c)' = MainSources(c) /\ ParserSources(c)' = ParserSources(c)
      /\ ScriptSources(c)' = ScriptSources(c)
      /\ MainSources(c) \subseteq {"config"} \cup world.selects[c]
      /\ ParserSources(c) \subseteq {"config"} \cup world.selects[c]
      /\ ScriptSources(c) \subseteq {"config"} \cup world.selects[c]
    BY DEF MainSources, ParserSources, ScriptSources
<1> PICK S, T, U : S = MainSources(c) /\ T = ParserSources(c) /\ U = ScriptSources(c)
    OBVIOUS
<1>3. ShowsSeen(m, c, x.main, S)' /\ ShowsSeen(m, c, x.parsers, T)' /\ ShowsSeen(m, c, x.scripts, U)'
    BY <1>1, <1>2 DEF RightSecret
<1>4. S = MainSources(c)' /\ T = ParserSources(c)' /\ U = ScriptSources(c)'
    BY <1>2
<1> QED
    BY <1>3, <1>4 DEF RightSecret, CfgAt, ShowsSeen

\* A referenced object that was missing, and is no more, was waited for.
LEMMA RefsWake ==
    ASSUME Types, WakeInv, world.resync # "must", RefsAppear, NEW w \in Agents, M(w) \in up,
           NEW s \in Refs, DeliverSource(M(w), s), NothingPending(M(w))'
    PROVE  \A p : p = pass'[w] => CurrentPass(M(w), p)'
<1> PICK m : m = M(w)
    OBVIOUS
<1>1. /\ UNCHANGED <<world, cfg, src, live, cfgCache, secEvents, pass>>
      /\ srcCache' = [srcCache EXCEPT ![m][s] = @ + 1] /\ srcCache[m][s] < src[s]
      /\ queue[m] \subseteq queue'[m] /\ m \in Managers
    BY DEF DeliverSource, server, Request, Types, ServerOK, CachesShaped
<1>2. s \in Sources /\ s \notin ListNames /\ s # "config"
    BY ListFacts DEF Sources, Refs
<1>3. \A t \in Sources \ {s} : srcCache'[m][t] = srcCache[m][t]
    BY <1>1, <1>2 DEF Types, CachesShaped
<1>a. world' = world /\ cfgCache' = cfgCache
    BY <1>1
<1>4. NothingPending(m)
    BY <1>1, <1>2, <1>3 DEF NothingPending, NoEvents, Sources
<1>5. \A c \in Configs : s \in world.selects[c] => world.srcHistory[s][srcCache[m][s]] = Missing
    <2>1. world \in Worlds /\ srcCache[m][s] \in 1 .. src[s] /\ src[s] \in 1 .. Len(world.srcHistory[s])
        BY <1>2 DEF Types, ServerOK, ManagerOK
    <2>2. Len(world.srcHistory[s]) \in Nat
        BY <1>2, <2>1, Histories
    <2>3. srcCache[m][s] \in 1 .. Len(world.srcHistory[s]) - 1
        BY <1>1, <2>1, <2>2
    <2> QED
        BY <2>1, <2>3 DEF RefsAppear
<1> SUFFICES ASSUME NEW p, p = pass'[w] PROVE CurrentPass(m, p)'
    OBVIOUS
<1>6. CurrentPass(m, p) /\ WorkOK(p)
    BY <1>1, <1>4 DEF WakeInv, Types, WorkersOK
<1>7. ASSUME NEW c \in Configs, NEW S, S \subseteq Sources, Referable(m, c, S)
      PROVE  Referable(m, c, S)' /\ s \notin S \cap world.selects[c]
    <2>1. s \notin S \cap world.selects[c]
        BY <1>5, <1>7 DEF Referable
    <2>2. \A r \in Refs \cap world.selects[c] \cap S : srcCache'[m][r] = srcCache[m][r]
        BY <1>3, <1>7, <2>1
    <2> QED
        BY <1>7, <1>a, <2>1, <2>2 DEF Referable
<1>8. ASSUME NEW c \in Configs, Right(m, c) PROVE Right(m, c)'
    <2>1. Referable(m, c, Refs)' /\ s \notin world.selects[c]
        BY <1>7, <1>8 DEF Right, Sources
    <2>2. \A t \in {"config"} \cup world.selects[c] : Cached(m, c, t)' = Cached(m, c, t)
        <3>1. world.selects[c] \subseteq Sources
            BY Histories DEF Types, ServerOK
        <3>2. ASSUME NEW t \in {"config"} \cup world.selects[c]
              PROVE  Cached(m, c, t)' = Cached(m, c, t)
            <4>1. CASE t = "config"
                BY <1>a, <4>1 DEF Cached
            <4>2. CASE t # "config"
                <5>1. t \in Sources \ {s}
                    BY <2>1, <3>1, <3>2, <4>2
                <5> QED
                    BY <1>3, <4>2, <5>1 DEF Cached
            <4> QED
                BY <4>1, <4>2
        <3> QED
            BY <3>2
    <2> PICK x : x = live[c]
        OBVIOUS
    <2>3. RightSecret(m, c, x)'
        BY <1>1, <1>8, <2>2, RightKept DEF Right
    <2> QED
        BY <1>1, <2>1, <2>3 DEF Right
<1>9. DoneWith(p)' = DoneWith(p) /\ Read(p)' = Read(p) /\ DoneWith(p) \subseteq Configs
      /\ Read(p) \subseteq Sources
    BY <1>1 DEF DoneWith, Exists, CfgAt, Read
<1>10. ASSUME p.pc \in Working
       PROVE  /\ \A t \in Read(p) \cap world.selects[p.config] : p.ver[t] = srcCache'[m][t]
              /\ Referable(m, p.config, Read(p))'
    <2>1. p.config \in Configs /\ Referable(m, p.config, Read(p))
        BY <1>6, <1>10 DEF WorkOK, CurrentPass
    <2>2. Referable(m, p.config, Read(p))' /\ s \notin Read(p) \cap world.selects[p.config]
        BY <1>7, <1>9, <2>1 DEF Referable
    <2> QED
        BY <1>3, <1>6, <1>9, <1>10, <2>2 DEF CurrentPass
<1> QED
    BY <1>1, <1>6, <1>8, <1>9, <1>10 DEF CurrentPass

\* What arrives at a cache requests a pass, but for the referenced objects.
LEMMA DeliveriesWake ==
    ASSUME Types, WakeInv, world.resync # "must", RefsAppear, NEW w \in Agents, M(w) \in up',
           DeliverObjects \/ \E n \in Managers : DeliverSecrets(n),
           NothingPending(M(w))'
    PROVE  \A p : p = pass'[w] => CurrentPass(M(w), p)'
<1> PICK m : m = M(w)
    OBVIOUS
<1>1. m \in Managers /\ up \subseteq Managers /\ queue'[m] = {}
    BY DEF M, Agents, Types, ServerOK, NothingPending
<1>2. ASSUME NEW n \in Managers, NEW c \in Configs, DeliverConfig(n, c) \/ DeliverSecret(n, c)
      PROVE  \A p : p = pass'[w] => CurrentPass(m, p)'
    <2>1. /\ UNCHANGED <<world, cfg, src, live, up, pass, srcCache>>
          /\ n # m => /\ cfgCache'[m] = cfgCache[m] /\ secEvents'[m] = secEvents[m]
                      /\ queue'[m] = queue[m]
          /\ n = m => c \in queue'[m]
        BY <1>1, <1>2 DEF DeliverConfig, DeliverSecret, Request, OwnerRequests, server,
           Types, CachesShaped
    <2>2. n # m
        BY <1>1, <2>1
    <2> QED
        BY <2>1, <2>2, Elsewhere
<1>3. ASSUME NEW n \in up, NEW s \in Sources, DeliverSource(n, s)
      PROVE  \A p : p = pass'[w] => CurrentPass(m, p)'
    <2>1. /\ UNCHANGED <<world, cfg, src, live, up, pass, cfgCache, secEvents>>
          /\ n # m => srcCache'[m] = srcCache[m] /\ queue'[m] = queue[m]
        BY <1>1, <1>3 DEF DeliverSource, Request, server, Types, CachesShaped
    <2>2. CASE n # m
        BY <2>1, <2>2, Elsewhere
    <2>3. CASE n = m
        <3>1. s \notin ListNames
            <4>1. RequestsOf({s} \cap Watched) \subseteq queue'[m]
                BY <1>1, <1>3, <2>3 DEF DeliverSource, Request, Types, CachesShaped
            <4>2. s \in ListNames => world.name[s] \in RequestsOf({s} \cap Watched)
                BY DEF RequestsOf, Watched
            <4> QED
                BY <1>1, <4>1, <4>2
        <3> QED
            BY <1>3, <2>1, <2>3, <3>1, RefsWake DEF Sources
    <2> QED
        BY <2>2, <2>3
<1> QED
    BY <1>1, <1>2, <1>3 DEF DeliverObjects, DeliverSecrets

LEMMA OthersWake ==
    ASSUME Types, WakeInv, world.resync # "must", NEW w \in Agents, M(w) \in up',
           \/ \E c \in Configs : CollectGarbage(c) \/ Tamper(c)
           \/ \E n \in up : Resync(n),
           NothingPending(M(w))'
    PROVE  \A p : p = pass'[w] => CurrentPass(M(w), p)'
<1> PICK m : m = M(w)
    OBVIOUS
<1>1. secEvents'[m] = NoEvents
    BY DEF NothingPending, NoEvents
<1>2. ASSUME NEW c \in Configs, CollectGarbage(c) \/ Tamper(c)
      PROVE  /\ UNCHANGED <<world, cfg, src, live, up, pass, cfgCache, srcCache, secEvents, queue>>
    <2>1. PICK x : Put(c, x)
        BY <1>2 DEF CollectGarbage, Tamper
    <2>2. UNCHANGED <<world, cfg, src, up, pass, cfgCache, srcCache, queue>>
        BY <1>2 DEF CollectGarbage, Tamper
    <2> QED
        BY <1>1, <2>1, <2>2, PutQuiet
<1>3. ASSUME NEW n \in up, Resync(n)
      PROVE  /\ UNCHANGED <<world, cfg, src, live, up, pass, cfgCache, srcCache, secEvents>>
             /\ queue[m] \subseteq queue'[m]
    BY <1>3 DEF Resync, Request, server, caches, Types, CachesShaped, ServerOK, M, Agents
<1> QED
    BY <1>2, <1>3, Elsewhere

\* A manager that starts requests everything.
LEMMA StartsWake ==
    ASSUME Types, WakeInv, world.resync # "must", NEW w \in Agents, M(w) \in up',
           NEW n \in Managers, Restart(n) \/ RollOut(n) \/ Retire(n), NothingPending(M(w))'
    PROVE  \A p : p = pass'[w] => CurrentPass(M(w), p)'
<1> PICK m : m = M(w)
    OBVIOUS
<1>1. m \in Managers /\ queue'[m] = {} /\ UNCHANGED <<world, cfg, src, live>>
    BY DEF M, Agents, NothingPending, Restart, RollOut, Retire, server
<1>2. n # m
    <2>1. CASE Retire(n)
        BY <2>1 DEF Retire
    <2>2. CASE Start(n)
        <3>1. queue'[n] = AllRequests(cfg)
            BY <2>2 DEF Start, Types, CachesShaped
        <3>2. "input" \in ListNames
            BY ListFacts
        <3>3. world.name["input"] \in AllRequests(cfg)
            BY <3>2 DEF AllRequests, RequestsOf, Watched
        <3> QED
            BY <1>1, <3>1, <3>3
    <2> QED
        BY <2>1, <2>2 DEF Restart, RollOut
<1>3. /\ cfgCache'[m] = cfgCache[m] /\ srcCache'[m] = srcCache[m] /\ m \in up
      /\ secEvents'[m] = secEvents[m] /\ queue'[m] = queue[m] /\ pass'[w] = pass[w]
    <2>1. CASE Retire(n)
        BY <1>1, <1>2, <2>1 DEF Retire, Types, CachesShaped
    <2>2. CASE Restart(n) \/ RollOut(n)
        <3>1. Start(n) /\ up' \in {up, up \cup {n}}
            BY <2>2 DEF Restart, RollOut
        <3> QED
            BY <1>1, <1>2, <3>1 DEF Start, Types, CachesShaped
    <2> QED
        BY <2>1, <2>2
<1> QED
    BY <1>1, <1>3, Elsewhere

\* What another manager's worker does.
LEMMA NeighboursWake ==
    ASSUME Types, WakeInv, world.resync # "must", NEW w \in Agents, M(w) \in up',
           NEW x \in Agents, x # w, Step(x) \/ LoseWrite(x), NothingPending(M(w))'
    PROVE  \A p : p = pass'[w] => CurrentPass(M(w), p)'
<1> PICK m, n, q : m = M(w) /\ n = M(x) /\ q = pass[x]
    OBVIOUS
<1>1. m \in Managers /\ n \in Managers /\ n # m /\ secEvents'[m] = NoEvents
    BY OneWorker DEF M, Agents, NothingPending, NoEvents
<1>2. \A S : Request(n, S) => queue'[m] = queue[m]
    BY <1>1 DEF Request, Types, CachesShaped
<1>3. \A p : pass' = [pass EXCEPT ![x] = p] => pass'[w] = pass[w]
    BY DEF Types, WorkersOK
<1>4. Fail(x) => queue'[m] = queue[m] /\ pass'[w] = pass[w]
    BY <1>2, <1>3 DEF Fail
<1>5. UNCHANGED <<world, cfg, src, up, cfgCache, srcCache>>
    BY DEF Step, LoseWrite, Begin, Take, Return, ReadList, Render, RenderScripts, GetSecret,
       WriteSecret, server, caches
<1>6. UNCHANGED <<live, secEvents>>
    <2>1. CASE q.pc = "write" /\ Store(x)
        <3>1. q.config \in Configs
            BY <2>1, Worker DEF WorkOK, Working, PCs
        <3> QED
            BY <1>1, <1>5, <2>1, <3>1, PutQuiet DEF Store
    <2>2. CASE UNCHANGED <<live, secEvents>>
        BY <2>2
    <2> QED
        BY <2>1, <2>2 DEF Step, LoseWrite, Begin, Take, Return, ReadList, Render, RenderScripts,
           GetSecret, WriteSecret, server, caches
<1>7. queue'[m] = queue[m] /\ pass'[w] = pass[w]
    <2>1. CASE Begin(x)
        BY <1>1, <1>3, <2>1 DEF Begin, Types, CachesShaped
    <2>2. CASE \E c \in Configs : Take(x, c)
        BY <1>4, <2>2 DEF Take, Types, WorkersOK
    <2>3. CASE Return(x) \/ ReadList(x) \/ GetSecret(x)
        BY <2>3 DEF Return, ReadList, GetSecret, Types, WorkersOK
    <2>4. CASE Render(x) \/ RenderScripts(x)
        BY <1>4, <2>4 DEF Render, RenderScripts, LoadRef, Types, WorkersOK
    <2>5. CASE WriteSecret(x) \/ LoseWrite(x)
        BY <1>4, <2>5 DEF WriteSecret, LoseWrite, Types, WorkersOK
    <2> QED
        BY <2>1, <2>2, <2>3, <2>4, <2>5 DEF Step
<1> QED
    BY <1>5, <1>6, <1>7, Elsewhere

-----------------------------------------------------------------------------
(* What a write leaves.                                                     *)

\* Keys with the same bytes show the same.
LEMMA SameBytesShow ==
    ASSUME NEW m, NEW c, NEW k, NEW l, NEW S, SameBytes(c, k, l), ShowsSeen(m, c, k, S)
    PROVE  ShowsSeen(m, c, l, S) /\ k.gzip = l.gzip
<1> PICK f, g : /\ f = [s \in DOMAIN k.ver |-> ContentAt(c, s, k.ver[s])]
                /\ g = [s \in DOMAIN l.ver |-> ContentAt(c, s, l.ver[s])]
    OBVIOUS
<1>1. f = g /\ k.gzip = l.gzip
    BY DEF SameBytes, Bytes
<1>2. DOMAIN f = DOMAIN k.ver /\ DOMAIN g = DOMAIN l.ver
    OBVIOUS
<1>3. \A s \in S : ContentAt(c, s, l.ver[s]) = ContentAt(c, s, k.ver[s])
    BY <1>1, <1>2 DEF ShowsSeen
<1> QED
    BY <1>1, <1>2, <1>3 DEF ShowsSeen

LEMMA SameIsRight ==
    ASSUME NEW m, NEW c, NEW x, NEW y, SameSecret(c, x, y), RightSecret(m, c, x)
    PROVE  RightSecret(m, c, y)
<1> PICK S, T, U : S = MainSources(c) /\ T = ParserSources(c) /\ U = ScriptSources(c)
    OBVIOUS
<1>1. /\ ShowsSeen(m, c, y.main, S) /\ x.main.gzip = y.main.gzip
      /\ ShowsSeen(m, c, y.parsers, T) /\ ShowsSeen(m, c, y.scripts, U)
    BY SameBytesShow DEF SameSecret, RightSecret
<1> QED
    BY <1>1 DEF SameSecret, RightSecret

LEMMA SameBack ==
    ASSUME NEW c, NEW x, NEW y, SameSecret(c, x, y)
    PROVE  SameSecret(c, y, x)
    BY DEF SameSecret, SameBytes

LEMMA SameOn ==
    ASSUME NEW c, NEW x, NEW y, NEW z, SameSecret(c, x, y), SameSecret(c, y, z)
    PROVE  SameSecret(c, x, z)
    BY DEF SameSecret, SameBytes

\* A patch of what is there gives what the pass wants.
LEMMA PatchGives ==
    ASSUME NEW c, NEW t
    PROVE  SameSecret(c, t, Patched(c, live[c], t))
<1> PICK x, y : x = Patched(c, live[c], t) /\ y = live[c]
    OBVIOUS
<1>1. /\ x.owner = IF y.owner = t.owner THEN y.owner ELSE t.owner
      /\ x.main = IF SameBytes(c, y.main, t.main) THEN y.main ELSE t.main
      /\ x.parsers = IF SameBytes(c, y.parsers, t.parsers) THEN y.parsers ELSE t.parsers
      /\ x.scripts = IF SameBytes(c, y.scripts, t.scripts) THEN y.scripts ELSE t.scripts
    BY DEF Patched
<1> QED
    BY <1>1 DEF SameSecret, SameBytes

\* What a pass wants shows what the pass has read.
LEMMA WantedShows ==
    ASSUME NEW m, NEW c, NEW ver, NEW order, NEW t, t = Wanted(c, ver, order, world.compress[m]),
           world.selects[c] \subseteq Sources, ver["config"] = cfg[c], cfgCache[m][c] = cfg[c],
           \A s \in world.selects[c] : ver[s] = srcCache[m][s]
    PROVE  RightSecret(m, c, t)
<1>1. ListNames = {"input", "filter", "output", "parser"} /\ Refs = {"secret", "configMap"}
    BY ListFacts DEF Refs
<1>2. \A s \in {"config"} \cup world.selects[c] : ver[s] = Cached(m, c, s)
    BY <1>1 DEF Cached, Sources
<1>3. t.owner = CfgAt(c, cfg[c]).uid
    BY DEF Wanted
<1>4. t.main.gzip = world.compress[m] /\ ShowsSeen(m, c, t.main, MainSources(c))
    <2> PICK S : S = MainSources(c)
        OBVIOUS
    <2> PICK r : r = RenderMainConfig(c, ver, order)
        OBVIOUS
    <2>1. S \subseteq {"config"} \cup world.selects[c]
        BY DEF MainSources
    <2>2. (world.selects[c] \cap {"input", "filter", "output"}) \cup {"config"}
             \cup (world.selects[c] \cap {"secret"}) = S
        BY <1>1 DEF MainSources, Sources
    <2>3. r.ver = [s \in S |-> ver[s]] /\ DOMAIN r = {"ver", "order", "gzip"}
        BY <2>2 DEF RenderMainConfig, Part
    <2>4. t.main = [r EXCEPT !.gzip = world.compress[m]]
        BY DEF Wanted
    <2>5. t.main.ver = [s \in S |-> ver[s]] /\ t.main.gzip = world.compress[m]
        BY <2>3, <2>4
    <2> QED
        BY <1>2, <2>1, <2>5 DEF ShowsSeen
<1>5. ShowsSeen(m, c, t.parsers, ParserSources(c))
    <2>1. t.parsers.ver = [s \in ParserSources(c) |-> ver[s]]
        BY DEF Wanted, RenderParserConfig, Part, ParserSources
    <2> QED
        BY <1>2, <2>1 DEF ShowsSeen, ParserSources
<1>6. ShowsSeen(m, c, t.scripts, ScriptSources(c))
    <2> PICK r : r = t.scripts
        OBVIOUS
    <2>1. r = RenderLuaScript(c, ver, order)
        BY DEF Wanted
    <2>2. CASE {"filter", "configMap"} \subseteq world.selects[c]
        <3>1. r.ver = [s \in {"filter", "configMap"} |-> ver[s]]
            BY <2>1, <2>2 DEF RenderLuaScript, Part
        <3>2. ScriptSources(c) = {"filter", "configMap"}
            BY <2>2 DEF ScriptSources
        <3> QED
            BY <1>2, <2>2, <3>1, <3>2 DEF ShowsSeen
    <2>3. CASE ~ {"filter", "configMap"} \subseteq world.selects[c]
        <3>1. r = NoKey /\ ScriptSources(c) = {}
            BY <2>1, <2>3 DEF RenderLuaScript, ScriptSources
        <3> QED
            BY <3>1, NoKeyIsEmpty DEF ShowsSeen
    <2> QED
        BY <2>2, <2>3
<1> QED
    BY <1>3, <1>4, <1>5, <1>6 DEF RightSecret

\* A write that makes no event, or none at all, found the Secret right.
LEMMA WriteWakes ==
    ASSUME Types, WakeInv, world.resync # "must", NEW w \in Agents, M(w) \in up',
           WriteSecret(w) \/ LoseWrite(w), NothingPending(M(w))'
    PROVE  \A p : p = pass'[w] => CurrentPass(M(w), p)'
<1> PICK m, q, c : m = M(w) /\ q = pass[w] /\ c = q.config
    OBVIOUS
<1>1. /\ q.pc = "write" /\ WorkOK(q) /\ c \in Configs /\ m \in Managers /\ m \in up
      /\ UNCHANGED <<world, cfg, src, up, cfgCache, srcCache>>
      /\ secEvents'[m] = NoEvents /\ queue'[m] = {}
    BY Worker DEF WriteSecret, LoseWrite, NothingPending, NoEvents, M, Agents, WorkOK, Working, PCs
<1>2. ~ Fail(w)
    BY <1>1 DEF Fail, Request, RetryRequests, Types, CachesShaped
<1>3. /\ WriteSecret(w) /\ (Unneeded(w) \/ ~ Refused(w)) /\ UNCHANGED queue
      /\ pass' = [pass EXCEPT ![w].pc = "next", ![w].base = NoSecret,
                              ![w].ver = Idle.ver, ![w].order = Idle.order]
    BY <1>2 DEF WriteSecret, LoseWrite
<1>4. /\ UNCHANGED <<live, secEvents>>
      /\ ~ Unneeded(w) => SameSecret(c, Outcome(w), live[c])
    <2>1. CASE Unneeded(w)
        BY <1>3, <2>1 DEF WriteSecret
    <2>2. CASE ~ Unneeded(w)
        BY <1>1, <1>3, <2>2, PutQuiet DEF WriteSecret, Store
    <2> QED
        BY <2>1, <2>2
<1>5. NothingPending(m) /\ CurrentPass(m, q)
    <2>1. NothingPending(m)
        BY <1>1, <1>3, <1>4 DEF NothingPending, NoEvents
    <2> QED
        BY <1>1, <2>1 DEF WakeInv
<1>6. Right(m, c)
    <2> PICK t : t = Target(w)
        OBVIOUS
    <2>1. Read(q) = Sources /\ q.pc \in Working
        BY <1>1 DEF Read, Working, PCs
    <2>2. world.selects[c] \subseteq Sources
        BY <1>1, Histories DEF Types, ServerOK
    <2>3. Referable(m, c, Refs)
        BY <1>5, <2>1 DEF CurrentPass, Referable, Sources
    <2>4. RightSecret(m, c, t)
        <3>1. q.ver["config"] = cfg[c] /\ cfgCache[m][c] = cfg[c]
            BY <1>1, <1>5, <2>1 DEF CurrentPass, WorkOK, NothingPending
        <3>2. \A s \in world.selects[c] : q.ver[s] = srcCache[m][s]
            BY <1>5, <2>1, <2>2 DEF CurrentPass
        <3>3. t = Wanted(c, q.ver, q.order, world.compress[m])
            BY DEF Target
        <3> QED
            BY <2>2, <3>1, <3>2, <3>3, WantedShows
    <2>5. q.base = live[c]
        BY <1>1, <1>5 DEF CurrentPass
    <2>6. SameSecret(c, t, live[c])
        <3>1. CASE Unneeded(w)
            BY <2>5, <3>1, SameBack DEF Unneeded
        <3>2. CASE ~ Unneeded(w) /\ q.base = NoSecret
            BY <1>4, <3>2 DEF Outcome
        <3>3. CASE ~ Unneeded(w) /\ q.base # NoSecret
            <4> PICK x : x = Outcome(w)
                OBVIOUS
            <4>1. x = Patched(c, live[c], t)
                BY <2>5, <3>3 DEF Outcome
            <4>2. SameSecret(c, t, x)
                BY <4>1, PatchGives
            <4> QED
                BY <1>4, <3>3, <4>2, SameOn
        <3> QED
            BY <3>1, <3>2, <3>3
    <2> QED
        BY <2>3, <2>4, <2>6, SameIsRight DEF Right
<1> PICK v, z : v = Idle.ver /\ z = Idle.order
    OBVIOUS
<1>7. PICK p : p = [q EXCEPT !.pc = "next", !.base = NoSecret, !.ver = v, !.order = z]
               /\ pass' = [pass EXCEPT ![w] = p]
    <2> DEFINE p == [q EXCEPT !.pc = "next", !.base = NoSecret, !.ver = v, !.order = z]
    <2>1. pass' = [pass EXCEPT ![w] = p]
        BY <1>1, <1>3 DEF WorkOK, PassFields, Types, WorkersOK
    <2> QED
        BY <2>1
<1>8. p.pc = "next" /\ p.listed = q.listed /\ p.todo = q.todo /\ pass'[w] = p
    BY <1>1, <1>7 DEF WorkOK, PassFields, Types, WorkersOK
<1>9. CurrentPass(m, p)
    <2>1. \A d \in DoneWith(p) : d = c \/ d \in DoneWith(q)
        BY <1>1, <1>8 DEF DoneWith
    <2> QED
        BY <1>1, <1>5, <1>6, <1>8, <2>1 DEF CurrentPass, Working
<1> QED
    BY <1>1, <1>4, <1>8, <1>9, ViewKept

-----------------------------------------------------------------------------
(* What a worker reads.                                                     *)

\* A worker that goes on with the same config, and has read r as well.
LEMMA ReadsCurrent ==
    ASSUME NEW m, NEW q, NEW p, NEW r, CurrentPass(m, q), q.pc \in Working \ {"write"},
           WorkOK(q), r \in Sources,
           p.pc \in Working \ {"write"}, p.config = q.config, p.listed = q.listed,
           p.todo = q.todo, p.ver = [q.ver EXCEPT ![r] = srcCache[m][r]],
           Read(p) \subseteq Read(q) \cup {r},
           Referable(m, q.config, {r})
    PROVE  CurrentPass(m, p)
<1>1. DoneWith(p) = DoneWith(q)
    BY DEF DoneWith
<1>2. \A s \in Read(p) \cap world.selects[p.config] : p.ver[s] = srcCache[m][s]
    <2>1. q.ver \in [Inputs -> Nat] /\ Read(q) \subseteq Inputs /\ r \in Inputs
        BY DEF WorkOK, Read, Inputs
    <2> QED
        BY <2>1 DEF CurrentPass
<1>3. Referable(m, p.config, Read(p))
    BY DEF CurrentPass, Referable
<1> QED
    BY <1>1, <1>2, <1>3 DEF CurrentPass, Working

\* A step of w that leaves the rest as it is: what remains to be seen is that
\* its new variables are current if the old ones are.

LEMMA OwnStep ==
    ASSUME Types, WakeInv, world.resync # "must", NEW w \in Agents, M(w) \in up,
           UNCHANGED <<world, cfg, src, live, cfgCache, srcCache, secEvents, queue>>,
           NothingPending(M(w))',
           NEW p, pass' = [pass EXCEPT ![w] = p],
           \A m, q : m = M(w) /\ q = pass[w] /\ NothingPending(m) /\ CurrentPass(m, q)
                        => CurrentPass(m, p)
    PROVE  \A r : r = pass'[w] => CurrentPass(M(w), r)'
<1> PICK m, q : m = M(w) /\ q = pass[w]
    OBVIOUS
<1>1. NothingPending(m)
    BY DEF NothingPending, NoEvents
<1>2. CurrentPass(m, q)
    BY <1>1 DEF WakeInv
<1>3. CurrentPass(m, p)
    BY <1>1, <1>2
<1>4. pass'[w] = p
    BY DEF Types, WorkersOK
<1> QED
    BY <1>3, <1>4, ViewKept

\* A pass that fails is requested again.
LEMMA FailsNot ==
    ASSUME Types, NEW w \in Agents, NothingPending(M(w))'
    PROVE  ~ Fail(w)
<1>1. M(w) \in Managers /\ queue'[M(w)] = {}
    BY DEF M, Agents, NothingPending
<1> QED
    BY <1>1 DEF Fail, Request, RetryRequests, Types, CachesShaped

\* A pass begins with what the cache has, and with all there is to do.
LEMMA BeginWakes ==
    ASSUME Types, WakeInv, world.resync # "must", NEW w \in Agents, M(w) \in up',
           Begin(w), NothingPending(M(w))'
    PROVE  \A r : r = pass'[w] => CurrentPass(M(w), r)'
<1> PICK m, i : m = M(w) /\ i = Idle
    OBVIOUS
<1>1. /\ UNCHANGED <<world, cfg, src, live, cfgCache, srcCache, secEvents>>
      /\ cfgCache[m] = cfg
    BY DEF Begin, server, caches, NothingPending
<1>2. PICK k, p : /\ p = [i EXCEPT !.pc = "next", !.key = k, !.listed = cfgCache[m],
                                   !.todo = Listed(cfgCache[m])]
                  /\ pass' = [pass EXCEPT ![w] = p]
    BY DEF Begin
<1>3. /\ p.pc = "next" /\ p.listed = cfg /\ p.todo = Listed(cfg)
    <2>1. DOMAIN i = PassFields
        BY DEF Idle, PassFields
    <2> QED
        BY <1>1, <1>2, <2>1 DEF PassFields
<1>4. CurrentPass(m, p)
    <2>1. DoneWith(p) = {}
        BY <1>3 DEF DoneWith, Listed
    <2> QED
        BY <1>3, <2>1 DEF CurrentPass, Working
<1>5. pass'[w] = p
    BY <1>2 DEF Types, WorkersOK
<1> QED
    BY <1>1, <1>4, <1>5, ViewKept

LEMMA TakeWakes ==
    ASSUME Types, WakeInv, world.resync # "must", NEW w \in Agents, M(w) \in up',
           NEW c \in Configs, Take(w, c), NothingPending(M(w))'
    PROVE  \A r : r = pass'[w] => CurrentPass(M(w), r)'
<1> PICK q : q = pass[w]
    OBVIOUS
<1>1. /\ q.pc = "next" /\ WorkOK(q) /\ DOMAIN pass = Agents /\ c \in q.todo /\ ~ Fail(w)
      /\ M(w) \in up
      /\ UNCHANGED <<world, cfg, src, live, cfgCache, srcCache, secEvents>>
    BY Worker, FailsNot DEF Take, Candidates, server, caches
<1> DEFINE p == [q EXCEPT !.pc = "list", !.todo = q.todo \ {c}, !.config = c, !.next = 1,
                          !.ver["config"] = q.listed[c]]
<1>2. pass' = [pass EXCEPT ![w] = p] /\ UNCHANGED queue
    BY <1>1 DEF Take, WorkOK, PassFields
<1>3. p.pc = "list" /\ p.todo = q.todo \ {c} /\ p.next = 1 /\ p.config = c /\ p.listed = q.listed
    BY <1>1 DEF WorkOK, PassFields, Inputs
<1> HIDE DEF p
<1>4. ASSUME NEW m, CurrentPass(m, q) PROVE CurrentPass(m, p)
    <2>1. DoneWith(p) \subseteq DoneWith(q)
        BY <1>1, <1>3 DEF DoneWith, Working, PCs
    <2>2. Read(p) = {}
        BY <1>3, ListFacts DEF Read
    <2> QED
        BY <1>1, <1>3, <1>4, <2>1, <2>2 DEF CurrentPass, Referable
<1> QED
    BY <1>1, <1>2, <1>4, OwnStep

LEMMA ReturnWakes ==
    ASSUME Types, WakeInv, world.resync # "must", NEW w \in Agents, M(w) \in up',
           Return(w), NothingPending(M(w))'
    PROVE  \A r : r = pass'[w] => CurrentPass(M(w), r)'
<1> PICK q, p : q = pass[w] /\ p = Idle
    OBVIOUS
<1>1. /\ q.pc = "next" /\ q.todo = {} /\ M(w) \in up /\ pass' = [pass EXCEPT ![w] = p]
      /\ UNCHANGED <<world, cfg, src, live, cfgCache, srcCache, secEvents, queue>>
    BY Worker DEF Return, server, caches
<1>2. p.pc = "idle" /\ p.todo = {}
    BY DEF Idle
<1>3. ASSUME NEW m, CurrentPass(m, q) PROVE CurrentPass(m, p)
    <2>1. DoneWith(p) = DoneWith(q)
        BY <1>1, <1>2 DEF DoneWith, Working
    <2> QED
        BY <1>2, <1>3, <2>1 DEF CurrentPass, Working
<1> QED
    BY <1>1, <1>3, OwnStep

LEMMA ReadListWakes ==
    ASSUME Types, WakeInv, world.resync # "must", NEW w \in Agents, M(w) \in up',
           ReadList(w), NothingPending(M(w))'
    PROVE  \A r : r = pass'[w] => CurrentPass(M(w), r)'
<1> PICK m, q : m = M(w) /\ q = pass[w]
    OBVIOUS
<1> PICK s : s = Lists[q.next]
    OBVIOUS
<1> PICK n : n = srcCache[m][s]
    OBVIOUS
<1>1. /\ q.pc = "list" /\ WorkOK(q) /\ DOMAIN pass = Agents /\ m \in up
      /\ UNCHANGED <<world, cfg, src, live, cfgCache, srcCache, secEvents, queue>>
    BY Worker DEF ReadList, server, caches
<1>2. s \in Sources /\ s \notin Refs /\ q.next \in 1 .. 4
    BY <1>1, ListFacts DEF WorkOK, Sources, Refs
<1>3. PICK x, p : /\ pass' = [pass EXCEPT ![w] = p]
                  /\ p = [q EXCEPT !.ver[s] = n, !.order[s] = x,
                                   !.next = IF @ = Len(Lists) THEN 1 ELSE @ + 1,
                                   !.pc = IF s = Lists[Len(Lists)] THEN "render" ELSE @]
    <2>1. PICK x : pass' = [pass EXCEPT ![w].ver[s] = n, ![w].order[s] = x,
                               ![w].next = IF @ = Len(Lists) THEN 1 ELSE @ + 1,
                               ![w].pc = IF s = Lists[Len(Lists)] THEN "render" ELSE @]
        BY <1>1 DEF ReadList
    <2> DEFINE p == [q EXCEPT !.ver[s] = n, !.order[s] = x,
                              !.next = IF @ = Len(Lists) THEN 1 ELSE @ + 1,
                              !.pc = IF s = Lists[Len(Lists)] THEN "render" ELSE @]
    <2>2. pass' = [pass EXCEPT ![w] = p]
        BY <1>1, <2>1 DEF WorkOK, PassFields
    <2> QED
        BY <2>2
<1>4. /\ p.ver = [q.ver EXCEPT ![s] = n]
      /\ p.next = IF q.next = 4 THEN 1 ELSE q.next + 1
      /\ p.pc = IF s = "parser" THEN "render" ELSE "list"
      /\ p.config = q.config /\ p.listed = q.listed /\ p.todo = q.todo
    BY <1>1, <1>3, ListFacts DEF WorkOK, PassFields
<1>5. Read(p) \subseteq Read(q) \cup {s}
    <2>1. CASE q.next = 4
        BY <1>1, <1>4, <2>1, ListFacts DEF Read
    <2>2. CASE q.next \in 1 .. 3
        BY <1>1, <1>4, <2>2, ListFacts DEF Read
    <2> QED
        BY <1>2, <2>1, <2>2
<1>6. Referable(m, q.config, {s})
    BY <1>2 DEF Referable
<1>7. q.pc \in Working \ {"write"} /\ p.pc \in Working \ {"write"}
    BY <1>1, <1>4 DEF Working, PCs
<1>8. CurrentPass(m, q) => CurrentPass(m, p)
    BY <1>1, <1>2, <1>4, <1>5, <1>6, <1>7, ReadsCurrent
<1> QED
    BY <1>1, <1>3, <1>8, OwnStep

LEMMA RenderWakes ==
    ASSUME Types, WakeInv, world.resync # "must", NEW w \in Agents, M(w) \in up',
           Render(w) \/ RenderScripts(w), NothingPending(M(w))'
    PROVE  \A r : r = pass'[w] => CurrentPass(M(w), r)'
<1> PICK m, q : m = M(w) /\ q = pass[w]
    OBVIOUS
<1>1. /\ q.pc \in {"render", "scripts"} /\ WorkOK(q) /\ DOMAIN pass = Agents /\ m \in up
      /\ ~ Fail(w)
      /\ UNCHANGED <<world, cfg, src, live, cfgCache, srcCache, secEvents>>
    BY Worker, FailsNot DEF Render, RenderScripts, server, caches
<1>2. PICK r, t, x, n :
        /\ pass' = [pass EXCEPT ![w].pc = t, ![w].ver[r] = n, ![w].order = x]
        /\ UNCHANGED queue /\ n = srcCache[m][r]
        /\ r \in world.selects[q.config] => world.srcHistory[r][n] # Missing
        /\ \/ q.pc = "render" /\ r = "secret" /\ t = "scripts"
           \/ q.pc = "scripts" /\ r = "configMap" /\ t = "get"
    BY <1>1 DEF Render, RenderScripts, LoadRef
<1>3. PICK p : /\ p = [q EXCEPT !.pc = t, !.ver[r] = n, !.order = x]
               /\ pass' = [pass EXCEPT ![w] = p]
    <2> DEFINE p == [q EXCEPT !.pc = t, !.ver[r] = n, !.order = x]
    <2>1. pass' = [pass EXCEPT ![w] = p]
        BY <1>1, <1>2 DEF WorkOK, PassFields
    <2> QED
        BY <2>1
<1>4. /\ p.pc = t /\ p.ver = [q.ver EXCEPT ![r] = n]
      /\ p.config = q.config /\ p.listed = q.listed /\ p.todo = q.todo
    BY <1>1, <1>3 DEF WorkOK, PassFields
<1>5. r \in Sources
    BY <1>2 DEF Sources, Refs
<1>6. Read(p) \subseteq Read(q) \cup {r}
    BY <1>2, <1>4, ListFacts DEF Read, Sources, Refs
<1>7. Referable(m, q.config, {r})
    BY <1>2 DEF Referable
<1>8. q.pc \in Working \ {"write"} /\ p.pc \in Working \ {"write"}
    BY <1>2, <1>4 DEF Working, PCs
<1>9. CurrentPass(m, q) => CurrentPass(m, p)
    BY <1>1, <1>2, <1>4, <1>5, <1>6, <1>7, <1>8, ReadsCurrent
<1>10. UNCHANGED queue /\ pass' = [pass EXCEPT ![w] = p]
    BY <1>2, <1>3
<1> QED
    BY <1>1, <1>9, <1>10, OwnStep

\* The Secret in the cache is the one at the server, as no event is under way.
LEMMA GetWakes ==
    ASSUME Types, WakeInv, world.resync # "must", NEW w \in Agents, M(w) \in up',
           GetSecret(w), NothingPending(M(w))'
    PROVE  \A r : r = pass'[w] => CurrentPass(M(w), r)'
<1> PICK m, q, c, x : m = M(w) /\ q = pass[w] /\ c = q.config /\ x = secCache[m][c]
    OBVIOUS
<1>1. /\ q.pc = "get" /\ WorkOK(q) /\ DOMAIN pass = Agents /\ m \in up
      /\ UNCHANGED <<world, cfg, src, live, cfgCache, srcCache, secEvents, queue>>
    BY Worker DEF GetSecret, server, caches
<1>2. PICK p : /\ p = [q EXCEPT !.pc = "write", !.base = x]
               /\ pass' = [pass EXCEPT ![w] = p]
    BY <1>1 DEF GetSecret
<1>3. /\ p.pc = "write" /\ p.ver = q.ver /\ p.base = x
      /\ p.config = q.config /\ p.listed = q.listed /\ p.todo = q.todo
    BY <1>1, <1>2 DEF WorkOK, PassFields
<1>4. ASSUME NothingPending(m), CurrentPass(m, q) PROVE CurrentPass(m, p)
    <2>1. x = live[c]
        <3>1. m \in Managers /\ c \in Configs
            BY <1>1 DEF M, Agents, WorkOK, Working, PCs
        <3>2. secEvents[m][c] = <<>> /\ Known(m, c) = live[c]
            BY <1>1, <1>4, <3>1 DEF NothingPending, NoEvents, Types, ManagerOK
        <3> QED
            BY <3>2 DEF Known
    <2>2. DoneWith(p) = DoneWith(q) /\ Read(p) = Read(q)
        BY <1>1, <1>3 DEF DoneWith, Read, Working, PCs
    <2> QED
        BY <1>1, <1>3, <1>4, <2>1, <2>2 DEF CurrentPass, Working, PCs
<1> QED
    BY <1>1, <1>2, <1>4, OwnStep

LEMMA WorkersWake ==
    ASSUME Types, WakeInv, world.resync # "must", NEW w \in Agents, M(w) \in up',
           NEW x \in Agents, Step(x) \/ LoseWrite(x), NothingPending(M(w))'
    PROVE  \A p : p = pass'[w] => CurrentPass(M(w), p)'
<1>1. CASE x # w
    BY <1>1, NeighboursWake
<1>2. CASE x = w
    BY <1>2, BeginWakes, TakeWakes, ReturnWakes, ReadListWakes, RenderWakes, GetWakes,
       WriteWakes DEF Step
<1> QED
    BY <1>1, <1>2

LEMMA WakeNext == RefsAppear /\ Types /\ WakeInv /\ [Next]_vars => WakeInv'
<1> SUFFICES ASSUME RefsAppear, Types, WakeInv, [Next]_vars PROVE WakeInv'
    OBVIOUS
<1>1. up' # {}
    <2>1. ASSUME NEW m \in Managers, Retire(m) PROVE up' # {}
        <3>1. PICK i \in 2 .. Len(world.managers) :
                up = {world.managers[i - 1], world.managers[i]} /\ m = world.managers[i - 1]
            BY <2>1 DEF Retire
        <3>2. world.managers[i - 1] # world.managers[i]
            <4>1. /\ world.managers \in Seq(Managers)
                  /\ \A j, k \in DOMAIN world.managers :
                        world.managers[j] = world.managers[k] => j = k
                BY WorldAssumption DEF Types, ServerOK
            <4> QED
                BY <4>1
        <3> QED
            BY <2>1, <3>1, <3>2 DEF Retire
    <2>2. ASSUME NEW m \in Managers, RollOut(m) PROVE up' # {}
        BY <2>2 DEF RollOut
    <2>3. ASSUME NEW m \in Managers, DeliverSecrets(m) \/ Restart(m) PROVE UNCHANGED up
        BY <2>3 DEF DeliverSecrets, DeliverSecret, Restart
    <2>4. ASSUME NEW x \in Agents, Step(x) \/ LoseWrite(x) PROVE UNCHANGED up
        BY <2>4 DEF Step, LoseWrite, Begin, Take, Return, ReadList, Render, RenderScripts,
           GetSecret, WriteSecret
    <2>5. ASSUME \/ \E c \in Configs : EditConfig(c) \/ CollectGarbage(c) \/ Tamper(c)
                 \/ \E s \in Sources : EditSource(s)
                 \/ DeliverObjects \/ \E m \in up : Resync(m) \/ UNCHANGED vars
          PROVE  UNCHANGED up
        BY <2>5 DEF EditConfig, CollectGarbage, Tamper, EditSource, DeliverObjects,
           DeliverConfig, DeliverSource, Resync, vars
    <2> QED
        BY <2>1, <2>2, <2>3, <2>4, <2>5 DEF Next, WakeInv, vars
<1>2. UNCHANGED world
    BY SameWorld
<1> SUFFICES ASSUME world.resync # "must", NEW w \in Agents, M(w) \in up',
                    NothingPending(M(w))'
             PROVE  CurrentPass(M(w), pass[w])'
    BY <1>1, <1>2 DEF WakeInv
<1>3. \A p : p = pass'[w] => CurrentPass(M(w), p)'
    <2>1. CASE UNCHANGED vars
        BY <2>1, Elsewhere DEF vars, server, caches
    <2>2. CASE Next
        BY <2>2, EditsWake, DeliveriesWake, OthersWake, StartsWake, WorkersWake DEF Next
    <2> QED
        BY <2>1, <2>2
<1> PICK q : q = pass'[w]
    OBVIOUS
<1>4. CurrentPass(M(w), q)'
    BY <1>3
<1> QED
    BY <1>4 DEF CurrentPass, Referable, DoneWith, Read, Exists, CfgAt

LEMMA WakeInit == Init => WakeInv
<1> SUFFICES ASSUME Init, NEW w \in Agents, M(w) \in up PROVE queue[M(w)] # {}
    BY DEF WakeInv, NothingPending, Init
<1>1. "input" \in ListNames
    BY ListFacts
<1>2. world.name["input"] \in AllRequests(cfg)
    BY <1>1 DEF AllRequests, RequestsOf, Watched
<1>3. queue[M(w)] = AllRequests(cfg)
    BY DEF Init, M, Agents
<1> QED
    BY <1>2, <1>3

\* A manager at rest that has no reason to write leaves every Secret settled.
LEMMA WakeSettles == Types /\ WakeInv => NoLostWakeup
<1> SUFFICES ASSUME Types, WakeInv, AtRest, NEW c \in Configs PROVE Settled(c)
    BY DEF NoLostWakeup
<1>1. CASE ~ Exists(c, cfg[c])
    BY <1>1 DEF AtRest, Orphaned, Settled
<1>2. CASE Exists(c, cfg[c])
    <2>1. up \subseteq Managers
        BY DEF Types, ServerOK
    <2>2. ASSUME NEW m \in up PROVE Right(m, c) /\ srcCache[m] = src /\ cfgCache[m] = cfg
        <3> PICK w : w = <<m, 1>>
            OBVIOUS
        <3>1. w \in Agents /\ M(w) = m
            BY <2>1 DEF Agents, Workers, M
        <3>2. NothingPending(m) /\ srcCache[m] = src /\ cfgCache[m] = cfg
            BY DEF AtRest, NothingPending
        <3>3. CurrentPass(m, pass[w])
            BY <3>1, <3>2 DEF AtRest, WakeInv
        <3>4. c \in DoneWith(pass[w])
            BY <1>2, <3>1 DEF AtRest, Busy, DoneWith, Types, WorkersOK, WorkOK, Working
        <3> QED
            BY <3>2, <3>3, <3>4 DEF CurrentPass
    <2>3. PICK m \in up : TRUE
        BY DEF WakeInv
    <2>4. \A k, S : ShowsSeen(m, c, k, S) => Shows(c, k, S)
        BY <2>2, <2>3 DEF ShowsSeen, Shows, Cached, Now
    <2>5. world.selects[c] \subseteq Sources /\ ListNames \cup Refs = Sources
        BY Histories DEF Types, ServerOK, Sources
    <2>6. /\ MainSources(c) = {"config"} \cup (world.selects[c] \ {"parser", "configMap"})
          /\ ParserSources(c) = world.selects[c] \cap {"parser"}
        BY DEF MainSources, ParserSources
    <2>7. /\ live[c].owner = CfgAt(c, cfg[c]).uid
          /\ \A n \in up : live[c].main.gzip = world.compress[n]
          /\ Shows(c, live[c].main, MainSources(c))
          /\ Shows(c, live[c].parsers, ParserSources(c))
          /\ Shows(c, live[c].scripts, ScriptSources(c))
        BY <2>2, <2>3, <2>4 DEF Right, RightSecret
    <2>8. UpToDate(c)
        BY <2>6, <2>7 DEF UpToDate, ScriptSources
    <2> QED
        BY <1>2, <2>8 DEF Settled
<1> QED
    BY <1>1, <1>2

\* Whatever is edited, lost, refused, spoilt or restarted, and whatever a second
\* manager writes meanwhile: when nothing is left to make Reconcile run again,

\* each Secret is what its config and the sources say.
THEOREM NoWakeupIsLost == ASSUME RefsAppear PROVE Spec => []NoLostWakeup
<1>1. Init => Types /\ WakeInv
    BY TypesInit, WakeInit
<1>2. (Types /\ WakeInv) /\ [Next]_vars => (Types /\ WakeInv)'
    BY TypesNext, WakeNext
<1> QED
    BY <1>1, <1>2, WakeSettles, PTL DEF Spec

-----------------------------------------------------------------------------
(* One order.                                                               *)

Sorted(s) == [i \in 1 .. world.items[s] |-> i]

\* A key rendered from lists, each of them sorted.
SortedKey(k) == k # NoKey => k.order = [s \in DOMAIN k.ver \cap ListNames |-> Sorted(s)]

\* A Secret that no order of a cache has left a trace in: its lists are sorted,
\* and its script is that of the filter that comes last by name.
SortedSecret(x) ==
    /\ SortedKey(x.main)
    /\ SortedKey(x.parsers) /\ x.parsers.gzip = FALSE
    /\ x.scripts # NoKey => /\ x.scripts.order = <<world.items["filter"]>>
                             /\ DOMAIN x.scripts.ver # {}
    /\ x.scripts.gzip = FALSE

\* From the first Load on, the lists of a pass are sorted.
SortedPass(p) ==
    /\ DOMAIN p.order = ListNames
    /\ \A s \in ListNames : DOMAIN p.order[s] = 1 .. world.items[s]
    /\ p.pc \in {"scripts", "get", "write"} =>
         \A s \in ListNames : p.order[s] = Sorted(s)

SortInv ==
    /\ \A w \in Agents : SortedPass(pass[w])
    /\ \A c \in Configs : SortedSecret(live[c])

LEMMA IdleSorted ==
    ASSUME NEW p, p = Idle
    PROVE  SortedPass(p)
<1>1. p.pc = "idle" /\ p.order = [s \in ListNames |-> [i \in 1 .. world.items[s] |-> i]]
    BY DEF Idle
<1> QED
    BY <1>1 DEF SortedPass

LEMMA NoSecretSorted == SortedSecret(NoSecret) /\ NoKey.gzip = FALSE
    BY DEF SortedSecret, SortedKey, NoSecret, NoKey

\* What Load leaves is sorted, whatever came out of the cache.
LEMMA LoadSorts ==
    ASSUME NEW p, SortedPass(p), NEW q, q.pc \in PCs,
           q.order = [s \in ListNames |-> AfterLoad(p.order[s])]
    PROVE  SortedPass(q)
<1>1. \A s \in ListNames : q.order[s] = Sorted(s)
    BY DEF AfterLoad, SortByName, SortedPass, Sorted
<1> QED
    BY <1>1 DEF SortedPass, Sorted

\* A worker does something with its own variables.
LEMMA PassSorted ==
    ASSUME Types, SortInv, UNCHANGED world, NEW w \in Agents, NEW p, SortedPass(p),
           pass' = [pass EXCEPT ![w] = p]
    PROVE  \A x \in Agents : SortedPass(pass[x])'
<1>1. \A x \in Agents : \A q : q = pass'[x] => SortedPass(q)
    BY DEF Types, WorkersOK, SortInv
<1> SUFFICES ASSUME NEW x \in Agents, NEW q, q = pass'[x], SortedPass(q)
             PROVE  SortedPass(pass[x])'
    BY <1>1
<1> QED
    BY DEF SortedPass, Sorted

LEMMA PutSorted ==
    ASSUME Types, SortInv, UNCHANGED world, NEW c \in Configs, NEW x, SortedSecret(x),
           Put(c, x)
    PROVE  \A d \in Configs : SortedSecret(live[d])'
<1>1. \A d \in Configs : \A y : y = live'[d] => SortedSecret(y)
    BY DEF Types, ServerOK, SortInv, Put
<1> SUFFICES ASSUME NEW d \in Configs, NEW y, y = live'[d], SortedSecret(y)
             PROVE  SortedSecret(live[d])'
    BY <1>1
<1> QED
    BY DEF SortedSecret, SortedKey, Sorted

\* A pass that has loaded its lists wants a sorted Secret.
LEMMA WantedSorted ==
    ASSUME world \in Worlds, NEW p, SortedPass(p), p.pc = "write", NEW c, NEW z, NEW t,
           t = Wanted(c, p.ver, p.order, z)
    PROVE  SortedSecret(t)
<1>1. \A s \in ListNames : p.order[s] = Sorted(s) /\ SortByName(p.order[s]) = Sorted(s)
    BY DEF SortedPass, SortByName, Sorted
<1>2. ListNames = {"input", "filter", "output", "parser"}
    BY ListFacts
<1>3. SortedKey(t.main)
    <2> PICK r : r = RenderMainConfig(c, p.ver, p.order)
        OBVIOUS
    <2> PICK S, T : /\ S = world.selects[c] \cap {"input", "filter", "output"}
                    /\ T = S \cup {"config"} \cup (world.selects[c] \cap {"secret"})
        OBVIOUS
    <2>1. /\ r.ver = [s \in T |-> p.ver[s]] /\ DOMAIN r = {"ver", "order", "gzip"}
          /\ r.order = [s \in S |-> SortByName(p.order[s])]
        BY DEF RenderMainConfig, Part
    <2>2. t.main = [r EXCEPT !.gzip = z]
        BY DEF Wanted
    <2>3. t.main.ver = r.ver /\ t.main.order = r.order
        BY <2>1, <2>2
    <2>4. T \cap ListNames = S /\ DOMAIN t.main.ver = T
        BY <1>2, <2>1, <2>3
    <2>5. r.order = [s \in S |-> Sorted(s)]
        BY <1>1, <1>2, <2>1
    <2> QED
        BY <2>3, <2>4, <2>5 DEF SortedKey
<1>4. SortedKey(t.parsers) /\ t.parsers.gzip = FALSE
    <2> PICK S : S = world.selects[c] \cap {"parser"}
        OBVIOUS
    <2>1. /\ t.parsers.ver = [s \in S |-> p.ver[s]] /\ t.parsers.gzip = FALSE
          /\ t.parsers.order = [s \in S |-> SortByName(p.order[s])]
        BY DEF Wanted, RenderParserConfig, Part
    <2>2. t.parsers.order = [s \in S |-> Sorted(s)] /\ DOMAIN t.parsers.ver \cap ListNames = S
        BY <1>1, <1>2, <2>1
    <2> QED
        BY <2>1, <2>2 DEF SortedKey
<1>5. /\ t.scripts.gzip = FALSE
      /\ t.scripts # NoKey => /\ t.scripts.order = <<world.items["filter"]>>
                              /\ DOMAIN t.scripts.ver # {}
    <2> PICK n : n = world.items["filter"]
        OBVIOUS
    <2>1. n \in 1 .. n
        BY <1>2, WorldAssumption
    <2>2. p.order["filter"][n] = n
        BY <1>1, <1>2, <2>1 DEF Sorted
    <2>3. t.scripts = RenderLuaScript(c, p.ver, p.order)
        BY DEF Wanted
    <2>4. \/ t.scripts = NoKey
          \/ /\ t.scripts.gzip = FALSE /\ t.scripts.order = <<n>>
             /\ DOMAIN t.scripts.ver = {"filter", "configMap"}
        BY <2>2, <2>3 DEF RenderLuaScript, Part
    <2> QED
        BY <2>4, NoSecretSorted
<1> QED
    BY <1>3, <1>4, <1>5 DEF SortedSecret

LEMMA OutcomeSorted ==
    ASSUME Types, SortInv, NEW w \in Agents, pass[w].pc = "write"
    PROVE  SortedSecret(Outcome(w))
<1> PICK q, t, c, y, x : /\ q = pass[w] /\ t = Target(w) /\ c = q.config /\ y = live[c]
                         /\ x = Outcome(w)
    OBVIOUS
<1>1. c \in Configs /\ world \in Worlds /\ SortedPass(q)
    BY DEF Types, ServerOK, WorkersOK, WorkOK, Working, PCs, SortInv
<1>2. SortedSecret(t) /\ SortedSecret(y)
    <2>1. t = Wanted(c, q.ver, q.order, world.compress[M(w)])
        BY DEF Target
    <2> QED
        BY <1>1, <2>1, WantedSorted DEF SortInv
<1>3. CASE q.base = NoSecret
    BY <1>2, <1>3 DEF Outcome
<1>4. CASE q.base # NoSecret
    <2>1. x = Patched(c, q.base, t)
        BY <1>4 DEF Outcome
    <2>2. /\ x.main \in {y.main, t.main} /\ x.parsers \in {y.parsers, t.parsers}
          /\ x.scripts \in {y.scripts, t.scripts}
        BY <2>1 DEF Patched
    <2> QED
        BY <1>2, <2>2 DEF SortedSecret
<1> QED
    BY <1>3, <1>4


LEMMA WorkerSorts ==
    ASSUME Types, SortInv, NEW w \in Agents, Step(w) \/ LoseWrite(w)
    PROVE  SortInv'
<1> PICK q : q = pass[w]
    OBVIOUS
<1>1. WorkOK(q) /\ SortedPass(q)
    BY Worker DEF SortInv
<1>2. UNCHANGED world
    BY SameWorld DEF Next
<1>3. Fail(w) => \E p : SortedPass(p) /\ pass' = [pass EXCEPT ![w] = p]
    BY IdleSorted DEF Fail
<1>4. \E p : SortedPass(p) /\ pass' = [pass EXCEPT ![w] = p]
    <2>1. CASE Begin(w)
        <3> PICK i : i = Idle
            OBVIOUS
        <3>1. SortedPass(i) /\ DOMAIN i = PassFields
            BY IdleSorted DEF Idle, PassFields
        <3> PICK v, t : v = cfgCache[M(w)] /\ t = Listed(v)
            OBVIOUS
        <3>2. PICK k, p : /\ p = [i EXCEPT !.pc = "next", !.key = k, !.listed = v, !.todo = t]
                          /\ pass' = [pass EXCEPT ![w] = p]
            BY <2>1 DEF Begin
        <3>3. p.order = i.order /\ p.pc = "next"
            BY <3>1, <3>2 DEF PassFields
        <3> QED
            BY <3>1, <3>2, <3>3 DEF SortedPass
    <2>2. ASSUME NEW c \in Configs, Take(w, c), ~ Fail(w) PROVE <1>4
        <3> DEFINE p == [q EXCEPT !.pc = "list", !.todo = q.todo \ {c}, !.config = c, !.next = 1,
                                  !.ver["config"] = q.listed[c]]
        <3>1. pass' = [pass EXCEPT ![w] = p]
            BY <1>1, <2>2 DEF Take, WorkOK, PassFields
        <3>2. p.order = q.order /\ p.pc = "list"
            BY <1>1 DEF WorkOK, PassFields
        <3> HIDE DEF p
        <3>3. SortedPass(p)
            BY <1>1, <3>2 DEF SortedPass
        <3> QED
            BY <3>1, <3>3
    <2>3. CASE Return(w)
        BY <2>3, IdleSorted DEF Return
    <2>4. CASE ReadList(w)
        <3> PICK s, n : s = Lists[q.next] /\ n = srcCache[M(w)][s]
            OBVIOUS
        <3>1. s \in ListNames
            BY <1>1 DEF WorkOK, ListNames
        <3>2. PICK o \in Orders(s) :
                 pass' = [pass EXCEPT ![w].ver[s] = n, ![w].order[s] = o,
                             ![w].next = IF @ = Len(Lists) THEN 1 ELSE @ + 1,
                             ![w].pc = IF s = Lists[Len(Lists)] THEN "render" ELSE @]
            BY <2>4 DEF ReadList
        <3> DEFINE p == [q EXCEPT !.ver[s] = n, !.order[s] = o,
                                  !.next = IF @ = Len(Lists) THEN 1 ELSE @ + 1,
                                  !.pc = IF s = Lists[Len(Lists)] THEN "render" ELSE @]
        <3>3. pass' = [pass EXCEPT ![w] = p]
            BY <1>1, <3>2 DEF WorkOK, PassFields
        <3>4. q.pc = "list" /\ DOMAIN o = 1 .. world.items[s]
            BY <2>4, <3>2 DEF ReadList, Orders
        <3>5. p.order = [q.order EXCEPT ![s] = o] /\ p.pc \in {"render", "list"}
            BY <1>1, <3>4 DEF WorkOK, PassFields
        <3> HIDE DEF p
        <3>6. SortedPass(p)
            BY <1>1, <3>1, <3>4, <3>5 DEF SortedPass
        <3> QED
            BY <3>3, <3>6
    <2>5. CASE Render(w) /\ ~ Fail(w)
        <3> PICK x : x = [s \in ListNames |-> AfterLoad(q.order[s])]
            OBVIOUS
        <3> PICK n : n = srcCache[M(w)]["secret"]
            OBVIOUS
        <3>1. pass' = [pass EXCEPT ![w].pc = "scripts", ![w].ver["secret"] = n, ![w].order = x]
            BY <2>5 DEF Render, LoadRef
        <3> DEFINE p == [q EXCEPT !.pc = "scripts", !.ver["secret"] = n, !.order = x]
        <3>2. pass' = [pass EXCEPT ![w] = p]
            BY <1>1, <3>1 DEF WorkOK, PassFields
        <3>3. p.order = x /\ p.pc = "scripts"
            BY <1>1 DEF WorkOK, PassFields
        <3> HIDE DEF p
        <3>4. SortedPass(p)
            BY <1>1, <3>3, LoadSorts DEF PCs
        <3> QED
            BY <3>2, <3>4
    <2>6. CASE RenderScripts(w) /\ ~ Fail(w)
        <3> PICK n : n = srcCache[M(w)]["configMap"]
            OBVIOUS
        <3>1. /\ q.pc = "scripts"
              /\ pass' = [pass EXCEPT ![w].pc = "get", ![w].ver["configMap"] = n,
                                      ![w].order = q.order]
            BY <2>6 DEF RenderScripts, LoadRef
        <3> DEFINE p == [q EXCEPT !.pc = "get", !.ver["configMap"] = n, !.order = q.order]
        <3>2. pass' = [pass EXCEPT ![w] = p]
            BY <1>1, <3>1 DEF WorkOK, PassFields
        <3>3. p.order = q.order /\ p.pc = "get"
            BY <1>1 DEF WorkOK, PassFields
        <3> HIDE DEF p
        <3>4. SortedPass(p)
            BY <1>1, <3>1, <3>3 DEF SortedPass
        <3> QED
            BY <3>2, <3>4
    <2>7. CASE GetSecret(w)
        <3> PICK x : x = secCache[M(w)][q.config]
            OBVIOUS
        <3> DEFINE p == [q EXCEPT !.pc = "write", !.base = x]
        <3>1. q.pc = "get" /\ pass' = [pass EXCEPT ![w] = p]
            BY <2>7 DEF GetSecret
        <3>2. p.order = q.order /\ p.pc = "write"
            BY <1>1 DEF WorkOK, PassFields
        <3> HIDE DEF p
        <3>3. SortedPass(p)
            BY <1>1, <3>1, <3>2 DEF SortedPass
        <3> QED
            BY <3>1, <3>3
    <2>8. CASE WriteSecret(w) /\ ~ Fail(w)
        <3> PICK i, v, o : i = Idle /\ v = i.ver /\ o = i.order
            OBVIOUS
        <3> DEFINE p == [q EXCEPT !.pc = "next", !.base = NoSecret, !.ver = v, !.order = o]
        <3>1. pass' = [pass EXCEPT ![w] = p]
            BY <1>1, <2>8 DEF WriteSecret, WorkOK, PassFields
        <3>2. p.order = o /\ p.pc = "next" /\ SortedPass(i)
            BY <1>1, IdleSorted DEF WorkOK, PassFields
        <3> HIDE DEF p
        <3>3. SortedPass(p)
            BY <3>2 DEF SortedPass
        <3> QED
            BY <3>1, <3>3
    <2>9. CASE LoseWrite(w)
        BY <1>3, <2>9 DEF LoseWrite
    <2> QED
        BY <1>3, <2>1, <2>2, <2>3, <2>4, <2>5, <2>6, <2>7, <2>8, <2>9 DEF Step
<1>5. \A x \in Agents : SortedPass(pass[x])'
    BY <1>2, <1>4, PassSorted
<1>6. \A c \in Configs : SortedSecret(live[c])'
    <2>1. CASE q.pc = "write" /\ Store(w)
        BY <1>1, <1>2, <2>1, OutcomeSorted, PutSorted DEF Store, WorkOK, Working, PCs
    <2>2. CASE UNCHANGED live
        BY <1>2, <2>2 DEF SortInv, SortedSecret, SortedKey, Sorted
    <2> QED
        BY <2>1, <2>2 DEF Step, LoseWrite, Begin, Take, Return, ReadList, Render, RenderScripts,
           GetSecret, WriteSecret, server
<1> QED
    BY <1>5, <1>6 DEF SortInv

LEMMA SortNext == Types /\ SortInv /\ [Next]_vars => SortInv'
<1> SUFFICES ASSUME Types, SortInv, [Next]_vars PROVE SortInv'
    OBVIOUS
<1>1. UNCHANGED world
    BY SameWorld
<1>2. ASSUME UNCHANGED <<live, pass>> PROVE SortInv'
    BY <1>1, <1>2 DEF SortInv, SortedPass, SortedSecret, SortedKey, Sorted
<1>3. ASSUME NEW c \in Configs, CollectGarbage(c) \/ Tamper(c) PROVE SortInv'
    <2>1. PICK x : /\ Put(c, x) /\ UNCHANGED pass
                   /\ x = NoSecret \/ x = [live[c] EXCEPT !.parsers = NoKey]
        BY <1>3 DEF CollectGarbage, Tamper
    <2>2. SortedSecret(x)
        <3> PICK y : y = live[c] /\ SortedSecret(y) /\ DOMAIN y = Files \cup {"owner"}
            BY DEF SortInv, Types, ServerOK
        <3>1. CASE x = NoSecret
            BY <3>1, NoSecretSorted
        <3>2. CASE x = [y EXCEPT !.parsers = NoKey]
            <4>1. x.main = y.main /\ x.parsers = NoKey /\ x.scripts = y.scripts
                BY <3>2 DEF Files
            <4> QED
                BY <4>1, NoSecretSorted DEF SortedSecret, SortedKey
        <3> QED
            BY <2>1, <3>1, <3>2
    <2> QED
        BY <1>1, <2>1, <2>2, PutSorted DEF SortInv, SortedPass, Sorted
<1>4. ASSUME NEW m, Restart(m) \/ RollOut(m) \/ Retire(m) PROVE SortInv'
    <2>1. UNCHANGED live /\ pass' = [w \in Agents |-> IF M(w) = m THEN Idle ELSE pass[w]]
        BY <1>4 DEF Restart, RollOut, Retire, Start, server
    <2>2. \A w \in Agents : \A p : p = pass'[w] => SortedPass(p)
        BY <2>1, IdleSorted DEF SortInv
    <2>3. \A p : SortedPass(p) => SortedPass(p)'
        BY <1>1 DEF SortedPass, Sorted
    <2>4. ASSUME NEW w \in Agents, NEW p, p = pass'[w], SortedPass(p)' PROVE SortedPass(pass[w])'
        BY <2>4 DEF SortedPass
    <2> QED
        BY <1>1, <2>1, <2>2, <2>3, <2>4 DEF SortInv, SortedSecret, SortedKey, Sorted
<1>5. ASSUME NEW m, DeliverSecrets(m) PROVE SortInv'
    BY <1>2, <1>5 DEF DeliverSecrets, DeliverSecret, server
<1> QED
    BY <1>2, <1>3, <1>4, <1>5, WorkerSorts DEF Next, EditConfig, EditSource, DeliverObjects,
       DeliverConfig, DeliverSource, Resync, vars, server

LEMMA SortInit == Init => SortInv
<1> SUFFICES ASSUME Init PROVE SortInv
    OBVIOUS
<1> PICK i : i = Idle
    OBVIOUS
<1>1. \A w \in Agents : pass[w] = i
    BY DEF Init
<1>2. \A c \in Configs : live[c] = NoSecret
    BY DEF Init
<1> QED
    BY <1>1, <1>2, IdleSorted, NoSecretSorted DEF SortInv

\* What is published depends on the objects that were read and never on the order
\* in which the cache listed them: the lists of each key are sorted by name,
\* and of Lua scripts with one key the one kept is that of the filter that comes
\* last by name, although RenderLuaScript does not sort (Load does it for it).
THEOREM PublishedInOrder == Spec => [](\A c \in Configs : SortedSecret(live[c]))
<1>1. Init => Types /\ SortInv
    BY TypesInit, SortInit
<1>2. (Types /\ SortInv) /\ [Next]_vars => (Types /\ SortInv)'
    BY TypesNext, SortNext
<1>3. SortInv => \A c \in Configs : SortedSecret(live[c])
    BY DEF SortInv
<1> QED
    BY <1>1, <1>2, <1>3, PTL DEF Spec

-----------------------------------------------------------------------------
(* Nothing is written without a reason.                                     *)

\* No edit and no fault is left.
NothingLeft ==
    /\ \A c \in Configs : cfg[c] = Len(world.cfgHistory[c])
    /\ \A s \in Sources : src[s] = Len(world.srcHistory[s])
    /\ faults = MaxFaults

\* The caches of m have everything.
Informed(m) ==
    /\ cfgCache[m] = cfg /\ srcCache[m] = src /\ secEvents[m] = NoEvents

AllSettled == \A c \in Configs : Settled(c) /\ ~ Orphaned(c)

\* Pass p works on what there is, and on a config that can be rendered as far as
\* it has seen.
InformedPass(p) ==
    /\ p.pc # "idle" => p.listed = cfg
    /\ p.pc \in Working =>
         /\ CfgAt(p.config, cfg[p.config]).spec # Invalid
         /\ \A s \in Read(p) : p.ver[s] = src[s]
         /\ \A r \in Refs \cap world.selects[p.config] \cap Read(p) :
               world.srcHistory[r][src[r]] # Missing
    /\ p.pc = "write" => p.base = live[p.config]

Calm ==
    /\ NothingLeft /\ AllSettled
    /\ \A m \in up : Informed(m)
    /\ \A w \in Agents : InformedPass(pass[w])

\* Every Secret is settled and every cache has seen it; requests may still wait.
Finished ==
    /\ NothingLeft /\ AllSettled
    /\ \A m \in up : Informed(m)
    /\ \A w \in Agents : ~ Busy(w)

\* Keys that show the same, in sorted lists, are the same to the API server.
LEMMA SortedSame ==
    ASSUME NEW k, NEW l, SortedKey(k), SortedKey(l), DOMAIN k.ver = DOMAIN l.ver
    PROVE  k.order = l.order
<1>1. \A f : f = [s \in {} |-> Sorted(s)] => f = <<>>
    OBVIOUS
<1>2. NoKey.order = <<>>
    BY DEF NoKey
<1>3. CASE DOMAIN k.ver = {}
    <2>1. \A j : SortedKey(j) /\ DOMAIN j.ver = {} => j.order = <<>>
        <3> SUFFICES ASSUME NEW j, SortedKey(j), DOMAIN j.ver = {}, j # NoKey PROVE j.order = <<>>
            BY <1>2
        <3>1. DOMAIN j.ver \cap ListNames = {}
            OBVIOUS
        <3> QED
            BY <1>1, <3>1 DEF SortedKey
    <2> QED
        BY <1>3, <2>1
<1>4. CASE DOMAIN k.ver # {}
    BY <1>4, NoKeyIsEmpty DEF SortedKey
<1> QED
    BY <1>3, <1>4

LEMMA ShownSame ==
    ASSUME NEW c, NEW k, NEW l, NEW S, Shows(c, k, S), Shows(c, l, S),
           k.order = l.order, k.gzip = l.gzip
    PROVE  SameBytes(c, k, l)
<1>1. [s \in DOMAIN k.ver |-> ContentAt(c, s, k.ver[s])] =
      [s \in DOMAIN l.ver |-> ContentAt(c, s, l.ver[s])]
    BY DEF Shows
<1> QED
    BY <1>1 DEF SameBytes, Bytes

\* What a pass wants that has read what there is, by what it has to show.
LEMMA TargetRight ==
    ASSUME Types, NEW w \in Agents, Informed(M(w)), pass[w].pc = "write",
           InformedPass(pass[w])
    PROVE  RightSecret(M(w), pass[w].config, Target(w))
<1> PICK m, q, c, t : m = M(w) /\ q = pass[w] /\ c = q.config /\ t = Target(w)
    OBVIOUS
<1>1. c \in Configs /\ world.selects[c] \subseteq Sources
    BY Worker, Histories DEF Types, ServerOK, WorkOK, Working, PCs
<1>2. Read(q) = Sources
    BY DEF Read
<1>3. q.ver["config"] = cfg[c] /\ cfgCache[m][c] = cfg[c]
    BY Worker DEF InformedPass, WorkOK, Working, PCs, Informed
<1>4. \A s \in world.selects[c] : q.ver[s] = srcCache[m][s]
    BY <1>1, <1>2 DEF InformedPass, Informed, Working, PCs
<1>5. t = Wanted(c, q.ver, q.order, world.compress[m])
    BY DEF Target
<1>6. RightSecret(m, c, t)
    BY <1>1, <1>3, <1>4, <1>5, WantedShows
<1> QED
    BY <1>6

LEMMA TargetShows ==
    ASSUME Types, NEW w \in Agents, M(w) \in up, Informed(M(w)), NEW q, q = pass[w],
           q.pc = "write", InformedPass(q), NEW c, c = q.config, NEW t, t = Target(w)
    PROVE  /\ t.owner = CfgAt(c, cfg[c]).uid
           /\ t.main.gzip = world.compress[M(w)]
           /\ Shows(c, t.main, MainSources(c))
           /\ Shows(c, t.parsers, ParserSources(c))
           /\ Shows(c, t.scripts, ScriptSources(c))
<1> PICK m : m = M(w)
    OBVIOUS
<1>1. RightSecret(m, c, t)
    BY TargetRight
<1>2. \A k, S : ShowsSeen(m, c, k, S) => Shows(c, k, S)
    BY DEF ShowsSeen, Shows, Cached, Now, Informed
<1> QED
    BY <1>1, <1>2 DEF RightSecret

\* A pass that works on what there is finds every settled Secret as it wants it.
LEMMA CalmWrite ==
    ASSUME Types, SortInv, Calm, NEW w \in Agents, pass[w].pc = "write"
    PROVE  Unneeded(w)
<1> PICK q, c, y, t : q = pass[w] /\ c = q.config /\ y = live[c] /\ t = Target(w)
    OBVIOUS
<1>1. /\ WorkOK(q) /\ M(w) \in up /\ InformedPass(q) /\ Informed(M(w))
      /\ c \in Configs /\ q.base = y /\ SortedSecret(y)
    BY Worker DEF Calm, InformedPass, WorkOK, Working, PCs, SortInv
<1>2. Exists(c, cfg[c]) /\ ~ Broken(c)
    <2>1. Read(q) = Sources /\ Refs \subseteq Sources
        BY DEF Read, Sources
    <2> QED
        BY <1>1, <2>1 DEF WorkOK, InformedPass, Working, PCs, Broken
<1>3. UpToDate(c)
    BY <1>1, <1>2 DEF Calm, AllSettled, Settled
<1>4. /\ y.owner = CfgAt(c, cfg[c]).uid
      /\ y.main.gzip = world.compress[M(w)]
      /\ Shows(c, y.main, MainSources(c))
      /\ Shows(c, y.parsers, ParserSources(c))
      /\ Shows(c, y.scripts, ScriptSources(c))
    BY <1>1, <1>3 DEF UpToDate, MainSources, ParserSources, ScriptSources
<1>5. /\ t.owner = CfgAt(c, cfg[c]).uid
      /\ t.main.gzip = world.compress[M(w)]
      /\ Shows(c, t.main, MainSources(c))
      /\ Shows(c, t.parsers, ParserSources(c))
      /\ Shows(c, t.scripts, ScriptSources(c))
    BY <1>1, TargetShows
<1>6. SortedSecret(t)
    <2>1. t = Wanted(c, q.ver, q.order, world.compress[M(w)])
        BY DEF Target
    <2> QED
        BY <2>1, WantedSorted DEF SortInv, Types, ServerOK
<1>7. SameBytes(c, y.main, t.main)
    <2>1. y.main.order = t.main.order
        BY <1>1, <1>4, <1>5, <1>6, SortedSame DEF SortedSecret, Shows
    <2> QED
        BY <1>4, <1>5, <2>1, ShownSame
<1>8. SameBytes(c, y.parsers, t.parsers)
    <2>1. y.parsers.order = t.parsers.order
        BY <1>1, <1>4, <1>5, <1>6, SortedSame DEF SortedSecret, Shows
    <2>2. y.parsers.gzip = t.parsers.gzip
        BY <1>1, <1>6 DEF SortedSecret
    <2> QED
        BY <1>4, <1>5, <2>1, <2>2, ShownSame
<1>9. SameBytes(c, y.scripts, t.scripts)
    <2>1. DOMAIN y.scripts.ver = DOMAIN t.scripts.ver
        BY <1>4, <1>5 DEF Shows
    <2>2. y.scripts.order = t.scripts.order
        BY <1>1, <1>6, <2>1, NoKeyIsEmpty DEF SortedSecret
    <2>3. y.scripts.gzip = t.scripts.gzip
        BY <1>1, <1>6 DEF SortedSecret
    <2> QED
        BY <1>4, <1>5, <2>2, <2>3, ShownSame
<1>10. y # NoSecret
    <2>1. "config" \in DOMAIN y.main.ver
        BY <1>4 DEF Shows, MainSources
    <2>2. NoSecret.main = NoKey
        BY DEF NoSecret
    <2> QED
        BY <2>1, <2>2, NoKeyIsEmpty
<1> QED
    BY <1>1, <1>4, <1>5, <1>7, <1>8, <1>9, <1>10 DEF Unneeded, SameSecret

\* Only workers, a resync and the end of an update still move.
LEMMA CalmStays ==
    ASSUME Types, SortInv, Calm, [Next]_vars
    PROVE  /\ UNCHANGED <<world, cfg, src, live, faults>> /\ up' \subseteq up
           /\ \A m \in up' : Informed(m)'
<1>1. up \subseteq Managers /\ \A m \in Managers : secEvents[m] = NoEvents
    BY DEF Types, ServerOK, ManagerOK, Calm, Informed
<1>2. ~ Fault
    BY BoundsAssumption DEF Calm, NothingLeft, Fault
<1>3. ASSUME UNCHANGED <<world, cfg, src, live, faults, cfgCache, srcCache, secEvents, up>>
      PROVE  /\ UNCHANGED <<world, cfg, src, live, faults>> /\ up' \subseteq up
             /\ \A m \in up' : Informed(m)'
    BY <1>3 DEF Calm, Informed, NoEvents
<1>4. ASSUME NEW c \in Configs PROVE ~ EditConfig(c) /\ ~ CollectGarbage(c) /\ ~ Tamper(c)
    BY <1>2, <1>4 DEF EditConfig, CollectGarbage, Tamper, Calm, NothingLeft, AllSettled, Types,
       ServerOK
<1>5. ASSUME NEW s \in Sources PROVE ~ EditSource(s)
    BY <1>5 DEF EditSource, Calm, NothingLeft, Types, ServerOK
<1>6. ~ DeliverObjects
    <2>1. /\ \A c \in Configs : cfg[c] \in Nat
          /\ \A s \in Sources : src[s] \in Nat
        BY DEF Types, ServerOK
    <2>2. ASSUME NEW m \in up, NEW c \in Configs PROVE ~ DeliverConfig(m, c)
        BY <2>1, <2>2 DEF DeliverConfig, Calm, Informed
    <2>3. ASSUME NEW m \in up, NEW s \in Sources PROVE ~ DeliverSource(m, s)
        BY <2>1, <2>3 DEF DeliverSource, Calm, Informed
    <2> QED
        BY <2>2, <2>3 DEF DeliverObjects
<1>7. ASSUME NEW m \in Managers PROVE ~ DeliverSecrets(m) /\ ~ Restart(m) /\ ~ RollOut(m)
    BY <1>1, <1>2, <1>7 DEF DeliverSecrets, DeliverSecret, NoEvents, Restart, RollOut
<1>8. ASSUME NEW m \in Managers, Retire(m)
      PROVE  /\ UNCHANGED <<world, cfg, src, live, faults>> /\ up' \subseteq up
             /\ \A n \in up' : Informed(n)'
    <2>1. /\ UNCHANGED <<world, cfg, src, live, faults>> /\ up' = up \ {m}
          /\ \A n \in Managers \ {m} : /\ cfgCache'[n] = cfgCache[n] /\ srcCache'[n] = srcCache[n]
                                       /\ secEvents'[n] = secEvents[n]
        BY <1>8 DEF Retire, server, Types, CachesShaped
    <2> QED
        BY <1>1, <2>1 DEF Calm, Informed, NoEvents
<1>9. ASSUME NEW w \in Agents, Step(w) \/ LoseWrite(w)
      PROVE  UNCHANGED <<world, cfg, src, live, faults, cfgCache, srcCache, secEvents, up>>
    <2>1. ~ LoseWrite(w)
        BY <1>2 DEF LoseWrite
    <2>2. CASE WriteSecret(w)
        <3>1. Unneeded(w)
            BY <2>2, CalmWrite DEF WriteSecret
        <3> QED
            BY <2>2, <3>1 DEF WriteSecret
    <2> QED
        BY <1>9, <2>1, <2>2 DEF Step, Begin, Take, Return, ReadList, Render, RenderScripts,
           GetSecret, server, caches
<1> QED
    BY <1>3, <1>4, <1>5, <1>6, <1>7, <1>8, <1>9 DEF Next, Resync, vars, server, caches

LEMMA SettledKept ==
    ASSUME UNCHANGED <<world, cfg, src, live>>, up' \subseteq up, AllSettled
    PROVE  AllSettled'
<1> SUFFICES ASSUME NEW c \in Configs PROVE Settled(c)' /\ ~ Orphaned(c)'
    BY DEF AllSettled
<1>1. Settled(c) /\ ~ Orphaned(c)
    BY DEF AllSettled
<1>2. Broken(c)' = Broken(c) /\ Exists(c, cfg[c])' = Exists(c, cfg[c])
    BY DEF Broken, Exists, CfgAt
<1>3. UpToDate(c) => UpToDate(c)'
    <2>1. \A k, S : Shows(c, k, S) => Shows(c, k, S)'
        BY DEF Shows, ContentAt, CfgAt, Now
    <2> QED
        BY <2>1 DEF UpToDate, CfgAt
<1>4. Orphaned(c)' = Orphaned(c)
    BY <1>2 DEF Orphaned, CfgAt
<1> QED
    BY <1>1, <1>2, <1>3, <1>4 DEF Settled

\* A worker that goes on with the same config, and has read r as well.
LEMMA ReadsInformed ==
    ASSUME NEW q, NEW p, NEW r, InformedPass(q), q.pc \in Working \ {"write"}, WorkOK(q),
           r \in Sources, p.pc \in Working \ {"write"}, p.config = q.config,
           p.listed = q.listed, p.ver = [q.ver EXCEPT ![r] = src[r]],
           Read(p) \subseteq Read(q) \cup {r},
           r \in Refs \cap world.selects[q.config] => world.srcHistory[r][src[r]] # Missing
    PROVE  InformedPass(p)
<1>1. \A s \in Read(p) : p.ver[s] = src[s]
    <2>1. q.ver \in [Inputs -> Nat] /\ Read(q) \subseteq Inputs /\ r \in Inputs
        BY DEF WorkOK, Read, Inputs
    <2> QED
        BY <2>1 DEF InformedPass
<1> QED
    BY <1>1 DEF InformedPass, Working

LEMMA IdleInformed ==
    ASSUME NEW p, p = Idle
    PROVE  InformedPass(p)
<1>1. p.pc = "idle"
    BY DEF Idle
<1> QED
    BY <1>1 DEF InformedPass, Working

LEMMA WorkerCalm ==
    ASSUME Types, SortInv, Calm, NEW w \in Agents, Step(w)
    PROVE  \E p : InformedPass(p) /\ pass' = [pass EXCEPT ![w] = p]
<1> PICK q, m : q = pass[w] /\ m = M(w)
    OBVIOUS
<1>1. WorkOK(q) /\ InformedPass(q) /\ (q.pc # "idle" => m \in up /\ Informed(m))
    BY Worker DEF Calm
<1>2. Fail(w) => \E p : InformedPass(p) /\ pass' = [pass EXCEPT ![w] = p]
    BY IdleInformed DEF Fail
<1>3. CASE Begin(w)
    <2> PICK i, v, t : i = Idle /\ v = cfgCache[m] /\ t = Listed(v)
        OBVIOUS
    <2>1. PICK k, p : /\ p = [i EXCEPT !.pc = "next", !.key = k, !.listed = v, !.todo = t]
                      /\ pass' = [pass EXCEPT ![w] = p] /\ k \in queue[m]
        BY <1>3 DEF Begin
    <2>2. DOMAIN i = PassFields
        BY DEF Idle, PassFields
    <2>3. p.pc = "next" /\ p.listed = v
        BY <2>1, <2>2 DEF PassFields
    <2>4. v = cfg
        BY <2>1 DEF Types, ManagerOK, Calm, Informed, M, Agents
    <2> QED
        BY <2>1, <2>3, <2>4 DEF InformedPass, Working
<1>4. ASSUME NEW c \in Configs, Take(w, c), ~ Fail(w)
      PROVE  \E p : InformedPass(p) /\ pass' = [pass EXCEPT ![w] = p]
    <2> DEFINE p == [q EXCEPT !.pc = "list", !.todo = q.todo \ {c}, !.config = c, !.next = 1,
                              !.ver["config"] = q.listed[c]]
    <2>1. pass' = [pass EXCEPT ![w] = p]
        BY <1>1, <1>4 DEF Take, WorkOK, PassFields
    <2>2. /\ p.pc = "list" /\ p.next = 1 /\ p.config = c /\ p.listed = q.listed
          /\ q.pc = "next" /\ CfgAt(c, q.listed[c]).spec # Invalid
        BY <1>1, <1>4 DEF WorkOK, PassFields, Take
    <2> HIDE DEF p
    <2>3. Read(p) = {}
        BY <2>2, ListFacts DEF Read
    <2>4. InformedPass(p)
        BY <1>1, <2>2, <2>3 DEF InformedPass
    <2> QED
        BY <2>1, <2>4
<1>5. CASE Return(w)
    BY <1>5, IdleInformed DEF Return
<1>6. CASE ReadList(w)
    <2> PICK s, n : s = Lists[q.next] /\ n = srcCache[m][s]
        OBVIOUS
    <2>1. s \in Sources /\ s \notin Refs /\ q.next \in 1 .. 4 /\ q.pc = "list" /\ n = src[s]
        BY <1>1, <1>6, ListFacts DEF WorkOK, Sources, Refs, ReadList, Informed
    <2>2. PICK o \in Orders(s) :
             pass' = [pass EXCEPT ![w].ver[s] = n, ![w].order[s] = o,
                         ![w].next = IF @ = Len(Lists) THEN 1 ELSE @ + 1,
                         ![w].pc = IF s = Lists[Len(Lists)] THEN "render" ELSE @]
        BY <1>6 DEF ReadList
    <2> DEFINE p == [q EXCEPT !.ver[s] = n, !.order[s] = o,
                              !.next = IF @ = Len(Lists) THEN 1 ELSE @ + 1,
                              !.pc = IF s = Lists[Len(Lists)] THEN "render" ELSE @]
    <2>3. pass' = [pass EXCEPT ![w] = p]
        BY <1>1, <2>2 DEF WorkOK, PassFields
    <2>4. /\ p.ver = [q.ver EXCEPT ![s] = n]
          /\ p.next = IF q.next = 4 THEN 1 ELSE q.next + 1
          /\ p.pc = IF s = "parser" THEN "render" ELSE "list"
          /\ p.config = q.config /\ p.listed = q.listed
        BY <1>1, <2>1, ListFacts DEF WorkOK, PassFields
    <2> HIDE DEF p
    <2>5. Read(p) \subseteq Read(q) \cup {s}
        <3>1. CASE q.next = 4
            BY <2>1, <2>4, <3>1, ListFacts DEF Read
        <3>2. CASE q.next \in 1 .. 3
            BY <2>1, <2>4, <3>2, ListFacts DEF Read
        <3> QED
            BY <2>1, <3>1, <3>2
    <2>6. q.pc \in Working \ {"write"} /\ p.pc \in Working \ {"write"}
        BY <2>1, <2>4 DEF Working, PCs
    <2>7. InformedPass(p)
        BY <1>1, <2>1, <2>4, <2>5, <2>6, ReadsInformed
    <2> QED
        BY <2>3, <2>7
<1>7. CASE (Render(w) \/ RenderScripts(w)) /\ ~ Fail(w)
    <2>1. PICK r, t, x, n :
            /\ pass' = [pass EXCEPT ![w].pc = t, ![w].ver[r] = n, ![w].order = x]
            /\ n = srcCache[m][r]
            /\ r \in world.selects[q.config] => world.srcHistory[r][n] # Missing
            /\ \/ q.pc = "render" /\ r = "secret" /\ t = "scripts"
               \/ q.pc = "scripts" /\ r = "configMap" /\ t = "get"
        BY <1>7 DEF Render, RenderScripts, LoadRef
    <2> DEFINE p == [q EXCEPT !.pc = t, !.ver[r] = n, !.order = x]
    <2>2. pass' = [pass EXCEPT ![w] = p]
        BY <1>1, <2>1 DEF WorkOK, PassFields
    <2>3. /\ p.pc = t /\ p.ver = [q.ver EXCEPT ![r] = n]
          /\ p.config = q.config /\ p.listed = q.listed
        BY <1>1 DEF WorkOK, PassFields
    <2> HIDE DEF p
    <2>4. r \in Sources /\ n = src[r]
        BY <1>1, <2>1 DEF Sources, Refs, Informed
    <2>5. Read(p) \subseteq Read(q) \cup {r}
        BY <2>1, <2>3, ListFacts DEF Read, Sources, Refs
    <2>6. q.pc \in Working \ {"write"} /\ p.pc \in Working \ {"write"}
        BY <2>1, <2>3 DEF Working, PCs
    <2>7. InformedPass(p)
        BY <1>1, <2>1, <2>3, <2>4, <2>5, <2>6, ReadsInformed
    <2> QED
        BY <2>2, <2>7
<1>8. CASE GetSecret(w)
    <2> PICK c, x : c = q.config /\ x = secCache[m][c]
        OBVIOUS
    <2> DEFINE p == [q EXCEPT !.pc = "write", !.base = x]
    <2>1. q.pc = "get" /\ pass' = [pass EXCEPT ![w] = p]
        BY <1>8 DEF GetSecret
    <2>2. /\ p.pc = "write" /\ p.ver = q.ver /\ p.base = x
          /\ p.config = q.config /\ p.listed = q.listed
        BY <1>1 DEF WorkOK, PassFields
    <2> HIDE DEF p
    <2>3. x = live[c]
        <3>1. m \in Managers /\ c \in Configs
            BY <1>1, <2>1 DEF M, Agents, WorkOK, Working, PCs
        <3>2. secEvents[m][c] = <<>> /\ Known(m, c) = live[c]
            BY <1>1, <2>1, <3>1 DEF Informed, NoEvents, Types, ManagerOK
        <3> QED
            BY <3>2 DEF Known
    <2>4. Read(p) = Read(q)
        BY <2>1, <2>2 DEF Read
    <2>5. InformedPass(p)
        BY <1>1, <2>1, <2>2, <2>3, <2>4 DEF InformedPass, Working, PCs
    <2> QED
        BY <2>1, <2>5
<1>9. CASE WriteSecret(w) /\ ~ Fail(w)
    <2> PICK v, o : v = Idle.ver /\ o = Idle.order
        OBVIOUS
    <2> DEFINE p == [q EXCEPT !.pc = "next", !.base = NoSecret, !.ver = v, !.order = o]
    <2>1. q.pc = "write" /\ pass' = [pass EXCEPT ![w] = p]
        BY <1>1, <1>9 DEF WriteSecret, WorkOK, PassFields
    <2>2. p.pc = "next" /\ p.listed = q.listed
        BY <1>1 DEF WorkOK, PassFields
    <2> HIDE DEF p
    <2>3. InformedPass(p)
        BY <1>1, <2>1, <2>2 DEF InformedPass, Working
    <2> QED
        BY <2>1, <2>3
<1> QED
    BY <1>2, <1>3, <1>4, <1>5, <1>6, <1>7, <1>8, <1>9 DEF Step, Take, Render, RenderScripts,
       WriteSecret

LEMMA CalmNext == Types /\ SortInv /\ Calm /\ [Next]_vars => Calm' /\ UNCHANGED live
<1> SUFFICES ASSUME Types, SortInv, Calm, [Next]_vars PROVE Calm' /\ UNCHANGED live
    OBVIOUS
<1>1. /\ UNCHANGED <<world, cfg, src, live, faults>> /\ up' \subseteq up
      /\ \A m \in up' : Informed(m)'
    BY CalmStays
<1>2. NothingLeft' /\ AllSettled'
    BY <1>1, SettledKept DEF Calm, NothingLeft
<1>3. \A w \in Agents : \A p : p = pass'[w] => InformedPass(p)
    <2>1. CASE UNCHANGED pass
        BY <2>1 DEF Calm
    <2>2. ASSUME NEW x \in Agents, Step(x) \/ LoseWrite(x) PROVE <1>3
        <3>1. Step(x)
            BY <2>2, BoundsAssumption DEF LoseWrite, Fault, Calm, NothingLeft
        <3>2. PICK p : InformedPass(p) /\ pass' = [pass EXCEPT ![x] = p]
            BY <3>1, WorkerCalm
        <3> QED
            BY <3>2 DEF Types, WorkersOK, Calm
    <2>3. ASSUME NEW m \in Managers, Restart(m) \/ RollOut(m) \/ Retire(m) PROVE <1>3
        <3>1. pass' = [w \in Agents |-> IF M(w) = m THEN Idle ELSE pass[w]]
            BY <2>3 DEF Restart, RollOut, Retire, Start
        <3> QED
            BY <3>1, IdleInformed DEF Calm
    <2> QED
        BY <2>1, <2>2, <2>3 DEF Next, EditConfig, EditSource, CollectGarbage, Tamper,
           DeliverObjects, DeliverConfig, DeliverSource, DeliverSecrets, DeliverSecret, Resync,
           vars
<1>4. \A p : InformedPass(p) => InformedPass(p)'
    <2> SUFFICES ASSUME NEW p, InformedPass(p) PROVE InformedPass(p)'
        OBVIOUS
    <2>1. Read(p)' = Read(p)
        BY DEF Read
    <2> QED
        BY <1>1, <2>1 DEF InformedPass, CfgAt
<1>5. ASSUME NEW w \in Agents, NEW p, p = pass'[w], InformedPass(p)' PROVE InformedPass(pass[w])'
    BY <1>5 DEF InformedPass, Read, CfgAt
<1> QED
    BY <1>1, <1>2, <1>3, <1>4, <1>5 DEF Calm

\* Once nobody edits or spoils anything, every Secret is settled and the caches
\* have seen it, no Secret is written any more, and all stay settled: not for
\* requests that are still queued, by resyncs, for a config that fails over and
\* over again, in whatever order the lists come, or by a second manager.
\* The safety half of Converges and Quiesces.
THEOREM SettledForGood ==
    Spec => [](Finished => [][UNCHANGED live]_vars /\ []AllSettled)
<1> DEFINE Inv == Types /\ SortInv
<1>1. Init => Inv
    BY TypesInit, SortInit
<1>2. Inv /\ [Next]_vars => Inv'
    BY TypesNext, SortNext
<1>3. Inv /\ Finished => Calm
    BY DEF Finished, Calm, Busy, InformedPass, Working, Types, WorkersOK
<1>4. Inv /\ Calm /\ [Next]_vars => Calm' /\ [UNCHANGED live]_vars
    BY CalmNext
<1>5. Calm => AllSettled
    BY DEF Calm
<1> HIDE DEF Inv
<1> QED
    BY <1>1, <1>2, <1>3, <1>4, <1>5, PTL DEF Spec

\* If referenced objects only appear, the controller need not be known to have
\* settled everything: wherever it comes to rest with no edit and no fault left, it
\* has, for good.
THEOREM RestIsForGood ==
    ASSUME RefsAppear
    PROVE  Spec => [](AtRest /\ NothingLeft => [][UNCHANGED live]_vars /\ []AllSettled)
<1>1. Spec => []NoLostWakeup
    BY NoWakeupIsLost
<1>2. NoLostWakeup /\ AtRest /\ NothingLeft => Finished
    BY DEF NoLostWakeup, AtRest, Finished, Informed, AllSettled
<1> QED
    BY <1>1, <1>2, SettledForGood, PTL
=============================================================================
