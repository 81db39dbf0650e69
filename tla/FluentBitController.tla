------------------------- MODULE FluentBitController -------------------------
(***************************************************************************)
(* The FluentBit reconciler of the operator                                *)
(* (controllers/fluentbit_controller.go, fluentbit_controller_finalizer.go *)
(* and pkg/operator/daemonset.go): it deploys a DaemonSet, with its RBAC   *)
(* objects, for every FluentBit and takes them down when the FluentBit is  *)
(* deleted, which a finalizer holds up until then.                         *)
(*                                                                         *)
(* One worker reconciles one name at a time.  It reads FluentBits, Service *)
(* Accounts, DaemonSets and config Secrets from informer caches that trail *)
(* the API server, each at its own pace, and writes to the server.         *)
(***************************************************************************)
EXTENDS Integers, Sequences, FiniteSets

CONSTANTS
    FluentBits,     \* the names
    Namespace,      \* per name, its namespace
    Namespaced,     \* the manager was started with -watch-namespaces
    Specs,          \* per name, the specs [labels, body] its users give it
    MaxUid,         \* bound: FluentBits created
    MaxPending,     \* bound: events of one object on their way to the cache
    MaxFaults       \* bound: failed calls, foreign deletions, restarts

ASSUME ControllerAssumption ==
    /\ Namespace \in [FluentBits -> STRING]
    /\ Namespaced \in BOOLEAN
    /\ \A n \in FluentBits : Specs[n] \in Seq([labels : STRING, body : STRING])
    /\ \A n \in FluentBits : Specs[n] # <<>>
    /\ MaxUid \in Nat /\ MaxPending \in Nat \ {0} /\ MaxFaults \in Nat

VARIABLES
    cache,      \* per kind and name, the object as the informer cache has it
    events,     \* per kind and name, the states not yet delivered to the cache
    secret,     \* names whose config Secret exists
    secretCache,\* ... and for which the cache has it
    roles,      \* scopes in which the role "kubesphere:fluent-bit" exists
    bindings,   \* per scope, the subject of the role binding, or Nobody
    queue,      \* names waiting in the work queue
    pass,       \* the local variables of Reconcile
    uids,       \* FluentBits created so far
    faults      \* faults so far

vars == <<cache, events, secret, secretCache, roles, bindings, queue, pass, uids, faults>>
server == <<secret, roles, bindings, uids>>

Kinds == {"FluentBit", "ServiceAccount", "DaemonSet"}

\* One record for the objects of every kind: a FluentBit has a uid, its
\* dependents have their owner's.
None == [uid |-> 0, labels |-> "", body |-> "", deleting |-> FALSE, finalizer |-> FALSE,
         at |-> 0]
Nobody == "nobody"

\* Cluster-wide RBAC objects have one fixed name, scoped ones one per namespace.
Scope(n) == IF Namespaced THEN Namespace[n] ELSE "cluster"
Scopes == {Scope(n) : n \in FluentBits}

FluentBit(n, uid, at) ==
    [None EXCEPT !.uid = uid, !.at = at, !.labels = Specs[n][at].labels,
                 !.body = Specs[n][at].body]
ServiceAccount(uid) == [None EXCEPT !.uid = uid]

\* MakeDaemonSet: labels, selector and template from the FluentBit.
MakeDaemonSet(fb) == [None EXCEPT !.uid = fb.uid, !.labels = fb.labels, !.body = fb.body]

Live(k, n) == IF events[k][n] = <<>> THEN cache[k][n] ELSE events[k][n][Len(events[k][n])]

\* A write to the server; one that changes nothing makes no event.
Put(k, n, x) ==
    IF x = Live(k, n) THEN UNCHANGED events
    ELSE /\ Len(events[k][n]) < MaxPending
         /\ events' = [events EXCEPT ![k][n] = Append(@, x)]

Idle == [pc |-> "idle", name |-> CHOOSE n \in FluentBits : TRUE, fb |-> None, base |-> None]

Init ==
    /\ cache = [k \in Kinds |-> [n \in FluentBits |-> None]]
    /\ events = [k \in Kinds |-> [n \in FluentBits |-> <<>>]]
    /\ secret = {} /\ secretCache = {}
    /\ roles = {} /\ bindings = [s \in Scopes |-> Nobody]
    /\ queue = {}
    /\ pass = Idle
    /\ uids = 0 /\ faults = 0

-----------------------------------------------------------------------------
(* Users, the FluentBitConfig reconciler, the garbage collector, informers *)

CreateFluentBit(n) ==
    /\ uids < MaxUid
    /\ Live("FluentBit", n) = None
    /\ uids' = uids + 1
    /\ Put("FluentBit", n, FluentBit(n, uids', 1))
    /\ UNCHANGED <<cache, secret, secretCache, roles, bindings, queue, pass, faults>>

EditFluentBit(n) ==
    LET fb == Live("FluentBit", n) IN
    /\ fb # None
    /\ fb.at < Len(Specs[n])
    /\ Put("FluentBit", n, [FluentBit(n, fb.uid, fb.at + 1) EXCEPT
                               !.deleting = fb.deleting, !.finalizer = fb.finalizer])
    /\ UNCHANGED <<cache, server, secretCache, queue, pass, faults>>

\* The server only marks an object that has a finalizer.
DeleteFluentBit(n) ==
    LET fb == Live("FluentBit", n) IN
    /\ fb # None
    /\ Put("FluentBit", n, IF fb.finalizer THEN [fb EXCEPT !.deleting = TRUE] ELSE None)
    /\ UNCHANGED <<cache, server, secretCache, queue, pass, faults>>

MakeSecret(n) ==
    /\ n \notin secret
    /\ secret' = secret \cup {n}
    /\ UNCHANGED <<cache, events, secretCache, roles, bindings, queue, pass, uids, faults>>

LoseSecret(n) ==
    /\ faults < MaxFaults
    /\ n \in secret
    /\ secret' = secret \ {n}
    /\ faults' = faults + 1
    /\ UNCHANGED <<cache, events, secretCache, roles, bindings, queue, pass, uids>>

\* Someone else deletes the ServiceAccount or the DaemonSet.
Tamper(k, n) ==
    /\ faults < MaxFaults
    /\ k # "FluentBit"
    /\ Live(k, n) # None
    /\ Put(k, n, None)
    /\ faults' = faults + 1
    /\ UNCHANGED <<cache, server, secretCache, queue, pass>>

Orphaned(k, n) == k # "FluentBit" /\ Live(k, n) # None
                  /\ Live(k, n).uid # Live("FluentBit", n).uid

CollectGarbage(k, n) ==
    /\ Orphaned(k, n)
    /\ Put(k, n, None)
    /\ UNCHANGED <<cache, server, secretCache, queue, pass, faults>>

\* For(FluentBit), Owns(ServiceAccount), Owns(DaemonSet): the dependents are
\* named after their owner, so that every event requests the same name.
Watched_NoServiceAccount == {"FluentBit", "DaemonSet"}
Watched == {"FluentBit", "ServiceAccount", "DaemonSet"}

Deliver(k, n) ==
    /\ events[k][n] # <<>>
    /\ cache' = [cache EXCEPT ![k][n] = Head(events[k][n])]
    /\ events' = [events EXCEPT ![k][n] = Tail(@)]
    /\ queue' = IF k \in Watched THEN queue \cup {n} ELSE queue
    /\ UNCHANGED <<server, secretCache, pass, faults>>

\* The Secret is not watched for this controller.
DeliverSecret(n) ==
    /\ (n \in secret) # (n \in secretCache)
    /\ secretCache' = IF n \in secret THEN secretCache \cup {n} ELSE secretCache \ {n}
    /\ UNCHANGED <<cache, events, server, queue, pass, faults>>

Restart ==
    /\ faults < MaxFaults
    /\ cache' = [k \in Kinds |-> [n \in FluentBits |-> Live(k, n)]]
    /\ events' = [k \in Kinds |-> [n \in FluentBits |-> <<>>]]
    /\ secretCache' = secret
    /\ queue' = {n \in FluentBits : \E k \in Watched : Live(k, n) # None}
    /\ pass' = Idle
    /\ faults' = faults + 1
    /\ UNCHANGED server

-----------------------------------------------------------------------------
(* Reconcile                                                               *)

At(pc) == pass.pc = pc
Goto(pc) == pass' = [pass EXCEPT !.pc = pc]
Return == pass' = Idle /\ UNCHANGED queue

\* An error, or Requeue: the request comes back after a growing delay.
Again_No == pass' = Idle /\ UNCHANGED queue
Again == pass' = Idle /\ queue' = queue \cup {pass.name}

\* What follows the reads: the FluentBit is gone, or on its way out, or needs
\* its finalizer, or its Secret, or can be deployed.
NeedsFinalizer_No(fb) == FALSE
NeedsFinalizer(fb) == ~ fb.finalizer

Gone_No(fb) == FALSE
Gone(fb) == fb = None

Branch(fb) ==
    IF fb.deleting
      THEN IF fb.finalizer THEN "deleteServiceAccount" ELSE "idle"
      ELSE IF NeedsFinalizer(fb) THEN "addFinalizer" ELSE "getSecret"

Begin ==
    /\ At("idle")
    /\ \E n \in queue :
          LET fb == cache["FluentBit"][n] IN
          /\ queue' = queue \ {n}
          /\ pass' = IF Gone(fb) \/ Branch(fb) = "idle" THEN Idle
                     ELSE [pc |-> Branch(fb), name |-> n, fb |-> fb, base |-> None]
    /\ UNCHANGED <<cache, events, server, secretCache, faults>>

\* An Update is refused when the object is no longer the one that was read.
UpdateFluentBit(fb) ==
    IF Live("FluentBit", pass.name) = pass.fb
      THEN Put("FluentBit", pass.name, fb) /\ Return
      ELSE UNCHANGED events /\ Again

AddFinalizer ==
    /\ At("addFinalizer")
    /\ UpdateFluentBit([pass.fb EXCEPT !.finalizer = TRUE])
    /\ UNCHANGED <<cache, server, secretCache, faults>>

GetSecret ==
    /\ At("getSecret")
    /\ IF pass.name \in secretCache THEN Goto("createRole") /\ UNCHANGED queue
                                    ELSE Again
    /\ UNCHANGED <<cache, events, server, secretCache, faults>>

\* The RBAC objects are created unless they exist, never changed.
CreateRole ==
    /\ At("createRole")
    /\ roles' = roles \cup {Scope(pass.name)}
    /\ Goto("createServiceAccount")
    /\ UNCHANGED <<cache, events, secret, secretCache, bindings, queue, uids, faults>>

AfterServiceAccount_SkipBinding == "getDaemonSet"
AfterServiceAccount == "createBinding"

CreateServiceAccount ==
    /\ At("createServiceAccount")
    /\ IF Live("ServiceAccount", pass.name) = None
         THEN Put("ServiceAccount", pass.name, ServiceAccount(pass.fb.uid))
         ELSE UNCHANGED events
    /\ Goto(AfterServiceAccount)
    /\ UNCHANGED <<cache, server, secretCache, queue, faults>>

CreateBinding ==
    /\ At("createBinding")
    /\ bindings' = [bindings EXCEPT ![Scope(pass.name)] =
                       IF @ = Nobody THEN pass.name ELSE @]
    /\ Goto("getDaemonSet")
    /\ UNCHANGED <<cache, events, secret, secretCache, roles, queue, uids, faults>>

\* CreateOrPatch: read the DaemonSet from the cache ...
GetDaemonSet ==
    /\ At("getDaemonSet")
    /\ pass' = [pass EXCEPT !.pc = "writeDaemonSet", !.base = cache["DaemonSet"][pass.name]]
    /\ UNCHANGED <<cache, events, server, secretCache, queue, faults>>

\* ... and create it, or send the fields in which the expected one differs
\* from it.  The server refuses a create of what exists, a patch of what does
\* not, and a change of the selector, which is made of the labels.
Patched(live, base, want) ==
    [live EXCEPT !.uid    = IF base.uid = want.uid THEN @ ELSE want.uid,
                 !.labels = IF base.labels = want.labels THEN @ ELSE want.labels,
                 !.body   = IF base.body = want.body THEN @ ELSE want.body]

WriteDaemonSet ==
    LET live == Live("DaemonSet", pass.name)
        want == MakeDaemonSet(pass.fb)
        new  == IF pass.base = None THEN want ELSE Patched(live, pass.base, want)
        refused == \/ (pass.base = None) # (live = None)
                   \/ live # None /\ live.labels # new.labels
    IN
    /\ At("writeDaemonSet")
    /\ IF refused THEN UNCHANGED events /\ Again
                  ELSE Put("DaemonSet", pass.name, new) /\ Return
    /\ UNCHANGED <<cache, server, secretCache, faults>>

\* delete: each dependent the cache has is deleted, by its name.
DeleteServiceAccount ==
    /\ At("deleteServiceAccount")
    /\ IF cache["ServiceAccount"][pass.name] # None
         THEN Put("ServiceAccount", pass.name, None)
         ELSE UNCHANGED events
    /\ Goto("deleteDaemonSet")
    /\ UNCHANGED <<cache, server, secretCache, queue, faults>>

DeleteDaemonSet ==
    /\ At("deleteDaemonSet")
    /\ IF cache["DaemonSet"][pass.name] # None
         THEN Put("DaemonSet", pass.name, None)
         ELSE UNCHANGED events
    /\ Goto("removeFinalizer")
    /\ UNCHANGED <<cache, server, secretCache, queue, faults>>

\* The update that takes the last finalizer away removes the object.
RemoveFinalizer ==
    /\ At("removeFinalizer")
    /\ UpdateFluentBit(None)
    /\ UNCHANGED <<cache, server, secretCache, faults>>

\* Any call to the server may fail, and Reconcile returns the error.
CallFails ==
    /\ ~ At("idle")
    /\ faults < MaxFaults
    /\ faults' = faults + 1
    /\ Again
    /\ UNCHANGED <<cache, events, server, secretCache>>

-----------------------------------------------------------------------------

Step ==
    \/ Begin \/ AddFinalizer \/ GetSecret
    \/ CreateRole \/ CreateServiceAccount \/ CreateBinding
    \/ GetDaemonSet \/ WriteDaemonSet
    \/ DeleteServiceAccount \/ DeleteDaemonSet \/ RemoveFinalizer

Next ==
    \/ \E n \in FluentBits :
          \/ CreateFluentBit(n) \/ EditFluentBit(n) \/ DeleteFluentBit(n)
          \/ MakeSecret(n) \/ LoseSecret(n) \/ DeliverSecret(n)
          \/ \E k \in Kinds : Tamper(k, n) \/ CollectGarbage(k, n) \/ Deliver(k, n)
    \/ Restart
    \/ Step
    \/ CallFails

Spec == Init /\ [][Next]_vars

\* The worker keeps working, the watches deliver, garbage is collected.
FairSpec ==
    /\ Spec
    /\ WF_vars(Step)
    /\ \A n \in FluentBits :
          /\ WF_vars(DeliverSecret(n))
          /\ WF_vars(\E k \in Kinds : Deliver(k, n))
          /\ WF_vars(\E k \in Kinds : CollectGarbage(k, n))
=============================================================================
