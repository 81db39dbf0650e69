------------------------- MODULE FluentBitProperties -------------------------
(***************************************************************************)
(* What FluentBitController must and must not do.                          *)
(***************************************************************************)
EXTENDS FluentBitController

\* A ServiceAccount has neither labels nor a body.
Plain(k, x) == k = "ServiceAccount" => x.labels = "" /\ x.body = ""

\* What can be known of an object after u FluentBits: it is one that the users
\* or the reconciler made, and a marked FluentBit has its finalizer.
ObjectOK(k, n, x, u) ==
    \/ x = None
    \/ /\ x.uid \in 1 .. u
       /\ IF k = "FluentBit"
            THEN /\ x.at \in 1 .. Len(Specs[n])
                 /\ x.deleting => x.finalizer
                 /\ [x EXCEPT !.deleting = FALSE, !.finalizer = FALSE]
                       = FluentBit(n, x.uid, x.at)
            ELSE ~ x.deleting /\ ~ x.finalizer /\ x.at = 0 /\ Plain(k, x)

ObjectsOK ==
    \A k \in Kinds, n \in FluentBits :
        /\ ObjectOK(k, n, cache[k][n], uids)
        /\ \A i \in DOMAIN events[k][n] : ObjectOK(k, n, events[k][n][i], uids)
        /\ Len(events[k][n]) <= MaxPending

PassOK == pass.pc # "idle" => pass.fb # None /\ ObjectOK("FluentBit", pass.name, pass.fb, uids)

RestOK ==
    /\ secret \subseteq FluentBits /\ secretCache \subseteq FluentBits
    /\ roles \subseteq Scopes
    /\ bindings \in [Scopes -> FluentBits \cup {Nobody}]
    /\ queue \subseteq FluentBits
    /\ uids \in 0 .. MaxUid /\ faults \in 0 .. MaxFaults

\* Every object known to the server or to a cache is one that was made, and a
\* pass works on the FluentBit of its name.
TypeOK == ObjectsOK /\ PassOK /\ RestOK

-----------------------------------------------------------------------------

\* The DaemonSet was made with labels the FluentBit no longer has: its
\* selector cannot be changed, and every patch is refused.
Relabelled(n) ==
    /\ Live("DaemonSet", n) # None
    /\ Live("DaemonSet", n).labels # Live("FluentBit", n).labels

\* The DaemonSet and the ServiceAccount of n belong to the FluentBit and are
\* what it asks for; without a FluentBit there are none.
Deployed(n) ==
    LET fb == Live("FluentBit", n) IN
    /\ Live("DaemonSet", n) = MakeDaemonSet(fb)
    /\ Live("ServiceAccount", n) = ServiceAccount(fb.uid)

Settled(n) ==
    LET fb == Live("FluentBit", n) IN
    IF fb = None
      THEN Live("DaemonSet", n) = None /\ Live("ServiceAccount", n) = None
      ELSE ~ fb.deleting /\ (n \in secret => Deployed(n) \/ Relabelled(n))

\* Nothing is queued, worked on, on its way to a cache or due to be collected.
AtRest ==
    /\ queue = {} /\ pass.pc = "idle" /\ secret = secretCache
    /\ \A k \in Kinds, n \in FluentBits : events[k][n] = <<>> /\ ~ Orphaned(k, n)

\* No wake-up is lost: when nothing is left to make Reconcile run again, every
\* FluentBit is deployed as it asks, or taken down, although dependents of an
\* earlier FluentBit of that name may be found, adopted and collected on the
\* way.  (The watches of SetupWithManager, fluentbit_controller.go:203-207.)
NoLostWakeup == AtRest => \A n \in FluentBits : Settled(n)

\* A dependent is only ever created or adopted for a FluentBit that exists:
\* the finalizer keeps it until a pass has seen the deletion, and later
\* passes have seen it too.
NeverOrphans ==
    [][\A n \in FluentBits, k \in {"ServiceAccount", "DaemonSet"} :
          (CreateServiceAccount \/ WriteDaemonSet) /\ Live(k, n)' # Live(k, n)
             => Live(k, n)'.uid = Live("FluentBit", n).uid]_vars

\* What the server has of a name is what FluentBitLifecycle promises, although
\* the passes see it through caches that trail it.  A pass that still takes
\* down a FluentBit long gone deletes dependents by their name, but never those
\* of the FluentBit that has that name now: they were deployed by a pass that
\* had seen it, and no later pass sees the earlier one.
Dependents == {"ServiceAccount", "DaemonSet"}

Marks(fb) == [uid |-> fb.uid, deleting |-> fb.deleting, finalizer |-> fb.finalizer]
FluentBitMarks == [n \in FluentBits |-> Marks(Live("FluentBit", n))]
Owned == [k \in Dependents |-> [n \in FluentBits |-> Live(k, n)]]

Lifecycle == INSTANCE FluentBitLifecycle WITH fluentBit <- FluentBitMarks, dependent <- Owned

ImplementsLifecycle == Lifecycle!Spec

\* Once users leave it alone, each FluentBit is deployed as it asks, provided
\* its Secret exists, or it and its dependents are gone.
Converges == \A n \in FluentBits : <>[]Settled(n)

\* Where a DaemonSet runs, its ServiceAccount may read pods, as the filter
\* plugin kubernetes needs.  (fluentbit_controller.go:86.)
Granted ==
    \A n \in FluentBits :
        Live("DaemonSet", n) # None => Scope(n) \in roles /\ bindings[Scope(n)] = n

\* No two FluentBits share the name of their RBAC objects: the manager is
\* namespaced, and there is one FluentBit per namespace.
OwnScopes == \A n, m \in FluentBits : Scope(n) = Scope(m) => n = m
=============================================================================
