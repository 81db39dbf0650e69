---------------------------- MODULE ObjectCopies ----------------------------
(***************************************************************************)
(* What every reconciler of the operator takes for granted: the object it  *)
(* gets from the informer cache is its own.  The cache answers a Get or a  *)
(* List with deep copies (DeepCopyObject), and whoever holds a copy goes   *)
(* on to change it in place: AddFinalizer appends to it, Load sorts the    *)
(* items of a list, Update and CreateOrPatch have the server's answer      *)
(* decoded into it, and a DaemonSet made by MakeDaemonSet shares labels,   *)
(* node selector, tolerations and affinity with the FluentBit it was made  *)
(* from, so that the answer to its patch is decoded into that, too.  If an *)
(* update fails, what it has changed must be forgotten with the copy.      *)
(*                                                                         *)
(* Memory is a set of cells, one per location of each object ever made.    *)
(***************************************************************************)
EXTENDS DeepCopies

CONSTANTS
    Holders,        \* reconcilers that hold a copy at a time
    MaxObjects,     \* bound: objects made
    MaxWrites       \* bound: writes into a copy

ASSUME CopiesAssumption == MaxObjects \in Nat \ {0} /\ MaxWrites \in Nat

Kinds ==
    {"Input", "Filter", "Output", "Parser", "FluentBitConfig", "FluentBit",
     "InputList", "FilterList", "OutputList", "ParserList",
     "FluentBitConfigList", "FluentBitList"}

\* Per kind, the locations inside an object, and those a copy does not share.
Locations == [k \in Kinds |-> LocationsIn[k, MaxDepth]]
Private == [k \in Kinds |-> CopiedIn[k, TRUE, MaxDepth]]

VARIABLES
    kind,       \* the kind looked at
    objects,    \* objects made so far: 1 .. objects
    cached,     \* the one in the cache
    held,       \* per holder, its copy, and the object this was copied from
    written,    \* the cells that differ from what was delivered, and the
                \* copy through which they were written
    writes

vars == <<kind, objects, cached, held, written, writes>>

Nothing == [id |-> 0, of |-> 0]

\* The cell that location l of the copy leads to.
Cell(h, l) ==
    [object |-> IF l \in Private[kind] THEN held[h].id ELSE held[h].of, at |-> l]

Init ==
    /\ kind \in Kinds
    /\ objects = 1 /\ cached = 1
    /\ held = [h \in Holders |-> Nothing]
    /\ written = {} /\ writes = 0

\* The informer decodes each event into a new object and never touches the
\* previous one.
Deliver ==
    /\ objects < MaxObjects
    /\ objects' = objects + 1
    /\ cached' = objects'
    /\ UNCHANGED <<kind, held, written, writes>>

\* Get and List copy the cached object, as it reads at that moment.
Get(h) ==
    /\ objects < MaxObjects
    /\ held[h] = Nothing
    /\ objects' = objects + 1
    /\ held' = [held EXCEPT ![h] = [id |-> objects', of |-> cached]]
    /\ written' = written \cup
          {[cell |-> [object |-> objects', at |-> w.cell.at], by |-> w.by] :
              w \in {v \in written : /\ v.cell.object = cached
                                     /\ v.cell.at \in Private[kind]}}
    /\ UNCHANGED <<kind, cached, writes>>

\* The holder changes what it has, wherever that is.
Write(h, l) ==
    /\ held[h] # Nothing
    /\ writes < MaxWrites
    /\ writes' = writes + 1
    /\ written' = written \cup {[cell |-> Cell(h, l), by |-> held[h].id]}
    /\ UNCHANGED <<kind, objects, cached, held>>

\* Reconcile returns, with or without an error, and the copy is garbage.
Release(h) ==
    /\ held[h] # Nothing
    /\ held' = [held EXCEPT ![h] = Nothing]
    /\ UNCHANGED <<kind, objects, cached, written, writes>>

Next ==
    \/ Deliver
    \/ \E h \in Holders :
          Get(h) \/ Release(h) \/ \E l \in Locations[kind] : Write(h, l)

Spec == Init /\ [][Next]_vars

-----------------------------------------------------------------------------

\* The cache goes on showing what the server has sent, whatever a pass does to
\* its copy: a finalizer whose update was refused, or an answer decoded into
\* the copy, is not taken for the state of the server by the next pass.
\* (DeepCopyInto of all types, zz_generated.deepcopy.go.)
CacheIntact == \A w \in written : w.cell.object # cached

\* A pass sees what it got and its own changes, none of another pass, nor of
\* an earlier one that has failed half way.
OnlyOwnWrites ==
    \A h \in Holders : held[h] # Nothing =>
        \A w \in written, l \in Locations[kind] :
            w.cell = Cell(h, l) => w.by = held[h].id
=============================================================================
