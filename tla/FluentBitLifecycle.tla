-------------------------- MODULE FluentBitLifecycle --------------------------
(***************************************************************************)
(* What the FluentBit controller promises about one name after another: no *)
(* cache, queue or pass, only the FluentBit and its dependents at the API  *)
(* server.                                                                 *)
(*                                                                         *)
(* FluentBits of a name come one after another, each with a uid of its     *)
(* own.  A dependent is made for, or given to, the one that exists, which  *)
(* cannot go unless it is marked.  It is taken away only when its          *)
(* FluentBit is marked or is not the one that exists, or by a fault.       *)
(***************************************************************************)
EXTENDS Integers

CONSTANTS FluentBits, Dependents

VARIABLES
    fluentBit,  \* per name: uid, 0 when there is none, mark and finalizer
    dependent,  \* per kind and name, a record whose uid is the owner's, 0 if none
    uids,       \* FluentBits created so far
    faults      \* faults so far

vars == <<fluentBit, dependent, uids, faults>>

NoFluentBit == [uid |-> 0, deleting |-> FALSE, finalizer |-> FALSE]
Exists(n) == fluentBit[n].uid # 0
Becomes(n, fb) == fluentBit' = [fluentBit EXCEPT ![n] = fb]

\* One dependent changes, whatever it looks like then.
Changes(k, n) == dependent' = [dependent EXCEPT ![k][n] = dependent'[k][n]]

Init ==
    /\ fluentBit = [n \in FluentBits |-> NoFluentBit]
    /\ \A k \in Dependents, n \in FluentBits : dependent[k][n].uid = 0
    /\ uids = 0 /\ faults = 0

Create(n) ==
    /\ ~Exists(n)
    /\ uids' = uids + 1
    /\ Becomes(n, [NoFluentBit EXCEPT !.uid = uids'])
    /\ UNCHANGED <<dependent, faults>>

\* A finalizer is put on it before anything is deployed for it.
Protect(n) ==
    /\ Exists(n) /\ ~fluentBit[n].deleting
    /\ Becomes(n, [fluentBit[n] EXCEPT !.finalizer = TRUE])
    /\ UNCHANGED <<dependent, uids, faults>>

\* A user deletes it: with a finalizer it is only marked.
Delete(n) ==
    /\ Exists(n)
    /\ Becomes(n, IF fluentBit[n].finalizer THEN [fluentBit[n] EXCEPT !.deleting = TRUE]
                                            ELSE NoFluentBit)
    /\ UNCHANGED <<dependent, uids, faults>>

\* The finalizer is taken off one that is marked, which ends it.
Release(n) ==
    /\ Exists(n) /\ fluentBit[n].deleting
    /\ Becomes(n, NoFluentBit)
    /\ UNCHANGED <<dependent, uids, faults>>

\* A dependent is made, changed or adopted for the FluentBit that exists.
Deploy(k, n) ==
    /\ Exists(n) /\ fluentBit[n].finalizer
    /\ dependent'[k][n].uid = fluentBit[n].uid /\ Changes(k, n)
    /\ UNCHANGED <<fluentBit, uids, faults>>

InUse(k, n) ==
    /\ Exists(n) /\ ~fluentBit[n].deleting
    /\ dependent[k][n].uid = fluentBit[n].uid

\* By a pass that takes down, or by the garbage collector.
TakeDown(k, n) ==
    /\ ~InUse(k, n)
    /\ dependent'[k][n].uid = 0 /\ Changes(k, n)
    /\ UNCHANGED <<fluentBit, uids, faults>>

\* Somebody else deletes a dependent, a call fails, the manager restarts.
Fault ==
    /\ faults' = faults + 1
    /\ \/ UNCHANGED dependent
       \/ \E k \in Dependents, n \in FluentBits :
             dependent'[k][n].uid = 0 /\ Changes(k, n)
    /\ UNCHANGED <<fluentBit, uids>>

Next ==
    \/ \E n \in FluentBits :
          \/ Create(n) \/ Protect(n) \/ Delete(n) \/ Release(n)
          \/ \E k \in Dependents : Deploy(k, n) \/ TakeDown(k, n)
    \/ Fault

Spec == Init /\ [][Next]_vars

-----------------------------------------------------------------------------
\* What is in use stays with its FluentBit unless there is a fault: no pass
\* that takes down an earlier FluentBit of the name ever touches it.
KeepsInUse ==
    [][\A k \in Dependents, n \in FluentBits :
          InUse(k, n) /\ UNCHANGED faults
             => UNCHANGED <<dependent[k][n].uid>>]_vars
=============================================================================
