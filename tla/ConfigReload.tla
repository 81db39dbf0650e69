---------------------------- MODULE ConfigReload ----------------------------
(***************************************************************************)
(* What a Fluent Bit pod promises about its configuration, with no         *)
(* goroutine, process or notification in sight.                            *)
(*                                                                         *)
(* Versions are published one after another.  At most one of them is       *)
(* served at a time.  The pod may serve an old version only while it still *)
(* owes a reload, or while the process that serves it has been told to     *)
(* stop.  It never returns to a version older than one it has served.      *)
(***************************************************************************)
EXTENDS Integers

CONSTANT MaxVersion

Versions == 0..MaxVersion
NoVersion == -1

VARIABLES
  current,   \* the version published last
  serving,   \* the version in use, NoVersion when none is
  newest,    \* the version served last
  owed,      \* a reload that has been announced and not carried out
  doomed,    \* the process in use was told to stop
  closing    \* the pod is shutting down: it owes nothing any more

vars == <<current, serving, newest, owed, doomed, closing>>

Init ==
  /\ current = 0 /\ serving = NoVersion /\ newest = 0
  /\ owed = FALSE /\ doomed = FALSE /\ closing = FALSE

\* A new version appears, and with it the obligation to reload.
Publish ==
  /\ current < MaxVersion
  /\ current' = current + 1 /\ owed' = TRUE
  /\ UNCHANGED <<serving, newest, doomed, closing>>

\* A notification without a new version: a superfluous reload.
Announce ==
  /\ owed' = TRUE
  /\ UNCHANGED <<current, serving, newest, doomed, closing>>

\* The obligation may be dropped only if what is served is current, nothing
\* is served, or what is served has been told to stop.
Settle ==
  /\ owed' \in {owed, FALSE} /\ doomed' \in {doomed, TRUE}
  /\ owed' \/ doomed' \/ closing \/ serving \in {NoVersion, current}
  /\ UNCHANGED <<current, serving, newest, closing>>

\* A process starts to serve the current version, or one that it fetched
\* earlier and that it is bound to replace.
Load ==
  /\ serving = NoVersion
  /\ serving' \in newest..current
  /\ serving' = current \/ owed \/ doomed \/ closing
  /\ newest' = serving'
  /\ UNCHANGED <<current, owed, doomed, closing>>

\* The process ends, for whatever reason.
Retire ==
  /\ serving' = NoVersion
  /\ UNCHANGED <<current, newest, owed, doomed, closing>>

\* The order to stop dies with the process it was given to.
Renew ==
  /\ serving = NoVersion /\ doomed' = FALSE
  /\ UNCHANGED <<current, serving, newest, owed, closing>>

Close ==
  /\ closing' = TRUE /\ owed' \in {owed, FALSE}
  /\ UNCHANGED <<current, serving, newest, doomed>>

Next == Publish \/ Announce \/ Settle \/ Load \/ Retire \/ Renew \/ Close

Spec == Init /\ [][Next]_vars

-----------------------------------------------------------------------------
\* What is served is current unless a reload is under way.
Fresh ==
  serving \in {NoVersion, current} \/ owed \/ doomed \/ closing

\* In the end the newest version is served for good, unless the pod closes.
Converges == <>closing \/ <>[](serving = current)
=============================================================================
