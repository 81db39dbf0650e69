-------------------------- MODULE FluentBitWatcher --------------------------
(***************************************************************************)
(* cmd/fluent-bit-watcher/main.go: PID 1 of the Fluent Bit container.  It  *)
(* keeps a Fluent Bit child running on the configuration mounted under     *)
(* /fluent-bit/config and restarts it when that configuration changes.     *)
(*                                                                         *)
(* Four goroutines, each with a program counter in pc: the restart loop    *)
(* ("loop": start, wait, backoff), the config watcher ("watch"), the       *)
(* signal handler ("signal") and run.Group.Run itself ("group").  Around   *)
(* them: the Fluent Bit process, the kubelet and the FileWatcher.          *)
(*                                                                         *)
(* A step is what one goroutine does between two accesses to state that    *)
(* another one touches.  A critical section that neither blocks nor reads  *)
(* a file is one step; start() holds the mutex over several, because it    *)
(* reads the mounted files.                                                *)
(***************************************************************************)
EXTENDS Integers, Sequences, RestartBackoff

CONSTANTS
  MaxVersion,      \* bound: the kubelet swaps in versions 1..MaxVersion
  Compressed,      \* the versions whose fluent-bit.conf is gzip data
  ExitModes,       \* what the -exit-on-failure flag may be
  MaxQueue,        \* bound: notifications waiting in the FileWatcher
  MaxNoise,        \* bound: notifications of anything but a new version
  MaxFaults        \* bound: failures of start() and of the process

Versions == 0..MaxVersion

ASSUME ConstantsAssumption ==
  /\ MaxVersion \in Nat
  /\ Compressed \subseteq Versions
  /\ ExitModes \subseteq BOOLEAN
  /\ MaxQueue \in Nat \ {0}
  /\ MaxNoise \in Nat /\ MaxFaults \in Nat

VARIABLES
  disk,          \* version of the configuration under watchPath
  dirty,         \* a change that the FileWatcher has not reported yet
  events,        \* what the FileWatcher offers on Events() and Errors()
  noise,         \* spurious notifications left
  faults,        \* failures left
  child,         \* the Fluent Bit process
  term,          \* SIGTERM was sent to the process last started
  failed,        \* its exit status was not zero
  loaded,        \* version read by the last process that read its file
  cmd,           \* the global cmd is not nil
  restartTimes,  \* the global restartTimes
  ctxDone,       \* the context that timerCtx refers to is cancelled
  exitOnFailure, \* the global of that name, set by the flag
  zipped,        \* start()'s local: compressed
  scratch,       \* version decompressed into the scratch directory
  delay,         \* backoff()'s local: delayTime in seconds, 0 outside it
  pc             \* program counters

env     == <<disk, dirty, events, noise, faults>>
process == <<child, term, failed, loaded>>
globals == <<cmd, restartTimes, ctxDone, exitOnFailure>>
locals  == <<zipped, scratch, delay>>
vars    == <<env, process, globals, locals, pc>>

-----------------------------------------------------------------------------
Actors == {"loop", "watch", "signal", "group"}

\* How the FileWatcher reports a new version, and all that the watcher's
\* select can receive: an operation of an fsnotify.Event, or an error.
ChangeOps     == {"Create", "Write"}
Notifications == ChangeOps \cup {"Remove", "Rename", "Chmod", "error"}

\* isValidEvent compares Op for equality: a combination of bits is not valid.
\* Mutant: only Write.
isValidEvent_WriteOnly(op) == op = "Write"
isValidEvent(op) == op \in {"Create", "Write"}

InStart == {"probe", "unzip", "exec"}
Alive   == {"execed", "running"}

LoopPCs  == InStart \cup {"check", "start", "wait", "waiting", "clear",
                          "backoff", "sleep", "done"}
WatchPCs == {"select", "stop", "cancel", "store", "done"}
GroupPCs == {"run", "close", "stop", "cancel", "store", "closeWatch",
             "join", "exited"}

\* Only start() is seen holding the mutex between two steps.
\* Mutant: stop() does not take it.
MutexFree_Ignored == TRUE
MutexFree == pc["loop"] \notin InStart

\* The cancel channels, closed by run.Group's interrupts.
LoopCancelled  == pc["group"] \notin {"run", "close"}
WatchCancelled == pc["group"] \in {"join", "exited"}

Goto(actor, from, to) == pc[actor] = from /\ pc' = [pc EXCEPT ![actor] = to]

FlagsOK ==
  /\ dirty \in BOOLEAN /\ term \in BOOLEAN /\ failed \in BOOLEAN
  /\ cmd \in BOOLEAN /\ ctxDone \in BOOLEAN /\ zipped \in BOOLEAN
  /\ exitOnFailure \in BOOLEAN

EnvOK ==
  /\ disk \in Versions
  /\ events \in Seq(Notifications) /\ Len(events) <= MaxQueue
  /\ noise \in 0..MaxNoise /\ faults \in 0..MaxFaults

DataOK ==
  /\ child \in Alive \cup {"none", "exited"}
  /\ loaded \in Versions /\ scratch \in Versions
  /\ restartTimes \in Nat /\ delay \in 0..MaxDelaySeconds

PCOK ==
  /\ pc \in [Actors -> LoopPCs \cup WatchPCs \cup GroupPCs]
  /\ pc["loop"] \in LoopPCs /\ pc["watch"] \in WatchPCs
  /\ pc["signal"] \in {"select", "done"} /\ pc["group"] \in GroupPCs

\* Every variable of main.go has its type, no goroutine is outside its code,
\* the restart count is never negative and no delay exceeds MaxDelayTime.
TypeOK == FlagsOK /\ EnvOK /\ DataOK /\ PCOK

\* watcher.Add precedes g.Run, so no change is missed between the two.
Init ==
  /\ disk = 0 /\ dirty = FALSE /\ events = <<>>
  /\ noise = MaxNoise /\ faults = MaxFaults
  /\ child = "none" /\ term = FALSE /\ failed = FALSE /\ loaded = 0
  /\ cmd = FALSE /\ restartTimes = 0 /\ ctxDone = FALSE
  /\ exitOnFailure \in ExitModes
  /\ zipped = FALSE /\ scratch = 0 /\ delay = 0
  /\ pc = [a \in Actors |-> IF a = "loop" THEN "check"
                            ELSE IF a = "group" THEN "run" ELSE "select"]

-----------------------------------------------------------------------------
(* The kubelet and the FileWatcher.                                         *)

\* The kubelet swaps the ..data symlink: the directory shows a new version.
ConfigUpdate ==
  /\ disk < MaxVersion
  /\ disk' = disk + 1 /\ dirty' = TRUE
  /\ UNCHANGED <<events, noise, faults, process, globals, locals, pc>>

\* The FileWatcher reports a change: the new ..data entry is a Create for
\* fsnotify, a Write for the poller, which compares modification times.
NotifyChange ==
  /\ dirty /\ ~WatchCancelled /\ Len(events) < MaxQueue
  /\ dirty' = FALSE
  /\ \E op \in ChangeOps : events' = Append(events, op)
  /\ UNCHANGED <<disk, noise, faults, process, globals, locals, pc>>

\* Any other notification: what the kubelet does before and after the swap, a
\* chmod, an error (a queue overflow, a stat that fails).
NotifyOther ==
  /\ ~WatchCancelled /\ Len(events) < MaxQueue
  /\ noise > 0 /\ noise' = noise - 1
  /\ \E n \in Notifications : events' = Append(events, n)
  /\ UNCHANGED <<disk, dirty, faults, process, globals, locals, pc>>

-----------------------------------------------------------------------------
(* The Fluent Bit process.                                                  *)

Fault == faults > 0 /\ faults' = faults - 1

\* It reads the file of its command line: the scratch copy, or the mounted
\* file, which may meanwhile be gzip data that it cannot parse.
ChildLoads ==
  /\ child = "execed"
  /\ IF zipped \/ disk \notin Compressed
     THEN /\ child' = "running"
          /\ loaded' = IF zipped THEN scratch ELSE disk
          /\ UNCHANGED failed
     ELSE child' = "exited" /\ failed' = TRUE /\ UNCHANGED loaded
  /\ UNCHANGED <<term, env, globals, locals, pc>>

\* SIGTERM ends it, gracefully or before it has installed a handler.
ChildTerminates ==
  /\ child \in Alive /\ term
  /\ child' = "exited" /\ failed' \in BOOLEAN
  /\ UNCHANGED <<term, loaded, env, globals, locals, pc>>

\* It ends by itself: a crash, a bad configuration, an out-of-memory kill.
ChildDies ==
  /\ child \in Alive /\ Fault
  /\ child' = "exited" /\ failed' \in BOOLEAN
  /\ UNCHANGED <<disk, dirty, events, noise, term, loaded, globals, locals, pc>>

-----------------------------------------------------------------------------
(* stop() and resetTimer(), called by the config watcher on an event and by *)
(* run.Group when it interrupts the restart loop.                           *)

\* stop(): without a process, or with one that has exited, it only logs.
Stop(actor, from, to) ==
  /\ MutexFree
  /\ Goto(actor, from, to)
  /\ term' = (term \/ (cmd /\ child \in Alive))
  /\ UNCHANGED <<child, failed, loaded, env, globals, locals>>

\* resetTimer() is two steps: cancel the context, ...
CancelTimer(actor, from, to) ==
  /\ Goto(actor, from, to)
  /\ ctxDone' = TRUE
  /\ UNCHANGED <<cmd, restartTimes, exitOnFailure, env, process, locals>>

\* ... then store zero.
\* Mutant: -1, to make up for the increment that ends a back-off.
ZeroRestarts_MinusOne(actor, from, to) ==
  /\ Goto(actor, from, to)
  /\ restartTimes' = -1
  /\ UNCHANGED <<cmd, ctxDone, exitOnFailure, env, process, locals>>

ZeroRestarts(actor, from, to) ==
  /\ Goto(actor, from, to)
  /\ restartTimes' = 0
  /\ UNCHANGED <<cmd, ctxDone, exitOnFailure, env, process, locals>>

-----------------------------------------------------------------------------
(* The restart loop: the execute function of the second actor.              *)

\* The select with a default case at the head of the loop.
\* Mutant: the loop never looks at its cancel channel.
LoopCheck_NeverDone ==
  /\ Goto("loop", "check", "start")
  /\ UNCHANGED <<env, process, globals, locals>>

LoopCheck ==
  /\ Goto("loop", "check", IF LoopCancelled THEN "done" ELSE "start")
  /\ UNCHANGED <<env, process, globals, locals>>

\* start() takes the mutex; it returns at once when cmd is set.
StartLock ==
  /\ Goto("loop", "start", IF cmd THEN "wait" ELSE "probe")
  /\ UNCHANGED <<env, process, globals, locals>>

\* gziputil.IsCompressed on the mounted file.
StartProbe ==
  /\ zipped' = (disk \in Compressed)
  /\ Goto("loop", "probe", IF zipped' THEN "unzip" ELSE "exec")
  /\ UNCHANGED <<scratch, delay, env, process, globals>>

\* Copy to the scratch directory and gziputil.Decompress, which fails on a
\* file that has no gzip header any more: start() returns with cmd nil.
\* Mutant: it goes on with what an earlier start() has left there.
StartUnzip_IgnoresError ==
  /\ Goto("loop", "unzip", "exec")
  /\ scratch' = IF disk \in Compressed THEN disk ELSE scratch
  /\ UNCHANGED <<zipped, delay, env, process, globals>>

StartUnzip ==
  /\ Goto("loop", "unzip", IF disk \in Compressed THEN "exec" ELSE "wait")
  /\ scratch' = IF disk \in Compressed THEN disk ELSE scratch
  /\ UNCHANGED <<zipped, delay, env, process, globals>>

\* cmd.Start() succeeds.
StartExec ==
  /\ Goto("loop", "exec", "wait")
  /\ cmd' = TRUE
  /\ child' = "execed" /\ term' = FALSE /\ failed' = FALSE
  /\ UNCHANGED <<loaded, restartTimes, ctxDone, exitOnFailure, env, locals>>

\* Any error return of start(): a file that cannot be read, copied or
\* decompressed, an executable that cannot be started.
StartFails ==
  /\ Fault
  /\ \E at \in InStart : Goto("loop", at, "wait")
  /\ UNCHANGED <<disk, dirty, events, noise, process, globals, locals>>

\* wait() looks at cmd under the mutex and returns nil when there is none.
WaitCheck ==
  /\ Goto("loop", "wait", IF cmd THEN "waiting" ELSE "backoff")
  /\ UNCHANGED <<env, process, globals, locals>>

\* cmd.Wait() returns; after ten minutes of execution the counter is reset.
WaitReturns ==
  /\ child = "exited" /\ child' = "none"
  /\ restartTimes' \in {restartTimes, 0}
  /\ Goto("loop", "waiting", "clear")
  /\ UNCHANGED <<term, failed, loaded, cmd, ctxDone, exitOnFailure, env, locals>>

\* wait() clears cmd; with -exit-on-failure a failed process ends the actor.
\* Mutants: a failed process never ends the actor;
WaitClear_NeverDone ==
  /\ cmd' = FALSE
  /\ Goto("loop", "clear", "backoff")
  /\ UNCHANGED <<restartTimes, ctxDone, exitOnFailure, env, process, locals>>

\* cmd is cleared only after a process that has not failed.
WaitClear_KeepsFailed ==
  /\ cmd' = failed
  /\ Goto("loop", "clear", IF exitOnFailure /\ failed THEN "done" ELSE "backoff")
  /\ UNCHANGED <<restartTimes, ctxDone, exitOnFailure, env, process, locals>>

WaitClear ==
  /\ cmd' = FALSE
  /\ Goto("loop", "clear", IF exitOnFailure /\ failed THEN "done" ELSE "backoff")
  /\ UNCHANGED <<restartTimes, ctxDone, exitOnFailure, env, process, locals>>

\* A fresh context replaces the old one; backoff() computes the delay from
\* the counter and starts its timer.
BackoffStart ==
  /\ Goto("loop", "backoff", "sleep")
  /\ ctxDone' = FALSE
  /\ delay' = DelaySeconds(restartTimes)
  /\ UNCHANGED <<zipped, scratch, cmd, restartTimes, exitOnFailure, env, process>>

\* backoff()'s select: the context was cancelled, or the timer has fired.
BackoffEnd ==
  /\ Goto("loop", "sleep", "check")
  /\ \/ ctxDone /\ restartTimes' = 0
     \/ restartTimes' = restartTimes + 1
  /\ delay' = 0
  /\ UNCHANGED <<zipped, scratch, cmd, ctxDone, exitOnFailure, env, process>>

LoopStep ==
  \/ LoopCheck \/ StartLock \/ StartProbe \/ StartUnzip \/ StartExec
  \/ WaitCheck \/ WaitReturns \/ WaitClear \/ BackoffStart \/ BackoffEnd

-----------------------------------------------------------------------------
(* The config watcher: the execute function of the third actor.             *)

\* The select receives: a valid event starts a reload, another one is
\* skipped, an error ends the actor.
WatchReceive ==
  /\ events # <<>>
  /\ events' = Tail(events)
  /\ \/ isValidEvent(Head(events)) /\ Goto("watch", "select", "stop")
     \/ Head(events) = "error" /\ Goto("watch", "select", "done")
     \/ /\ Head(events) # "error" /\ ~isValidEvent(Head(events))
        /\ Goto("watch", "select", "select")
  /\ UNCHANGED <<disk, dirty, noise, faults, process, globals, locals>>

\* The select finds the actor's cancel channel closed.
WatchReturns ==
  /\ WatchCancelled
  /\ Goto("watch", "select", "done")
  /\ UNCHANGED <<env, process, globals, locals>>

WatchStep ==
  \/ WatchReceive \/ WatchReturns
  \/ Stop("watch", "stop", "cancel")
  \/ CancelTimer("watch", "cancel", "store")
  \/ ZeroRestarts("watch", "store", "select")

-----------------------------------------------------------------------------
(* run.SignalHandler and run.Group (github.com/oklog/run).                  *)

\* SIGINT or SIGTERM arrives.
SignalArrives ==
  /\ Goto("signal", "select", "done")
  /\ UNCHANGED <<env, process, globals, locals>>

\* An actor has returned: Run interrupts the signal handler, the first actor.
GroupInterrupts ==
  /\ \E a \in Actors : pc[a] = "done"
  /\ pc["group"] = "run"
  /\ pc' = [pc EXCEPT !["group"] = "close", !["signal"] = "done"]
  /\ UNCHANGED <<env, process, globals, locals>>

\* The restart loop's interrupt closes its cancel channel, ...
InterruptLoop ==
  /\ Goto("group", "close", "stop")
  /\ UNCHANGED <<env, process, globals, locals>>

\* ... and, after stop() and resetTimer(), the config watcher's interrupt
\* closes the FileWatcher, dropping what it had not delivered, and cancels.
InterruptWatch ==
  /\ Goto("group", "closeWatch", "join")
  /\ events' = <<>>
  /\ UNCHANGED <<disk, dirty, noise, faults, process, globals, locals>>

\* Run returns once every actor has, and main exits.
GroupReturns ==
  /\ \A a \in Actors \ {"group"} : pc[a] = "done"
  /\ Goto("group", "join", "exited")
  /\ UNCHANGED <<env, process, globals, locals>>

GroupStep ==
  \/ GroupInterrupts \/ InterruptLoop
  \/ Stop("group", "stop", "cancel")
  \/ CancelTimer("group", "cancel", "store")
  \/ ZeroRestarts("group", "store", "closeWatch")
  \/ InterruptWatch \/ GroupReturns

-----------------------------------------------------------------------------
Next ==
  \/ ConfigUpdate \/ NotifyChange \/ NotifyOther
  \/ ChildLoads \/ ChildTerminates \/ ChildDies
  \/ LoopStep \/ StartFails \/ WatchStep \/ SignalArrives \/ GroupStep

Spec == Init /\ [][Next]_vars

\* Every goroutine runs; a change is reported; a process loads its
\* configuration, and ends after SIGTERM.  Nothing else has to happen.
Fairness ==
  /\ WF_vars(LoopStep) /\ WF_vars(WatchStep) /\ WF_vars(GroupStep)
  /\ WF_vars(NotifyChange)
  /\ WF_vars(ChildLoads) /\ WF_vars(ChildTerminates)

FairSpec == Spec /\ Fairness
=============================================================================
