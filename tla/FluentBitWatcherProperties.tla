--------------------- MODULE FluentBitWatcherProperties ---------------------
(***************************************************************************)
(* What FluentBitWatcher guarantees, what it implements, and two           *)
(* documented behaviours that it does not have.                            *)
(***************************************************************************)
EXTENDS FluentBitWatcher

\* A change is among the notifications of a queue.
Announces(queue) == \E i \in 1..Len(queue) : queue[i] \in ChangeOps

\* A reload is on its way: a change not reported, a valid event not received,
\* or one received whose stop() has not been executed.
ReloadOwed ==
  \/ dirty
  \/ Announces(events)
  \/ pc["watch"] = "stop"

\* No reload will happen any more: the config watcher is on its way out.
Closing == WatchCancelled \/ pc["watch"] = "done"

Reloading == ReloadOwed \/ Closing

\* Fluent Bit never keeps running on an outdated configuration: a process that
\* loaded anything but the mounted version has been sent SIGTERM, or a reload
\* that will do so is on its way.  A change can fall anywhere between the
\* probe, the decompression, the exec and the load, and its stop() finds no
\* process to stop until start() has released the mutex.
NoStaleChild ==
  child = "running" /\ loaded # disk => term \/ Reloading

\* Fluent Bit never goes back to a configuration older than one it has run,
\* whatever start() has left in the scratch directory.
ServesForward == [][loaded' >= loaded]_vars

\* The wrapper implements the abstract promise.
Reload == INSTANCE ConfigReload WITH
  current <- disk,
  serving <- IF child = "running" THEN loaded ELSE -1,
  newest  <- loaded,
  owed    <- ReloadOwed,
  doomed  <- term,
  closing <- Closing

ImplementsReload == Reload!Spec

\* Once faults and changes cease, a Fluent Bit process runs the mounted
\* version for good, or the wrapper is shutting down: no crash, failed start
\* or change in the middle of one leaves the pod without a running process.
Converges == Reload!Converges

\* "Termination handler." (main.go:73): main returns after a termination
\* request, unless start() was under way
\* when the interrupt function ran stop(): the process it then starts is
\* never told to stop.  There is one such process at most: the wrapper does
\* return once it has ended.
LateChild == pc["group"] = "join" /\ child \in Alive /\ ~term
ShutdownOrLateChild ==
  /\ pc["signal"] = "done" ~> pc["group"] = "exited" \/ LateChild
  /\ pc["group"] = "join" /\ child = "exited" ~> pc["group"] = "exited"

\* No goroutine can take a step, no change is to be reported, and the process
\* has nothing to load and no order to end: only a new version, a crash, a
\* superfluous notification or a signal would move the wrapper.
AtRest ==
  /\ pc["loop"] = "done" \/ (pc["loop"] = "waiting" /\ child # "exited")
  /\ pc["watch"] = "done"
     \/ (pc["watch"] = "select" /\ events = <<>> /\ ~WatchCancelled)
  /\ \/ pc["group"] = "run" /\ \A a \in Actors : pc[a] # "done"
     \/ pc["group"] = "join" /\ \E a \in Actors \ {"group"} : pc[a] # "done"
     \/ pc["group"] = "exited"
  /\ dirty => WatchCancelled \/ Len(events) >= MaxQueue
  /\ child # "execed" /\ ~(child = "running" /\ term)

\* The wrapper never gets stuck: when nothing of it can move any more, it has
\* either returned, or is waiting for a late child, or all of its actors serve
\* and Fluent Bit runs the mounted version.  This is what Converges and
\* ShutdownOrLateChild come down to once everything has settled: no order of
\* start(), wait(), stop() and the interrupts leaves cmd without a process,
\* the loop waiting for one that is gone, or the mutex taken for ever.
RestsServing ==
  AtRest => \/ pc["group"] = "exited"
            \/ LateChild
            \/ /\ \A a \in Actors : pc[a] # "done"
               /\ child = "running" /\ loaded = disk

\* With -exit-on-failure no process is started any more once one has failed,
\* however the failure falls among the steps of stop(), a reload or shutdown.
NeverRestartsFailed ==
  [][child # "execed" /\ child' = "execed" => ~(exitOnFailure /\ failed)]_vars

\* -exit-on-failure: "If fluentbit exits with failure, also exit the watcher."
ExitsOnFailure ==
  exitOnFailure /\ child = "exited" /\ failed ~> pc["group"] = "exited"

\* "After the config file changed, it should stop the fluent bit, and resets
\* the restart backoff timer." (main.go:142): when the handling of an event
\* ends, the restart loop is not asleep for longer than the initial delay.
ResetTakesEffect ==
  [][pc["watch"] = "store" /\ pc'["watch"] = "select"
       => pc["loop"] # "sleep" \/ ctxDone \/ delay = DelaySeconds(0)]_vars

\* "... restarts it with an exponential back-off delay (1s, 2s, 4s, ...), that
\* is capped at five minutes." (main.go:100): there is always a delay.
AlwaysDelayed == pc["loop"] = "sleep" => delay >= DelaySeconds(0)
=============================================================================
