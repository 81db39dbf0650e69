----------------------- MODULE FluentBitWatcherProofs -----------------------
(***************************************************************************)
(* Theorems about the fluent-bit watcher, for any number of versions, any  *)
(* pattern of compressed ones, any queue and any number of faults.         *)
(***************************************************************************)
EXTENDS FluentBitWatcherProperties, SequenceTheorems, TLAPS

-----------------------------------------------------------------------------
(* The restart delay.                                                       *)

\* backoff() never sleeps longer than MaxDelayTime.
LEMMA DelayCapped ==
  ASSUME NEW n \in Nat
  PROVE  DelaySeconds(n) \in 0..MaxDelaySeconds
  BY DEF DelaySeconds, MaxDelaySeconds, UncappedDelays, LastExact, FirstZero

-----------------------------------------------------------------------------
(* Queues of notifications.                                                 *)

\* A change stays announced when another notification joins the queue.
LEMMA AppendAnnounces ==
  ASSUME NEW q \in Seq(Notifications), NEW n \in Notifications,
         Announces(q) \/ n \in ChangeOps
  PROVE  Announces(Append(q, n))
<1>1. /\ Len(Append(q, n)) = Len(q) + 1
      /\ \A i \in 1..Len(q) : Append(q, n)[i] = q[i]
      /\ Append(q, n)[Len(q) + 1] = n
      /\ Len(q) \in Nat
  OBVIOUS
<1> QED
  BY <1>1 DEF Announces

\* It stays announced when a notification of something else is received.
LEMMA TailAnnounces ==
  ASSUME NEW q \in Seq(Notifications), q # <<>>,
         Announces(q), Head(q) \notin ChangeOps
  PROVE  Announces(Tail(q))
<1>1. PICK i \in 1..Len(q) : q[i] \in ChangeOps
  BY DEF Announces
<1>2. /\ Len(q) \in Nat \ {0} /\ Len(Tail(q)) = Len(q) - 1
      /\ Head(q) = q[1]
      /\ \A j \in 1..Len(Tail(q)) : Tail(q)[j] = q[j + 1]
  OBVIOUS
<1>3. i # 1 /\ i - 1 \in 1..Len(Tail(q))
  BY <1>1, <1>2
<1>4. Tail(q)[i - 1] = q[i]
  BY <1>2, <1>3
<1> QED
  BY <1>1, <1>3, <1>4 DEF Announces

-----------------------------------------------------------------------------
(* Type correctness.                                                        *)

ActorPCs(actor) ==
  IF actor = "loop" THEN LoopPCs
  ELSE IF actor = "watch" THEN WatchPCs
  ELSE IF actor = "signal" THEN {"select", "done"} ELSE GroupPCs

\* A goroutine that goes to one of its own places leaves the others where
\* they are.
LEMMA GotoOK ==
  ASSUME NEW actor \in Actors, NEW from, NEW to \in ActorPCs(actor),
         PCOK, Goto(actor, from, to)
  PROVE  /\ PCOK'
         /\ pc[actor] = from /\ pc'[actor] = to
         /\ \A a \in Actors \ {actor} : pc'[a] = pc[a]
  BY DEF PCOK, Goto, Actors, ActorPCs, LoopPCs, WatchPCs, GroupPCs, InStart

\* The restart loop stays inside its own code, and moves nobody else.
LEMMA LoopPCOK == ASSUME PCOK, LoopStep \/ StartFails PROVE PCOK'
  BY GotoOK
     DEF LoopStep, StartFails, LoopCheck, StartLock, StartProbe, StartUnzip,
         StartExec, WaitCheck, WaitReturns, WaitClear, BackoffStart,
         BackoffEnd, Actors, ActorPCs, LoopPCs, InStart

\* So does the config watcher,
LEMMA WatchPCOK == ASSUME PCOK, WatchStep PROVE PCOK'
  BY GotoOK
     DEF WatchStep, WatchReceive, WatchReturns, Stop, CancelTimer,
         ZeroRestarts, Actors, ActorPCs, WatchPCs

\* and run.Group, when it interrupts the others and when it does not.
LEMMA GroupPCOK == ASSUME PCOK, GroupStep PROVE PCOK'
<1>1. CASE GroupInterrupts
  BY <1>1 DEF GroupInterrupts, PCOK, Actors, GroupPCs, LoopPCs, WatchPCs
<1>2. CASE ~GroupInterrupts
  BY <1>2, GotoOK
     DEF GroupStep, InterruptLoop, InterruptWatch, GroupReturns, Stop,
         CancelTimer, ZeroRestarts, Actors, ActorPCs, GroupPCs
<1> QED
  BY <1>1, <1>2

\* Every variable stays in its type: first the flags,
LEMMA FlagsStep == ASSUME TypeOK, [Next]_vars PROVE FlagsOK'
<1> USE DEF TypeOK, FlagsOK, vars, env, process, globals, locals
<1>1. CASE ConfigUpdate \/ NotifyChange \/ NotifyOther
  BY <1>1, Zenon DEF ConfigUpdate, NotifyChange, NotifyOther
<1>2. CASE ChildLoads
  BY <1>2, Zenon DEF ChildLoads
<1>3. CASE ChildTerminates \/ ChildDies
  BY <1>3, Zenon DEF ChildTerminates, ChildDies
<1>4. CASE LoopCheck \/ StartLock \/ StartProbe \/ StartUnzip
  <2>1. (disk \in Compressed) \in BOOLEAN
    OBVIOUS
  <2> QED
    BY <1>4, <2>1, Zenon DEF LoopCheck, StartLock, StartProbe, StartUnzip
<1>5. CASE StartExec \/ WaitCheck \/ WaitReturns \/ WaitClear
  BY <1>5, Zenon DEF StartExec, WaitCheck, WaitReturns, WaitClear
<1>6. CASE BackoffStart \/ BackoffEnd \/ StartFails
  BY <1>6, Zenon DEF BackoffStart, BackoffEnd, StartFails
<1>7. ASSUME NEW actor, NEW from, NEW to,
             \/ Stop(actor, from, to)
             \/ CancelTimer(actor, from, to)
             \/ ZeroRestarts(actor, from, to)
      PROVE  FlagsOK'
  <2>1. (term \/ (cmd /\ child \in Alive)) \in BOOLEAN
    OBVIOUS
  <2> QED
    BY <1>7, <2>1, Zenon DEF Stop, CancelTimer, ZeroRestarts
<1>8. CASE WatchStep
  BY <1>7, <1>8, Zenon DEF WatchStep, WatchReceive, WatchReturns
<1>9. CASE GroupStep
  BY <1>7, <1>9, Zenon
     DEF GroupStep, GroupInterrupts, InterruptLoop, InterruptWatch, GroupReturns
<1>10. CASE SignalArrives \/ UNCHANGED vars
  BY <1>10, Zenon DEF SignalArrives
<1> QED
  BY <1>1, <1>2, <1>3, <1>4, <1>5, <1>6, <1>8, <1>9, <1>10 DEF Next, LoopStep

\* then what surrounds the wrapper,
LEMMA EnvStep == ASSUME TypeOK, [Next]_vars PROVE EnvOK'
<1> USE ConstantsAssumption DEF TypeOK, EnvOK, vars, env
<1>1. CASE ConfigUpdate
  BY <1>1 DEF ConfigUpdate, Versions
<1>2. CASE NotifyChange
  <2>1. PICK op \in ChangeOps : events' = Append(events, op)
    BY <1>2 DEF NotifyChange
  <2>2. op \in Notifications
    BY DEF Notifications
  <2>3. events' \in Seq(Notifications) /\ Len(events') <= MaxQueue
    BY <1>2, <2>1, <2>2 DEF NotifyChange
  <2> QED
    BY <1>2, <2>3 DEF NotifyChange
<1>3. CASE NotifyOther
  BY <1>3 DEF NotifyOther
<1>4. CASE ChildLoads \/ ChildTerminates \/ ChildDies
  BY <1>4 DEF ChildLoads, ChildTerminates, ChildDies, Fault
<1>5. CASE LoopStep \/ StartFails
  BY <1>5 DEF LoopStep, LoopCheck, StartLock, StartProbe, StartUnzip,
              StartExec, StartFails, WaitCheck, WaitReturns, WaitClear,
              BackoffStart, BackoffEnd, Fault
<1>6. CASE WatchStep
  <2>1. CASE WatchReceive
    <3>1. events' \in Seq(Notifications) /\ Len(events') <= MaxQueue
      BY <2>1 DEF WatchReceive
    <3> QED
      BY <2>1, <3>1 DEF WatchReceive
  <2> QED
    BY <1>6, <2>1 DEF WatchStep, WatchReturns, Stop, CancelTimer, ZeroRestarts
<1>7. CASE GroupStep
  <2>1. CASE InterruptWatch
    <3>1. <<>> \in Seq(Notifications) /\ Len(<<>>) = 0
      OBVIOUS
    <3> QED
      BY <2>1, <3>1 DEF InterruptWatch
  <2>2. CASE ~InterruptWatch
    BY <1>7, <2>2 DEF GroupStep, GroupInterrupts, InterruptLoop, GroupReturns,
                      Stop, CancelTimer, ZeroRestarts
  <2> QED
    BY <2>1, <2>2
<1>8. CASE SignalArrives \/ UNCHANGED vars
  BY <1>8 DEF SignalArrives
<1> QED
  BY <1>1, <1>2, <1>3, <1>4, <1>5, <1>6, <1>7, <1>8 DEF Next

\* then the process and the wrapper's own data,
LEMMA DataStep == ASSUME TypeOK, [Next]_vars PROVE DataOK'
<1> USE ConstantsAssumption
    DEF TypeOK, EnvOK, DataOK, vars, process, globals, locals
<1>1. CASE ConfigUpdate \/ NotifyChange \/ NotifyOther
  BY <1>1 DEF ConfigUpdate, NotifyChange, NotifyOther
<1>2. CASE ChildLoads \/ ChildTerminates \/ ChildDies
  BY <1>2 DEF ChildLoads, ChildTerminates, ChildDies, Alive
<1>3. CASE LoopCheck \/ StartLock \/ StartProbe \/ StartUnzip \/ StartFails
  BY <1>3 DEF LoopCheck, StartLock, StartProbe, StartUnzip, StartFails
<1>4. CASE StartExec \/ WaitCheck \/ WaitReturns \/ WaitClear
  BY <1>4 DEF StartExec, WaitCheck, WaitReturns, WaitClear, Alive
<1>5. CASE BackoffStart \/ BackoffEnd
  <2>1. DelaySeconds(restartTimes) \in 0..MaxDelaySeconds
    BY DelayCapped
  <2>2. CASE BackoffStart
    BY <2>1, <2>2 DEF BackoffStart
  <2>3. CASE BackoffEnd
    BY <2>3 DEF BackoffEnd, MaxDelaySeconds
  <2> QED
    BY <1>5, <2>2, <2>3
<1>6. CASE WatchStep
  BY <1>6 DEF WatchStep, WatchReceive, WatchReturns, Stop, CancelTimer,
              ZeroRestarts
<1>7. CASE GroupStep
  BY <1>7 DEF GroupStep, GroupInterrupts, InterruptLoop, InterruptWatch,
              GroupReturns, Stop, CancelTimer, ZeroRestarts
<1>8. CASE SignalArrives \/ UNCHANGED vars
  BY <1>8 DEF SignalArrives
<1> QED
  BY <1>1, <1>2, <1>3, <1>4, <1>5, <1>6, <1>7, <1>8 DEF Next, LoopStep

\* and last the program counters.
LEMMA PCStep == ASSUME TypeOK, [Next]_vars PROVE PCOK'
<1>1. PCOK
  BY DEF TypeOK
<1>2. CASE UNCHANGED pc
  BY <1>1, <1>2 DEF PCOK
<1>3. CASE SignalArrives
  BY <1>1, <1>3, GotoOK DEF SignalArrives, Actors, ActorPCs
<1>4. CASE LoopStep \/ StartFails \/ WatchStep \/ GroupStep
  BY <1>1, <1>4, LoopPCOK, WatchPCOK, GroupPCOK
<1> QED
  BY <1>2, <1>3, <1>4
     DEF Next, vars, ConfigUpdate, NotifyChange, NotifyOther, ChildLoads,
         ChildTerminates, ChildDies

\* Together, every step keeps the types,
LEMMA TypeStep == TypeOK /\ [Next]_vars => TypeOK'
  BY FlagsStep, EnvStep, DataStep, PCStep DEF TypeOK

\* and the start of main has them.
LEMMA TypeInit == Init => TypeOK
<1> SUFFICES ASSUME Init PROVE TypeOK
  OBVIOUS
<1> USE ConstantsAssumption DEF Init
<1>1. FlagsOK
  BY Zenon DEF FlagsOK
<1>2. EnvOK
  <2>1. events \in Seq(Notifications) /\ Len(events) = 0
    OBVIOUS
  <2> QED
    BY <2>1 DEF EnvOK, Versions
<1>3. DataOK
  BY DEF DataOK, Versions, MaxDelaySeconds
<1>4. PCOK
  BY DEF PCOK, Actors, LoopPCs, WatchPCs, GroupPCs
<1> QED
  BY <1>1, <1>2, <1>3, <1>4 DEF TypeOK

\* The wrapper's state is always well typed: in particular no delay exceeds
\* five minutes and no goroutine is ever outside its own code.
THEOREM TypeCorrect == Spec => []TypeOK
<1> QED
  BY TypeInit, TypeStep, PTL DEF Spec

-----------------------------------------------------------------------------
(* No process keeps running on an outdated configuration.                   *)
(*                                                                          *)
(* What makes this true is that start() decides which version it will run   *)
(* with the mutex held, and stop() takes the mutex: a stop() that comes     *)
(* too late to find the old process finds the new one.                      *)

\* cmd is nil while start() is under way, and a process that has not been
\* waited for belongs to cmd, with the restart loop about to wait for it.
ChildOwned ==
  /\ cmd => pc["loop"] \in {"wait", "waiting", "clear"}
  /\ child # "none" => cmd /\ pc["loop"] \in {"wait", "waiting"}

\* The version that is about to be run is current, or will be replaced.
FreshStart ==
  /\ pc["loop"] = "exec" /\ zipped /\ scratch # disk => Reloading
  /\ child = "execed" /\ zipped /\ scratch # disk => term \/ Reloading

FreshInv == ChildOwned /\ FreshStart /\ NoStaleChild

\* Only a stop() by the config watcher carries out what is owed.
LEMMA ReloadingKept ==
  ASSUME TypeOK, [Next]_vars, ~Stop("watch", "stop", "cancel"), Reloading
  PROVE  Reloading'
<1> USE DEF Reloading, ReloadOwed, Closing, WatchCancelled, vars, env
<1>pc. PCOK /\ events \in Seq(Notifications)
  BY DEF TypeOK, EnvOK
<1>1. CASE ConfigUpdate
  BY <1>1 DEF ConfigUpdate
<1>2. CASE NotifyChange
  <2>1. PICK op \in ChangeOps : events' = Append(events, op)
    BY <1>2 DEF NotifyChange
  <2>2. op \in Notifications
    BY DEF Notifications
  <2>3. Announces(events')
    BY <1>pc, <2>1, <2>2, AppendAnnounces
  <2> QED
    BY <2>3
<1>3. CASE NotifyOther
  <2>1. PICK n \in Notifications : events' = Append(events, n)
    BY <1>3 DEF NotifyOther
  <2>2. Announces(events) => Announces(events')
    BY <1>pc, <2>1, AppendAnnounces
  <2> QED
    BY <1>3, <2>2 DEF NotifyOther
<1>4. CASE ChildLoads \/ ChildTerminates \/ ChildDies \/ UNCHANGED vars
  BY <1>4 DEF ChildLoads, ChildTerminates, ChildDies
<1>5. CASE LoopStep \/ StartFails \/ SignalArrives
  <2>1. UNCHANGED <<dirty, events>>
    BY <1>5 DEF LoopStep, LoopCheck, StartLock, StartProbe, StartUnzip,
                StartExec, StartFails, WaitCheck, WaitReturns, WaitClear,
                BackoffStart, BackoffEnd, SignalArrives
  <2>2. pc'["watch"] = pc["watch"] /\ pc'["group"] = pc["group"]
    BY <1>pc, <1>5
       DEF PCOK, Goto, Actors, LoopStep, LoopCheck, StartLock, StartProbe,
           StartUnzip, StartExec, StartFails, WaitCheck, WaitReturns,
           WaitClear, BackoffStart, BackoffEnd, SignalArrives
  <2> QED
    BY <2>1, <2>2
<1>6. CASE WatchStep
  <2>1. pc'["group"] = pc["group"]
    BY <1>pc, <1>6
       DEF PCOK, Goto, Actors, WatchStep, WatchReceive, WatchReturns, Stop,
           CancelTimer, ZeroRestarts
  <2>2. CASE WatchReceive
    <3>1. CASE isValidEvent(Head(events))
      BY <1>pc, <2>2, <3>1 DEF WatchReceive, isValidEvent, Goto, PCOK, Actors
    <3>2. CASE ~isValidEvent(Head(events))
      <4>1. Announces(events) => Announces(events')
        BY <1>pc, <2>2, <3>2, TailAnnounces
           DEF WatchReceive, isValidEvent, ChangeOps
      <4> QED
        BY <1>pc, <2>1, <2>2, <3>2, <4>1 DEF WatchReceive, Goto, PCOK, Actors
    <3> QED
      BY <3>1, <3>2
  <2>3. CASE ~WatchReceive
    BY <1>pc, <1>6, <2>1, <2>3
       DEF WatchStep, WatchReturns, Stop, CancelTimer, ZeroRestarts, Goto,
           PCOK, Actors
  <2> QED
    BY <2>2, <2>3
<1>7. CASE GroupStep
  <2>1. pc'["watch"] = pc["watch"]
    BY <1>pc, <1>7
       DEF PCOK, Goto, Actors, GroupStep, GroupInterrupts, InterruptLoop,
           InterruptWatch, GroupReturns, Stop, CancelTimer, ZeroRestarts
  <2>2. CASE InterruptWatch
    BY <1>pc, <2>2 DEF InterruptWatch, Goto, PCOK, Actors
  <2>3. CASE ~InterruptWatch
    <3>1. UNCHANGED <<dirty, events>>
      BY <1>7, <2>3
         DEF GroupStep, GroupInterrupts, InterruptLoop, GroupReturns, Stop,
             CancelTimer, ZeroRestarts
    <3>2. WatchCancelled => WatchCancelled'
      BY <1>pc, <1>7, <2>3
         DEF GroupStep, GroupInterrupts, InterruptLoop, GroupReturns, Stop,
             CancelTimer, ZeroRestarts, Goto, PCOK, Actors
    <3> QED
      BY <2>1, <3>1, <3>2
  <2> QED
    BY <2>2, <2>3
<1> QED
  BY <1>1, <1>2, <1>3, <1>4, <1>5, <1>6, <1>7 DEF Next

\* Only the restart loop moves the restart loop, and nobody else sets cmd.
LEMMA LoopAlone ==
  ASSUME TypeOK, [Next]_vars, ~LoopStep, ~StartFails
  PROVE  pc'["loop"] = pc["loop"] /\ cmd' = cmd /\ zipped' = zipped
         /\ scratch' = scratch
  BY DEF TypeOK, PCOK, Next, vars, env, process, globals, locals, Goto, Actors,
         ConfigUpdate, NotifyChange, NotifyOther, ChildLoads, ChildTerminates,
         ChildDies, SignalArrives, WatchStep, WatchReceive, WatchReturns, Stop,
         CancelTimer, ZeroRestarts, GroupStep, GroupInterrupts, InterruptLoop,
         InterruptWatch, GroupReturns

\* start() and wait() keep cmd and the process together; nobody else starts a
\* process or forgets one.
LEMMA ChildOwnedStep ==
  ASSUME TypeOK, [Next]_vars, ChildOwned
  PROVE  ChildOwned'
<1> USE DEF ChildOwned, TypeOK, PCOK, Actors, Goto
<1>1. CASE LoopCheck \/ StartLock \/ StartProbe \/ StartUnzip \/ StartFails
  BY <1>1 DEF LoopCheck, StartLock, StartProbe, StartUnzip, StartFails,
              globals, process, InStart
<1>2. CASE StartExec
  BY <1>2 DEF StartExec
<1>3. CASE WaitCheck \/ WaitReturns \/ WaitClear
  BY <1>3 DEF WaitCheck, WaitReturns, WaitClear, globals, process
<1>4. CASE BackoffStart \/ BackoffEnd
  BY <1>4 DEF BackoffStart, BackoffEnd, process
<1>5. CASE ~LoopStep /\ ~StartFails
  <2>1. child' = child \/ (child # "none" /\ child' # "none")
    BY <1>5 DEF Next, vars, env, process, ConfigUpdate, NotifyChange,
                NotifyOther, ChildLoads, ChildTerminates, ChildDies, Alive,
                SignalArrives, WatchStep, WatchReceive, WatchReturns, Stop,
                CancelTimer, ZeroRestarts, GroupStep, GroupInterrupts,
                InterruptLoop, InterruptWatch, GroupReturns
  <2> QED
    BY <1>5, <2>1, LoopAlone
<1> QED
  BY <1>1, <1>2, <1>3, <1>4, <1>5 DEF LoopStep

\* No step leaves an outdated process, or an outdated version about to be run,
\* without a SIGTERM or a reload to come.
LEMMA FreshStep ==
  ASSUME TypeOK, [Next]_vars, FreshInv
  PROVE  FreshStart' /\ NoStaleChild'
<1> USE DEF FreshInv, FreshStart, NoStaleChild
<1>pc. PCOK
  BY DEF TypeOK
<1>1. CASE Stop("watch", "stop", "cancel")
  \* It gives the order to whatever process there is; with the mutex free no
  \* start() is about to run one.
  <2>1. pc["loop"] \notin InStart /\ pc'["loop"] = pc["loop"]
    BY <1>pc, <1>1 DEF Stop, MutexFree, Goto, PCOK, Actors
  <2>2. child \in Alive => term'
    BY <1>1 DEF Stop, ChildOwned, Alive
  <2> QED
    BY <1>1, <2>1, <2>2 DEF Stop, Alive, InStart, env, locals
<1> SUFFICES ASSUME ~Stop("watch", "stop", "cancel")
             PROVE  FreshStart' /\ NoStaleChild'
  BY <1>1
<1>kept. Reloading => Reloading'
  BY ReloadingKept
<1>2. CASE ConfigUpdate
  <2>1. Reloading'
    BY <1>2 DEF ConfigUpdate, Reloading, ReloadOwed
  <2> QED
    BY <2>1
<1>3. CASE ChildLoads
  BY <1>3, <1>kept DEF ChildLoads, env, locals
<1>4. CASE ChildTerminates \/ ChildDies
  BY <1>4, <1>kept DEF ChildTerminates, ChildDies, env, locals
<1>5. CASE StartUnzip
  BY <1>pc, <1>5, <1>kept
     DEF StartUnzip, Goto, PCOK, Actors, ChildOwned, env, process
<1>6. CASE StartProbe
  BY <1>pc, <1>6, <1>kept
     DEF StartProbe, Goto, PCOK, Actors, ChildOwned, env, process
<1>7. CASE StartExec
  BY <1>pc, <1>7, <1>kept
     DEF StartExec, Goto, PCOK, Actors, env, locals
<1>8. CASE LoopCheck \/ StartLock \/ StartFails \/ WaitCheck \/ WaitReturns
           \/ WaitClear \/ BackoffStart \/ BackoffEnd
  BY <1>pc, <1>8, <1>kept
     DEF LoopCheck, StartLock, StartFails, WaitCheck, WaitReturns, WaitClear,
         BackoffStart, BackoffEnd, Goto, PCOK, Actors, env, process, locals
<1>9. CASE ~LoopStep /\ ~StartFails /\ ~ConfigUpdate /\ ~ChildLoads
           /\ ~ChildTerminates /\ ~ChildDies
  <2>1. UNCHANGED <<disk, child, loaded>>
    BY <1>9 DEF Next, vars, env, process, NotifyChange, NotifyOther,
                SignalArrives, WatchStep, WatchReceive, WatchReturns, Stop,
                CancelTimer, ZeroRestarts, GroupStep, GroupInterrupts,
                InterruptLoop, InterruptWatch, GroupReturns
  <2>2. term => term'
    BY <1>9, Zenon
       DEF Next, vars, process, NotifyChange, NotifyOther, SignalArrives,
           WatchStep, WatchReceive, WatchReturns, Stop, CancelTimer,
           ZeroRestarts, GroupStep, GroupInterrupts, InterruptLoop,
           InterruptWatch, GroupReturns
  <2> QED
    BY <1>9, <2>1, <2>2, <1>kept, LoopAlone
<1> QED
  BY <1>2, <1>3, <1>4, <1>5, <1>6, <1>7, <1>8, <1>9 DEF LoopStep

\* No process runs when main starts.
LEMMA FreshInit == Init => FreshInv
  BY DEF Init, FreshInv, ChildOwned, FreshStart, NoStaleChild, Actors

\* Whatever the interleaving of changes, failures and restarts, a process that
\* runs on an outdated configuration has been told to stop or is about to be.
THEOREM NeverStale == Spec => []NoStaleChild
<1>1. FreshInv /\ TypeOK /\ [Next]_vars => FreshInv'
  BY ChildOwnedStep, FreshStep DEF FreshInv
<1>2. FreshInv => NoStaleChild
  BY DEF FreshInv
<1> QED
  BY <1>1, <1>2, FreshInit, TypeCorrect, PTL DEF Spec

-----------------------------------------------------------------------------
(* Fluent Bit never goes back to an older configuration.                    *)

\* What was read is not newer than what is mounted; what is about to be run
\* from the scratch directory is not older than what was run before.
ForwardInv ==
  /\ loaded <= disk /\ scratch <= disk
  /\ zipped /\ (pc["loop"] = "exec" \/ child = "execed") => loaded <= scratch

\* Neither a read of the mounted file nor one of the scratch directory goes
\* back behind what was loaded before.
LEMMA ForwardStep ==
  ASSUME TypeOK, [Next]_vars, ChildOwned, ForwardInv
  PROVE  ForwardInv' /\ loaded' >= loaded
<1> USE ConstantsAssumption DEF ForwardInv
<1>pc. PCOK /\ disk \in Nat /\ loaded \in Nat /\ scratch \in Nat
  BY DEF TypeOK, EnvOK, DataOK, Versions
<1>1. CASE ConfigUpdate
  BY <1>pc, <1>1 DEF ConfigUpdate, process, locals
<1>2. CASE ChildLoads
  BY <1>pc, <1>2 DEF ChildLoads, env, locals, ChildOwned
<1>3. CASE ChildTerminates \/ ChildDies
  BY <1>pc, <1>3 DEF ChildTerminates, ChildDies, env, locals, Alive
<1>4. CASE StartProbe \/ StartUnzip
  BY <1>pc, <1>4
     DEF StartProbe, StartUnzip, Goto, PCOK, Actors, ChildOwned, env, process
<1>5. CASE StartExec
  BY <1>pc, <1>5 DEF StartExec, Goto, PCOK, Actors, env, locals
<1>6. CASE LoopCheck \/ StartLock \/ StartFails \/ WaitCheck \/ WaitReturns
           \/ WaitClear \/ BackoffStart \/ BackoffEnd
  BY <1>pc, <1>6
     DEF LoopCheck, StartLock, StartFails, WaitCheck, WaitReturns, WaitClear,
         BackoffStart, BackoffEnd, Goto, PCOK, Actors, env, process, locals
<1>7. CASE ~LoopStep /\ ~StartFails /\ ~ConfigUpdate /\ ~ChildLoads
           /\ ~ChildTerminates /\ ~ChildDies
  <2>1. UNCHANGED <<disk, child, loaded>>
    BY <1>7 DEF Next, vars, env, process, NotifyChange, NotifyOther,
                SignalArrives, WatchStep, WatchReceive, WatchReturns, Stop,
                CancelTimer, ZeroRestarts, GroupStep, GroupInterrupts,
                InterruptLoop, InterruptWatch, GroupReturns
  <2> QED
    BY <1>pc, <1>7, <2>1, LoopAlone
<1> QED
  BY <1>1, <1>2, <1>3, <1>4, <1>5, <1>6, <1>7 DEF LoopStep

\* Nothing has been loaded when main starts.
LEMMA ForwardInit == Init => ForwardInv
  BY DEF Init, ForwardInv

\* The version that Fluent Bit has loaded never decreases, although start()
\* reads the mounted files at several instants and the scratch directory keeps
\* what earlier attempts have left.
THEOREM AlwaysForward == Spec => ServesForward
<1>1. /\ TypeOK /\ FreshInv /\ ForwardInv /\ [Next]_vars
      => ForwardInv' /\ loaded' >= loaded
  BY ForwardStep DEF FreshInv
<1>2. FreshInv /\ TypeOK /\ [Next]_vars => FreshInv'
  BY ChildOwnedStep, FreshStep DEF FreshInv
<1> QED
  BY <1>1, <1>2, FreshInit, ForwardInit, TypeCorrect, PTL
     DEF Spec, ServesForward

-----------------------------------------------------------------------------
(* The watcher implements ConfigReload: every step of one of its            *)
(* goroutines, of the process or of the kubelet is a step of the abstract   *)
(* promise, or leaves it alone.                                             *)

Serving == IF child = "running" THEN loaded ELSE -1

\* A notification of something else, once received, was not a change.
LEMMA TailOnlyAnnounces ==
  ASSUME NEW q \in Seq(Notifications), q # <<>>, Announces(Tail(q))
  PROVE  Announces(q)
<1>1. PICK i \in 1..Len(Tail(q)) : Tail(q)[i] \in ChangeOps
  BY DEF Announces
<1>2. /\ Len(q) \in Nat \ {0} /\ Len(Tail(q)) = Len(q) - 1
      /\ \A j \in 1..Len(Tail(q)) : Tail(q)[j] = q[j + 1]
  OBVIOUS
<1>3. i + 1 \in 1..Len(q) /\ q[i + 1] \in ChangeOps
  BY <1>1, <1>2
<1> QED
  BY <1>3 DEF Announces

\* The obligations as Boolean values.
LEMMA Obligations ==
  /\ ReloadOwed \in BOOLEAN /\ Closing \in BOOLEAN
  /\ ReloadOwed' \in BOOLEAN /\ Closing' \in BOOLEAN
  BY DEF ReloadOwed, Closing, Announces, WatchCancelled

\* A step that touches nothing the abstract state depends on is a stutter.
LEMMA Stutter ==
  ASSUME UNCHANGED <<disk, loaded, term, Serving>>,
         ReloadOwed' <=> ReloadOwed, Closing' <=> Closing
  PROVE  UNCHANGED Reload!vars
<1>1. ReloadOwed' = ReloadOwed /\ Closing' = Closing
  BY Obligations
<1> QED
  BY <1>1 DEF Reload!vars, Serving

\* Only the config watcher's steps, the interrupt that cancels it, and the
\* environment touch the obligations.
LEMMA ObligationsKept ==
  ASSUME TypeOK, LoopStep \/ StartFails \/ ChildLoads \/ ChildTerminates
                 \/ ChildDies \/ SignalArrives
                 \/ (GroupStep /\ ~InterruptWatch)
  PROVE  (ReloadOwed' <=> ReloadOwed) /\ (Closing' <=> Closing)
<1>pc. PCOK
  BY DEF TypeOK
<1>1. UNCHANGED <<dirty, events>>
  BY DEF LoopStep, LoopCheck, StartLock, StartProbe, StartUnzip, StartExec,
         StartFails, WaitCheck, WaitReturns, WaitClear, BackoffStart,
         BackoffEnd, SignalArrives, ChildLoads, ChildTerminates, ChildDies,
         GroupStep, GroupInterrupts, InterruptLoop, InterruptWatch,
         GroupReturns, Stop, CancelTimer, ZeroRestarts, env
<1>2. pc'["watch"] = pc["watch"]
  BY <1>pc
     DEF LoopStep, LoopCheck, StartLock, StartProbe, StartUnzip, StartExec,
         StartFails, WaitCheck, WaitReturns, WaitClear, BackoffStart,
         BackoffEnd, SignalArrives, ChildLoads, ChildTerminates, ChildDies,
         GroupStep, GroupInterrupts, InterruptLoop, InterruptWatch,
         GroupReturns, Stop, CancelTimer, ZeroRestarts, Goto, PCOK, Actors
<1>3. WatchCancelled' <=> WatchCancelled
  <2>1. CASE GroupStep /\ ~InterruptWatch
    BY <1>pc, <2>1
       DEF GroupStep, GroupInterrupts, InterruptLoop, GroupReturns, Stop,
           CancelTimer, ZeroRestarts, Goto, PCOK, Actors, WatchCancelled
  <2>2. CASE ~(GroupStep /\ ~InterruptWatch)
    BY <1>pc, <2>2
       DEF LoopStep, LoopCheck, StartLock, StartProbe, StartUnzip, StartExec,
           StartFails, WaitCheck, WaitReturns, WaitClear, BackoffStart,
           BackoffEnd, SignalArrives, ChildLoads, ChildTerminates, ChildDies,
           Goto, PCOK, Actors, WatchCancelled
  <2> QED
    BY <2>1, <2>2
<1> QED
  BY <1>1, <1>2, <1>3 DEF ReloadOwed, Closing

\* Steps that change nothing but program counters and what ConfigReload does
\* not see.
LEMMA QuietSteps ==
  ASSUME TypeOK, FreshInv,
         \/ LoopStep /\ ~StartExec
         \/ StartFails \/ SignalArrives
         \/ GroupStep /\ ~InterruptWatch /\ ~Stop("group", "stop", "cancel")
  PROVE  UNCHANGED Reload!vars
<1>1. UNCHANGED <<disk, loaded>>
  BY DEF LoopStep, LoopCheck, StartLock, StartProbe, StartUnzip, StartExec,
         StartFails, WaitCheck, WaitReturns, WaitClear, BackoffStart,
         BackoffEnd, SignalArrives, GroupStep, GroupInterrupts, InterruptLoop,
         InterruptWatch, GroupReturns, CancelTimer, ZeroRestarts, env, process
<1>2. UNCHANGED term
  BY Zenon
     DEF LoopStep, LoopCheck, StartLock, StartProbe, StartUnzip, StartExec,
         StartFails, WaitCheck, WaitReturns, WaitClear, BackoffStart,
         BackoffEnd, SignalArrives, GroupStep, GroupInterrupts, InterruptLoop,
         InterruptWatch, GroupReturns, CancelTimer, ZeroRestarts, process
<1>3. child' = child \/ (child # "running" /\ child' # "running")
  BY DEF LoopStep, LoopCheck, StartLock, StartProbe, StartUnzip, StartExec,
         StartFails, WaitCheck, WaitReturns, WaitClear, BackoffStart,
         BackoffEnd, SignalArrives, GroupStep, GroupInterrupts, InterruptLoop,
         InterruptWatch, GroupReturns, CancelTimer, ZeroRestarts, process
<1>4. UNCHANGED Serving
  BY <1>1, <1>3 DEF Serving
<1> QED
  BY <1>1, <1>2, <1>4, ObligationsKept, Stutter

\* The steps of the Fluent Bit process and of start().
LEMMA ProcessSteps ==
  ASSUME TypeOK, [Next]_vars, FreshInv, ForwardInv,
         ChildLoads \/ ChildTerminates \/ ChildDies \/ StartExec
  PROVE  Reload!Next \/ UNCHANGED Reload!vars
<1>0. (ReloadOwed' <=> ReloadOwed) /\ (Closing' <=> Closing)
  BY ObligationsKept DEF LoopStep
<1>1. ReloadOwed' = ReloadOwed /\ Closing' = Closing
  BY <1>0, Obligations
<1> USE DEF Reload!NoVersion, Reload!Versions
<1>2. CASE ChildLoads /\ child' = "running"
  <2>1. /\ child = "execed" /\ disk' = disk
        /\ loaded' = IF zipped THEN scratch ELSE disk
    BY <1>2 DEF ChildLoads, env
  <2>2. term' = term
    BY <1>2, Zenon DEF ChildLoads
  <2>3. loaded' \in loaded..disk
    BY <2>1 DEF ForwardInv, TypeOK, EnvOK, DataOK, Versions
  <2>4. loaded' = disk \/ ReloadOwed \/ term \/ Closing
    BY <2>1 DEF FreshInv, FreshStart, Reloading
  <2> QED
    BY <1>1, <1>2, <2>1, <2>2, <2>3, <2>4 DEF Reload!Next, Reload!Load
<1>3. CASE (ChildLoads /\ child' # "running") \/ ChildTerminates \/ ChildDies
  <2>1. child' # "running" /\ disk' = disk /\ loaded' = loaded
    BY <1>3 DEF ChildLoads, ChildTerminates, ChildDies, env
  <2>2. term' = term
    BY <1>3, Zenon DEF ChildLoads, ChildTerminates, ChildDies
  <2> QED
    BY <1>1, <2>1, <2>2 DEF Reload!Next, Reload!Retire
<1>4. CASE StartExec
  <2>1. /\ child # "running" /\ child' # "running"
        /\ disk' = disk /\ loaded' = loaded
    BY <1>4 DEF StartExec, FreshInv, ChildOwned, Goto, env
  <2>2. term' = FALSE
    BY <1>4 DEF StartExec
  <2> QED
    BY <1>1, <2>1, <2>2 DEF Reload!Next, Reload!Renew
<1> QED
  BY <1>2, <1>3, <1>4

\* The steps of the kubelet and of the FileWatcher.
LEMMA EnvironmentSteps ==
  ASSUME TypeOK, [Next]_vars, ConfigUpdate \/ NotifyChange \/ NotifyOther
  PROVE  Reload!Next \/ UNCHANGED Reload!vars
<1>0. events \in Seq(Notifications)
  BY DEF TypeOK, EnvOK
<1>1. /\ UNCHANGED <<loaded, Serving>>
      /\ pc' = pc
  BY DEF ConfigUpdate, NotifyChange, NotifyOther, process, Serving
<1>2. term' = term
  BY Zenon DEF ConfigUpdate, NotifyChange, NotifyOther, process
<1>3. Closing' <=> Closing
  BY <1>1 DEF Closing, WatchCancelled
<1>4. CASE ConfigUpdate
  <2>1. ReloadOwed' = TRUE
    BY <1>4, Obligations DEF ConfigUpdate, ReloadOwed
  <2>2. Closing' = Closing
    BY <1>3, Obligations
  <2>3. disk' = disk + 1 /\ disk < MaxVersion
    BY <1>4 DEF ConfigUpdate
  <2> QED
    BY <1>1, <1>2, <2>1, <2>2, <2>3 DEF Reload!Next, Reload!Publish, Serving
<1>5. CASE NotifyChange
  <2>1. PICK op \in ChangeOps : events' = Append(events, op)
    BY <1>5 DEF NotifyChange
  <2>2. op \in Notifications
    BY DEF Notifications
  <2>3. ReloadOwed /\ ReloadOwed'
    BY <1>0, <1>5, <2>1, <2>2, AppendAnnounces DEF NotifyChange, ReloadOwed
  <2>4. disk' = disk
    BY <1>5 DEF NotifyChange
  <2> QED
    BY <1>1, <1>2, <1>3, <2>3, <2>4, Stutter
<1>6. CASE NotifyOther
  <2>1. disk' = disk
    BY <1>6 DEF NotifyOther
  <2>2. CASE ReloadOwed'
    <3>1. ReloadOwed' = TRUE /\ Closing' = Closing
      BY <1>3, <2>2, Obligations
    <3> QED
      BY <1>1, <1>2, <2>1, <3>1 DEF Reload!Next, Reload!Announce, Serving
  <2>3. CASE ~ReloadOwed'
    <3>1. PICK n \in Notifications : events' = Append(events, n)
      BY <1>6 DEF NotifyOther
    <3>2. Announces(events) => Announces(events')
      BY <1>0, <3>1, AppendAnnounces
    <3>3. dirty' = dirty
      BY <1>6, Zenon DEF NotifyOther
    <3>4. ~ReloadOwed
      BY <1>1, <2>3, <3>2, <3>3 DEF ReloadOwed
    <3> QED
      BY <1>1, <1>2, <1>3, <2>1, <2>3, <3>4, Stutter
  <2> QED
    BY <2>2, <2>3
<1> QED
  BY <1>4, <1>5, <1>6

\* stop(), for an event or at shutdown, gives the order to any process.
LEMMA StopSettles ==
  ASSUME TypeOK, FreshInv, NEW actor, NEW from, NEW to,
         Stop(actor, from, to),
         ReloadOwed' \in {ReloadOwed, FALSE}, Closing' = Closing
  PROVE  Reload!Settle
<1>1. UNCHANGED <<disk, loaded, child>>
  BY DEF Stop, env
<1>2. term' \in {term, TRUE}
  BY Zenon DEF Stop, TypeOK, FlagsOK
<1>3. child = "running" => term'
  BY DEF Stop, FreshInv, ChildOwned, Alive
<1> QED
  BY <1>1, <1>2, <1>3 DEF Reload!Settle, Reload!NoVersion

\* The config watcher: a valid event keeps the obligation, its stop() carries
\* it out, an error or the cancel channel ends all obligations.
LEMMA WatchSteps ==
  ASSUME TypeOK, [Next]_vars, FreshInv, WatchStep
  PROVE  Reload!Next \/ UNCHANGED Reload!vars
<1>pc. PCOK /\ events \in Seq(Notifications)
  BY DEF TypeOK, EnvOK
<1>1. pc'["group"] = pc["group"]
  BY <1>pc
     DEF WatchStep, WatchReceive, WatchReturns, Stop, CancelTimer,
         ZeroRestarts, Goto, PCOK, Actors
<1>2. WatchCancelled' <=> WatchCancelled
  BY <1>1 DEF WatchCancelled
<1>3. CASE Stop("watch", "stop", "cancel")
  <2>1. ReloadOwed' \in {ReloadOwed, FALSE}
    <3>1. ReloadOwed = TRUE
      BY <1>3, Obligations DEF Stop, Goto, ReloadOwed
    <3> QED
      BY <3>1, Obligations
  <2>2. Closing' = Closing
    <3>1. pc["watch"] # "done" /\ pc'["watch"] # "done"
      BY <1>pc, <1>3 DEF Stop, Goto, PCOK, Actors
    <3> QED
      BY <1>2, <3>1, Obligations DEF Closing
  <2> QED
    BY <1>3, <2>1, <2>2, StopSettles DEF Reload!Next
<1> SUFFICES ASSUME ~Stop("watch", "stop", "cancel")
             PROVE  Reload!Next \/ UNCHANGED Reload!vars
  BY <1>3
<1>4. UNCHANGED <<disk, loaded, Serving>>
  BY DEF WatchStep, WatchReceive, WatchReturns, CancelTimer, ZeroRestarts,
         env, process, Serving
<1>5. term' = term
  BY Zenon
     DEF WatchStep, WatchReceive, WatchReturns, CancelTimer, ZeroRestarts,
         process
<1>6. dirty' = dirty
  BY Zenon
     DEF WatchStep, WatchReceive, WatchReturns, CancelTimer, ZeroRestarts, env
<1>7. ReloadOwed' <=> ReloadOwed
  <2>1. CASE WatchReceive
    <3>1. CASE isValidEvent(Head(events))
      <4>1. Announces(events)
        <5>1. Head(events) = events[1] /\ 1 \in 1..Len(events)
          BY <1>pc, <2>1 DEF WatchReceive
        <5> QED
          BY <3>1, <5>1 DEF Announces, isValidEvent, ChangeOps
      <4>2. pc'["watch"] = "stop"
        BY <1>pc, <2>1, <3>1
           DEF WatchReceive, Goto, PCOK, Actors, isValidEvent
      <4> QED
        BY <4>1, <4>2 DEF ReloadOwed
    <3>2. CASE ~isValidEvent(Head(events))
      <4>1. events # <<>> /\ events' = Tail(events)
        BY <2>1 DEF WatchReceive
      <4>2. Announces(events') <=> Announces(events)
        BY <1>pc, <3>2, <4>1, TailAnnounces, TailOnlyAnnounces
           DEF isValidEvent, ChangeOps
      <4>3. pc["watch"] # "stop" /\ pc'["watch"] # "stop"
        BY <1>pc, <2>1, <3>2 DEF WatchReceive, Goto, PCOK, Actors
      <4> QED
        BY <1>6, <4>2, <4>3 DEF ReloadOwed
    <3> QED
      BY <3>1, <3>2
  <2>2. CASE ~WatchReceive
    <3>1. events' = events
      BY <2>2 DEF WatchStep, WatchReturns, CancelTimer, ZeroRestarts, env
    <3>2. pc["watch"] # "stop" /\ pc'["watch"] # "stop"
      BY <1>pc, <2>2
         DEF WatchStep, WatchReturns, CancelTimer, ZeroRestarts, Goto, PCOK,
             Actors
    <3> QED
      BY <1>6, <3>1, <3>2 DEF ReloadOwed
  <2> QED
    BY <2>1, <2>2
<1>8. CASE Closing' <=> Closing
  BY <1>4, <1>5, <1>7, <1>8, Stutter
<1>9. CASE ~(Closing' <=> Closing)
  <2>1. Closing' = TRUE
    <3>1. pc["watch"] # "done"
      BY <1>pc
         DEF WatchStep, WatchReceive, WatchReturns, CancelTimer, ZeroRestarts,
             Goto
    <3> QED
      BY <1>2, <1>9, <3>1, Obligations DEF Closing
  <2>2. ReloadOwed' = ReloadOwed
    BY <1>7, Obligations
  <2> QED
    BY <1>4, <1>5, <2>1, <2>2 DEF Reload!Next, Reload!Close, Serving
<1> QED
  BY <1>8, <1>9

\* The interrupts of run.Group: stop(), and the end of all obligations.
LEMMA GroupSteps ==
  ASSUME TypeOK, [Next]_vars, FreshInv, GroupStep
  PROVE  Reload!Next \/ UNCHANGED Reload!vars
<1>pc. PCOK
  BY DEF TypeOK
<1>1. CASE Stop("group", "stop", "cancel")
  <2>1. ~InterruptWatch
    BY <1>1 DEF Stop, InterruptWatch, Goto
  <2>2. ReloadOwed' = ReloadOwed /\ Closing' = Closing
    BY <2>1, ObligationsKept, Obligations
  <2> QED
    BY <1>1, <2>2, StopSettles DEF Reload!Next
<1>2. CASE InterruptWatch
  <2>1. UNCHANGED <<disk, loaded, Serving>>
    BY <1>2 DEF InterruptWatch, process, Serving
  <2>2. term' = term /\ dirty' = dirty
    BY <1>2, Zenon DEF InterruptWatch, process
  <2>3. Closing' = TRUE
    BY <1>pc, <1>2, Obligations
       DEF InterruptWatch, Goto, PCOK, Actors, Closing, WatchCancelled
  <2>4. ReloadOwed' => ReloadOwed
    <3>1. pc'["watch"] = pc["watch"]
      BY <1>pc, <1>2 DEF InterruptWatch, Goto, PCOK, Actors
    <3>2. ~Announces(events')
      BY <1>2 DEF InterruptWatch, Announces
    <3> QED
      BY <2>2, <3>1, <3>2 DEF ReloadOwed
  <2>5. ReloadOwed' \in {ReloadOwed, FALSE}
    BY <2>4, Obligations
  <2> QED
    BY <2>1, <2>2, <2>3, <2>5 DEF Reload!Next, Reload!Close, Serving
<1>3. CASE ~InterruptWatch /\ ~Stop("group", "stop", "cancel")
  BY <1>3, QuietSteps
<1> QED
  BY <1>1, <1>2, <1>3

\* Every step of the wrapper is one of the promise, or does not show in it.
LEMMA RefinementStep ==
  ASSUME TypeOK, FreshInv, ForwardInv, [Next]_vars
  PROVE  [Reload!Next]_(Reload!vars)
<1>1. CASE UNCHANGED vars
  <2>1. UNCHANGED <<disk, loaded, Serving>>
    BY <1>1 DEF vars, env, process, Serving
  <2>2. UNCHANGED <<term, dirty>>
    BY <1>1, Zenon DEF vars, env, process
  <2>3. (ReloadOwed' <=> ReloadOwed) /\ (Closing' <=> Closing)
    BY <1>1, <2>2 DEF vars, env, ReloadOwed, Closing, WatchCancelled
  <2> QED
    BY <2>1, <2>2, <2>3, Stutter
<1>2. CASE ConfigUpdate \/ NotifyChange \/ NotifyOther
  BY <1>2, EnvironmentSteps
<1>3. CASE ChildLoads \/ ChildTerminates \/ ChildDies \/ StartExec
  BY <1>3, ProcessSteps
<1>4. CASE (LoopStep /\ ~StartExec) \/ StartFails \/ SignalArrives
  BY <1>4, QuietSteps
<1>5. CASE WatchStep
  BY <1>5, WatchSteps
<1>6. CASE GroupStep
  BY <1>6, GroupSteps
<1> QED
  BY <1>1, <1>2, <1>3, <1>4, <1>5, <1>6 DEF Next

\* The wrapper starts where the promise does.
LEMMA RefinementInit == Init => Reload!Init
<1> SUFFICES ASSUME Init PROVE Reload!Init
  OBVIOUS
<1>1. ~ReloadOwed /\ ~Closing
  BY DEF Init, ReloadOwed, Announces, Closing, WatchCancelled, Actors
<1>2. ReloadOwed = FALSE /\ Closing = FALSE
  BY <1>1, Obligations
<1> QED
  BY <1>2 DEF Init, Reload!Init, Reload!NoVersion

\* The wrapper keeps the promise of ConfigReload.
THEOREM WatcherImplementsReload == Spec => ImplementsReload
<1>1. /\ TypeOK /\ FreshInv /\ ForwardInv /\ [Next]_vars
      => ForwardInv' /\ FreshInv'
  BY ForwardStep, ChildOwnedStep, FreshStep DEF FreshInv
<1> QED
  BY <1>1, RefinementInit, RefinementStep, FreshInit, ForwardInit, TypeCorrect,
     PTL
     DEF Spec, ImplementsReload, Reload!Spec

-----------------------------------------------------------------------------
(* The wrapper never gets stuck.                                            *)

\* The restart loop waits only for a process that it has, and run.Group has
\* interrupted the signal handler before anything else.
RestInv ==
  /\ pc["loop"] = "waiting" => cmd
  /\ cmd /\ pc["loop"] \in {"wait", "waiting"} => child # "none"
  /\ pc["group"] # "run" => pc["signal"] = "done"

\* No step of start() and wait() leaves the loop waiting for nothing.
LEMMA WaitsForSomething ==
  ASSUME TypeOK, [Next]_vars, ChildOwned, RestInv
  PROVE  /\ pc'["loop"] = "waiting" => cmd'
         /\ cmd' /\ pc'["loop"] \in {"wait", "waiting"} => child' # "none"
<1> USE DEF ChildOwned, RestInv, TypeOK, PCOK, Actors, Goto
<1>1. CASE LoopCheck \/ StartLock \/ StartProbe \/ StartUnzip \/ StartFails
  BY <1>1 DEF LoopCheck, StartLock, StartProbe, StartUnzip, StartFails,
              globals, process, InStart
<1>2. CASE StartExec
  BY <1>2 DEF StartExec
<1>3. CASE WaitCheck \/ WaitReturns \/ WaitClear
  BY <1>3 DEF WaitCheck, WaitReturns, WaitClear, globals, process
<1>4. CASE BackoffStart \/ BackoffEnd
  BY <1>4 DEF BackoffStart, BackoffEnd, process, globals
<1>5. CASE ~LoopStep /\ ~StartFails
  <2>1. child # "none" => child' # "none"
    BY <1>5 DEF Next, vars, env, process, ConfigUpdate, NotifyChange,
                NotifyOther, ChildLoads, ChildTerminates, ChildDies, Alive,
                SignalArrives, WatchStep, WatchReceive, WatchReturns, Stop,
                CancelTimer, ZeroRestarts, GroupStep, GroupInterrupts,
                InterruptLoop, InterruptWatch, GroupReturns
  <2> QED
    BY <1>5, <2>1, LoopAlone
<1> QED
  BY <1>1, <1>2, <1>3, <1>4, <1>5 DEF LoopStep

\* run.Group leaves its first place only by interrupting the signal handler,
\* which does not come back.
LEMMA SignalInterrupted ==
  ASSUME TypeOK, [Next]_vars, RestInv
  PROVE  pc'["group"] # "run" => pc'["signal"] = "done"
<1> USE DEF RestInv, TypeOK, PCOK, Actors
<1>1. CASE GroupInterrupts
  BY <1>1 DEF GroupInterrupts
<1>2. CASE SignalArrives
  BY <1>2 DEF SignalArrives, Goto
<1>3. CASE LoopStep \/ StartFails
  BY <1>3 DEF LoopStep, LoopCheck, StartLock, StartProbe, StartUnzip,
              StartExec, StartFails, WaitCheck, WaitReturns, WaitClear,
              BackoffStart, BackoffEnd, Goto
<1>4. CASE WatchStep
  BY <1>4 DEF WatchStep, WatchReceive, WatchReturns, Stop, CancelTimer,
              ZeroRestarts, Goto
<1>5. CASE GroupStep /\ ~GroupInterrupts
  BY <1>5 DEF GroupStep, InterruptLoop, InterruptWatch, GroupReturns, Stop,
              CancelTimer, ZeroRestarts, Goto
<1>6. CASE UNCHANGED pc
  BY <1>6
<1> QED
  BY <1>1, <1>2, <1>3, <1>4, <1>5, <1>6
     DEF Next, vars, ConfigUpdate, NotifyChange, NotifyOther, ChildLoads,
         ChildTerminates, ChildDies

\* Nothing moves, so each goroutine is where nothing is left for it to do:
\* the loop at its process, the config watcher at an empty queue, run.Group
\* before an actor has returned or while one does not.
LEMMA RestIsServing ==
  ASSUME TypeOK, FreshInv, RestInv
  PROVE  RestsServing
<1> SUFFICES ASSUME AtRest, pc["group"] # "exited", ~LateChild
             PROVE  /\ \A a \in Actors : pc[a] # "done"
                    /\ child = "running" /\ loaded = disk
  BY DEF RestsServing
<1>child. pc["loop"] # "done" => child = "running" /\ ~term
  BY DEF AtRest, RestInv, TypeOK, DataOK, Alive
<1>1. pc["group"] # "join"
  <2>1. SUFFICES ASSUME pc["group"] = "join" PROVE FALSE
    OBVIOUS
  <2>2. pc["signal"] = "done" /\ pc["watch"] = "done"
    BY <2>1 DEF RestInv, AtRest, WatchCancelled
  <2>3. pc["loop"] # "done"
    BY <2>1, <2>2 DEF AtRest, Actors
  <2> QED
    BY <1>child, <2>1, <2>3 DEF LateChild, Alive
<1>2. pc["group"] = "run" /\ \A a \in Actors : pc[a] # "done"
  BY <1>1 DEF AtRest
<1>3. child = "running" /\ ~term
  BY <1>2, <1>child DEF Actors
<1>4. ~Reloading
  <2>1. pc["watch"] = "select" /\ events = <<>> /\ ~WatchCancelled
    BY <1>2 DEF AtRest, Actors
  <2>2. ~dirty
    BY <2>1, ConstantsAssumption DEF AtRest
  <2> QED
    BY <2>1, <2>2 DEF Reloading, ReloadOwed, Closing, Announces
<1> QED
  BY <1>2, <1>3, <1>4 DEF FreshInv, NoStaleChild

\* main starts with a loop that has no process and waits for none.
LEMMA RestInit == Init => RestInv
  BY DEF Init, RestInv, Actors

\* When nothing of the wrapper can move any more, it has returned, waits for
\* the one process that a shutdown may miss, or serves the mounted version
\* with all its actors at work.  Neither liveness property could hold if it
\* ever rested anywhere else.
THEOREM RestsOnlyServing == Spec => []RestsServing
<1>1. FreshInv /\ TypeOK /\ [Next]_vars => FreshInv'
  BY ChildOwnedStep, FreshStep DEF FreshInv
<1>2. FreshInv /\ RestInv /\ TypeOK /\ [Next]_vars => RestInv'
  BY WaitsForSomething, SignalInterrupted DEF FreshInv, RestInv
<1>3. TypeOK /\ FreshInv /\ RestInv => RestsServing
  BY RestIsServing
<1> QED
  BY <1>1, <1>2, <1>3, FreshInit, RestInit, TypeCorrect, PTL DEF Spec

\* The other half of AtRest: a state at rest takes no step that is fair, so
\* that resting there for ever is a behaviour the fairness allows.
LEMMA RestMeansRest ==
  ASSUME TypeOK, AtRest
  PROVE  ~( \/ LoopStep \/ WatchStep \/ GroupStep
            \/ NotifyChange \/ ChildLoads \/ ChildTerminates )
<1> USE DEF AtRest, TypeOK, PCOK, EnvOK, Actors
<1>1. ~LoopStep
  BY DEF LoopStep, LoopCheck, StartLock, StartProbe, StartUnzip, StartExec,
         WaitCheck, WaitReturns, WaitClear, BackoffStart, BackoffEnd, Goto
<1>2. ~WatchStep
  BY DEF WatchStep, WatchReceive, WatchReturns, Stop, CancelTimer,
         ZeroRestarts, Goto
<1>3. ~GroupStep
  BY DEF GroupStep, GroupInterrupts, InterruptLoop, InterruptWatch,
         GroupReturns, Stop, CancelTimer, ZeroRestarts, Goto
<1>4. ~NotifyChange
  BY ConstantsAssumption DEF NotifyChange
<1>5. ~ChildLoads /\ ~ChildTerminates
  BY Zenon DEF ChildLoads, ChildTerminates, Alive
<1> QED
  BY <1>1, <1>2, <1>3, <1>4, <1>5

-----------------------------------------------------------------------------
(* -exit-on-failure.                                                        *)

\* A failure is remembered until another process is started, and with the flag
\* it leads the loop out of its code.
FailureKept ==
  exitOnFailure /\ failed =>
    child = "exited" \/ (child = "none" /\ pc["loop"] \in {"clear", "done"})

\* Only a process that ends fails, and only the start of another one forgets it.
LEMMA FailureStep ==
  ASSUME TypeOK, [Next]_vars, ChildOwned, FailureKept
  PROVE  FailureKept' /\ (child # "execed" /\ child' = "execed"
                            => ~(exitOnFailure /\ failed))
<1> USE DEF FailureKept, ChildOwned
<1>pc. PCOK
  BY DEF TypeOK
<1>1. CASE ChildLoads
  BY <1>1, Zenon DEF ChildLoads, globals
<1>2. CASE ChildTerminates \/ ChildDies
  BY <1>2 DEF ChildTerminates, ChildDies, Alive
<1>3. CASE StartExec
  BY <1>pc, <1>3 DEF StartExec, Goto, PCOK, Actors, Alive
<1>4. CASE WaitReturns
  BY <1>pc, <1>4 DEF WaitReturns, Goto, PCOK, Actors
<1>5. CASE WaitClear
  BY <1>pc, <1>5 DEF WaitClear, Goto, PCOK, Actors, process
<1>6. CASE LoopCheck \/ StartLock \/ StartProbe \/ StartUnzip \/ StartFails
           \/ WaitCheck \/ BackoffStart \/ BackoffEnd
  BY <1>pc, <1>6
     DEF LoopCheck, StartLock, StartProbe, StartUnzip, StartFails, WaitCheck,
         BackoffStart, BackoffEnd, Goto, PCOK, Actors, InStart, process, globals
<1>7. CASE ~LoopStep /\ ~StartFails /\ ~ChildLoads /\ ~ChildTerminates
           /\ ~ChildDies
  <2>1. UNCHANGED <<child, failed, exitOnFailure>>
    BY <1>7, Zenon
       DEF Next, vars, process, globals, ConfigUpdate, NotifyChange,
           NotifyOther, SignalArrives, WatchStep, WatchReceive, WatchReturns,
           Stop, CancelTimer, ZeroRestarts, GroupStep, GroupInterrupts,
           InterruptLoop, InterruptWatch, GroupReturns
  <2> QED
    BY <1>7, <2>1, LoopAlone
<1> QED
  BY <1>1, <1>2, <1>3, <1>4, <1>5, <1>6, <1>7 DEF LoopStep

\* With -exit-on-failure no process is started after a failed one, whichever
\* goroutine made it fail and whatever the config watcher asks for meanwhile.
THEOREM FailedForGood == Spec => NeverRestartsFailed
<1>1. FreshInv /\ TypeOK /\ [Next]_vars => FreshInv'
  BY ChildOwnedStep, FreshStep DEF FreshInv
<1>2. /\ TypeOK /\ FreshInv /\ FailureKept /\ [Next]_vars
      => /\ FailureKept'
         /\ child # "execed" /\ child' = "execed" => ~(exitOnFailure /\ failed)
  BY FailureStep DEF FreshInv
<1>3. Init => FailureKept
  BY DEF Init, FailureKept
<1> QED
  BY <1>1, <1>2, <1>3, FreshInit, TypeCorrect, PTL
     DEF Spec, NeverRestartsFailed
=============================================================================
