-------------------------- MODULE PolledDirectory --------------------------
(***************************************************************************)
(* A FilePoller on a directory or a file that belongs to one of two:  the  *)
(* kubelet, that swaps a Secret volume in it, or anybody, who changes it   *)
(* in any way and also removes and adds the watch and closes the poller.   *)
(* Removing a watch does not end its goroutine: with a second Add there    *)
(* are two.                                                                *)
(***************************************************************************)
EXTENDS ConfigVolume

CONSTANTS
  Entries,      \* names that anybody uses
  Stamps,       \* times of modification that anybody sets
  MaxChanges    \* bound: changes and removals of the watch

ASSUME DirectoryConstants ==
  Entries \subseteq Names /\ Stamps \subseteq 0..MaxStamp /\ MaxChanges \in Nat

VARIABLES
  owner,    \* "kubelet" or "anybody"
  changes   \* changes left

allVars == <<vars, volume, owner, changes>>

AnyFile == {f \in Files : f.stamp \in Stamps}

Init ==
  \/ owner = "kubelet" /\ changes = 0 /\ VolumeInit
  \/ /\ owner = "anybody" /\ changes = MaxChanges
     /\ \/ \E n \in Entries : PollerInit(Directory, With(NoEntries, n, Link(0)))
        \/ PollerInit(Link(0), NoEntries)
     /\ version = 0 /\ step = "idle" /\ read = 0

\* An entry is created, written, replaced, removed, or has its mode changed.
ChangeEntry ==
  /\ item.dir
  /\ \E n \in Entries :
       \/ \E f \in AnyFile \ {Entry([entries |-> tree], n)} : Write(n, f)
       \/ n \in DOMAIN tree /\ Delete(n)
  /\ UNCHANGED item

\* The watched item itself is removed, created, replaced or changed.
ChangeItem ==
  /\ item' \in ({Nil, Directory} \cup {f \in AnyFile : ~f.dir}) \ {item}
  /\ tree' = NoEntries

Change ==
  /\ ChangeEntry \/ ChangeItem
  /\ UNCHANGED <<faults, poller, polling>>

AnybodyStep ==
  /\ owner = "anybody"
  /\ \/ changes > 0 /\ changes' = changes - 1 /\ (Change \/ Remove)
     \/ UNCHANGED changes /\ (Close \/ \E g \in Goroutines : RecordFails(g))
  /\ UNCHANGED <<volume, owner>>

StartAdd(g) == Add(g) /\ UNCHANGED <<volume, owner, changes>>

PollStep(g) ==
  \/ WatchStep(g) /\ UNCHANGED <<volume, owner, changes>>
  \/ StartPolling(g) /\ UNCHANGED <<owner, changes>>

\* Whoever watches the volume takes the events for notifications of a new
\* version; an error would end it, which is left to FluentBitWatcher.
Consume(g) ==
  /\ \/ owner = "kubelet" /\ (Reload(g) \/ Ignore(g))
     \/ /\ owner = "anybody" /\ UNCHANGED volume
        /\ ReceiveError(g) \/ \E e \in out[g] : Receive(g, e)
  /\ UNCHANGED <<owner, changes>>

Next ==
  \/ AnybodyStep
  \/ owner = "kubelet" /\ KubeletStep /\ UNCHANGED <<owner, changes>>
  \/ \E g \in Goroutines : StartAdd(g) \/ PollStep(g) \/ Consume(g)

\* main adds the volume before it starts anything else.  The ticker fires, and
\* the consumer keeps receiving until Close; a select that finds done closed
\* again and again takes that branch in the end, as select chooses among the
\* ready ones at random.
Fairness ==
  \A g \in Goroutines :
    /\ WF_allVars(owner = "kubelet" /\ StartAdd(g))
    /\ WF_allVars(PollStep(g))
    /\ WF_allVars(Consume(g) /\ ~closed)
    /\ SF_allVars(Stop(g) /\ UNCHANGED <<volume, owner, changes>>)

Spec == Init /\ [][Next]_allVars /\ Fairness

-----------------------------------------------------------------------------
(* Properties.                                                              *)

\* The snapshots hold only entries whose FileInfo was read, and Fluent Bit has
\* read no version that was not mounted.
TypeOK ==
  /\ PollerTypeOK /\ VolumeTypeOK
  /\ owner \in {"kubelet", "anybody"} /\ changes \in 0..MaxChanges

\* Every goroutine that has come to rest knows the directory as it is: no
\* change falls between two polls, not even one that hits a poll half way
\* through or one during which a system call has failed, nor between the
\* recording of Add, which is not atomic either, and the first poll.
Polled(g) == pc[g] \notin {"off", "done"}
Knows(g)  == left[g] = [info |-> item, entries |-> tree]
CatchesUp == \A g \in Goroutines : []<>(Knows(g) \/ ~Polled(g))

\* It then falls silent: what has been reported is not reported again.
FallsSilent == \A g \in Goroutines : <>[](out[g] = {})

\* No version is passed over: between two polls Fluent Bit has read the version
\* that the last snapshot shows, or a later one.  With CatchesUp this is why
\* EveryVersionRead holds.
Shown(recording) == Entry(recording, "..data").stamp
SeenIsRead ==
  owner = "kubelet" =>
    \A g \in Goroutines : pc[g] = "tick" => read >= Shown(left[g])

\* Close ends every goroutine, also one whose event nobody receives and one
\* that no longer stands behind any watch.
CloseEnds == \A g \in Goroutines : closed ~> ~Polled(g)

\* Whatever has come, gone or changed between two snapshots, the consumer
\* receives an event: it may not learn of all the changes, but it learns that
\* there was one.  Only what is a directory in one of the snapshots can change
\* silently, and so does all that is in one which takes the place of a file.
ReportsSomething ==
  [][\A g \in Goroutines :
       pc[g] = "examine" /\ pc'[g] = "send" /\ out'[g] = {}
         => LET was == left[g]
                is == left'[g]
            IN  /\ was.info # is.info => was.info.dir \/ is.info.dir
                /\ was.info.dir => DOMAIN was.entries = DOMAIN is.entries
                /\ was.info.dir => \A n \in DOMAIN was.entries :
                     was.entries[n] # is.entries[n]
                       => was.entries[n].dir \/ is.entries[n].dir]_allVars
=============================================================================
