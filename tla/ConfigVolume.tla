---------------------------- MODULE ConfigVolume ----------------------------
(***************************************************************************)
(* A FilePoller on a Secret volume: /fluent-bit/config, which only the     *)
(* kubelet changes.  The kubelet writes each version of the Secret into a  *)
(* new directory, points a new symbolic link at it, renames the link to    *)
(* ..data, and removes the previous directory.  fluent-bit.conf is a       *)
(* symbolic link through ..data and never changes itself.                  *)
(*                                                                         *)
(* The consumer of the events is the config watcher of the fluent-bit      *)
(* watcher: after an event that isValidEvent accepts it has Fluent Bit     *)
(* read the mounted files again.                                           *)
(***************************************************************************)
EXTENDS FilePoller

CONSTANT MaxVersion   \* bound

VARIABLES
  version,   \* the version that ..data leads to
  step,      \* the kubelet's place in the swap
  read       \* the version Fluent Bit read last

volume == <<version, step, read>>

\* The directory of each version has a name of its own.
VersionDir(v) == <<"..0", "..1", "..2">>[v + 1]

ASSUME VolumeConstants ==
  /\ MaxVersion \in 0..2 /\ MaxVersion <= MaxStamp
  /\ {"..data", "..data_tmp", "fluent-bit.conf"} \cup {"..0", "..1", "..2"} \subseteq Names

Link(v)   == [dir |-> FALSE, mode |-> "rw", stamp |-> v]
Directory == [dir |-> TRUE, mode |-> "rw", stamp |-> 0]

VolumeInit ==
  /\ PollerInit(Directory, [n \in {"..data", "fluent-bit.conf", VersionDir(0)} |->
                             IF n = VersionDir(0) THEN Directory ELSE Link(0)])
  /\ version = 0 /\ step = "idle" /\ read = 0

Write(n, file) == tree' = With(tree, n, file)
Delete(n)      == tree' = [m \in DOMAIN tree \ {n} |-> tree[m]]

KubeletStep ==
  /\ UNCHANGED <<item, faults, poller, polling, read>>
  /\ \/ /\ step = "idle" /\ version < MaxVersion
        /\ Write(VersionDir(version + 1), Directory)
        /\ step' = "link" /\ UNCHANGED version
     \/ /\ step = "link"
        /\ Write("..data_tmp", Link(version + 1))
        /\ step' = "rename" /\ UNCHANGED version
     \/ /\ step = "rename"
        /\ tree' = [m \in DOMAIN tree \ {"..data_tmp"} |->
                      IF m = "..data" THEN tree["..data_tmp"] ELSE tree[m]]
        /\ version' = version + 1 /\ step' = "clean"
     \/ /\ step = "clean"
        /\ Delete(VersionDir(version - 1))
        /\ step' = "idle" /\ UNCHANGED version

\* Fluent Bit is started after Add has returned: what it reads is not older
\* than what is mounted then.
\* Mutant: it is started before the watch is added.
StartPolling_TooLate(g) == Added(g) /\ UNCHANGED volume

StartPolling(g) ==
  /\ Added(g)
  /\ read' = version /\ UNCHANGED <<version, step>>

\* isValidEvent, and the restart that follows.
Reload(g) ==
  /\ \E e \in out[g] : e.op \in {"Create", "Write"} /\ Receive(g, e)
  /\ read' = version /\ UNCHANGED <<version, step>>

Ignore(g) ==
  /\ \E e \in out[g] : e.op \notin {"Create", "Write"} /\ Receive(g, e)
  /\ UNCHANGED volume

VolumeTypeOK ==
  /\ version \in 0..MaxVersion /\ read \in 0..version
  /\ step \in {"idle", "link", "rename", "clean"}

\* Every version that the kubelet swaps in is read, or a later one is: the
\* poller reports the swap with an event that isValidEvent accepts, and not
\* only the steps before the swap, whatever instants of it the polls hit.
EveryVersionRead ==
  \A v \in 1..MaxVersion : version = v ~> read >= v
=============================================================================
