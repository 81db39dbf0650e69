----------------------- MODULE PolledDirectoryProofs -----------------------
(***************************************************************************)
(* Theorems about the poller, for any names, times of modification,        *)
(* goroutines, failures and changes.  Types is the type invariant.  That   *)
(* it never fails to report is a fact about checkForChanges, Silence, and  *)
(* of every recording being finite.  That it passes over no version of a   *)
(* Secret volume rests on VolumeInv: whatever of a swap a poll has seen,   *)
(* ..data is in the snapshot, and either its version has been read or an   *)
(* event about it is still to be received.  The last part is about what    *)
(* the poller comes to when nothing changes any more.                      *)
(***************************************************************************)
EXTENDS PolledDirectory, FiniteSetTheorems, TLAPS

Trees == UNION {[S -> Files] : S \in {T \in SUBSET Names : IsFiniteSet(T)}}
Recordings == [info : Files \cup {Nil}, entries : Trees]

Types ==
  /\ item \in Files \cup {Nil} /\ tree \in Trees /\ faults \in 0..MaxFaults
  /\ adding \in Goroutines \cup {NoAdd}
  /\ watched \in BOOLEAN /\ closed \in BOOLEAN
  /\ left \in [Goroutines -> Recordings] /\ right \in [Goroutines -> Recordings]
  /\ todo \in [Goroutines -> SUBSET Names]
  /\ out \in [Goroutines -> SUBSET Events]
  /\ pc \in [Goroutines -> PCs]
  /\ owner \in {"kubelet", "anybody"} /\ changes \in 0..MaxChanges

\* The volume as the kubelet leaves it between two steps; nobody else has one.
Swapping ==
  /\ version \in 0..MaxVersion /\ read \in 0..version
  /\ step \in {"idle", "link", "rename", "clean"}
  /\ owner = "anybody" => version = 0 /\ step = "idle"
  /\ step \in {"link", "rename"} => version < MaxVersion
  /\ step = "clean" => version > 0
  /\ owner = "kubelet" =>
       /\ item = Directory
       /\ "..data" \in DOMAIN tree /\ tree["..data"] = Link(version)
       /\ step = "rename" =>
            "..data_tmp" \in DOMAIN tree /\ tree["..data_tmp"] = Link(version + 1)

TypeInv == Types /\ Swapping

-----------------------------------------------------------------------------
(* Trees and recordings.                                                    *)

LEMMA Nothing == NoEntries \in Trees /\ Cleared \in Recordings
<1>1. NoEntries \in [{} -> Files] /\ {} \in SUBSET Names /\ IsFiniteSet({})
  BY FS_EmptySet DEF NoEntries
<1>2. NoEntries \in Trees
  BY <1>1 DEF Trees
<1> QED
  BY <1>2 DEF Cleared, Recordings, Nil

LEMMA TreeShape ==
  ASSUME NEW t \in Trees
  PROVE  /\ t \in [DOMAIN t -> Files]
         /\ DOMAIN t \subseteq Names /\ IsFiniteSet(DOMAIN t)
         /\ IsTree(t)
<1>1. PICK S \in SUBSET Names : IsFiniteSet(S) /\ t \in [S -> Files]
  BY DEF Trees
<1> QED
  BY <1>1 DEF IsTree

LEMMA TreeOf ==
  ASSUME NEW S \in SUBSET Names, IsFiniteSet(S), NEW t \in [S -> Files]
  PROVE  t \in Trees
  BY DEF Trees

LEMMA TreeWith ==
  ASSUME NEW t \in Trees, NEW n \in Names, NEW f \in Files
  PROVE  With(t, n, f) \in Trees
<1>1. /\ t \in [DOMAIN t -> Files] /\ DOMAIN t \cup {n} \in SUBSET Names
      /\ IsFiniteSet(DOMAIN t \cup {n})
  BY TreeShape, FS_AddElement
<1>2. With(t, n, f) \in [DOMAIN t \cup {n} -> Files]
  BY <1>1 DEF With
<1> QED
  BY <1>1, <1>2, TreeOf

LEMMA TreeWithout ==
  ASSUME NEW t \in Trees, NEW n
  PROVE  [m \in DOMAIN t \ {n} |-> t[m]] \in Trees
<1>1. /\ t \in [DOMAIN t -> Files] /\ DOMAIN t \ {n} \in SUBSET Names
      /\ IsFiniteSet(DOMAIN t \ {n})
  BY TreeShape, FS_RemoveElement
<1>2. [m \in DOMAIN t \ {n} |-> t[m]] \in [DOMAIN t \ {n} -> Files]
  BY <1>1
<1> QED
  BY <1>1, <1>2, TreeOf

LEMMA FileKinds ==
  /\ Directory \in Files /\ Nil \notin Files
  /\ \A v \in 0..MaxStamp : Link(v) \in Files
  /\ \A f \in Files : f.dir \in BOOLEAN
<1>1. 0 \in 0..MaxStamp
  BY PollerConstants
<1> QED
  BY <1>1 DEF Directory, Files, Nil, Link

\* What checkForChanges finds are events about names of entries or the item.
LEMMA DifferencesAreEvents ==
  ASSUME NEW l \in Recordings, NEW r \in Recordings
  PROVE  Differences(l, r) \in SUBSET Events
<1>1. DOMAIN l.entries \subseteq Names /\ DOMAIN r.entries \subseteq Names
  BY TreeShape DEF Recordings
<1>2. \A f1, f2 : checkChange(f1, f2) \in {"Create", "Remove", "Chmod", "Write", "none"}
  BY DEF checkChange
<1>3. Itself(l, r) \subseteq Events
  BY <1>2 DEF Itself, Events
<1>4. \A names \in SUBSET Names : Among(names, l, r) \subseteq Events
  BY DEF Among, Events
<1> QED
  BY <1>1, <1>3, <1>4 DEF Differences

-----------------------------------------------------------------------------
(* The steps of a poller, one by one.                                       *)

LEMMA RecordingsKept ==
  ASSUME Types, NEW g \in Goroutines
  PROVE  /\ \A r \in Recordings : /\ [left EXCEPT ![g] = r] \in [Goroutines -> Recordings]
                                  /\ [right EXCEPT ![g] = r] \in [Goroutines -> Recordings]
         /\ \A to \in PCs : [pc EXCEPT ![g] = to] \in [Goroutines -> PCs]
         /\ left[g] \in Recordings /\ right[g] \in Recordings
  BY DEF Types

LEMMA StatTypes ==
  ASSUME Types, NEW g \in Goroutines, Stat(g)
  PROVE  right' \in [Goroutines -> Recordings] /\ AfterStat \in PCs
<1>1. [info |-> item, entries |-> NoEntries] \in Recordings
  BY Nothing DEF Types, Recordings
<1> QED
  BY <1>1, RecordingsKept DEF Stat, AfterStat, PCs

LEMMA FailedTypes ==
  ASSUME Types, NEW g \in Goroutines, Failed(g)
  PROVE  /\ pc' \in [Goroutines -> PCs] /\ adding' \in Goroutines \cup {NoAdd}
         /\ right' \in [Goroutines -> Recordings]
<1>1. "off" \in PCs /\ "fail" \in PCs
  BY DEF PCs
<1> QED
  BY <1>1, RecordingsKept, Nothing DEF Failed, Types

LEMMA ExamineTypes ==
  ASSUME Types, NEW g \in Goroutines, Examine(g), UNCHANGED <<owner, changes>>
  PROVE  Types'
<1>1. PICK n \in todo[g] :
        /\ todo' = [todo EXCEPT ![g] = @ \ {n}]
        /\ right' = IF n \in DOMAIN tree
                    THEN [right EXCEPT ![g].entries = With(@, n, tree[n])]
                    ELSE right
  BY DEF Examine
<1>2. n \in Names /\ todo' \in [Goroutines -> SUBSET Names]
  BY <1>1 DEF Types
<1>3. right' \in [Goroutines -> Recordings]
  <2>1. CASE n \in DOMAIN tree
    <3>1. With(right[g].entries, n, tree[n]) \in Trees
      BY <2>1, <1>2, TreeShape, TreeWith DEF Types, Recordings
    <3>2. [right[g] EXCEPT !.entries = With(right[g].entries, n, tree[n])] \in Recordings
      BY <3>1, RecordingsKept DEF Recordings
    <3>3. right' = [right EXCEPT ![g] =
                      [right[g] EXCEPT !.entries = With(right[g].entries, n, tree[n])]]
      BY <1>1, <2>1
    <3> QED
      BY <3>2, <3>3, RecordingsKept
  <2> QED
    BY <2>1, <1>1 DEF Types
<1> QED
  BY <1>2, <1>3 DEF Types, Examine, directory, poller

LEMMA CompareTypes ==
  ASSUME Types, NEW g \in Goroutines, Compare(g), UNCHANGED <<owner, changes>>
  PROVE  Types'
<1>1. Differences(left[g], right[g]) \in SUBSET Events
  BY DifferencesAreEvents, RecordingsKept
<1>2. out' \in [Goroutines -> SUBSET Events]
  BY <1>1 DEF Types, Compare
<1>3. /\ left' \in [Goroutines -> Recordings] /\ right' \in [Goroutines -> Recordings]
      /\ pc' \in [Goroutines -> PCs]
  BY Nothing, RecordingsKept DEF Compare, Goto, PCs
<1> QED
  BY <1>2, <1>3 DEF Types, Compare, directory, poller

\* Every step of WatchStep.
LEMMA WatchTypes ==
  ASSUME Types, NEW g \in Goroutines, WatchStep(g), UNCHANGED <<owner, changes>>
  PROVE  Types' /\ UNCHANGED directory
<1>1. CASE Poll(g)
  BY <1>1, StatTypes, RecordingsKept DEF Poll, Goto, Types, directory, poller
<1>2. CASE List(g)
  <2>1. DOMAIN tree \in SUBSET Names
    BY TreeShape DEF Types
  <2> QED
    BY <1>2, <2>1, RecordingsKept DEF List, Goto, Types, directory, poller, PCs
<1>3. CASE ListFails(g)
  BY <1>3, FailedTypes DEF ListFails, Types, directory
<1>4. CASE Examine(g)
  BY <1>4, ExamineTypes DEF Examine, directory
<1>5. CASE Compare(g)
  BY <1>5, CompareTypes DEF Compare, directory
<1>6. CASE Sent(g)
  BY <1>6, RecordingsKept DEF Sent, Goto, Types, directory, poller, PCs
<1>7. CASE Stop(g)
  <2>1. pc' \in [Goroutines -> PCs]
    BY <1>7, RecordingsKept DEF Stop, Goto, PCs
  <2>2. out' \in [Goroutines -> SUBSET Events]
    BY <1>7 DEF Stop, Types
  <2> QED
    BY <1>7, <2>1, <2>2 DEF Stop, Types, directory, poller
<1> QED
  BY <1>1, <1>2, <1>3, <1>4, <1>5, <1>6, <1>7 DEF WatchStep

LEMMA ReceiveTypes ==
  ASSUME Types, NEW g \in Goroutines, NEW e, Receive(g, e), UNCHANGED <<owner, changes>>
  PROVE  Types' /\ UNCHANGED directory
  BY DEF Receive, Types, directory, poller

LEMMA AddTypes ==
  ASSUME Types, NEW g \in Goroutines, Add(g) \/ Added(g), UNCHANGED <<owner, changes>>
  PROVE  Types' /\ UNCHANGED directory
<1>1. CASE Add(g)
  <2>1. right' \in [Goroutines -> Recordings] /\ pc' \in [Goroutines -> PCs]
    BY <1>1, StatTypes, RecordingsKept DEF Add, Goto
  <2> QED
    BY <1>1, <2>1 DEF Add, Types, directory
<1>2. CASE Added(g)
  <2>1. /\ left' \in [Goroutines -> Recordings] /\ right' \in [Goroutines -> Recordings]
        /\ pc' \in [Goroutines -> PCs]
    BY <1>2, Nothing, RecordingsKept DEF Added, PCs
  <2> QED
    BY <1>2, <2>1 DEF Added, Types, directory
<1> QED
  BY <1>1, <1>2

LEMMA ReceiveErrorTypes ==
  ASSUME Types, NEW g \in Goroutines, ReceiveError(g), UNCHANGED <<owner, changes>>
  PROVE  Types' /\ UNCHANGED directory
<1>1. /\ left' \in [Goroutines -> Recordings] /\ right' \in [Goroutines -> Recordings]
      /\ pc' \in [Goroutines -> PCs]
  BY Nothing, RecordingsKept DEF ReceiveError, Goto, PCs
<1> QED
  BY <1>1 DEF ReceiveError, Types, directory, poller

-----------------------------------------------------------------------------
(* The surroundings of the poller.                                          *)

\* The kubelet.
LEMMA KubeletTypes ==
  ASSUME TypeInv, owner = "kubelet", KubeletStep, UNCHANGED <<owner, changes>>
  PROVE  TypeInv'
<1> USE DEF directory, poller, polling
<1>1. /\ {"..data", "..data_tmp"} \subseteq Names
      /\ \A v \in 0..MaxVersion : v \in 0..MaxStamp /\ VersionDir(v) \in Names
      /\ \A v \in 0..MaxVersion : VersionDir(v) \notin {"..data", "..data_tmp"}
  BY VolumeConstants, PollerConstants DEF VersionDir
<1>2. MaxVersion \in Nat /\ version \in 0..MaxVersion
  BY VolumeConstants DEF TypeInv, Swapping
<1>3. tree \in Trees /\ tree \in [DOMAIN tree -> Files] /\ "..data" \in DOMAIN tree
  BY TreeShape DEF TypeInv, Types, Swapping
<1>4. tree' \in Trees => Types'
  BY DEF TypeInv, Types, KubeletStep
<1>5. CASE step = "idle" /\ version < MaxVersion /\ Write(VersionDir(version + 1), Directory)
           /\ step' = "link" /\ UNCHANGED version
  <2>1. version + 1 \in 0..MaxVersion
    BY <1>2, <1>5
  <2>2. tree' \in Trees
    BY <1>1, <1>3, <1>5, <2>1, FileKinds, TreeWith DEF Write
  <2>3. "..data" \in DOMAIN tree' /\ tree'["..data"] = tree["..data"]
    BY <1>1, <1>3, <1>5, <2>1 DEF Write, With
  <2> QED
    BY <1>2, <1>4, <1>5, <2>2, <2>3 DEF TypeInv, Swapping, KubeletStep
<1>6. CASE step = "link" /\ Write("..data_tmp", Link(version + 1))
           /\ step' = "rename" /\ UNCHANGED version
  <2>1. version + 1 \in 0..MaxVersion
    BY <1>2, <1>6 DEF TypeInv, Swapping
  <2>2. tree' \in Trees
    BY <1>1, <1>3, <1>6, <2>1, FileKinds, TreeWith DEF Write
  <2>3. /\ "..data" \in DOMAIN tree' /\ tree'["..data"] = tree["..data"]
        /\ "..data_tmp" \in DOMAIN tree' /\ tree'["..data_tmp"] = Link(version + 1)
    BY <1>3, <1>6 DEF Write, With
  <2> QED
    BY <1>2, <1>4, <1>6, <2>2, <2>3 DEF TypeInv, Swapping, KubeletStep
<1>7. CASE /\ step = "rename"
           /\ tree' = [m \in DOMAIN tree \ {"..data_tmp"} |->
                         IF m = "..data" THEN tree["..data_tmp"] ELSE tree[m]]
           /\ version' = version + 1 /\ step' = "clean"
  <2>1. /\ version < MaxVersion /\ "..data_tmp" \in DOMAIN tree
        /\ tree["..data_tmp"] = Link(version + 1)
    BY <1>7 DEF TypeInv, Swapping
  <2>2. tree' \in [DOMAIN tree \ {"..data_tmp"} -> Files]
    BY <1>3, <1>7, <2>1
  <2>3. tree' \in Trees
    BY <2>2, <1>3, TreeShape, TreeOf, FS_RemoveElement
  <2>4. "..data" \in DOMAIN tree' /\ tree'["..data"] = Link(version')
    BY <1>3, <1>7, <2>1
  <2>5. version' \in 0..MaxVersion /\ read' \in 0..version'
    BY <1>2, <1>7, <2>1 DEF TypeInv, Swapping, KubeletStep
  <2> QED
    BY <1>4, <1>7, <2>3, <2>4, <2>5 DEF TypeInv, Swapping, KubeletStep
<1>8. CASE step = "clean" /\ Delete(VersionDir(version - 1))
           /\ step' = "idle" /\ UNCHANGED version
  <2>1. tree' \in Trees
    BY <1>3, <1>8, TreeWithout DEF Delete
  <2>2. version - 1 \in 0..MaxVersion
    BY <1>2, <1>8 DEF TypeInv, Swapping
  <2>3. "..data" \in DOMAIN tree' /\ tree'["..data"] = tree["..data"]
    BY <1>1, <1>3, <1>8, <2>2 DEF Delete
  <2> QED
    BY <1>2, <1>4, <1>8, <2>1, <2>3 DEF TypeInv, Swapping, KubeletStep
<1> QED
  BY <1>5, <1>6, <1>7, <1>8 DEF KubeletStep

\* Anybody else.
LEMMA AnybodyTypes ==
  ASSUME TypeInv, AnybodyStep
  PROVE  TypeInv'
<1> USE DEF directory, poller, polling, volume
<1>1. /\ AnyFile \subseteq Files /\ Entries \subseteq Names
      /\ Directory \in Files
  BY FileKinds, DirectoryConstants DEF AnyFile
<1>2. owner = "anybody" /\ changes' \in 0..MaxChanges
  BY DirectoryConstants DEF AnybodyStep, TypeInv, Types
<1>3. Types' => TypeInv'
  BY <1>2 DEF AnybodyStep, TypeInv, Swapping
<1>4. CASE Change
  <2>1. CASE ChangeEntry
    <3>1. PICK n \in Entries : \/ \E f \in AnyFile : Write(n, f)
                               \/ Delete(n)
      BY <2>1 DEF ChangeEntry
    <3>2. tree' \in Trees
      BY <1>1, <3>1, TreeWith, TreeWithout DEF TypeInv, Types, Write, Delete
    <3>3. Types'
      BY <1>2, <1>4, <2>1, <3>2 DEF AnybodyStep, Change, ChangeEntry, TypeInv, Types
    <3> QED
      BY <1>3, <3>3
  <2>2. CASE ChangeItem
    <3>1. item' \in Files \cup {Nil} /\ tree' \in Trees
      BY <1>1, <2>2, Nothing DEF ChangeItem
    <3>2. Types'
      BY <1>2, <1>4, <3>1 DEF AnybodyStep, Change, TypeInv, Types
    <3> QED
      BY <1>3, <3>2
  <2> QED
    BY <1>4, <2>1, <2>2 DEF Change
<1>5. CASE Remove
  BY <1>2, <1>3, <1>5 DEF AnybodyStep, Remove, TypeInv, Types
<1>6. CASE Close
  BY <1>2, <1>3, <1>6 DEF AnybodyStep, Close, TypeInv, Types
<1>7. CASE \E g \in Goroutines : RecordFails(g)
  <2>1. PICK g \in Goroutines : RecordFails(g)
    BY <1>7
  <2>2. /\ pc' \in [Goroutines -> PCs] /\ adding' \in Goroutines \cup {NoAdd}
        /\ right' \in [Goroutines -> Recordings]
    <3>1. CASE Failed(g)
      BY <3>1, FailedTypes DEF TypeInv
    <3>2. CASE Goto(g, "tick", "fail") /\ UNCHANGED adding
               /\ right' = [right EXCEPT ![g] = Cleared]
      BY <3>2, RecordingsKept, Nothing DEF TypeInv, Types, Goto, PCs
    <3> QED
      BY <2>1, <3>1, <3>2 DEF RecordFails
  <2>3. faults' \in 0..MaxFaults
    BY <2>1, PollerConstants DEF RecordFails, TypeInv, Types
  <2>4. Types'
    BY <1>2, <2>1, <2>2, <2>3 DEF AnybodyStep, RecordFails, TypeInv, Types
  <2> QED
    BY <1>3, <2>4
<1> QED
  BY <1>4, <1>5, <1>6, <1>7 DEF AnybodyStep

LEMMA InitTypes == Init => TypeInv
<1> SUFFICES ASSUME Init PROVE TypeInv
  OBVIOUS
<1>1. 0 \in 0..MaxVersion /\ 0 \in 0..MaxStamp /\ 0 \in 0..0
  BY VolumeConstants, PollerConstants
<1>2. {} \in SUBSET Names /\ {} \in SUBSET Events /\ "off" \in PCs
  BY DEF PCs
<1>3. ASSUME NEW file \in Files \cup {Nil}, NEW entries \in Trees, PollerInit(file, entries),
             owner \in {"kubelet", "anybody"}, changes \in 0..MaxChanges
      PROVE  Types
  <2>1. /\ left \in [Goroutines -> Recordings] /\ right \in [Goroutines -> Recordings]
        /\ todo \in [Goroutines -> SUBSET Names] /\ out \in [Goroutines -> SUBSET Events]
        /\ pc \in [Goroutines -> PCs]
    BY <1>2, <1>3, Nothing DEF PollerInit
  <2>2. faults \in 0..MaxFaults
    BY <1>3, PollerConstants DEF PollerInit
  <2> QED
    BY <1>3, <2>1, <2>2 DEF PollerInit, Types
<1>4. MaxChanges \in 0..MaxChanges /\ 0 \in 0..MaxChanges
  BY DirectoryConstants
<1>5. CASE owner = "kubelet" /\ changes = 0 /\ VolumeInit
  <2> DEFINE start == {"..data", "fluent-bit.conf", VersionDir(0)}
             entries == [n \in start |-> IF n = VersionDir(0) THEN Directory ELSE Link(0)]
  <2>1. VersionDir(0) = "..0" /\ start \in SUBSET Names
    BY VolumeConstants DEF VersionDir
  <2>2. IsFiniteSet(start)
    <3>1. IsFiniteSet({"..data"} \cup {"fluent-bit.conf"})
      BY FS_Singleton, FS_AddElement
    <3>2. IsFiniteSet(({"..data"} \cup {"fluent-bit.conf"}) \cup {VersionDir(0)})
      BY <3>1, FS_AddElement
    <3>3. start = ({"..data"} \cup {"fluent-bit.conf"}) \cup {VersionDir(0)}
      OBVIOUS
    <3> QED
      BY <3>2, <3>3
  <2>3. entries \in [start -> Files]
    BY <1>1, FileKinds
  <2>4. entries \in Trees
    BY <2>1, <2>2, <2>3, TreeOf
  <2>5. PollerInit(Directory, entries)
    BY <1>5 DEF VolumeInit
  <2>6. Types
    BY <1>3, <1>4, <1>5, <2>4, <2>5, FileKinds
  <2>7. item = Directory /\ "..data" \in DOMAIN tree /\ tree["..data"] = Link(0)
    BY <2>1, <2>5 DEF PollerInit
  <2> QED
    BY <1>1, <1>5, <2>6, <2>7 DEF TypeInv, Swapping, VolumeInit
<1>6. CASE /\ owner = "anybody" /\ changes = MaxChanges
           /\ \/ \E n \in Entries : PollerInit(Directory, With(NoEntries, n, Link(0)))
              \/ PollerInit(Link(0), NoEntries)
           /\ version = 0 /\ step = "idle" /\ read = 0
  <2>1. PICK file \in Files, entries \in Trees : PollerInit(file, entries)
    BY <1>1, <1>6, FileKinds, TreeWith, Nothing, DirectoryConstants
  <2>2. Types
    BY <1>3, <1>4, <1>6, <2>1
  <2> QED
    BY <1>1, <1>6, <2>2 DEF TypeInv, Swapping
<1> QED
  BY <1>5, <1>6 DEF Init

LEMMA TypeStep == TypeInv /\ [Next]_allVars => TypeInv'
<1> SUFFICES ASSUME TypeInv, [Next]_allVars PROVE TypeInv'
  OBVIOUS
<1> USE DEF directory, volume
<1>1. ASSUME Types', UNCHANGED directory, UNCHANGED <<owner, version, step>>, read' \in {read, version}
      PROVE  TypeInv'
  BY <1>1 DEF TypeInv, Swapping
<1>2. CASE AnybodyStep
  BY <1>2, AnybodyTypes
<1>3. CASE owner = "kubelet" /\ KubeletStep /\ UNCHANGED <<owner, changes>>
  BY <1>3, KubeletTypes
<1>4. ASSUME NEW g \in Goroutines, StartAdd(g)
      PROVE  TypeInv'
  BY <1>1, <1>4, AddTypes DEF StartAdd, TypeInv
<1>5. ASSUME NEW g \in Goroutines, PollStep(g)
      PROVE  TypeInv'
  BY <1>1, <1>5, AddTypes, WatchTypes DEF PollStep, StartPolling, TypeInv
<1>6. ASSUME NEW g \in Goroutines, Consume(g)
      PROVE  TypeInv'
  BY <1>1, <1>6, ReceiveTypes, ReceiveErrorTypes DEF Consume, Reload, Ignore, TypeInv
<1>7. CASE UNCHANGED allVars
  BY <1>7 DEF allVars, vars, poller, polling, TypeInv, Types, Swapping
<1> QED
  BY <1>2, <1>3, <1>4, <1>5, <1>6, <1>7 DEF Next

\* The poller's snapshots hold only entries whose FileInfo was read, and what
\* Fluent Bit reads was mounted: TypeOK, at any time and whoever owns the name.
THEOREM PollerTypes == Spec => []TypeOK
<1>1. TypeInv => TypeOK
  <2> SUFFICES ASSUME TypeInv PROVE TypeOK
    OBVIOUS
  <2>1. ASSUME NEW r \in Recordings PROVE IsRecording(r)
    BY TreeShape DEF Recordings, IsRecording
  <2>2. IsTree(tree) /\ \A g \in Goroutines : IsRecording(left[g]) /\ IsRecording(right[g])
    BY <2>1, RecordingsKept, TreeShape DEF TypeInv, Types
  <2> QED
    BY <2>2 DEF TypeInv, Types, Swapping, TypeOK, PollerTypeOK, VolumeTypeOK
<1> QED
  BY <1>1, InitTypes, TypeStep, PTL DEF Spec

-----------------------------------------------------------------------------
(* What checkForChanges leaves out.                                         *)

\* checkChange passes over what is a directory, and nothing else.
LEMMA PassedOver ==
  ASSUME NEW f1 \in Files \cup {Nil}, NEW f2 \in Files \cup {Nil},
         checkChange(f1, f2) = "none", f1 # f2
  PROVE  f1 # Nil /\ f2 # Nil /\ (f1.dir \/ f2.dir)
<1>1. f1 # Nil /\ f2 # Nil
  BY DEF checkChange
<1>2. SUFFICES ASSUME ~f1.dir, ~f2.dir PROVE FALSE
  BY <1>1
<1>3. f1.mode = f2.mode /\ f1.stamp = f2.stamp
  BY <1>1, <1>2 DEF checkChange
<1>4. f1.dir = FALSE /\ f2.dir = FALSE
  BY <1>1, <1>2, FileKinds
<1> QED
  BY <1>1, <1>3, <1>4 DEF Files

LEMMA EntriesOf ==
  ASSUME NEW r \in Recordings, NEW n
  PROVE  /\ n \in DOMAIN r.entries => /\ Entry(r, n) = r.entries[n]
                                      /\ Entry(r, n) \in Files /\ Entry(r, n) # Nil
         /\ n \notin DOMAIN r.entries => Entry(r, n) = Nil
         /\ Entry(r, n) \in Files \cup {Nil}
<1>1. r.entries \in Trees
  BY DEF Recordings
<1> QED
  BY <1>1, TreeShape, FileKinds DEF Entry

\* Of two finite sets the one with more elements has one that the other has
\* not.  This is what the choice of names in checkForChanges relies on.
LEMMA LargerHasMore ==
  ASSUME NEW S, NEW T, IsFiniteSet(S), IsFiniteSet(T), Cardinality(T) > Cardinality(S)
  PROVE  \E n \in T : n \notin S
<1> SUFFICES ASSUME T \in SUBSET S PROVE FALSE
  OBVIOUS
<1>1. Cardinality(T) <= Cardinality(S)
  BY FS_Subset
<1>2. Cardinality(S) \in Nat /\ Cardinality(T) \in Nat
  BY FS_CardinalityType
<1> QED
  BY <1>1, <1>2

LEMMA NoLargerContains ==
  ASSUME NEW S, NEW T, IsFiniteSet(S), IsFiniteSet(T), ~(Cardinality(T) > Cardinality(S)),
         S \subseteq T
  PROVE  S = T
<1>1. Cardinality(S) <= Cardinality(T) /\ (Cardinality(T) = Cardinality(S) => T = S)
  BY FS_Subset
<1>2. Cardinality(S) \in Nat /\ Cardinality(T) \in Nat
  BY FS_CardinalityType
<1> QED
  BY <1>1, <1>2

Unnoticed(was, is) ==
  /\ was.info # is.info => was.info.dir \/ is.info.dir
  /\ was.info.dir => DOMAIN was.entries = DOMAIN is.entries
  /\ was.info.dir => \A n \in DOMAIN was.entries :
       was.entries[n] # is.entries[n] => was.entries[n].dir \/ is.entries[n].dir

LEMMA Silence ==
  ASSUME NEW l \in Recordings, NEW r \in Recordings, Differences(l, r) = {}
  PROVE  Unnoticed(l, r)
<1> DEFINE L == DOMAIN l.entries
           R == DOMAIN r.entries
           names == IF Cardinality(R) > Cardinality(L) THEN R ELSE L
<1>1. Itself(l, r) = {} /\ (l.info.dir => Among(names, l, r) = {})
  BY DEF Differences
<1>2. checkChange(l.info, r.info) = "none"
  BY <1>1 DEF Itself
<1>3. l.info # r.info => l.info.dir \/ r.info.dir
  BY <1>2, PassedOver DEF Recordings
<1>4. IsFiniteSet(L) /\ IsFiniteSet(R)
  BY TreeShape DEF Recordings
<1>5. ASSUME l.info.dir, NEW n \in names
      PROVE  checkChange(Entry(l, n), Entry(r, n)) = "none"
  <2>1. SUFFICES ASSUME checkChange(Entry(l, n), Entry(r, n)) # "none" PROVE FALSE
    OBVIOUS
  <2>2. [op |-> checkChange(Entry(l, n), Entry(r, n)), name |-> n] \in Among(names, l, r)
    BY <1>5, <2>1 DEF Among, checkChange
  <2> QED
    BY <1>1, <1>5, <2>2
<1>6. ASSUME l.info.dir PROVE L = R /\ names = L
  <2>1. ~(Cardinality(R) > Cardinality(L))
    <3>1. SUFFICES ASSUME Cardinality(R) > Cardinality(L) PROVE FALSE
      OBVIOUS
    <3>2. PICK n \in R : n \notin L
      BY <1>4, <3>1, LargerHasMore
    <3>3. Entry(l, n) = Nil /\ Entry(r, n) # Nil
      BY <3>2, EntriesOf
    <3>4. checkChange(Entry(l, n), Entry(r, n)) = "Create"
      BY <3>3 DEF checkChange
    <3> QED
      BY <1>5, <1>6, <3>1, <3>2, <3>4
  <2>2. names = L
    BY <2>1
  <2>3. ASSUME NEW n \in L PROVE n \in R
    <3>1. SUFFICES ASSUME n \notin R PROVE FALSE
      OBVIOUS
    <3>2. Entry(l, n) # Nil /\ Entry(r, n) = Nil
      BY <2>3, <3>1, EntriesOf
    <3>3. checkChange(Entry(l, n), Entry(r, n)) = "Remove"
      BY <3>2 DEF checkChange
    <3> QED
      BY <1>5, <1>6, <2>2, <2>3, <3>3
  <2>4. L = R
    BY <1>4, <2>1, <2>3, NoLargerContains
  <2> QED
    BY <2>2, <2>4
<1>7. ASSUME l.info.dir, NEW n \in L, l.entries[n] # r.entries[n]
      PROVE  l.entries[n].dir \/ r.entries[n].dir
  <2>1. n \in R /\ checkChange(Entry(l, n), Entry(r, n)) = "none"
    BY <1>5, <1>6, <1>7
  <2>2. Entry(l, n) = l.entries[n] /\ Entry(r, n) = r.entries[n]
    BY <1>7, <2>1, EntriesOf
  <2>3. Entry(l, n) \in Files \cup {Nil} /\ Entry(r, n) \in Files \cup {Nil}
    BY EntriesOf
  <2> QED
    BY <1>7, <2>1, <2>2, <2>3, PassedOver
<1> QED
  BY <1>3, <1>6, <1>7 DEF Unnoticed

\* Only a comparison takes a goroutine from examining to sending.
LEMMA ComparesBeforeSending ==
  ASSUME TypeInv, Next, NEW g \in Goroutines, pc[g] = "examine", pc'[g] = "send"
  PROVE  Compare(g)
<1> USE DEF directory, poller, polling, vars, volume
<1>1. pc \in [Goroutines -> PCs]
  BY DEF TypeInv, Types
<1>2. pc' # pc
  OBVIOUS
<1>3. ~AnybodyStep
  BY <1>1 DEF AnybodyStep, Change, Remove, Close, RecordFails, Failed, Goto
<1>4. ~KubeletStep
  BY <1>2 DEF KubeletStep
<1>5. PICK h \in Goroutines : StartAdd(h) \/ PollStep(h) \/ Consume(h)
  BY <1>3, <1>4 DEF Next
<1>6. ~StartAdd(h)
  BY <1>1 DEF StartAdd, Add, Goto, AfterStat
<1>7. ~Consume(h)
  BY <1>1, <1>2 DEF Consume, Reload, Ignore, Receive, ReceiveError, Goto
<1>8. ~StartPolling(h)
  BY <1>1 DEF StartPolling, Added, Recorded
<1>9. WatchStep(h)
  BY <1>5, <1>6, <1>7, <1>8 DEF PollStep
<1>10. ~Poll(h) /\ ~List(h) /\ ~ListFails(h) /\ ~Examine(h) /\ ~Sent(h) /\ ~Stop(h)
  BY <1>1, <1>2 DEF Poll, List, ListFails, Failed, Examine, Sent, Stop, Goto, AfterStat
<1>11. Compare(h)
  BY <1>9, <1>10 DEF WatchStep
<1>12. h = g
  BY <1>1, <1>11 DEF Compare, Goto
<1> QED
  BY <1>11, <1>12

\* ReportsSomething: a poll that finds the directory changed sends an event,
\* unless what has changed is a directory.
THEOREM ChangesAreReported == Spec => ReportsSomething
<1>1. ASSUME TypeInv, [Next]_allVars, NEW g \in Goroutines,
             pc[g] = "examine", pc'[g] = "send", out'[g] = {}
      PROVE  Unnoticed(left[g], left'[g])
  <2>1. Next
    <3>1. pc' # pc
      BY <1>1
    <3> QED
      BY <1>1, <3>1 DEF allVars, vars, polling
  <2>2. Compare(g)
    BY <1>1, <2>1, ComparesBeforeSending
  <2>3. left'[g] = right[g] /\ out'[g] = Differences(left[g], right[g])
    BY <1>1, <2>2 DEF Compare, TypeInv, Types
  <2>4. left[g] \in Recordings /\ right[g] \in Recordings
    BY <1>1, RecordingsKept DEF TypeInv
  <2> QED
    BY <1>1, <2>3, <2>4, Silence
<1>2. TypeInv /\ [Next]_allVars =>
        [\A g \in Goroutines :
           pc[g] = "examine" /\ pc'[g] = "send" /\ out'[g] = {}
             => LET was == left[g]
                    is == left'[g]
                IN  /\ was.info # is.info => was.info.dir \/ is.info.dir
                    /\ was.info.dir => DOMAIN was.entries = DOMAIN is.entries
                    /\ was.info.dir => \A n \in DOMAIN was.entries :
                         was.entries[n] # is.entries[n]
                           => was.entries[n].dir \/ is.entries[n].dir]_allVars
  BY <1>1 DEF Unnoticed
<1> QED
  BY <1>2, InitTypes, TypeStep, PTL DEF Spec, ReportsSomething

-----------------------------------------------------------------------------
(* What the snapshots of a Secret volume show.                              *)

Snapshot(r) ==
  /\ r.info = Directory /\ "..data" \in DOMAIN r.entries
  /\ \E v \in 0..version : r.entries["..data"] = Link(v)

Swapped == [op |-> "Write", name |-> "..data"]

\* A goroutine that has recorded the volume once: its last snapshot has ..data,
\* and its version has been read or is about to be.
Informed(g) ==
  /\ Snapshot(left[g])
  /\ \/ read >= Shown(left[g])
     \/ pc[g] = "send" /\ Swapped \in out[g]

Watching(g) ==
  /\ pc[g] \in {"off", "tick", "open", "examine", "send"}
  /\ adding = g => pc[g] \in {"open", "examine"}
  /\ pc[g] = "open" => right[g].info = Directory
  /\ pc[g] = "examine" =>
       right[g].info = Directory /\ ("..data" \in todo[g] \/ Snapshot(right[g]))
  /\ pc[g] # "off" /\ adding # g => Informed(g)

VolumeInv == owner = "kubelet" => ~closed /\ \A g \in Goroutines : Watching(g)

\* The events of a snapshot with another version name ..data.
LEMMA SwapIsNoticed ==
  ASSUME NEW l, NEW r, Snapshot(l), Snapshot(r), Shown(l) # Shown(r)
  PROVE  Swapped \in Differences(l, r)
<1> DEFINE L == DOMAIN l.entries
           R == DOMAIN r.entries
           names == IF Cardinality(R) > Cardinality(L) THEN R ELSE L
<1>1. Itself(l, r) = {} /\ l.info.dir
  BY DEF Snapshot, Itself, checkChange, Directory, Nil
<1>2. "..data" \in names
  BY DEF Snapshot
<1>3. checkChange(Entry(l, "..data"), Entry(r, "..data")) = "Write"
  BY DEF Snapshot, Shown, Entry, checkChange, Link, Nil
<1>4. Swapped \in Among(names, l, r)
  BY <1>2, <1>3 DEF Among, Swapped
<1> QED
  BY <1>1, <1>4 DEF Differences

\* A step of somebody else, who may only swap or read later versions.
LEMMA KeptInformed ==
  ASSUME TypeInv, TypeInv', NEW g \in Goroutines, Watching(g),
         UNCHANGED <<left[g], right[g], todo[g], out[g], pc[g]>>,
         (adding' = g) <=> (adding = g), version' >= version, read' >= read
  PROVE  Watching(g)'
<1>1. version \in Nat /\ version' \in Nat /\ read \in Nat /\ read' \in Nat
  BY VolumeConstants DEF TypeInv, Swapping
<1>2. \A r : Snapshot(r) => Snapshot(r)'
  BY <1>1 DEF Snapshot
<1>3. Snapshot(left[g]) => Snapshot(left[g])'
  BY <1>2 DEF Snapshot
<1>4. Snapshot(right[g]) => Snapshot(right[g])'
  BY <1>2 DEF Snapshot
<1>5. Snapshot(left[g]) => Shown(left[g]) \in Nat
  BY <1>1 DEF Snapshot, Shown, Entry, Link
<1> QED
  BY <1>1, <1>3, <1>4, <1>5 DEF Watching, Informed, Shown

\* What a goroutine records.
LEMMA OwnPolling ==
  ASSUME TypeInv, VolumeInv, owner = "kubelet", NEW g \in Goroutines,
         UNCHANGED <<owner, changes>>, StartAdd(g) \/ PollStep(g) \/ Consume(g), TypeInv'
  PROVE  Watching(g)' /\ ~closed'
<1> USE DEF directory, poller, volume
<1>1. /\ left \in [Goroutines -> Recordings] /\ right \in [Goroutines -> Recordings]
      /\ todo \in [Goroutines -> SUBSET Names] /\ out \in [Goroutines -> SUBSET Events]
      /\ pc \in [Goroutines -> PCs]
      /\ adding \in Goroutines \cup {NoAdd} /\ NoAdd \notin Goroutines
  BY PollerConstants DEF TypeInv, Types, NoAdd
<1>2. /\ version \in Nat /\ read \in Nat /\ read <= version
      /\ item = Directory /\ "..data" \in DOMAIN tree /\ tree["..data"] = Link(version)
  BY VolumeConstants DEF TypeInv, Swapping
<1>3. ~closed /\ Watching(g)
  BY DEF VolumeInv
<1>4. item.dir /\ item # Nil /\ AfterStat = "open"
  BY <1>2 DEF Directory, Nil, AfterStat
<1>5. CASE StartAdd(g)
  <2>1. right'[g].info = Directory /\ pc'[g] = "open" /\ adding' = g /\ ~closed'
    BY <1>1, <1>2, <1>3, <1>4, <1>5 DEF StartAdd, Add, Stat, Goto
  <2> QED
    BY <2>1 DEF Watching
<1>6. CASE StartPolling(g)
  <2>1. /\ pc[g] = "examine" /\ todo[g] = {} /\ adding' = NoAdd /\ ~closed'
        /\ left'[g] = right[g] /\ pc'[g] = "tick" /\ read' = version /\ version' = version
    BY <1>1, <1>3, <1>6 DEF StartPolling, Added, Recorded
  <2>2. Snapshot(right[g])
    BY <1>3, <2>1 DEF Watching
  <2>3. version >= Shown(right[g])
    BY <1>2, <2>2 DEF Snapshot, Shown, Entry, Link
  <2>4. Snapshot(left[g])'
    BY <2>1, <2>2 DEF Snapshot
  <2>5. read' >= Shown(left[g])'
    BY <2>1, <2>3 DEF Shown
  <2> QED
    BY <1>1, <2>1, <2>4, <2>5 DEF Watching, Informed
<1>7. CASE Poll(g) /\ UNCHANGED volume
  <2>1. /\ pc[g] = "tick" /\ pc'[g] = "open" /\ right'[g].info = Directory
        /\ UNCHANGED <<left, out, adding, closed, read, version>>
    BY <1>1, <1>2, <1>4, <1>7 DEF Poll, Stat, Goto
  <2>2. adding # g /\ Snapshot(left[g]) /\ read >= Shown(left[g])
    BY <1>3, <2>1 DEF Watching, Informed
  <2> QED
    BY <1>3, <2>1, <2>2 DEF Watching, Informed, Snapshot, Shown
<1>8. CASE List(g) /\ UNCHANGED volume
  <2>1. /\ pc[g] = "open" /\ pc'[g] = "examine" /\ todo'[g] = DOMAIN tree
        /\ UNCHANGED <<left, right, out, adding, closed, read, version>>
    BY <1>1, <1>8 DEF List, Goto
  <2>2. right[g].info = Directory /\ "..data" \in todo'[g]
    BY <1>2, <1>3, <2>1 DEF Watching
  <2> QED
    BY <1>3, <2>1, <2>2 DEF Watching, Informed, Snapshot, Shown
<1>9. ~ListFails(g)
  BY <1>4 DEF ListFails
<1>10. CASE Examine(g) /\ UNCHANGED volume
  <2>1. PICK n \in todo[g] :
          /\ todo' = [todo EXCEPT ![g] = @ \ {n}]
          /\ right' = IF n \in DOMAIN tree
                      THEN [right EXCEPT ![g].entries = With(@, n, tree[n])]
                      ELSE right
    BY <1>10 DEF Examine
  <2>2. /\ pc[g] = "examine" /\ UNCHANGED <<left, out, pc, adding, closed, read, version>>
        /\ todo'[g] = todo[g] \ {n}
    BY <1>1, <1>10, <2>1 DEF Examine
  <2>3. right'[g] = IF n \in DOMAIN tree
                    THEN [right[g] EXCEPT !.entries = With(right[g].entries, n, tree[n])]
                    ELSE right[g]
    BY <1>1, <2>1
  <2>4. right[g] \in Recordings
    BY <1>1
  <2>5. /\ right'[g].info = right[g].info
        /\ n \in DOMAIN tree => right'[g].entries = With(right[g].entries, n, tree[n])
    BY <2>3, <2>4 DEF Recordings
  <2>6. Snapshot(right[g]) => Snapshot(right[g])'
    <3>1. CASE n \in DOMAIN tree
      BY <1>2, <2>2, <2>5, <3>1 DEF Snapshot, With
    <3>2. CASE n \notin DOMAIN tree
      BY <2>2, <2>3, <3>2 DEF Snapshot
    <3> QED
      BY <3>1, <3>2
  <2>7. CASE n = "..data"
    <3>1. Snapshot(right[g])'
      BY <1>2, <1>3, <2>2, <2>5, <2>7 DEF Snapshot, With, Watching
    <3> QED
      BY <1>3, <2>2, <2>5, <3>1 DEF Watching, Informed, Snapshot, Shown
  <2>8. CASE n # "..data"
    BY <1>3, <2>2, <2>5, <2>6, <2>8 DEF Watching, Informed, Snapshot, Shown
  <2> QED
    BY <2>7, <2>8
<1>11. CASE Compare(g) /\ UNCHANGED volume
  <2>1. /\ pc[g] = "examine" /\ todo[g] = {} /\ adding # g /\ pc'[g] = "send"
        /\ left'[g] = right[g] /\ out'[g] = Differences(left[g], right[g])
        /\ UNCHANGED <<adding, closed, read, version>>
    BY <1>1, <1>11 DEF Compare, Recorded, Goto
  <2>2. Snapshot(left[g]) /\ read >= Shown(left[g]) /\ Snapshot(right[g])
    BY <1>3, <2>1 DEF Watching, Informed
  <2>3. Shown(left[g]) = Shown(right[g]) \/ Swapped \in out'[g]
    BY <2>1, <2>2, SwapIsNoticed
  <2>4. Snapshot(left[g])' /\ (read' >= Shown(left[g])' \/ Swapped \in out'[g])
    BY <2>1, <2>2, <2>3 DEF Snapshot, Shown
  <2> QED
    BY <1>3, <2>1, <2>4 DEF Watching, Informed
<1>12. CASE Sent(g) /\ UNCHANGED volume
  <2>1. /\ pc[g] = "send" /\ out[g] = {} /\ pc'[g] = "tick"
        /\ UNCHANGED <<left, right, todo, out, adding, closed, read, version>>
    BY <1>1, <1>12 DEF Sent, Goto
  <2> QED
    BY <1>3, <2>1 DEF Watching, Informed, Snapshot, Shown
<1>13. ~Stop(g)
  BY <1>3 DEF Stop
<1>14. CASE Reload(g)
  <2>1. /\ pc[g] = "send" /\ read' = version
        /\ UNCHANGED <<left, right, todo, pc, adding, closed, version>>
    BY <1>14 DEF Reload, Receive
  <2>2. Snapshot(left[g]) /\ adding # g
    BY <1>3, <2>1 DEF Watching, Informed
  <2>3. version >= Shown(left[g])
    BY <1>2, <2>2 DEF Snapshot, Shown, Entry, Link
  <2> QED
    BY <1>3, <2>1, <2>2, <2>3 DEF Watching, Informed, Snapshot, Shown
<1>15. CASE Ignore(g)
  <2>1. PICK e \in out[g] : e.op \notin {"Create", "Write"} /\ Receive(g, e)
    BY <1>15 DEF Ignore
  <2>2. /\ UNCHANGED <<left, right, todo, pc, adding, closed, version, read>>
        /\ out'[g] = out[g] \ {e}
    BY <1>1, <1>15, <2>1 DEF Ignore, Receive
  <2>3. Swapped \in out[g] => Swapped \in out'[g]
    BY <2>1, <2>2 DEF Swapped
  <2> QED
    BY <1>3, <2>2, <2>3 DEF Watching, Informed, Snapshot, Shown
<1> QED
  BY <1>5, <1>6, <1>7, <1>8, <1>9, <1>10, <1>11, <1>12, <1>13, <1>14, <1>15
     DEF PollStep, WatchStep, Consume

\* A goroutine's step leaves the others alone.
LEMMA OthersUntouched ==
  ASSUME TypeInv, NEW g \in Goroutines, NEW h \in Goroutines, g # h, owner = "kubelet",
         StartAdd(h) \/ PollStep(h) \/ Consume(h)
  PROVE  /\ UNCHANGED <<left[g], right[g], todo[g], out[g], pc[g]>>
         /\ (adding' = g) <=> (adding = g)
         /\ version' >= version /\ read' >= read
<1> USE DEF directory, poller, volume
<1>1. /\ left \in [Goroutines -> Recordings] /\ right \in [Goroutines -> Recordings]
      /\ todo \in [Goroutines -> SUBSET Names] /\ out \in [Goroutines -> SUBSET Events]
      /\ pc \in [Goroutines -> PCs]
      /\ NoAdd \notin Goroutines
  BY PollerConstants DEF TypeInv, Types, NoAdd
<1>2. version \in Nat /\ read \in Nat /\ read <= version
  BY VolumeConstants DEF TypeInv, Swapping
<1>3. CASE StartAdd(h)
  BY <1>1, <1>2, <1>3 DEF StartAdd, Add, Stat, Goto
<1>4. CASE PollStep(h)
  <2>1. CASE StartPolling(h)
    BY <1>1, <1>2, <2>1 DEF StartPolling, Added
  <2>2. CASE (Poll(h) \/ List(h) \/ Examine(h)) /\ UNCHANGED volume
    BY <1>1, <1>2, <2>2 DEF Poll, List, Examine, Stat, Goto
  <2>3. CASE ListFails(h) /\ UNCHANGED volume
    BY <1>1, <1>2, <2>3 DEF ListFails, Failed
  <2>4. CASE (Compare(h) \/ Sent(h) \/ Stop(h)) /\ UNCHANGED volume
    BY <1>1, <1>2, <2>4 DEF Compare, Sent, Stop, Goto
  <2> QED
    BY <1>4, <2>1, <2>2, <2>3, <2>4 DEF PollStep, WatchStep
<1>5. CASE Consume(h)
  BY <1>1, <1>2, <1>5 DEF Consume, Reload, Ignore, Receive
<1> QED
  BY <1>3, <1>4, <1>5

LEMMA VolumeStep == TypeInv /\ VolumeInv /\ [Next]_allVars => VolumeInv'
<1> SUFFICES ASSUME TypeInv, VolumeInv, [Next]_allVars, TypeInv', owner' = "kubelet"
             PROVE  ~closed' /\ \A g \in Goroutines : Watching(g)'
  BY TypeStep DEF VolumeInv
<1> USE DEF directory, poller, polling, volume, vars
<1>1. owner = "kubelet" /\ UNCHANGED <<owner, changes>>
  BY DEF Next, AnybodyStep, StartAdd, PollStep, Consume, allVars
<1>2. ~closed /\ \A g \in Goroutines : Watching(g)
  BY <1>1 DEF VolumeInv
<1>3. version \in Nat /\ read \in Nat
  BY VolumeConstants DEF TypeInv, Swapping
<1>4. CASE KubeletStep
  <2>1. version' >= version /\ read' >= read
    BY <1>3, <1>4 DEF KubeletStep
  <2>2. UNCHANGED <<left, right, todo, out, pc, adding, closed>>
    BY <1>4 DEF KubeletStep
  <2> QED
    BY <1>2, <2>1, <2>2, KeptInformed
<1>5. ASSUME NEW h \in Goroutines, StartAdd(h) \/ PollStep(h) \/ Consume(h)
      PROVE  ~closed' /\ \A g \in Goroutines : Watching(g)'
  <2>1. Watching(h)' /\ ~closed'
    BY <1>1, <1>5, OwnPolling
  <2>2. ASSUME NEW g \in Goroutines, g # h PROVE Watching(g)'
    BY <1>1, <1>2, <1>5, <2>2, OthersUntouched, KeptInformed
  <2> QED
    BY <2>1, <2>2
<1>6. CASE UNCHANGED allVars
  <2>1. UNCHANGED <<left, right, todo, out, pc, adding, closed, version, read>>
    BY <1>6 DEF allVars
  <2> QED
    BY <1>2, <1>3, <2>1, KeptInformed
<1> QED
  BY <1>1, <1>4, <1>5, <1>6 DEF Next, AnybodyStep

\* SeenIsRead: no version of a Secret volume is passed over, however the polls
\* and the steps of a swap interleave.
THEOREM NoVersionPassedOver == Spec => []SeenIsRead
<1>1. Init => VolumeInv
  <2> SUFFICES ASSUME Init, owner = "kubelet" PROVE VolumeInv
    BY DEF VolumeInv
  <2>1. /\ ~closed /\ adding = NoAdd /\ \A g \in Goroutines : pc[g] = "off"
        /\ NoAdd \notin Goroutines
    BY PollerConstants DEF Init, VolumeInit, PollerInit, NoAdd
  <2> QED
    BY <2>1 DEF VolumeInv, Watching
<1>2. TypeInv /\ VolumeInv => SeenIsRead
  BY DEF VolumeInv, Watching, Informed, SeenIsRead
<1> QED
  BY <1>1, <1>2, InitTypes, TypeStep, VolumeStep, PTL DEF Spec
-----------------------------------------------------------------------------
(* What the poller comes to when nothing changes any more: the part of      *)
(* CatchesUp, FallsSilent and EveryVersionRead that a step can break.       *)

\* Nobody has a change or a failure left, the kubelet no further version.
Quiet ==
  \/ owner = "anybody" /\ changes = 0 /\ faults = 0
  \/ owner = "kubelet" /\ version = MaxVersion /\ step = "idle"

\* A recording has just begun, in Add or in a poll.
Begun(g) ==
  /\ pc[g] = AfterStat /\ todo[g] = {}
  /\ right[g] = [info |-> item, entries |-> NoEntries]

\* Names are to be examined and events to be received only at their place, and
\* only a directory has entries.
InPlace(g) ==
  /\ pc[g] # "examine" => todo[g] = {}
  /\ pc[g] # "send" => out[g] = {}
  /\ pc[g] = "open" => right[g].entries = NoEntries

PlaceInv ==
  /\ ~item.dir => tree = NoEntries
  /\ \A g \in Goroutines : InPlace(g)

\* What is recorded of a directory at rest is right as far as it goes.
Recording(g) ==
  /\ right[g].info = item
  /\ pc[g] = "open" => item.dir /\ right[g].entries = NoEntries
  /\ pc[g] = "examine" =>
       /\ todo[g] \subseteq DOMAIN tree
       /\ right[g].entries = [n \in DOMAIN tree \ todo[g] |-> tree[n]]

Catching(g) ==
  \/ pc[g] \in {"open", "examine"} /\ Recording(g)
  \/ pc[g] \in {"send", "tick"} /\ Knows(g)
  \/ pc[g] = "done"

Silent(g) == Catching(g) /\ Knows(g) /\ out[g] = {}

LEMMA NoDifference ==
  ASSUME NEW r
  PROVE  Differences(r, r) = {}
<1>1. \A f : checkChange(f, f) = "none"
  BY DEF checkChange
<1>2. Itself(r, r) = {} /\ \A names : Among(names, r, r) = {}
  BY <1>1 DEF Itself, Among
<1> QED
  BY <1>2 DEF Differences

\* What belongs to one goroutine.
Own(g) == <<left[g], right[g], todo[g], out[g], pc[g]>>

\* The functions that a goroutine's steps change.
LEMMA Shapes ==
  ASSUME Types
  PROVE  /\ left \in [Goroutines -> Recordings] /\ right \in [Goroutines -> Recordings]
         /\ todo \in [Goroutines -> SUBSET Names] /\ out \in [Goroutines -> SUBSET Events]
         /\ pc \in [Goroutines -> PCs]
         /\ tree = [n \in DOMAIN tree |-> tree[n]]
  BY TreeShape DEF Types

\* The last step of a recording whose names have all been examined.
LEMMA AllRecorded ==
  ASSUME Types, NEW g \in Goroutines, Recorded(g), Recording(g)
  PROVE  right[g] = [info |-> item, entries |-> tree]
<1>1. todo[g] = {} /\ right[g].info = item /\ right[g] \in Recordings
  BY Shapes DEF Recorded, Recording
<1>2. right[g].entries = [n \in DOMAIN tree |-> tree[n]]
  BY <1>1 DEF Recorded, Recording
<1> QED
  BY <1>1, <1>2, Shapes DEF Recordings

\* One more name.
LEMMA ExaminesOne ==
  ASSUME Types, NEW g \in Goroutines, Examine(g)
  PROVE  \E n \in todo[g] :
           /\ todo'[g] = todo[g] \ {n} /\ pc[g] = "examine" /\ pc'[g] = "examine"
           /\ right'[g].info = right[g].info
           /\ right'[g].entries = IF n \in DOMAIN tree THEN With(right[g].entries, n, tree[n])
                                  ELSE right[g].entries
           /\ UNCHANGED <<item, tree, left, out>>
<1>1. PICK n \in todo[g] :
        /\ todo' = [todo EXCEPT ![g] = @ \ {n}]
        /\ right' = IF n \in DOMAIN tree
                    THEN [right EXCEPT ![g].entries = With(@, n, tree[n])]
                    ELSE right
  BY DEF Examine
<1>2. right'[g] = IF n \in DOMAIN tree
                  THEN [right[g] EXCEPT !.entries = With(right[g].entries, n, tree[n])]
                  ELSE right[g]
  BY <1>1, Shapes
<1>3. right[g] \in Recordings
  BY Shapes
<1>4. /\ right'[g].info = right[g].info
      /\ right'[g].entries = IF n \in DOMAIN tree THEN With(right[g].entries, n, tree[n])
                             ELSE right[g].entries
  BY <1>2, <1>3 DEF Recordings
<1> QED
  BY <1>1, <1>4, Shapes DEF Examine, directory, poller

-----------------------------------------------------------------------------
(* Steps of the goroutine itself, and of somebody else.                     *)

LEMMA OwnPlace ==
  ASSUME TypeInv, PlaceInv, NEW g \in Goroutines,
         StartAdd(g) \/ PollStep(g) \/ Consume(g) \/ RecordFails(g)
  PROVE  InPlace(g)'
<1> USE Shapes DEF directory, poller, volume, TypeInv
<1>1. InPlace(g) /\ Cleared.entries = NoEntries
  BY DEF PlaceInv, Cleared
<1>2. CASE StartAdd(g)
  BY <1>1, <1>2 DEF StartAdd, Add, Stat, AfterStat, Goto, InPlace
<1>3. CASE StartPolling(g)
  BY <1>1, <1>3 DEF StartPolling, Added, Recorded, InPlace
<1>4. CASE Poll(g)
  BY <1>1, <1>4 DEF Poll, Stat, AfterStat, Goto, InPlace
<1>5. CASE List(g)
  BY <1>1, <1>5 DEF List, Goto, InPlace
<1>6. CASE ListFails(g)
  BY <1>1, <1>6 DEF ListFails, Failed, InPlace
<1>7. CASE Examine(g)
  <2>1. pc'[g] = "examine" /\ UNCHANGED out /\ pc[g] = "examine"
    BY <1>7, ExaminesOne
  <2> QED
    BY <1>1, <2>1 DEF InPlace
<1>8. CASE Compare(g)
  BY <1>1, <1>8 DEF Compare, Recorded, Goto, InPlace
<1>9. CASE Sent(g)
  BY <1>1, <1>9 DEF Sent, Goto, InPlace
<1>10. CASE Stop(g)
  BY <1>1, <1>10 DEF Stop, Goto, InPlace
<1>11. CASE Consume(g)
  BY <1>1, <1>11 DEF Consume, Reload, Ignore, Receive, ReceiveError, Goto, InPlace
<1>12. CASE RecordFails(g)
  BY <1>1, <1>12 DEF RecordFails, Failed, Goto, InPlace
<1> QED
  BY <1>2, <1>3, <1>4, <1>5, <1>6, <1>7, <1>8, <1>9, <1>10, <1>11, <1>12
     DEF PollStep, WatchStep

LEMMA OthersApart ==
  ASSUME TypeInv, NEW g \in Goroutines, NEW h \in Goroutines, g # h,
         StartAdd(h) \/ PollStep(h) \/ Consume(h) \/ RecordFails(h)
  PROVE  UNCHANGED Own(g)
<1> USE Shapes DEF directory, poller, volume, TypeInv, Own
<1>1. CASE StartAdd(h)
  BY <1>1 DEF StartAdd, Add, Stat, Goto
<1>2. CASE StartPolling(h)
  BY <1>2 DEF StartPolling, Added
<1>3. CASE Poll(h) \/ List(h) \/ Examine(h)
  BY <1>3 DEF Poll, List, Examine, Stat, Goto
<1>4. CASE ListFails(h) \/ RecordFails(h)
  BY <1>4 DEF ListFails, RecordFails, Failed, Goto
<1>5. CASE Compare(h) \/ Sent(h) \/ Stop(h)
  BY <1>5 DEF Compare, Sent, Stop, Goto
<1>6. CASE Consume(h)
  BY <1>6 DEF Consume, Reload, Ignore, Receive, ReceiveError, Goto
<1> QED
  BY <1>1, <1>2, <1>3, <1>4, <1>5, <1>6 DEF PollStep, WatchStep

\* The steps that are no goroutine's.
Outside ==
  \/ owner = "kubelet" /\ KubeletStep /\ UNCHANGED <<owner, changes>>
  \/ owner = "anybody" /\ (Change \/ Remove \/ Close)
  \/ UNCHANGED allVars

LEMMA OutsideKeeps ==
  ASSUME Outside, NEW g \in Goroutines
  PROVE  UNCHANGED Own(g)
  BY DEF Outside, KubeletStep, Change, Remove, Close, polling, poller, directory,
         allVars, vars, Own

\* Whose step it is.
LEMMA WhoseStep ==
  ASSUME [Next]_allVars
  PROVE  \/ Outside
         \/ \E g \in Goroutines :
              \/ StartAdd(g) \/ PollStep(g) \/ Consume(g)
              \/ owner = "anybody" /\ RecordFails(g)
  BY DEF Next, AnybodyStep, Outside

LEMMA PlaceStep == TypeInv /\ PlaceInv /\ [Next]_allVars => PlaceInv'
<1> SUFFICES ASSUME TypeInv, PlaceInv, [Next]_allVars PROVE PlaceInv'
  OBVIOUS
<1>1. CASE Outside
  <2>1. \A g \in Goroutines : UNCHANGED Own(g)
    BY <1>1, OutsideKeeps
  <2>2. \A g \in Goroutines : InPlace(g)'
    BY <2>1 DEF PlaceInv, InPlace, Own
  <2>3. (~item.dir => tree = NoEntries)'
    <3>1. CASE owner = "kubelet" /\ KubeletStep
      <4>1. item'.dir
        BY <3>1 DEF KubeletStep, TypeInv, Swapping, Directory
      <4> QED
        BY <4>1
    <3>2. CASE Change
      BY <3>2 DEF Change, ChangeEntry, ChangeItem
    <3>3. CASE Remove \/ Close \/ UNCHANGED allVars
      BY <3>3 DEF Remove, Close, PlaceInv, directory, allVars, vars
    <3> QED
      BY <1>1, <3>1, <3>2, <3>3 DEF Outside
  <2> QED
    BY <2>2, <2>3 DEF PlaceInv
<1>2. ASSUME NEW h \in Goroutines,
             StartAdd(h) \/ PollStep(h) \/ Consume(h) \/ RecordFails(h)
      PROVE  PlaceInv'
  <2>1. InPlace(h)'
    BY <1>2, OwnPlace
  <2>2. ASSUME NEW g \in Goroutines, g # h PROVE InPlace(g)'
    BY <1>2, <2>2, OthersApart DEF PlaceInv, InPlace, Own
  <2>3. UNCHANGED directory
    BY <1>2 DEF StartAdd, Add, PollStep, StartPolling, Added, WatchStep, Poll, List,
         ListFails, Examine, Compare, Sent, Stop, Consume, Reload, Ignore, Receive,
         ReceiveError, RecordFails, directory, volume
  <2> QED
    BY <2>1, <2>2, <2>3 DEF PlaceInv, directory
<1> QED
  BY <1>1, <1>2, WhoseStep

LEMMA PlaceInit == Init => PlaceInv
<1> SUFFICES ASSUME Init PROVE PlaceInv
  OBVIOUS
<1>1. \A file, entries : PollerInit(file, entries) =>
        /\ item = file /\ tree = entries
        /\ \A g \in Goroutines : InPlace(g)
  BY DEF PollerInit, InPlace
<1> QED
  BY <1>1 DEF Init, VolumeInit, PlaceInv, Directory, Link

-----------------------------------------------------------------------------
(* When nothing changes.                                                    *)

LEMMA QuietStep ==
  ASSUME TypeInv, Quiet, [Next]_allVars
  PROVE  /\ Quiet' /\ UNCHANGED directory
         /\ \A g \in Goroutines : ~(owner = "anybody" /\ RecordFails(g))
<1> USE DEF volume, poller
<1>1. CASE owner = "kubelet"
  <2>1. version = MaxVersion /\ step = "idle" /\ MaxVersion \in Nat
    BY <1>1, VolumeConstants DEF Quiet
  <2>2. ~KubeletStep
    BY <2>1 DEF KubeletStep
  <2> QED
    BY <1>1, <2>1, <2>2
       DEF Quiet, Next, AnybodyStep, StartAdd, Add, PollStep, StartPolling, Added, WatchStep,
           Poll, List, ListFails, Examine, Compare, Sent, Stop, Consume, Reload, Ignore,
           Receive, ReceiveError, directory, allVars, vars
<1>2. CASE owner = "anybody"
  <2>1. changes = 0 /\ faults = 0
    BY <1>2 DEF Quiet
  <2>2. \A g \in Goroutines : ~RecordFails(g)
    BY <2>1 DEF RecordFails
  <2> QED
    BY <1>2, <2>1, <2>2
       DEF Quiet, Next, AnybodyStep, Close, Remove, StartAdd, Add, PollStep, StartPolling,
           Added, WatchStep, Poll, List, ListFails, Examine, Compare, Sent, Stop, Consume,
           Receive, ReceiveError, directory, allVars, vars
<1> QED
  BY <1>1, <1>2 DEF TypeInv, Types

\* A recording begins, in Add or when the ticker fires.
LEMMA Begins ==
  ASSUME TypeInv, PlaceInv, NEW g \in Goroutines, Add(g) \/ Poll(g)
  PROVE  Begun(g)'
<1>1. todo[g] = {}
  BY DEF PlaceInv, InPlace, Add, Poll, Goto
<1> QED
  BY <1>1, Shapes DEF TypeInv, Begun, Add, Poll, Stat, Goto, AfterStat, directory

LEMMA BegunIsCatching ==
  ASSUME TypeInv, PlaceInv, NEW g \in Goroutines, Begun(g)
  PROVE  Catching(g)
<1>1. right[g].info = item /\ right[g].entries = NoEntries /\ todo[g] = {}
  BY DEF Begun
<1>2. CASE item.dir
  BY <1>1, <1>2 DEF Begun, AfterStat, Catching, Recording
<1>3. CASE ~item.dir
  <2>1. tree = NoEntries /\ DOMAIN tree = {}
    BY <1>3 DEF PlaceInv, NoEntries
  <2>2. right[g].entries = [n \in DOMAIN tree \ todo[g] |-> tree[n]]
    BY <1>1, <2>1 DEF NoEntries
  <2> QED
    BY <1>1, <1>3, <2>1, <2>2 DEF Begun, AfterStat, Catching, Recording
<1> QED
  BY <1>2, <1>3

\* A step of the goroutine in a directory at rest: it goes on recording what
\* is there, and ends up knowing it.
LEMMA OwnCatching ==
  ASSUME TypeInv, PlaceInv, PlaceInv', NEW g \in Goroutines, Catching(g),
         StartAdd(g) \/ PollStep(g) \/ Consume(g), UNCHANGED directory
  PROVE  /\ Catching(g)'
         /\ Knows(g) => Knows(g)'
         /\ Silent(g) => out'[g] = {}
<1> USE Shapes DEF directory, poller, volume, TypeInv
<1>1. ~StartAdd(g)
  BY DEF Catching, StartAdd, Add, Goto
<1>2. UNCHANGED <<item, tree>>
  OBVIOUS
<1>3. CASE StartPolling(g)
  <2>1. Recorded(g) /\ pc[g] = "examine" /\ left'[g] = right[g] /\ pc'[g] = "tick" /\ out' = out
    BY <1>3 DEF StartPolling, Added, Recorded
  <2>2. Recording(g)
    BY <2>1 DEF Catching
  <2>3. right[g] = [info |-> item, entries |-> tree]
    BY <2>1, <2>2, AllRecorded
  <2> QED
    BY <1>2, <2>1, <2>3 DEF Catching, Knows, Silent
<1>4. CASE Poll(g)
  <2>1. Begun(g)'
    BY <1>4, Begins
  <2>2. /\ left' = left /\ out' = out /\ pc'[g] = AfterStat /\ todo'[g] = {}
        /\ right'[g] = [info |-> item, entries |-> NoEntries]
    BY <1>2, <1>4, <2>1 DEF Poll, Begun, AfterStat
  <2>3. Catching(g)'
    <3>1. CASE item.dir
      BY <1>2, <2>2, <3>1 DEF Catching, Recording, AfterStat
    <3>2. CASE ~item.dir
      <4>1. tree = NoEntries /\ DOMAIN tree = {}
        BY <3>2 DEF PlaceInv, NoEntries
      <4>2. NoEntries = [n \in DOMAIN tree \ {} |-> tree[n]]
        BY <4>1 DEF NoEntries
      <4> QED
        BY <1>2, <2>2, <3>2, <4>1, <4>2 DEF Catching, Recording, AfterStat
    <3> QED
      BY <3>1, <3>2
  <2> QED
    BY <1>2, <2>2, <2>3 DEF Knows, Silent
<1>5. CASE List(g)
  <2>1. /\ pc[g] = "open" /\ pc'[g] = "examine" /\ todo'[g] = DOMAIN tree
        /\ UNCHANGED <<left, right, out>>
    BY <1>5 DEF List, Goto
  <2>2. right[g].info = item /\ right[g].entries = NoEntries
    BY <2>1 DEF Catching, Recording
  <2>3. NoEntries = [n \in DOMAIN tree \ DOMAIN tree |-> tree[n]]
    BY DEF NoEntries
  <2>4. Recording(g)'
    BY <1>2, <2>1, <2>2, <2>3 DEF Recording
  <2> QED
    BY <1>2, <2>1, <2>4 DEF Catching, Knows, Silent
<1>6. ~ListFails(g)
  BY DEF ListFails, Catching, Recording
<1>7. CASE Examine(g)
  <2>1. PICK n \in todo[g] :
          /\ todo'[g] = todo[g] \ {n} /\ pc[g] = "examine" /\ pc'[g] = "examine"
          /\ right'[g].info = right[g].info
          /\ right'[g].entries = IF n \in DOMAIN tree THEN With(right[g].entries, n, tree[n])
                                 ELSE right[g].entries
          /\ UNCHANGED <<item, tree, left, out>>
    BY <1>7, ExaminesOne
  <2>2. /\ right[g].info = item /\ todo[g] \subseteq DOMAIN tree
        /\ right[g].entries = [m \in DOMAIN tree \ todo[g] |-> tree[m]]
    BY <2>1 DEF Catching, Recording
  <2>3. right'[g].entries = [m \in DOMAIN tree \ todo'[g] |-> tree[m]]
    <3>1. right'[g].entries = With(right[g].entries, n, tree[n])
      BY <2>1, <2>2
    <3>2. DOMAIN tree \ todo'[g] = (DOMAIN tree \ todo[g]) \cup {n}
      BY <2>1, <2>2
    <3> QED
      BY <2>2, <3>1, <3>2 DEF With
  <2>4. Recording(g)'
    BY <2>1, <2>2, <2>3 DEF Recording
  <2> QED
    BY <2>1, <2>4 DEF Catching, Knows, Silent
<1>8. CASE Compare(g)
  <2>1. /\ Recorded(g) /\ pc[g] = "examine" /\ pc'[g] = "send" /\ left'[g] = right[g]
        /\ out'[g] = Differences(left[g], right[g])
    BY <1>8 DEF Compare, Recorded, Goto
  <2>2. right[g] = [info |-> item, entries |-> tree]
    BY <2>1, AllRecorded DEF Catching
  <2> QED
    BY <1>2, <2>1, <2>2, NoDifference DEF Catching, Knows, Silent
<1>9. CASE Sent(g)
  BY <1>2, <1>9 DEF Sent, Goto, Catching, Knows, Silent
<1>10. CASE Stop(g)
  BY <1>2, <1>10 DEF Stop, Goto, Catching, Knows, Silent
<1>11. CASE Consume(g)
  <2>1. PICK e \in out[g] : Receive(g, e)
    BY <1>11 DEF Consume, Reload, Ignore, ReceiveError, Goto, Catching
  <2> QED
    BY <1>2, <2>1 DEF Receive, Catching, Knows, Silent
<1> QED
  BY <1>1, <1>3, <1>4, <1>5, <1>6, <1>7, <1>8, <1>9, <1>10, <1>11 DEF PollStep, WatchStep

\* A step of anybody else.
LEMMA OthersCatching ==
  ASSUME NEW g \in Goroutines, UNCHANGED directory, UNCHANGED Own(g)
  PROVE  /\ Catching(g) => Catching(g)'
         /\ Knows(g) => Knows(g)'
         /\ Silent(g) => Silent(g)'
  BY DEF directory, Own, Catching, Recording, Knows, Silent

LEMMA CatchingStep ==
  ASSUME TypeInv, PlaceInv, Quiet, [Next]_allVars, NEW g \in Goroutines, Catching(g)
  PROVE  Quiet' /\ Catching(g)' /\ (Silent(g) => Silent(g)')
<1>1. Quiet' /\ UNCHANGED directory /\ PlaceInv'
  BY QuietStep, PlaceStep
<1>2. CASE StartAdd(g) \/ PollStep(g) \/ Consume(g)
  BY <1>1, <1>2, OwnCatching DEF Silent
<1>3. CASE Outside
  BY <1>1, <1>3, OutsideKeeps, OthersCatching
<1>4. ASSUME NEW h \in Goroutines, h # g, StartAdd(h) \/ PollStep(h) \/ Consume(h)
      PROVE  Catching(g)' /\ (Silent(g) => Silent(g)')
  BY <1>1, <1>4, OthersApart, OthersCatching
<1> QED
  BY <1>1, <1>2, <1>3, <1>4, WhoseStep, QuietStep

LEMMA PlaceAlways == Spec => [](TypeInv /\ PlaceInv)
  BY InitTypes, PlaceInit, TypeStep, PlaceStep, PTL DEF Spec

\* The directory is known for good: a recording that begins when nothing
\* changes any more, no poll of which can be torn, takes all of it, and so
\* does every later one, whatever else the goroutines, Close and the consumer
\* do.  (CatchesUp adds that there is such a recording.)
THEOREM CaughtUpForGood ==
  ASSUME NEW g \in Goroutines
  PROVE  Spec => [](Quiet /\ Begun(g) => [](pc[g] \in {"tick", "send"} => Knows(g)))
<1> DEFINE Start == Quiet /\ Begun(g)
           Rest  == Quiet /\ Catching(g)
           Told  == pc[g] \in {"tick", "send"} => Knows(g)
<1>1. TypeInv /\ PlaceInv /\ Start => Rest
  BY BegunIsCatching
<1>2. TypeInv /\ PlaceInv /\ Rest /\ [Next]_allVars => Rest'
  BY CatchingStep
<1>3. Rest => Told
  BY DEF Catching
<1>4. Spec => [](Start => []Told)
  <2> HIDE DEF Start, Rest, Told
  <2> QED
    BY <1>1, <1>2, <1>3, PlaceAlways, PTL DEF Spec
<1> QED
  BY <1>4

\* Nothing is reported again: once it knows the directory, a goroutine sends
\* nothing any more.  (FallsSilent adds that it comes to know it.)
THEOREM SilentForGood ==
  ASSUME NEW g \in Goroutines
  PROVE  Spec => [](Quiet /\ pc[g] = "tick" /\ Knows(g) => [](out[g] = {}))
<1> DEFINE Start == Quiet /\ pc[g] = "tick" /\ Knows(g)
           Rest  == Quiet /\ Silent(g)
           Told  == out[g] = {}
<1>1. TypeInv /\ PlaceInv /\ Start => Rest
  BY DEF Silent, Catching, PlaceInv, InPlace
<1>2. TypeInv /\ PlaceInv /\ Rest /\ [Next]_allVars => Rest'
  BY CatchingStep DEF Silent
<1>3. Rest => Told
  BY DEF Silent
<1>4. Spec => [](Start => []Told)
  <2> HIDE DEF Start, Rest, Told
  <2> QED
    BY <1>1, <1>2, <1>3, PlaceAlways, PTL DEF Spec
<1> QED
  BY <1>4

\* The last version of a Secret volume: after one recording that begins when the
\* kubelet has swapped it in, Fluent Bit has read it whenever the goroutine waits
\* for its ticker.  (EveryVersionRead adds that there is one.)
THEOREM LastVersionRead ==
  ASSUME NEW g \in Goroutines
  PROVE  Spec => [](owner = "kubelet" /\ Quiet /\ Begun(g)
                      => [](pc[g] = "tick" => read = MaxVersion))
<1> DEFINE Start == owner = "kubelet" /\ Quiet /\ Begun(g)
           Rest  == owner = "kubelet" /\ Quiet /\ Catching(g)
           Told  == pc[g] = "tick" => read = MaxVersion
<1>1. TypeInv /\ PlaceInv /\ Start => Rest
  BY BegunIsCatching
<1>2. TypeInv /\ PlaceInv /\ Rest /\ [Next]_allVars => Rest'
  <2>1. [Next]_allVars => owner' = owner
    BY DEF Next, AnybodyStep, StartAdd, PollStep, Consume, allVars
  <2> QED
    BY <2>1, CatchingStep
<1>3. TypeInv /\ SeenIsRead /\ Rest => Told
  <2> SUFFICES ASSUME TypeInv, SeenIsRead, Rest, pc[g] = "tick" PROVE read = MaxVersion
    OBVIOUS
  <2>1. version = MaxVersion /\ step = "idle" /\ Knows(g) /\ read >= Shown(left[g])
    BY VolumeConstants DEF Quiet, Catching, SeenIsRead
  <2>2. "..data" \in DOMAIN tree /\ tree["..data"] = Link(version)
    BY DEF TypeInv, Swapping
  <2>3. Shown(left[g]) = MaxVersion
    BY <2>1, <2>2 DEF Knows, Shown, Entry, Link
  <2> QED
    BY <2>1, <2>3, VolumeConstants DEF TypeInv, Swapping
<1>4. Spec => [](Start => []Told)
  <2> HIDE DEF Start, Rest, Told
  <2> QED
    BY <1>1, <1>2, <1>3, PlaceAlways, NoVersionPassedOver, PTL DEF Spec
<1> QED
  BY <1>4
=============================================================================
