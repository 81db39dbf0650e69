------------------------ MODULE ConfigPipelineProofs ------------------------
(***************************************************************************)
(* Theorems about the way of a configuration from the users to Fluent Bit, *)
(* for any number of versions, any of them compressed, with any scripts    *)
(* and any number of faults.                                               *)
(***************************************************************************)
EXTENDS ConfigPipeline, TLAPS

-----------------------------------------------------------------------------
(* The inductive invariant.  Everything about the scratch directory is said *)
(* of a settled watcher only: whatever start() has copied so far is of the  *)
(* mounted version.                                                         *)

Settled == ~notice /\ ~doomed

\* Only a process can have been told to stop, and a main file is decompressed
\* before a process is started on it.
Sound ==
  /\ doomed => pc \in Process
  /\ pc \in {"etc", "list", "copy", "unzip"} => zipped
  /\ zipped /\ pc \in {"exec", "load"} => scratch[ScratchMain] \in Versions

\* What the probe has seen still holds.
Probed ==
  Settled /\ pc \in {"etc", "list", "copy", "unzip", "exec", "load"} =>
    zipped = (mounted \in Compressed)

\* What has been copied is of the mounted version.
Copied ==
  Settled /\ zipped =>
    /\ pc = "copy" => /\ todo \subseteq Contains(mounted)
                      /\ Parsers \in todo \/ scratch[Parsers] = mounted
    /\ pc \in {"unzip", "exec", "load"} => scratch[Parsers] \in {Image, mounted}
    /\ pc \in {"exec", "load"} => scratch[ScratchMain] = mounted

\* What has been read is of the mounted version.
Loaded ==
  Settled /\ pc = "load" => \A f \in Files : served[f] \in {NoFile, mounted}

PipelineInv == TypeOK /\ Sound /\ Probed /\ Copied /\ Loaded /\ WholeOrOwed

-----------------------------------------------------------------------------
(* Names and contents.                                                      *)

\* A version names files only, two of them always.
LEMMA ContainsFiles ==
  ASSUME NEW v \in Versions
  PROVE  Contains(v) \subseteq Files /\ Main \in Contains(v) /\ Parsers \in Contains(v)
  BY ConstantsAssumption DEF ConstantsAssumption, Contains, Files

\* The two fixed names pass the filter of names.
LEMMA FilterKeepsParsers ==
  ASSUME NEW v \in Versions
  PROVE  /\ Parsers \in copyFilterfunc(Contains(v))
         /\ copyFilterfunc(Contains(v)) \subseteq Contains(v)
         /\ Parsers \in copyFilterfunc({Main, Parsers})
  BY DEF copyFilterfunc, Contains

\* The content of a file is one of the known contents.
LEMMA SourceTypes ==
  ASSUME TypeOK, Sound, pc = "load", NEW f \in Files
  PROVE  Source(f) \in Contents /\ (f = Main => Source(f) \in Versions \cup {NoFile})
<1>1. mounted \in Versions /\ Volume(f) \in Versions \cup {NoFile}
  BY ConstantsAssumption DEF TypeOK, OutsideOK, Versions, Volume, ConstantsAssumption
<1>2. Main # Parsers /\ Main \notin Scripts /\ Parsers \notin Scripts
  BY ConstantsAssumption DEF ConstantsAssumption, Main, Parsers
<1>3. scratch[f] \in Contents /\ (zipped => scratch[ScratchMain] \in Versions)
  BY DEF TypeOK, FilesOK, Sound, Scratch
<1>4. Image \notin Versions
  BY DEF Image, Versions
<1> QED
  BY <1>1, <1>2, <1>3, <1>4 DEF Source, Included, Contents

\* In a settled watcher a process finds the mounted version of what it wants.
LEMMA SourceIsMounted ==
  ASSUME PipelineInv, Settled, pc = "load", NEW f \in Files, Wants(f)
  PROVE  Source(f) = mounted /\ ~Unreadable(f)
<1>1. mounted \in Versions /\ mounted # NoFile /\ mounted # Image
  BY ConstantsAssumption
     DEF PipelineInv, TypeOK, OutsideOK, Versions, NoFile, Image, ConstantsAssumption
<1>2. /\ zipped = (mounted \in Compressed)
      /\ zipped => scratch[ScratchMain] = mounted /\ scratch[Parsers] \in {Image, mounted}
  BY DEF PipelineInv, Probed, Copied
<1>3. f \in Contains(mounted)
  <2>1. CASE f = Main
    BY <1>1, <2>1, ContainsFiles
  <2>2. CASE f # Main
    <3>1. served[Main] \in Versions /\ f \in Contains(served[Main])
      BY <2>2 DEF Wants
    <3>2. served[Main] \in {NoFile, mounted}
      BY DEF PipelineInv, Loaded, Files
    <3>3. NoFile \notin Versions
      BY DEF NoFile, Versions
    <3> QED
      BY <3>1, <3>2, <3>3
  <2> QED
    BY <2>1, <2>2
<1>4. Volume(f) = mounted
  BY <1>3 DEF Volume
<1>5. f \in Scripts \/ f = Main \/ f = Parsers
  BY DEF Files
<1>6. Main # Parsers /\ Main \notin Scripts /\ Parsers \notin Scripts
  BY ConstantsAssumption DEF ConstantsAssumption, Main, Parsers
<1>7. Source(f) = mounted
  BY <1>1, <1>2, <1>4, <1>5, <1>6 DEF Source, Included
<1> QED
  BY <1>2, <1>7 DEF Unreadable

-----------------------------------------------------------------------------
(* The steps.                                                               *)

\* The initial states are settled, and nothing has started.
LEMMA InitInv == Init => PipelineInv
<1> SUFFICES ASSUME Init PROVE PipelineInv
  OBVIOUS
<1>1. TypeOK
  <2>1. OutsideOK
    BY ConstantsAssumption DEF Init, OutsideOK, Versions, ConstantsAssumption
  <2>2. FlagsOK
    BY DEF Init, FlagsOK
  <2>3. FilesOK
    BY DEF Init, FilesOK, Contents, Files
  <2> QED
    BY <2>1, <2>2, <2>3 DEF TypeOK
<1> QED
  BY <1>1 DEF Init, PipelineInv, Sound, Probed, Copied, Loaded, WholeOrOwed

\* Steps outside the container leave the watcher settled only if they do not
\* touch the volume.
LEMMA OutsideKeepsInv ==
  ASSUME PipelineInv,
         Edit \/ Publish \/ Sync \/ Noise \/ Reload \/ RestartContainer \/ ReplacePod
  PROVE  PipelineInv'
<1> USE DEF PipelineInv
<1>1. TypeOK'
  <2>1. OutsideOK'
    BY ConstantsAssumption
       DEF Edit, Publish, Sync, Noise, Reload, RestartContainer, ReplacePod, Fault,
           outside, TypeOK, OutsideOK, Versions, ConstantsAssumption
  <2>2. FlagsOK'
    BY DEF Edit, Publish, Sync, Noise, Reload, RestartContainer, ReplacePod,
           outside, TypeOK, FlagsOK
  <2>3. FilesOK'
    BY DEF Edit, Publish, Sync, Noise, Reload, RestartContainer, ReplacePod,
           outside, TypeOK, FilesOK, Contents
  <2> QED
    BY <2>1, <2>2, <2>3 DEF TypeOK
<1>2. CASE Edit \/ Publish
  BY <1>1, <1>2 DEF Edit, Publish, Sound, Probed, Copied, Loaded, WholeOrOwed,
                    Settled, Contains
<1>3. CASE Sync \/ Noise
  BY <1>1, <1>3 DEF Sync, Noise, outside, Sound, Probed, Copied, Loaded,
                    WholeOrOwed, Settled
<1>4. CASE Reload
  <2>1. pc' = pc /\ pc \notin InStart /\ (pc \in Process => doomed') /\ ~notice'
    BY <1>4 DEF Reload, TypeOK, FilesOK
  <2>2. Sound'
    BY <1>4 DEF Reload, Sound
  <2>3. Probed' /\ Copied' /\ Loaded' /\ WholeOrOwed'
    BY <2>1 DEF Probed, Copied, Loaded, WholeOrOwed, Settled, InStart, Process
  <2> QED
    BY <1>1, <2>2, <2>3
<1>5. CASE RestartContainer \/ ReplacePod
  BY <1>1, <1>5 DEF RestartContainer, ReplacePod, Sound, Probed, Copied, Loaded,
                    WholeOrOwed, Settled
<1> QED
  BY <1>2, <1>3, <1>4, <1>5

\* start() copies, decompresses and runs what is mounted.
LEMMA StartKeepsInv ==
  ASSUME PipelineInv, StartStep \/ StartFails
  PROVE  PipelineInv'
<1> USE DEF PipelineInv
<1>0. mounted \in Versions
  BY ConstantsAssumption DEF TypeOK, OutsideOK, Versions, ConstantsAssumption
<1>1. CASE Lock
  <2>1. TypeOK'
    BY <1>1 DEF Lock, Goto, outside, TypeOK, OutsideOK, FlagsOK, FilesOK, InStart
  <2> QED
    BY <1>1, <2>1 DEF Lock, Goto, Sound, Probed, Copied, Loaded, WholeOrOwed, Process
<1>2. CASE Probe
  <2>1. TypeOK'
    BY <1>2 DEF Probe, Goto, outside, TypeOK, OutsideOK, FlagsOK, FilesOK, InStart
  <2>2. pc' \in {"etc", "exec"} /\ zipped' = (mounted' \in Compressed)
        /\ (pc' = "exec" => ~zipped') /\ (pc' = "etc" => zipped') /\ ~doomed'
    BY <1>2 DEF Probe, Goto, outside, Sound, Process
  <2>3. Sound' /\ Copied'
    BY <2>2 DEF Sound, Copied
  <2>4. Probed' /\ Loaded' /\ WholeOrOwed'
    BY <2>2 DEF Probed, Loaded, WholeOrOwed
  <2> QED
    BY <2>1, <2>3, <2>4
<1>3. CASE CopyEtc
  <2>1. TypeOK'
    BY <1>3
       DEF CopyEtc, Goto, outside, TypeOK, OutsideOK, FlagsOK, FilesOK, InStart, Contents
  <2>2. /\ pc = "etc" /\ pc' \in {"list", "unzip"} /\ zipped /\ zipped'
        /\ mounted' = mounted /\ notice' = notice /\ doomed' = doomed /\ ~doomed
    BY <1>3 DEF CopyEtc, Goto, outside, Sound, Process
  <2>3. scratch'[Parsers] = Image
    BY <1>3, <1>0, FilterKeepsParsers DEF CopyEtc, Scratch, Files
  <2> QED
    BY <2>1, <2>2, <2>3 DEF Sound, Probed, Copied, Loaded, WholeOrOwed, Settled
<1>4. CASE List
  <2>1. /\ pc = "list" /\ pc' = "copy" /\ zipped /\ zipped' = zipped
        /\ mounted' = mounted /\ notice' = notice /\ doomed' = doomed /\ ~doomed
        /\ todo' = copyFilterfunc(Contains(mounted))
    BY <1>4 DEF List, Goto, outside, Sound, Process
  <2>2. todo' \subseteq Contains(mounted) /\ Parsers \in todo' /\ todo' \subseteq Files
    BY <1>0, <2>1, FilterKeepsParsers, ContainsFiles
  <2>3. TypeOK'
    BY <1>4, <2>2
       DEF List, Goto, outside, TypeOK, OutsideOK, FlagsOK, FilesOK, InStart
  <2>4. Contains(mounted)' = Contains(mounted)
    BY <2>1 DEF Contains
  <2> QED
    BY <2>1, <2>2, <2>3, <2>4
       DEF Sound, Probed, Copied, Loaded, WholeOrOwed, Settled
<1>5. ASSUME NEW f \in Files, Copy(f) PROVE PipelineInv'
  <2>1. TypeOK'
    BY <1>0, <1>5 DEF Copy, outside, TypeOK, OutsideOK, FlagsOK, FilesOK, Contents
  <2>2. /\ pc = "copy" /\ pc' = "copy" /\ zipped' = zipped /\ mounted' = mounted
        /\ notice' = notice /\ doomed' = doomed /\ ~doomed /\ todo' = todo \ {f}
    BY <1>5 DEF Copy, outside, Sound, Process
  <2>3. Parsers \in todo' \/ Parsers \notin todo \/ scratch'[Parsers] = mounted
    BY <1>5 DEF Copy, TypeOK, FilesOK, Scratch, Files
  <2>4. scratch[Parsers] = mounted => scratch'[Parsers] = mounted
    BY <1>5 DEF Copy, TypeOK, FilesOK, Scratch, Files
  <2>5. Contains(mounted)' = Contains(mounted)
    BY <2>2 DEF Contains
  <2> QED
    BY <2>1, <2>2, <2>3, <2>4, <2>5
       DEF Sound, Probed, Copied, Loaded, WholeOrOwed, Settled
<1>6. CASE CopyMissing
  <2>1. TypeOK'
    BY <1>6 DEF CopyMissing, Goto, outside, TypeOK, OutsideOK, FlagsOK, FilesOK
  <2> QED
    BY <1>6, <2>1 DEF CopyMissing, Goto, Sound, Probed, Copied, Loaded, WholeOrOwed,
                      Process
<1>7. CASE CopyDone
  <2>1. TypeOK'
    BY <1>7
       DEF CopyDone, Goto, outside, TypeOK, OutsideOK, FlagsOK, FilesOK, InStart
  <2> QED
    BY <1>7, <2>1 DEF CopyDone, Goto, outside, Sound, Probed, Copied, Loaded,
                      WholeOrOwed, Settled, Process
<1>8. CASE Unzip
  <2>1. TypeOK'
    BY <1>0, <1>8
       DEF Unzip, Goto, outside, TypeOK, OutsideOK, FlagsOK, FilesOK, InStart, Contents
  <2>2. /\ pc = "unzip" /\ pc' \in {"exec", "down"} /\ zipped' = zipped
        /\ mounted' = mounted /\ notice' = notice /\ doomed' = doomed /\ ~doomed
    BY <1>8 DEF Unzip, Goto, outside, Sound, Process
  <2>3. pc' = "exec" => scratch'[ScratchMain] = mounted
    BY <1>8 DEF Unzip, Goto, TypeOK, FilesOK, Scratch
  <2>4. scratch'[Parsers] = scratch[Parsers]
    BY <1>8 DEF Unzip, TypeOK, FilesOK, Scratch, Parsers, ScratchMain
  <2> QED
    BY <1>0, <2>1, <2>2, <2>3, <2>4
       DEF Sound, Probed, Copied, Loaded, WholeOrOwed, Settled
<1>9. CASE Exec
  <2>1. TypeOK'
    BY <1>9
       DEF Exec, Goto, outside, TypeOK, OutsideOK, FlagsOK, FilesOK, Process, Contents, Files
  <2>2. ~doomed
    BY <1>9 DEF Exec, Goto, Sound, Process
  <2> QED
    BY <1>9, <2>1, <2>2
       DEF Exec, Goto, outside, Sound, Probed, Copied, Loaded, WholeOrOwed, Settled
<1>10. CASE StartFails
  <2>1. Writing \subseteq Scratch
    <3>1. copyFilterfunc({Main, Parsers}) \subseteq Scratch
      BY DEF copyFilterfunc, Scratch, Files
    <3> QED
      BY <3>1 DEF Writing, TypeOK, FilesOK, Scratch
  <2>2. scratch' \in [Scratch -> Contents]
    BY <1>10, <2>1 DEF StartFails, TypeOK, FilesOK, Contents
  <2>3. TypeOK'
    <3>1. OutsideOK'
      BY <1>10, ConstantsAssumption
         DEF StartFails, Fault, outside, TypeOK, OutsideOK, ConstantsAssumption
    <3>2. FlagsOK' /\ FilesOK'
      BY <1>10, <2>2 DEF StartFails, outside, TypeOK, FlagsOK, FilesOK
    <3> QED
      BY <3>1, <3>2 DEF TypeOK
  <2>4. pc' = "down" /\ ~doomed'
    BY <1>10 DEF StartFails, Sound, InStart, Process
  <2> QED
    BY <2>3, <2>4 DEF Sound, Probed, Copied, Loaded, WholeOrOwed
<1> QED
  BY <1>1, <1>2, <1>3, <1>4, <1>5, <1>6, <1>7, <1>8, <1>9, <1>10 DEF StartStep

\* A process reads what start() has prepared.
LEMMA ProcessKeepsInv ==
  ASSUME PipelineInv, ProcessStep \/ Terminate \/ Die
  PROVE  PipelineInv'
<1> USE DEF PipelineInv
<1>1. ASSUME NEW f \in Files, Read(f) PROVE PipelineInv'
  <2>1. /\ pc = "load" /\ pc' = "load" /\ zipped' = zipped /\ mounted' = mounted
        /\ notice' = notice /\ doomed' = doomed /\ scratch' = scratch /\ Wants(f)
        /\ todo' = todo
    BY <1>1 DEF Read, Wants, outside
  <2>2. TypeOK'
    <3>1. Source(f) \in Contents /\ (f = Main => Source(f) \in Versions \cup {NoFile})
      BY <2>1, SourceTypes
    <3> QED
      BY <1>1, <3>1 DEF Read, outside, TypeOK, OutsideOK, FlagsOK, FilesOK, Files
  <2>3. Loaded'
    <3>1. Settled => Source(f) = mounted
      BY <2>1, SourceIsMounted
    <3> QED
      BY <1>1, <2>1, <3>1 DEF Read, Loaded, Settled, TypeOK, FilesOK
  <2> QED
    BY <2>1, <2>2, <2>3 DEF Sound, Probed, Copied, WholeOrOwed, Settled, Contains
<1>2. CASE Refuse \/ Terminate \/ Die
  <2>1. TypeOK'
    <3>1. OutsideOK'
      BY <1>2, ConstantsAssumption
         DEF Refuse, Terminate, Die, Fault, Goto, outside, TypeOK, OutsideOK,
             ConstantsAssumption
    <3>2. FlagsOK' /\ FilesOK'
      BY <1>2 DEF Refuse, Terminate, Die, Goto, outside, TypeOK, FlagsOK, FilesOK
    <3> QED
      BY <3>1, <3>2 DEF TypeOK
  <2> QED
    BY <1>2, <2>1 DEF Refuse, Terminate, Die, Goto, Sound, Probed, Copied, Loaded,
                      WholeOrOwed
<1>3. CASE Ready
  <2>1. /\ pc = "load" /\ pc' = "run" /\ mounted' = mounted /\ notice' = notice
        /\ doomed' = doomed /\ served' = served
    BY <1>3 DEF Ready, Goto, outside
  <2>2. TypeOK'
    BY <1>3 DEF Ready, Goto, outside, TypeOK, OutsideOK, FlagsOK, FilesOK, Process
  <2>3. mounted \in Versions /\ NoFile \notin Versions
    BY ConstantsAssumption DEF TypeOK, OutsideOK, Versions, NoFile, ConstantsAssumption
  <2>4. ASSUME Settled, NEW f \in Contains(mounted) PROVE served[f] = mounted
    <3>1. f \in Files /\ Main \in Files
      BY <2>3, <2>4, ContainsFiles DEF Files
    <3>2. served[f] \in {NoFile, mounted} /\ served[Main] \in {NoFile, mounted}
      BY <2>1, <2>4, <3>1 DEF Loaded
    <3>3. ~Wants(f) /\ ~Wants(Main)
      BY <1>3, <3>1 DEF Ready
    <3>4. served[Main] = mounted
      BY <2>1, <3>2, <3>3 DEF Wants
    <3> QED
      BY <2>1, <2>3, <2>4, <3>2, <3>3, <3>4 DEF Wants
  <2>5. WholeOrOwed'
    BY <2>1, <2>4 DEF WholeOrOwed, Settled, Contains
  <2> QED
    BY <2>1, <2>2, <2>5 DEF Sound, Probed, Copied, Loaded, Process
<1> QED
  BY <1>1, <1>2, <1>3 DEF ProcessStep

LEMMA PipelineInductive == Spec => []PipelineInv
<1>1. PipelineInv /\ [Next]_vars => PipelineInv'
  <2>1. PipelineInv /\ Next => PipelineInv'
    BY OutsideKeepsInv, StartKeepsInv, ProcessKeepsInv DEF Next
  <2>2. PipelineInv /\ UNCHANGED vars => PipelineInv'
    BY
       DEF vars, outside, PipelineInv, TypeOK, OutsideOK, FlagsOK, FilesOK, Sound, Probed, Copied, Loaded,
           WholeOrOwed, Settled, Contains
  <2> QED
    BY <2>1, <2>2
<1> QED
  BY InitInv, <1>1, PTL DEF Spec

-----------------------------------------------------------------------------
(* The theorems.                                                            *)

\* Every file keeps its type; no process has a main file that was
\* decompressed in part.
THEOREM PipelineTypes == Spec => []TypeOK
<1>1. PipelineInv => TypeOK
  BY DEF PipelineInv
<1> QED
  BY <1>1, PipelineInductive, PTL

\* What a running Fluent Bit has read is of one version, the mounted one,
\* unless a reload is owed or under way.
THEOREM ServedWhole == Spec => []WholeOrOwed
<1>1. PipelineInv => WholeOrOwed
  BY DEF PipelineInv
<1> QED
  BY <1>1, PipelineInductive, PTL

\* Neither start() nor Fluent Bit fails on files that stay as they are.
THEOREM SettledStartsSucceed == Spec => FailsOnlyWhileOwed
<1> DEFINE GaveUp == pc \in InStart \cup {"load"} /\ pc' = "down"
           Cause  == notice \/ doomed \/ faults' # faults
<1>1. PipelineInv /\ [Next]_vars => [GaveUp => Cause]_vars
  <2> SUFFICES ASSUME PipelineInv, Next, GaveUp, ~notice, ~doomed
               PROVE  faults' # faults
    BY DEF vars
  <2> USE DEF PipelineInv
  <2>1. pc # "down" /\ pc' # pc
    BY DEF InStart
  <2>2. Settled /\ faults \in Nat
    BY ConstantsAssumption DEF Settled, TypeOK, OutsideOK, ConstantsAssumption
  <2>3. CASE Edit \/ Publish \/ Sync \/ Noise \/ Reload
    BY <2>1, <2>3 DEF Edit, Publish, Sync, Noise, Reload
  <2>4. CASE RestartContainer \/ ReplacePod \/ StartFails \/ Die
    BY <2>2, <2>4 DEF RestartContainer, ReplacePod, StartFails, Die, Fault
  <2>5. CASE StartStep
    <3>1. CASE Lock \/ Probe \/ CopyEtc \/ List \/ CopyDone \/ Exec
      BY <3>1 DEF Lock, Probe, CopyEtc, List, CopyDone, Exec, Goto
    <3>2. ASSUME NEW f \in Files, Copy(f) PROVE FALSE
      BY <2>1, <3>2 DEF Copy
    <3>3. CASE CopyMissing
      <4>1. pc = "copy" /\ zipped
        BY <3>3 DEF CopyMissing, Goto, Sound
      <4>2. todo \subseteq Contains(mounted)
        BY <2>2, <4>1 DEF Copied
      <4>3. mounted # NoFile
        BY DEF TypeOK, OutsideOK, NoFile
      <4> QED
        BY <3>3, <4>2, <4>3 DEF CopyMissing, Volume
    <3>4. CASE Unzip
      BY <2>2, <3>4 DEF Unzip, Goto, Sound, Probed
    <3> QED
      BY <2>5, <3>1, <3>2, <3>3, <3>4 DEF StartStep
  <2>6. CASE ProcessStep
    <3>1. ASSUME NEW f \in Files, Read(f) PROVE FALSE
      BY <2>1, <3>1 DEF Read
    <3>2. CASE Ready
      BY <3>2 DEF Ready, Goto
    <3>3. CASE Refuse
      <4>1. PICK f \in Files :
              Wants(f) /\ (Source(f) \in {NoFile, Torn} \/ Unreadable(f))
        BY <3>3 DEF Refuse
      <4>2. Source(f) = mounted /\ ~Unreadable(f)
        BY <2>2, <3>3, <4>1, SourceIsMounted DEF Refuse, Goto
      <4>3. mounted \notin {NoFile, Torn}
        BY DEF TypeOK, OutsideOK, NoFile, Torn
      <4> QED
        BY <4>1, <4>2, <4>3
    <3> QED
      BY <2>6, <3>1, <3>2, <3>3 DEF ProcessStep
  <2>7. CASE Terminate
    BY <2>7 DEF Terminate
  <2> QED
    BY <2>3, <2>4, <2>5, <2>6, <2>7 DEF Next
<1>2. [GaveUp => Cause]_vars =>
        [(pc \in InStart \cup {"load"} /\ pc' = "down") =>
           notice \/ doomed \/ faults' # faults]_vars
  OBVIOUS
<1> QED
  BY <1>1, <1>2, PipelineInductive, PTL DEF Spec, FailsOnlyWhileOwed
-----------------------------------------------------------------------------
(* What EditsArrive comes to when the last edit is mounted.                 *)

\* The last edit is mounted, nobody has anything left to disturb it with, and
\* no reload is owed or under way.
Arrived == asked = MaxVersion /\ mounted = asked /\ faults = 0 /\ Settled

\* Only start() itself moves, or the process that reads its files.
LEMMA ArrivedStep ==
  ASSUME TypeOK, Arrived, [Next]_vars
  PROVE  /\ Arrived' /\ UNCHANGED faults
         /\ StartStep \/ ProcessStep \/ UNCHANGED pc
<1> USE DEF Arrived, Settled
<1>1. /\ asked = published /\ asked = mounted /\ asked = MaxVersion
      /\ faults = 0 /\ MaxVersion \in Nat
  BY ConstantsAssumption DEF TypeOK, OutsideOK, ConstantsAssumption
<1>2. ~Edit /\ ~Publish /\ ~Sync
  BY <1>1 DEF Edit, Publish, Sync
<1>3. ~Noise /\ ~RestartContainer /\ ~ReplacePod /\ ~StartFails /\ ~Die
  BY <1>1 DEF Noise, RestartContainer, ReplacePod, StartFails, Die, Fault
<1>4. ~Reload /\ ~Terminate
  BY DEF Reload, Terminate
<1>5. CASE StartStep
  BY <1>5 DEF StartStep, Lock, Probe, CopyEtc, List, Copy, CopyMissing, CopyDone, Unzip,
              Exec, outside
<1>6. CASE ProcessStep
  BY <1>6 DEF ProcessStep, Read, Refuse, Ready, outside
<1> QED
  BY <1>2, <1>3, <1>4, <1>5, <1>6 DEF Next, vars, outside

\* The last edit is served for good: a start that begins when it is mounted never
\* fails, whatever earlier starts have left in the scratch directory, and
\* once the process it leads to is ready, it has read every file of that
\* version, which it goes on to serve.  (EditsArrive adds that it begins.)
THEOREM ServedForGood ==
  Spec => [](Arrived /\ pc = "probe" =>
               [](/\ pc # "down"
                  /\ pc = "run" => \A f \in Contains(asked) : served[f] = asked))
<1> DEFINE GaveUp == pc \in InStart \cup {"load"} /\ pc' = "down"
           Cause  == notice \/ doomed \/ faults' # faults
           Start  == Arrived /\ pc = "probe"
           Rest   == Arrived /\ pc # "down"
           Served == /\ pc # "down"
                     /\ pc = "run" => \A f \in Contains(asked) : served[f] = asked
<1>1. Start => Rest
  OBVIOUS
<1>2. PipelineInv /\ Rest /\ [Next]_vars /\ [GaveUp => Cause]_vars => Rest'
  <2> SUFFICES ASSUME PipelineInv, Rest, [Next]_vars, [GaveUp => Cause]_vars
               PROVE  Rest'
    OBVIOUS
  <2>1. Arrived' /\ UNCHANGED faults /\ (StartStep \/ ProcessStep \/ UNCHANGED pc)
    BY ArrivedStep DEF PipelineInv
  <2>2. CASE UNCHANGED pc
    BY <2>1, <2>2
  <2>3. CASE pc' # pc /\ pc \in InStart \cup {"load"}
    <3>1. GaveUp => Cause
      BY <2>3 DEF vars
    <3> QED
      BY <2>1, <2>3, <3>1 DEF Arrived, Settled
  <2>4. CASE pc = "run"
    BY <2>1, <2>4 DEF StartStep, Lock, Probe, CopyEtc, List, Copy, CopyMissing, CopyDone,
                      Unzip, Exec, ProcessStep, Read, Wants, Refuse, Ready, Goto
  <2> QED
    BY <2>2, <2>3, <2>4 DEF PipelineInv, TypeOK, FilesOK, Process
<1>3. PipelineInv /\ Rest => Served
  BY DEF PipelineInv, WholeOrOwed, Arrived, Settled
<1>4. [(pc \in InStart \cup {"load"} /\ pc' = "down") =>
         notice \/ doomed \/ faults' # faults]_vars => [GaveUp => Cause]_vars
  OBVIOUS
<1>5. Spec => [](Start => []Served)
  <2> HIDE DEF GaveUp, Cause, Start, Rest, Served
  <2> QED
    BY <1>1, <1>2, <1>3, <1>4, PipelineInductive, SettledStartsSucceed, PTL
       DEF Spec, FailsOnlyWhileOwed
<1> QED
  BY <1>5
=============================================================================
