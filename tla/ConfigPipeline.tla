--------------------------- MODULE ConfigPipeline ---------------------------
(***************************************************************************)
(* From an edit to the files that Fluent Bit has read.  The operator       *)
(* publishes a Secret, the kubelet mounts it, and start() of               *)
(* cmd/fluent-bit-watcher/main.go prepares a process for it: a compressed  *)
(* fluent-bit.conf is decompressed into the scratch directory, and the     *)
(* files it refers to are copied beside it, one by one, while the volume   *)
(* may change underneath.  Fluent Bit then reads them one by one, too.     *)
(*                                                                         *)
(* The Secret, the volume and the notifications are each one variable      *)
(* here; FluentBitConfigController, ConfigVolume and FluentBitWatcher have *)
(* their steps.  What those leave out is the single file.                  *)
(***************************************************************************)
EXTENDS Integers

CONSTANTS
  MaxVersion,      \* bound: the users ask for versions 1..MaxVersion
  Compressed,      \* the versions whose fluent-bit.conf is gzip data
  Scripts,         \* keys of Lua scripts
  ScriptsOf,       \* the scripts that each version contains
  Suffixed,        \* the scripts whose key ends in .lua
  MaxFaults        \* bound: failed calls, crashes and superfluous events

Versions    == 0..MaxVersion
Main        == "fluent-bit.conf"
Parsers     == "parsers.conf"
ScratchMain == "fluent-bit.scratch.conf"

ASSUME ConstantsAssumption ==
  /\ MaxVersion \in Nat /\ MaxFaults \in Nat
  /\ Compressed \subseteq Versions
  /\ Scripts \cap {Main, Parsers, ScratchMain} = {}
  /\ ScriptsOf \in [Versions -> SUBSET Scripts]
  /\ Suffixed \subseteq Scripts

VARIABLES
  asked,      \* the version the users have asked for last
  published,  \* the version of the Secret
  mounted,    \* the version under /fluent-bit/config
  notice,     \* a reload is owed: an event waits, or the call of stop()
  custom,     \* -c names /fluent-bit/config/fluent-bit.conf
  pc,         \* the place in start(), or the life of the process
  zipped,     \* start()'s local: compressed
  todo,       \* CopyFilesWithFilter: names still to be copied
  scratch,    \* the files in /tmp/fluent-bit
  served,     \* what the process has read of each file
  doomed,     \* the process was sent SIGTERM
  faults      \* failures left

outside == <<asked, published, mounted, custom>>
vars == <<outside, notice, pc, zipped, todo, scratch, served, doomed, faults>>

-----------------------------------------------------------------------------
(* Files.  Their content is told by the version it is of.                   *)

NoFile == -1
Image  == -2   \* conf/*.conf of the image: includes its namesake of the volume
Torn   == -3   \* written in part

Files    == {Main, Parsers} \cup Scripts
Scratch  == Files \cup {ScratchMain}
Contents == Versions \cup {NoFile, Image, Torn}

Contains(v) == {Main, Parsers} \cup ScriptsOf[v]
Volume(f)   == IF f \in Contains(mounted) THEN mounted ELSE NoFile

\* Mutant: scripts only.
copyFilterfunc_LuaOnly(names) == names \cap Suffixed
copyFilterfunc(names) == names \cap ({Main, Parsers} \cup Suffixed)

\* What Fluent Bit finds under a name: relative to the file of its command
\* line for parsers.conf, absolute for a script.
Included(content, f) == IF content = Image THEN Volume(f) ELSE content

Source(f) ==
  Included(IF f \in Scripts THEN Volume(f)
           ELSE IF zipped THEN scratch[IF f = Main THEN ScratchMain ELSE f]
           ELSE IF custom THEN Volume(f) ELSE Image, f)

\* gzip data is no configuration.
Unreadable(f) == f = Main /\ ~zipped /\ mounted \in Compressed

InStart == {"probe", "etc", "list", "copy", "unzip", "exec"}
Process == {"load", "run"}

Init ==
  /\ asked = 0 /\ published = 0 /\ mounted = 0
  /\ notice = FALSE /\ custom \in BOOLEAN
  /\ pc = "down" /\ zipped = FALSE /\ todo = {}
  /\ scratch = [f \in Scratch |-> NoFile] /\ served = [f \in Files |-> NoFile]
  /\ doomed = FALSE /\ faults = MaxFaults

Fault == faults > 0 /\ faults' = faults - 1

-----------------------------------------------------------------------------
(* Outside the container.                                                   *)

Edit ==
  /\ asked < MaxVersion /\ asked' = asked + 1
  /\ UNCHANGED <<published, mounted, custom, notice, pc, zipped, todo, scratch,
                 served, doomed, faults>>

\* The FluentBitConfig controller may skip versions; it never goes back.
Publish ==
  /\ published' \in published + 1 .. asked
  /\ UNCHANGED <<asked, mounted, custom, notice, pc, zipped, todo, scratch,
                 served, doomed, faults>>

\* All files change at once.
Sync ==
  /\ mounted # published
  /\ mounted' = published /\ notice' = TRUE
  /\ UNCHANGED <<asked, published, custom, pc, zipped, todo, scratch, served,
                 doomed, faults>>

\* A Create or a Write of something that does not matter.
Noise ==
  /\ Fault /\ notice' = TRUE
  /\ UNCHANGED <<outside, pc, zipped, todo, scratch, served, doomed>>

\* stop(), which needs the mutex that start() holds.
\* Mutant: it does not take it.
Reload_NoMutex ==
  /\ notice /\ notice' = FALSE
  /\ doomed' \in BOOLEAN /\ (doomed' <=> pc \in Process)
  /\ UNCHANGED <<outside, pc, zipped, todo, scratch, served, faults>>

Reload ==
  /\ notice /\ pc \notin InStart
  /\ notice' = FALSE
  /\ doomed' \in BOOLEAN /\ (doomed' <=> pc \in Process)
  /\ UNCHANGED <<outside, pc, zipped, todo, scratch, served, faults>>

\* The container ends; a new one finds the scratch directory as it was, ...
RestartContainer ==
  /\ Fault
  /\ pc' = "down" /\ notice' = FALSE /\ doomed' = FALSE
  /\ UNCHANGED <<outside, zipped, todo, scratch, served>>

\* ... a new pod an empty one, and the Secret as it is now.
ReplacePod ==
  /\ Fault
  /\ pc' = "down" /\ notice' = FALSE /\ doomed' = FALSE
  /\ mounted' = published /\ scratch' = [f \in Scratch |-> NoFile]
  /\ UNCHANGED <<asked, published, custom, zipped, todo, served>>

-----------------------------------------------------------------------------
(* start(), between the end of a back-off and cmd.Start().                  *)

Goto(from, to) == pc = from /\ pc' = to

Lock ==
  /\ Goto("down", "probe")
  /\ UNCHANGED <<outside, notice, zipped, todo, scratch, served, doomed, faults>>

\* gziputil.IsCompressed looks at the first bytes of the mounted file.
Probe ==
  /\ zipped' = (mounted \in Compressed)
  /\ Goto("probe", IF zipped' THEN "etc" ELSE "exec")
  /\ UNCHANGED <<outside, notice, todo, scratch, served, doomed, faults>>

\* The files of the image, which never change.
\* Mutant: only with a configuration of one's own.
CopyEtc_CustomOnly ==
  /\ Goto("etc", IF custom THEN "list" ELSE "unzip")
  /\ scratch' = [f \in Scratch |->
                   IF custom /\ f \in copyFilterfunc({Main, Parsers})
                   THEN Image ELSE scratch[f]]
  /\ UNCHANGED <<outside, notice, zipped, todo, served, doomed, faults>>

CopyEtc ==
  /\ Goto("etc", IF custom THEN "list" ELSE "unzip")
  /\ scratch' = [f \in Scratch |->
                   IF f \in copyFilterfunc({Main, Parsers})
                   THEN Image ELSE scratch[f]]
  /\ UNCHANGED <<outside, notice, zipped, todo, served, doomed, faults>>

\* Readdir of the directory that holds the custom configuration.
List ==
  /\ Goto("list", "copy")
  /\ todo' = copyFilterfunc(Contains(mounted))
  /\ UNCHANGED <<outside, notice, zipped, scratch, served, doomed, faults>>

\* One file: once it is open, a swap of the volume does not touch it.
Copy(f) ==
  /\ pc = "copy" /\ f \in todo /\ Volume(f) # NoFile
  /\ scratch' = [scratch EXCEPT ![f] = mounted] /\ todo' = todo \ {f}
  /\ UNCHANGED <<outside, notice, pc, zipped, served, doomed, faults>>

\* A listed name is gone: start() returns.
CopyMissing ==
  /\ Goto("copy", "down")
  /\ \E f \in todo : Volume(f) = NoFile
  /\ UNCHANGED <<outside, notice, zipped, todo, scratch, served, doomed, faults>>

CopyDone ==
  /\ Goto("copy", "unzip") /\ todo = {}
  /\ UNCHANGED <<outside, notice, zipped, todo, scratch, served, doomed, faults>>

\* gziputil.Decompress: without a gzip header start() returns and nothing is
\* created.  Mutant: the error is not looked at.
Unzip_IgnoresError ==
  /\ Goto("unzip", "exec")
  /\ scratch' = IF mounted \in Compressed
                THEN [scratch EXCEPT ![ScratchMain] = mounted] ELSE scratch
  /\ UNCHANGED <<outside, notice, zipped, todo, served, doomed, faults>>

Unzip ==
  /\ Goto("unzip", IF mounted \in Compressed THEN "exec" ELSE "down")
  /\ scratch' = IF mounted \in Compressed
                THEN [scratch EXCEPT ![ScratchMain] = mounted] ELSE scratch
  /\ UNCHANGED <<outside, notice, zipped, todo, served, doomed, faults>>

Exec ==
  /\ Goto("exec", "load")
  /\ served' = [f \in Files |-> NoFile] /\ doomed' = FALSE
  /\ UNCHANGED <<outside, notice, zipped, todo, scratch, faults>>

\* The file that is being written when a call fails.
Writing ==
  CASE pc = "etc"   -> copyFilterfunc({Main, Parsers})
    [] pc = "copy"  -> todo
    [] pc = "unzip" -> {ScratchMain}
    [] OTHER        -> {}

\* Any error return; what was being written stays as it is.
StartFails ==
  /\ Fault /\ pc \in InStart /\ pc' = "down"
  /\ \/ UNCHANGED scratch
     \/ \E f \in Writing : scratch' = [scratch EXCEPT ![f] = Torn]
  /\ UNCHANGED <<outside, notice, zipped, todo, served, doomed>>

StartStep ==
  \/ Lock \/ Probe \/ CopyEtc \/ List \/ (\E f \in Files : Copy(f))
  \/ CopyMissing \/ CopyDone \/ Unzip \/ Exec

-----------------------------------------------------------------------------
(* The Fluent Bit process reads its main file, then what that refers to.    *)

Wants(f) ==
  /\ pc = "load" /\ served[f] = NoFile
  /\ f # Main => served[Main] \in Versions /\ f \in Contains(served[Main])

Read(f) ==
  /\ Wants(f) /\ Source(f) # NoFile /\ ~Unreadable(f)
  /\ served' = [served EXCEPT ![f] = Source(f)]
  /\ UNCHANGED <<outside, notice, pc, zipped, todo, scratch, doomed, faults>>

\* A file is missing, or makes no sense: the process ends.
Refuse ==
  /\ Goto("load", "down")
  /\ \E f \in Files : Wants(f) /\ (Source(f) \in {NoFile, Torn} \/ Unreadable(f))
  /\ doomed' = FALSE
  /\ UNCHANGED <<outside, notice, zipped, todo, scratch, served, faults>>

Ready ==
  /\ Goto("load", "run")
  /\ \A f \in Files : ~Wants(f)
  /\ UNCHANGED <<outside, notice, zipped, todo, scratch, served, doomed, faults>>

Terminate ==
  /\ pc \in Process /\ doomed
  /\ pc' = "down" /\ doomed' = FALSE
  /\ UNCHANGED <<outside, notice, zipped, todo, scratch, served, faults>>

Die ==
  /\ Fault /\ pc \in Process
  /\ pc' = "down" /\ doomed' = FALSE
  /\ UNCHANGED <<outside, notice, zipped, todo, scratch, served>>

ProcessStep == (\E f \in Files : Read(f)) \/ Refuse \/ Ready

-----------------------------------------------------------------------------
Next ==
  \/ Edit \/ Publish \/ Sync \/ Noise \/ Reload \/ RestartContainer \/ ReplacePod
  \/ StartStep \/ StartFails \/ ProcessStep \/ Terminate \/ Die

Spec == Init /\ [][Next]_vars

\* The controller, the kubelet and the watcher work; a process reads its
\* files, and ends after SIGTERM.
Fairness ==
  /\ WF_vars(Publish) /\ WF_vars(Sync) /\ WF_vars(Reload)
  /\ WF_vars(StartStep) /\ WF_vars(ProcessStep) /\ WF_vars(Terminate)

FairSpec == Spec /\ Fairness

-----------------------------------------------------------------------------
OutsideOK ==
  /\ asked \in Versions /\ published \in 0..asked /\ mounted \in 0..published
  /\ faults \in 0..MaxFaults

FlagsOK ==
  /\ notice \in BOOLEAN /\ custom \in BOOLEAN /\ doomed \in BOOLEAN
  /\ zipped \in BOOLEAN

FilesOK ==
  /\ pc \in InStart \cup Process \cup {"down"} /\ todo \subseteq Files
  /\ scratch \in [Scratch -> Contents] /\ served \in [Files -> Contents]
  /\ served[Main] \in Versions \cup {NoFile}

\* Every file has the content of some version, of the image or none, and no
\* process has a main file that was decompressed in part.
TypeOK == OutsideOK /\ FlagsOK /\ FilesOK

\* Unless a reload is owed or the process has been told to stop, all files
\* that a running Fluent Bit has read are of the mounted version, whichever of
\* them came through the scratch directory, and none is missing.
WholeOrOwed ==
  pc = "run" /\ ~notice /\ ~doomed =>
    \A f \in Contains(mounted) : served[f] = mounted

\* start() gives up, or Fluent Bit refuses its files, only when a call has
\* failed or a reload is owed: files that stay as they are do get served.
FailsOnlyWhileOwed ==
  [][(pc \in InStart \cup {"load"} /\ pc' = "down") =>
        notice \/ doomed \/ faults' # faults]_vars

\* In the end Fluent Bit runs, for good, on all files of what the users have
\* asked for last.
EditsArrive ==
  <>[](pc = "run" /\ \A f \in Contains(asked) : served[f] = asked)
=============================================================================
