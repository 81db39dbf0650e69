----------------------------- MODULE FilePoller -----------------------------
(***************************************************************************)
(* pkg/filenotify/poller.go: the FileWatcher that the fluent-bit watcher   *)
(* uses with -poll, and when no inotify instance is to be had.             *)
(*                                                                         *)
(* One name is watched, that of a directory or of a plain file.  Add       *)
(* records it and starts a goroutine that polls it: each poll records it   *)
(* in the snapshot right, compares this with the previous one, left, swaps *)
(* the two and offers the differences on the events channel, which is not  *)
(* buffered.  Recording is not atomic: the item is examined, a directory   *)
(* is then listed, then each entry is examined, while other processes      *)
(* change it.                                                              *)
(***************************************************************************)
EXTENDS Integers, FiniteSets

CONSTANTS
  Names,        \* names of directory entries
  MaxStamp,     \* bound: times of modification 0..MaxStamp
  Goroutines,   \* the goroutines that Add can start, by number
  MaxFaults     \* bound: system calls that fail

ASSUME PollerConstants ==
  MaxStamp \in Nat /\ MaxFaults \in Nat /\ Goroutines \subseteq Nat \ {0}

VARIABLES
  item,      \* what the watched name leads to: a directory, a file, or Nil
  tree,      \* its entries: a function from names to files
  faults,    \* failures left
  adding,    \* the goroutine to be started by an Add under way, or NoAdd
  watched,   \* w.watches holds the name
  closed,    \* w.closed, and w.done is closed
  left,      \* each goroutine's snapshots
  right,
  todo,      \* entries listed and not yet examined
  out,       \* events not yet received, in the order of a map: any order
  pc

directory == <<item, tree>>
poller    == <<adding, watched, closed>>
polling   == <<left, right, todo, out, pc>>
vars      == <<directory, faults, poller, polling>>

-----------------------------------------------------------------------------
\* What os.FileInfo tells about a file, as far as checkChange looks at it: a
\* stamp stands for the time of modification and the size.
Files == [dir : BOOLEAN, mode : {"rw", "ro"}, stamp : 0..MaxStamp]
Nil   == [dir |-> FALSE, mode |-> "none", stamp |-> 0]

IsTree(t) == DOMAIN t \subseteq Names /\ \A n \in DOMAIN t : t[n] \in Files
NoEntries == [n \in {} |-> Nil]
With(t, n, f) == [m \in DOMAIN t \cup {n} |-> IF m = n THEN f ELSE t[m]]

\* recording: info is the FileInfo of the item, entries those inside.
IsRecording(r) == r.info \in Files \cup {Nil} /\ IsTree(r.entries)
Cleared == [info |-> Nil, entries |-> NoEntries]
NoAdd == 0

Entry(recording, n) ==
  IF n \in DOMAIN recording.entries THEN recording.entries[n] ELSE Nil

\* checkChange, with "none" for an empty operation.
\* Mutant: the time of modification is not compared.
checkChange_NoModTime(f1, f2) ==
  IF f1 = Nil /\ f2 # Nil THEN "Create"
  ELSE IF f1 # Nil /\ f2 = Nil THEN "Remove"
  ELSE IF ~f1.dir /\ ~f2.dir /\ f1.mode # f2.mode THEN "Chmod" ELSE "none"

checkChange(f1, f2) ==
  IF f1 = Nil /\ f2 # Nil THEN "Create"
  ELSE IF f1 # Nil /\ f2 = Nil THEN "Remove"
  ELSE IF f1.dir \/ f2.dir THEN "none"
  ELSE IF f1.mode # f2.mode THEN "Chmod"
  ELSE IF f1.stamp # f2.stamp THEN "Write" ELSE "none"

\* The events of checkForChanges: about the item itself when it came, went or
\* changed as a file does, else about the names of the snapshot of a directory
\* that has more of them.
Itself(l, r) == {[op |-> op, name |-> "."] : op \in {checkChange(l.info, r.info)} \ {"none"}}
Among(names, l, r) ==
  {e \in [op : {"Create", "Remove", "Chmod", "Write"}, name : names] :
     e.op = checkChange(Entry(l, e.name), Entry(r, e.name))}

\* Mutant: only the names of the earlier snapshot.
Differences_LeftOnly(l, r) ==
  IF Itself(l, r) # {} \/ ~l.info.dir THEN Itself(l, r)
  ELSE Among(DOMAIN l.entries, l, r)

Differences(l, r) ==
  LET names == IF Cardinality(DOMAIN r.entries) > Cardinality(DOMAIN l.entries)
               THEN DOMAIN r.entries ELSE DOMAIN l.entries
  IN  IF Itself(l, r) # {} \/ ~l.info.dir THEN Itself(l, r) ELSE Among(names, l, r)

Events == [op : {"Create", "Remove", "Chmod", "Write"}, name : Names \cup {"."}]

PCs == {"off", "tick", "open", "examine", "fail", "send", "done"}

PollerTypeOK ==
  /\ item \in Files \cup {Nil} /\ IsTree(tree) /\ faults \in 0..MaxFaults
  /\ adding \in Goroutines \cup {NoAdd}
  /\ watched \in BOOLEAN /\ closed \in BOOLEAN
  /\ \A g \in Goroutines : IsRecording(left[g]) /\ IsRecording(right[g])
  /\ todo \in [Goroutines -> SUBSET Names]
  /\ out \in [Goroutines -> SUBSET Events]
  /\ pc \in [Goroutines -> PCs]

\* The item exists when the watcher starts.
PollerInit(file, entries) ==
  /\ item = file /\ tree = entries /\ faults = MaxFaults
  /\ adding = NoAdd /\ watched = FALSE /\ closed = FALSE
  /\ left = [g \in Goroutines |-> Cleared]
  /\ right = [g \in Goroutines |-> Cleared]
  /\ todo = [g \in Goroutines |-> {}]
  /\ out = [g \in Goroutines |-> {}]
  /\ pc = [g \in Goroutines |-> "off"]

Goto(g, from, to) == pc[g] = from /\ pc' = [pc EXCEPT ![g] = to]

-----------------------------------------------------------------------------
(* record: the three kinds of system calls.                                 *)

\* The item is examined.  One that does not exist is recorded as such.
Stat(g) == right' = [right EXCEPT ![g] = [info |-> item, entries |-> NoEntries]]
AfterStat == IF item.dir THEN "open" ELSE "examine"

\* Open and Readdir list the names.  A directory that is gone by now is
\* recorded as an empty one; a file in its place is an error.
List(g) ==
  /\ item = Nil \/ item.dir
  /\ Goto(g, "open", "examine")
  /\ todo' = [todo EXCEPT ![g] = DOMAIN tree]
  /\ UNCHANGED <<directory, faults, poller, left, right, out>>

\* Readdir examines one listed entry, and skips it if it is gone by now.
\* Mutant: it is kept, without its FileInfo.
Examine_KeepsGone(g) ==
  /\ pc[g] = "examine"
  /\ \E n \in todo[g] :
       /\ todo' = [todo EXCEPT ![g] = @ \ {n}]
       /\ right' = [right EXCEPT ![g].entries = With(@, n, Entry([entries |-> tree], n))]
  /\ UNCHANGED <<directory, faults, poller, left, out, pc>>

Examine(g) ==
  /\ pc[g] = "examine"
  /\ \E n \in todo[g] :
       /\ todo' = [todo EXCEPT ![g] = @ \ {n}]
       /\ right' = IF n \in DOMAIN tree
                   THEN [right EXCEPT ![g].entries = With(@, n, tree[n])]
                   ELSE right
  /\ UNCHANGED <<directory, faults, poller, left, out, pc>>

Recorded(g) == pc[g] = "examine" /\ todo[g] = {}

\* A system call fails: Add returns the error, watch sends it.
Failed(g) ==
  IF adding = g
    THEN /\ pc' = [pc EXCEPT ![g] = "off"] /\ adding' = NoAdd
         /\ right' = [right EXCEPT ![g] = Cleared]
    ELSE pc' = [pc EXCEPT ![g] = "fail"] /\ UNCHANGED <<adding, right>>

ListFails(g) ==
  /\ pc[g] = "open" /\ item # Nil /\ ~item.dir
  /\ Failed(g)
  /\ UNCHANGED <<directory, faults, watched, closed, left, todo, out>>

\* Any other failure.
RecordFails(g) ==
  /\ faults > 0 /\ faults' = faults - 1
  /\ \/ pc[g] = "open" /\ Failed(g)
     \/ /\ Goto(g, "tick", "fail") /\ UNCHANGED adding
        /\ right' = [right EXCEPT ![g] = Cleared]
  /\ UNCHANGED <<directory, watched, closed, left, todo, out>>

-----------------------------------------------------------------------------
(* Add, Remove, Close: each under the mutex.                                *)

\* Add records the item, unless the poller is closed, the item is missing or
\* it is watched already, ...
Add(g) ==
  /\ adding = NoAdd /\ ~closed /\ item # Nil /\ ~watched
  /\ \A h \in Goroutines : h < g => pc[h] # "off"
  /\ adding' = g
  /\ Stat(g)
  /\ Goto(g, "off", AfterStat)
  /\ UNCHANGED <<directory, faults, watched, closed, left, todo, out>>

\* ... and starts to poll it.
Added(g) ==
  /\ adding = g /\ Recorded(g)
  /\ adding' = NoAdd /\ watched' = TRUE
  /\ left' = [left EXCEPT ![g] = right[g]]
  /\ right' = [right EXCEPT ![g] = Cleared]
  /\ pc' = [pc EXCEPT ![g] = "tick"]
  /\ UNCHANGED <<directory, faults, closed, todo, out>>

\* Remove forgets the name.  It does not reach the goroutine.
Remove ==
  /\ adding = NoAdd /\ ~closed /\ watched
  /\ watched' = FALSE
  /\ UNCHANGED <<directory, faults, adding, closed, polling>>

\* Close marks the poller closed before it removes the watches: each removal
\* is refused with errPollerClosed, and w.watches stays as it is.
Close ==
  /\ adding = NoAdd /\ ~closed
  /\ closed' = TRUE
  /\ UNCHANGED <<directory, faults, adding, watched, polling>>

-----------------------------------------------------------------------------
(* watch: one goroutine.                                                    *)

\* The ticker fires; record clears right and begins.
Poll(g) ==
  /\ Stat(g)
  /\ Goto(g, "tick", AfterStat)
  /\ UNCHANGED <<directory, faults, poller, left, todo, out>>

\* The snapshots are compared and swapped; what right holds now is cleared
\* before it is used again.
\* Mutant: they are not swapped.
Compare_NoSwap(g) ==
  /\ adding # g /\ Recorded(g)
  /\ Goto(g, "examine", "send")
  /\ out' = [out EXCEPT ![g] = Differences(left[g], right[g])]
  /\ UNCHANGED <<directory, faults, poller, left, right, todo>>

Compare(g) ==
  /\ adding # g /\ Recorded(g)
  /\ Goto(g, "examine", "send")
  /\ out' = [out EXCEPT ![g] = Differences(left[g], right[g])]
  /\ left' = [left EXCEPT ![g] = right[g]]
  /\ right' = [right EXCEPT ![g] = Cleared]
  /\ UNCHANGED <<directory, faults, poller, todo>>

\* Every difference has been received: wait for the ticker again.
Sent(g) ==
  /\ out[g] = {}
  /\ Goto(g, "send", "tick")
  /\ UNCHANGED <<directory, faults, poller, left, right, todo, out>>

\* The select of watch, sendErr or sendEvent finds done closed.
\* Mutant: sendEvent only sends.
Stop_UnlessSending(g) ==
  /\ closed
  /\ \E at \in {"tick", "fail"} : Goto(g, at, "done")
  /\ UNCHANGED <<directory, faults, poller, left, right, todo, out>>

Stop(g) ==
  /\ closed
  /\ \/ \E at \in {"tick", "fail"} : Goto(g, at, "done")
     \/ out[g] # {} /\ Goto(g, "send", "done")
  /\ out' = [out EXCEPT ![g] = {}]
  /\ UNCHANGED <<directory, faults, poller, left, right, todo>>

WatchStep(g) ==
  \/ Poll(g) \/ List(g) \/ ListFails(g) \/ Examine(g) \/ Compare(g) \/ Sent(g) \/ Stop(g)

-----------------------------------------------------------------------------
(* The other end of the channels.                                           *)

Receive(g, e) ==
  /\ pc[g] = "send" /\ e \in out[g]
  /\ out' = [out EXCEPT ![g] = @ \ {e}]
  /\ UNCHANGED <<directory, faults, poller, left, right, todo, pc>>

\* After the error the snapshots are swapped and nothing is compared.
ReceiveError(g) ==
  /\ Goto(g, "fail", "tick")
  /\ left' = [left EXCEPT ![g] = right[g]]
  /\ right' = [right EXCEPT ![g] = Cleared]
  /\ UNCHANGED <<directory, faults, poller, todo, out>>
=============================================================================
