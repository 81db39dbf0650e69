-------------------------- MODULE ConfigPublisher --------------------------
(***************************************************************************)
(* What is promised of the Secrets with the configurations, with no cache, *)
(* queue, pass or patch in sight.                                          *)
(*                                                                         *)
(* Each config has inputs, which go through states 1, 2, ..., and a        *)
(* Secret, each file of which is rendered from states of some inputs.      *)
(* Nothing is rendered from a state that is still to come.  The files that *)
(* one write replaces are of one rendering; others may be left as they     *)
(* are, so that a Secret can be a mixture for a while.  With one manager   *)
(* no file is ever replaced by one that is older in any of its inputs.     *)
(***************************************************************************)
EXTENDS Integers

CONSTANTS Configs, Files, Inputs

VARIABLES
  now,        \* per config and input, the present state
  published,  \* per config, file and input, the state it shows; 0 without any
  alone       \* there is never a second manager

vars == <<now, published, alone>>

Init ==
  /\ now = [c \in Configs |-> [i \in Inputs |-> 1]]
  /\ published = [c \in Configs |-> [f \in Files |-> [i \in Inputs |-> 0]]]
  /\ alone \in BOOLEAN

Edit ==
  /\ now' \in [Configs -> [Inputs -> Nat]]
  /\ \A c \in Configs, i \in Inputs : now[c][i] <= now'[c][i]
  /\ UNCHANGED <<published, alone>>

\* Files of the Secret of c are replaced, or taken away.
Write(c) ==
  LET old  == published[c]
      new  == published'[c]
      sent == {f \in Files : new[f] # old[f]}
  IN
  /\ published' \in [Configs -> [Files -> [Inputs -> Nat]]]
  /\ \A d \in Configs \ {c} : published'[d] = published[d]
  /\ \A f \in sent, i \in Inputs : new[f][i] <= now[c][i]
  /\ \A f, g \in sent, i \in Inputs : new[f][i] \in {0, new[g][i]} \/ new[g][i] = 0
  /\ alone => \A f \in sent, i \in Inputs : new[f][i] = 0 \/ old[f][i] <= new[f][i]
  /\ UNCHANGED <<now, alone>>

Next == Edit \/ \E c \in Configs : Write(c)

Spec == Init /\ [][Next]_vars
=============================================================================
