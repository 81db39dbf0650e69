------------------------- MODULE ConfigReloadProofs -------------------------
(***************************************************************************)
(* What the abstract promise entails, for any number of versions.          *)
(***************************************************************************)
EXTENDS ConfigReload, TLAPS

\* The promise is worth its name: whoever keeps it serves the version that was
\* published last, unless a reload is owed, ordered or pointless.
THEOREM PromiseFresh == Spec => []Fresh
<1>1. Init => Fresh
  BY DEF Init, Fresh
<1>2. Fresh /\ [Next]_vars => Fresh'
  <2> SUFFICES ASSUME Fresh, [Next]_vars PROVE Fresh'
    OBVIOUS
  <2> USE DEF Fresh
  <2>1. CASE Publish \/ Announce \/ Close
    BY <2>1 DEF Publish, Announce, Close
  <2>2. CASE Settle
    BY <2>2 DEF Settle
  <2>3. CASE Load
    BY <2>3 DEF Load
  <2>4. CASE Retire \/ Renew
    BY <2>4 DEF Retire, Renew
  <2>5. CASE UNCHANGED vars
    BY <2>5 DEF vars
  <2> QED
    BY <2>1, <2>2, <2>3, <2>4, <2>5 DEF Next
<1> QED
  BY <1>1, <1>2, PTL DEF Spec
=============================================================================
