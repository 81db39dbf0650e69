------------------------- MODULE ObjectCopiesProofs -------------------------
(***************************************************************************)
(* Complete deep copies keep the cache and the passes apart, whatever the  *)
(* types, and however many passes, objects and writes there are.           *)
(***************************************************************************)
EXTENDS ObjectCopies, TLAPS

\* What the generated functions have to achieve: every reference on the way to
\* a location is replaced.  For a kind of which this is not so a write through
\* the copy reaches the cache, which the run of ObjectCopies rules out.
Complete == \A k \in Kinds : Private[k] = Locations[k]

\* Then every write hits the copy it was made through, which is neither in the
\* cache nor shared.
Owned ==
    /\ kind \in Kinds
    /\ objects \in Nat /\ cached \in Nat /\ cached # 0 /\ cached <= objects
    /\ \A h \in Holders :
          /\ held[h].id \in Nat /\ held[h].id <= objects
          /\ held[h].id # cached
    /\ held \in [Holders -> [id : Nat, of : Nat]]
    /\ \A w \in written :
          /\ w.cell.object = w.by
          /\ w.by \in Nat /\ w.by <= objects /\ w.by # cached
          /\ w.cell.at \in Locations[kind]
    /\ \A w \in written : w = [cell |-> w.cell, by |-> w.by]

LEMMA OwnedInductive ==
    ASSUME Complete PROVE Spec => []Owned
<1>1. ASSUME Init PROVE Owned
    BY <1>1 DEF Init, Owned, Nothing
<1>2. ASSUME Owned, [Next]_vars PROVE Owned'
    <2> USE <1>2 DEF Owned
    <2>1. CASE Deliver
        BY <2>1 DEF Deliver
    <2>2. ASSUME NEW h \in Holders, Get(h) PROVE Owned'
        <3>1. written' = written
            BY <2>2 DEF Get
        <3> QED
            BY <2>2, <3>1 DEF Get
    <2>3. ASSUME NEW h \in Holders, NEW l \in Locations[kind], Write(h, l)
          PROVE  Owned'
        <3>1. Cell(h, l) = [object |-> held[h].id, at |-> l]
            BY Complete DEF Complete, Cell
        <3> QED
            BY <2>3, <3>1 DEF Write
    <2>4. ASSUME NEW h \in Holders, Release(h) PROVE Owned'
        BY <2>4 DEF Release, Nothing
    <2>5. CASE UNCHANGED vars
        BY <2>5 DEF vars
    <2> QED
        BY <1>2, <2>1, <2>2, <2>3, <2>4, <2>5 DEF Next
<1> QED
    BY <1>1, <1>2, PTL DEF Spec

\* With complete deep copies the cache always shows what the server has sent.
THEOREM CacheStaysIntact ==
    ASSUME Complete PROVE Spec => []CacheIntact
<1>1. Owned => CacheIntact
    BY DEF Owned, CacheIntact
<1> QED
    BY <1>1, OwnedInductive, PTL

\* ... and no pass ever sees what another one has written.
THEOREM PassesStayApart ==
    ASSUME Complete PROVE Spec => []OnlyOwnWrites
<1>1. Owned => OnlyOwnWrites
    BY Complete DEF Complete, Owned, OnlyOwnWrites, Cell
<1> QED
    BY <1>1, OwnedInductive, PTL
=============================================================================
