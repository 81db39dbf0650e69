--------------------------- MODULE FluentBitProofs ---------------------------
(***************************************************************************)
(* Theorems about the FluentBit controller, for any names, specs, number   *)
(* of FluentBits, faults and events under way: its state keeps its types,  *)
(* and no dependent is made for a FluentBit that does not exist.           *)
(***************************************************************************)
EXTENDS FluentBitProperties, TLAPS

Labels == {Specs[n][i].labels : n \in FluentBits, i \in Nat}
Bodies == {Specs[n][i].body : n \in FluentBits, i \in Nat}
Texts == {""} \cup Labels \cup Bodies
Objects == [uid : Nat, labels : Texts, body : Texts, deleting : BOOLEAN,
            finalizer : BOOLEAN, at : Nat]

Deploying == {"getSecret", "createRole", "createServiceAccount", "createBinding",
              "getDaemonSet", "writeDaemonSet"}
TakingDown == {"deleteServiceAccount", "deleteDaemonSet", "removeFinalizer"}
PCs == {"idle", "addFinalizer"} \cup Deploying \cup TakingDown

\* What TypeOK leaves out: the fields of the records, and the DaemonSet that
\* a pass has read.
Shaped ==
    /\ cache \in [Kinds -> [FluentBits -> Objects]]
    /\ events \in [Kinds -> [FluentBits -> Seq(Objects)]]

PassShaped ==
    /\ pass \in [pc : PCs, name : {pass.name}, fb : Objects, base : Objects]
    /\ pass.pc # "idle" => /\ pass.name \in FluentBits
                          /\ ObjectOK("DaemonSet", pass.name, pass.base, uids)

Types == Shaped /\ PassShaped /\ TypeOK

-----------------------------------------------------------------------------
(* Objects.                                                                 *)

LEMMA NoneIsObject == None \in Objects /\ None.uid = 0 /\ ~None.finalizer /\ ~None.deleting
    BY DEF None, Objects, Texts

LEMMA SameFields ==
    ASSUME NEW x \in Objects, NEW y \in Objects, x.uid = y.uid, x.labels = y.labels,
           x.body = y.body, x.deleting = y.deleting, x.finalizer = y.finalizer,
           x.at = y.at
    PROVE  x = y
    BY DEF Objects

LEMMA FluentBitFields ==
    ASSUME NEW n \in FluentBits, NEW u \in Nat, NEW at \in Nat,
           NEW x, x = FluentBit(n, u, at)
    PROVE  /\ x \in Objects /\ x.uid = u /\ x.at = at
           /\ ~x.deleting /\ ~x.finalizer
<1>1. Specs[n][at].labels \in Labels
    BY DEF Labels
<1>2. Specs[n][at].body \in Bodies
    BY DEF Bodies
<1>5. Specs[n][at].labels \in Texts /\ Specs[n][at].body \in Texts
    BY <1>1, <1>2, Zenon DEF Texts
<1>3. x = [None EXCEPT !.uid = u, !.at = at, !.labels = Specs[n][at].labels,
                       !.body = Specs[n][at].body]
    BY DEF FluentBit
<1>4. \A l, b \in Texts :
          LET y == [None EXCEPT !.uid = u, !.at = at, !.labels = l, !.body = b]
          IN  /\ y \in Objects /\ y.uid = u /\ y.at = at
              /\ y.deleting = None.deleting /\ y.finalizer = None.finalizer
    BY NoneIsObject DEF Objects
<1> QED
    BY <1>3, <1>4, <1>5, NoneIsObject

\* The uid tells whether there is an object.
LEMMA UidTells ==
    ASSUME NEW m \in Nat, NEW k \in Kinds, NEW n, NEW x \in Objects, ObjectOK(k, n, x, m)
    PROVE  /\ x = None <=> x.uid = 0
           /\ x.uid \in 0 .. m
    BY NoneIsObject DEF ObjectOK, Objects

-----------------------------------------------------------------------------
(* What the cache has, and what it is going to have: the last one is the    *)
(* state of the server.                                                     *)

Places(k, n) == 0 .. Len(events[k][n])
Seen(k, n, i) == IF i = 0 THEN cache[k][n] ELSE events[k][n][i]

\* A step drops what was the past, ...
Moved(k, n) ==
    \E d \in Places(k, n) :
        /\ Len(events'[k][n]) = Len(events[k][n]) - d
        /\ \A i \in Places(k, n)' : Seen(k, n, i)' = Seen(k, n, i + d)

\* ... or adds a state.
Grown(k, n, x) ==
    /\ Len(events'[k][n]) = Len(events[k][n]) + 1
    /\ \A i \in Places(k, n) : Seen(k, n, i)' = Seen(k, n, i)
    /\ Seen(k, n, Len(events[k][n]))' = x

LEMMA LiveIsLast ==
    ASSUME Shaped, NEW k \in Kinds, NEW n \in FluentBits
    PROVE  /\ Live(k, n) = Seen(k, n, Len(events[k][n]))
           /\ Live(k, n) \in Objects
           /\ \A i \in Places(k, n) : Seen(k, n, i) \in Objects
           /\ Len(events[k][n]) \in Nat
<1>1. events[k][n] \in Seq(Objects) /\ cache[k][n] \in Objects
    BY DEF Shaped
<1>2. events[k][n] = <<>> <=> Len(events[k][n]) = 0
    BY <1>1
<1> QED
    BY <1>1, <1>2 DEF Live, Seen, Places

LEMMA SeenOK ==
    ASSUME Types, NEW k \in Kinds, NEW n \in FluentBits
    PROVE  /\ \A i \in Places(k, n) : ObjectOK(k, n, Seen(k, n, i), uids)
           /\ ObjectOK(k, n, Live(k, n), uids)
<1>1. events[k][n] \in Seq(Objects)
    BY DEF Types, Shaped
<1>2. \A i \in Places(k, n) : i = 0 \/ i \in DOMAIN events[k][n]
    BY <1>1 DEF Places
<1>3. \A i \in Places(k, n) : ObjectOK(k, n, Seen(k, n, i), uids)
    BY <1>2 DEF Types, TypeOK, ObjectsOK, Seen
<1>4. Live(k, n) = Seen(k, n, Len(events[k][n])) /\ Len(events[k][n]) \in Places(k, n)
    BY LiveIsLast DEF Types, Places
<1> QED
    BY <1>3, <1>4

LEMMA Unmoved ==
    ASSUME Shaped, NEW k \in Kinds, NEW n \in FluentBits,
           cache'[k][n] = cache[k][n], events'[k][n] = events[k][n]
    PROVE  Moved(k, n)
<1>1. Len(events[k][n]) \in Nat
    BY LiveIsLast
<1>2. 0 \in Places(k, n) /\ \A i \in Places(k, n)' : Seen(k, n, i)' = Seen(k, n, i + 0)
    BY <1>1 DEF Places, Seen
<1> QED
    BY <1>1, <1>2 DEF Moved

\* A write moves nothing, and adds a state of one object.
LEMMA PutEffect ==
    ASSUME Shaped, NEW k \in Kinds, NEW n \in FluentBits, NEW x \in Objects,
           UNCHANGED cache, Put(k, n, x), MaxPending \in Nat
    PROVE  /\ events' \in [Kinds -> [FluentBits -> Seq(Objects)]]
           /\ \A k2 \in Kinds, n2 \in FluentBits :
                 <<k2, n2>> # <<k, n>> => Moved(k2, n2) /\ events'[k2][n2] = events[k2][n2]
           /\ \/ UNCHANGED events /\ x = Live(k, n)
              \/ /\ Grown(k, n, x) /\ Len(events'[k][n]) <= MaxPending
                 /\ events'[k][n] = Append(events[k][n], x)
<1> USE DEF Shaped
<1>1. CASE x = Live(k, n)
    <2>1. UNCHANGED events
        BY <1>1 DEF Put
    <2> QED
        BY <1>1, <2>1, Unmoved
<1>2. CASE x # Live(k, n)
    <2>1. /\ Len(events[k][n]) < MaxPending
          /\ events' = [events EXCEPT ![k][n] = Append(@, x)]
        BY <1>2 DEF Put
    <2>2. events[k][n] \in Seq(Objects) /\ Len(events[k][n]) \in Nat
        OBVIOUS
    <2>3. events' \in [Kinds -> [FluentBits -> Seq(Objects)]]
        BY <2>1, <2>2
    <2>4. events'[k][n] = Append(events[k][n], x)
        BY <2>1
    <2>5. \A k2 \in Kinds, n2 \in FluentBits :
             <<k2, n2>> # <<k, n>> => events'[k2][n2] = events[k2][n2]
        BY <2>1
    <2>6. Grown(k, n, x)
        <3>1. Len(events'[k][n]) = Len(events[k][n]) + 1
            BY <2>2, <2>4
        <3>2. ASSUME NEW i \in Places(k, n) PROVE Seen(k, n, i)' = Seen(k, n, i)
            <4>1. i # 0 => events'[k][n][i] = events[k][n][i]
                BY <2>2, <2>4 DEF Places
            <4> QED
                BY <4>1 DEF Seen
        <3>3. Seen(k, n, Len(events[k][n]))' = x
            <4>1. events'[k][n][Len(events[k][n]) + 1] = x
                BY <2>2, <2>4
            <4> QED
                BY <2>2, <3>1, <4>1 DEF Seen
        <3> QED
            BY <3>1, <3>2, <3>3 DEF Grown
    <2>7. Len(events'[k][n]) <= MaxPending
        BY <2>1, <2>2, <2>4
    <2> QED
        BY <2>3, <2>4, <2>5, <2>6, <2>7, Unmoved
<1> QED
    BY <1>1, <1>2
-----------------------------------------------------------------------------
(* Types.                                                                   *)

\* What was known stays known.
LEMMA KnownLater ==
    ASSUME NEW k, NEW n, NEW x, NEW u \in Nat, NEW v \in Nat, u <= v, ObjectOK(k, n, x, u)
    PROVE  ObjectOK(k, n, x, v)
    BY DEF ObjectOK

\* A write of a known object.
LEMMA PutTypes ==
    ASSUME Types, NEW k \in Kinds, NEW n \in FluentBits, NEW x \in Objects,
           UNCHANGED cache, uids' \in Nat, uids <= uids', ObjectOK(k, n, x, uids'),
           Put(k, n, x)
    PROVE  /\ events' \in [Kinds -> [FluentBits -> Seq(Objects)]]
           /\ ObjectsOK'
<1>1. /\ cache \in [Kinds -> [FluentBits -> Objects]]
      /\ events \in [Kinds -> [FluentBits -> Seq(Objects)]]
      /\ ObjectsOK /\ uids \in Nat /\ MaxPending \in Nat
    BY ControllerAssumption DEF Types, Shaped, TypeOK, RestOK, ControllerAssumption
<1>2. /\ events' \in [Kinds -> [FluentBits -> Seq(Objects)]]
      /\ \A k2 \in Kinds, n2 \in FluentBits :
            <<k2, n2>> # <<k, n>> => events'[k2][n2] = events[k2][n2]
      /\ \/ UNCHANGED events
         \/ /\ events'[k][n] = Append(events[k][n], x)
            /\ Len(events'[k][n]) <= MaxPending
    BY <1>1, PutEffect DEF Types
<1>3. ASSUME NEW k2 \in Kinds, NEW n2 \in FluentBits
      PROVE  /\ ObjectOK(k2, n2, cache'[k2][n2], uids')
             /\ \A i \in DOMAIN events'[k2][n2] :
                    ObjectOK(k2, n2, events'[k2][n2][i], uids')
             /\ Len(events'[k2][n2]) <= MaxPending
    <2>1. /\ ObjectOK(k2, n2, cache[k2][n2], uids')
          /\ \A i \in DOMAIN events[k2][n2] : ObjectOK(k2, n2, events[k2][n2][i], uids')
          /\ Len(events[k2][n2]) <= MaxPending
        BY <1>1, KnownLater DEF ObjectsOK
    <2>2. CASE events'[k2][n2] = events[k2][n2]
        BY <2>1, <2>2
    <2>3. CASE k2 = k /\ n2 = n /\ events'[k][n] = Append(events[k][n], x)
        <3>1. events[k][n] \in Seq(Objects)
            BY <1>1
        <3>2. \A i \in DOMAIN events'[k][n] :
                 events'[k][n][i] = x \/ (i \in DOMAIN events[k][n]
                                          /\ events'[k][n][i] = events[k][n][i])
            BY <2>3, <3>1
        <3> QED
            BY <1>2, <2>1, <2>3, <3>1, <3>2
    <2> QED
        BY <1>2, <2>2, <2>3
<1> QED
    BY <1>2, <1>3 DEF ObjectsOK

LEMMA IdleTypes ==
    ASSUME pass' = Idle PROVE PassShaped' /\ PassOK'
    BY NoneIsObject DEF Idle, PassShaped, PassOK, PCs

LEMMA GotoTypes ==
    ASSUME PassShaped, PassOK, pass.pc # "idle", NEW q \in PCs,
           pass' = [pass EXCEPT !.pc = q], UNCHANGED uids
    PROVE  PassShaped' /\ PassOK'
<1>1. /\ pass'.pc = q /\ pass'.name = pass.name /\ pass'.fb = pass.fb
      /\ pass'.base = pass.base
      /\ pass' \in [pc : PCs, name : {pass.name}, fb : Objects, base : Objects]
    BY DEF PassShaped
<1> QED
    BY <1>1 DEF PassShaped, PassOK

LEMMA AgainTypes ==
    ASSUME Types, pass.pc # "idle", Again, UNCHANGED uids
    PROVE  PassShaped' /\ PassOK' /\ queue' \subseteq FluentBits
    BY IdleTypes DEF Again, Types, PassShaped, TypeOK, RestOK

LEMMA ReturnTypes ==
    ASSUME Types, Return
    PROVE  PassShaped' /\ PassOK' /\ queue' \subseteq FluentBits
    BY IdleTypes DEF Return, Types, TypeOK, RestOK

LEMMA TypesInit == Init => Types
<1> SUFFICES ASSUME Init PROVE Types
    OBVIOUS
<1>1. PassShaped /\ PassOK
    BY NoneIsObject DEF Init, Idle, PassShaped, PassOK, PCs
<1>2. Shaped
    BY NoneIsObject DEF Init, Shaped
<1>3. ObjectsOK
    BY ControllerAssumption DEF Init, ObjectsOK, ObjectOK, ControllerAssumption
<1>4. RestOK
    BY ControllerAssumption DEF Init, RestOK, ControllerAssumption
<1> QED
    BY <1>1, <1>2, <1>3, <1>4 DEF Types, TypeOK
-----------------------------------------------------------------------------
(* Writes of a FluentBit.                                                   *)

LEMMA LiveTypes ==
    ASSUME Types, NEW k \in Kinds, NEW n \in FluentBits
    PROVE  /\ uids \in Nat
           /\ Live(k, n) \in Objects /\ ObjectOK(k, n, Live(k, n), uids)
           /\ Live(k, n) = None <=> Live(k, n).uid = 0
           /\ Live(k, n).uid \in 0 .. uids
<1>1. uids \in Nat
    BY ControllerAssumption DEF ControllerAssumption, Types, TypeOK, RestOK
<1> QED
    BY <1>1, SeenOK, LiveIsLast, UidTells DEF Types

\* What a step may make of the FluentBit n: another state of it, which has the
\* marks of the last one, a new one, or none.
Rewrite(n, x) ==
    /\ Put("FluentBit", n, x) /\ UNCHANGED cache
    /\ x \in Objects /\ ObjectOK("FluentBit", n, x, uids')
    /\ \/ /\ UNCHANGED uids
          /\ x.uid = Live("FluentBit", n).uid
          /\ Live("FluentBit", n).deleting => x.deleting
          /\ Live("FluentBit", n).finalizer => x.finalizer
       \/ /\ uids' = uids + 1 /\ x.uid = uids'
          /\ Live("FluentBit", n).uid = 0 /\ ~x.finalizer /\ ~x.deleting
       \/ /\ UNCHANGED uids
          /\ x = None
          /\ \/ ~Live("FluentBit", n).finalizer
             \/ /\ pass.pc = "removeFinalizer" /\ pass.name = n
                /\ Live("FluentBit", n) = pass.fb

LEMMA FreshIsObject ==
    ASSUME NEW n \in FluentBits, NEW m \in Nat, NEW u \in 1 .. m,
           NEW at \in 1 .. Len(Specs[n])
    PROVE  /\ FluentBit(n, u, at) \in Objects
           /\ FluentBit(n, u, at) # None
           /\ ObjectOK("FluentBit", n, FluentBit(n, u, at), m)
           /\ FluentBit(n, u, at).uid = u /\ FluentBit(n, u, at).at = at
           /\ ~FluentBit(n, u, at).finalizer /\ ~FluentBit(n, u, at).deleting
<1> SUFFICES ASSUME NEW x, x = FluentBit(n, u, at)
             PROVE  /\ x \in Objects /\ x # None /\ ObjectOK("FluentBit", n, x, m)
                    /\ x.uid = u /\ x.at = at /\ ~x.finalizer /\ ~x.deleting
    BY Zenon
<1>1. at \in Nat /\ u \in Nat /\ u # 0
    OBVIOUS
<1>2. x \in Objects /\ x.uid = u /\ x.at = at /\ ~x.deleting /\ ~x.finalizer
    BY <1>1, FluentBitFields
<1>3. [x EXCEPT !.deleting = FALSE, !.finalizer = FALSE] = x
    BY <1>2 DEF Objects
<1> QED
    BY <1>1, <1>2, <1>3, NoneIsObject DEF ObjectOK

\* A FluentBit that is known, with other marks.
LEMMA MarkedAgain ==
    ASSUME NEW n \in FluentBits, NEW m \in Nat, NEW x \in Objects, x # None,
           ObjectOK("FluentBit", n, x, m),
           NEW d \in BOOLEAN, NEW f \in BOOLEAN, d => f,
           NEW y \in Objects, y.uid = x.uid, y.at = x.at, y.labels = x.labels,
           y.body = x.body, y.deleting = d, y.finalizer = f
    PROVE  ObjectOK("FluentBit", n, y, m)
<1>1. [y EXCEPT !.deleting = FALSE, !.finalizer = FALSE] =
      [x EXCEPT !.deleting = FALSE, !.finalizer = FALSE]
    BY DEF Objects
<1> QED
    BY <1>1 DEF ObjectOK

MarkSet == [uid : Nat, deleting : BOOLEAN, finalizer : BOOLEAN]

LEMMA SameMarks ==
    ASSUME NEW a \in MarkSet, NEW b \in MarkSet, a.uid = b.uid, a.deleting = b.deleting,
           a.finalizer = b.finalizer
    PROVE  a = b
    BY DEF MarkSet

LEMMA OtherMark ==
    ASSUME NEW x \in Objects, NEW y \in Objects, y.uid = x.uid
    PROVE  /\ y.deleting = x.deleting /\ y.finalizer = TRUE
                => Marks(y) = [Marks(x) EXCEPT !.finalizer = TRUE]
           /\ y.deleting = TRUE /\ y.finalizer = x.finalizer
                => Marks(y) = [Marks(x) EXCEPT !.deleting = TRUE]
<1>1. /\ Marks(x) \in MarkSet /\ Marks(x).uid = x.uid
      /\ Marks(x).deleting = x.deleting /\ Marks(x).finalizer = x.finalizer
      /\ Marks(y) \in MarkSet /\ Marks(y).uid = y.uid
      /\ Marks(y).deleting = y.deleting /\ Marks(y).finalizer = y.finalizer
    BY DEF Marks, Objects, MarkSet
<1>2. ASSUME NEW a \in MarkSet, NEW b, b = [a EXCEPT !.finalizer = TRUE],
             NEW c, c = [a EXCEPT !.deleting = TRUE]
      PROVE  /\ b \in MarkSet /\ b.uid = a.uid /\ b.deleting = a.deleting
             /\ b.finalizer = TRUE
             /\ c \in MarkSet /\ c.uid = a.uid /\ c.finalizer = a.finalizer
             /\ c.deleting = TRUE
    BY <1>2 DEF MarkSet
<1>3. PICK b, c : /\ b = [Marks(x) EXCEPT !.finalizer = TRUE]
                  /\ c = [Marks(x) EXCEPT !.deleting = TRUE]
    OBVIOUS
<1>4. /\ b \in MarkSet /\ b.uid = x.uid /\ b.deleting = x.deleting /\ b.finalizer = TRUE
      /\ c \in MarkSet /\ c.uid = x.uid /\ c.finalizer = x.finalizer /\ c.deleting = TRUE
    BY <1>1, <1>2, <1>3
<1> QED
    BY <1>1, <1>3, <1>4, SameMarks

LEMMA CreateEffect ==
    ASSUME Types, NEW n \in FluentBits, CreateFluentBit(n)
    PROVE  \E x : Rewrite(n, x)
<1> DEFINE x == FluentBit(n, uids', 1)
<1>1. uids' = uids + 1 /\ uids \in Nat /\ uids' \in 1 .. uids' /\ uids' \in Nat
    BY LiveTypes DEF CreateFluentBit, Kinds
<1>2. 1 \in 1 .. Len(Specs[n])
    <2>1. Specs[n] \in Seq([labels : STRING, body : STRING]) /\ Specs[n] # <<>>
        BY ControllerAssumption DEF ControllerAssumption
    <2> QED
        BY <2>1
<1>3. /\ x \in Objects /\ ObjectOK("FluentBit", n, x, uids')
      /\ x.uid = uids' /\ ~x.finalizer /\ ~x.deleting
    BY <1>1, <1>2, FreshIsObject
<1>4. Live("FluentBit", n).uid = 0
    BY NoneIsObject DEF CreateFluentBit
<1>5. Put("FluentBit", n, x) /\ UNCHANGED cache
    BY DEF CreateFluentBit
<1> QED
    BY <1>1, <1>3, <1>4, <1>5 DEF Rewrite

LEMMA EditEffect ==
    ASSUME Types, NEW n \in FluentBits, EditFluentBit(n)
    PROVE  \E x : Rewrite(n, x) /\ Marks(x) = Marks(Live("FluentBit", n))
<1> DEFINE fb == Live("FluentBit", n)
           y == FluentBit(n, fb.uid, fb.at + 1)
           x == [y EXCEPT !.deleting = fb.deleting, !.finalizer = fb.finalizer]
<1>1. /\ uids \in Nat /\ fb \in Objects /\ fb # None
      /\ fb.uid \in 1 .. uids /\ fb.at \in 1 .. Len(Specs[n])
      /\ fb.deleting => fb.finalizer
    BY LiveTypes DEF EditFluentBit, ObjectOK, Kinds
<1>2. fb.at + 1 \in 1 .. Len(Specs[n])
    BY <1>1 DEF EditFluentBit
<1>3. /\ y \in Objects /\ y.uid = fb.uid /\ y.at = fb.at + 1 /\ y # None
      /\ ObjectOK("FluentBit", n, y, uids)
    BY <1>1, <1>2, FreshIsObject
<1>4. fb.deleting \in BOOLEAN /\ fb.finalizer \in BOOLEAN
    BY <1>1 DEF Objects
<1>5. /\ x \in Objects /\ ObjectOK("FluentBit", n, x, uids)
      /\ x.uid = fb.uid /\ x.deleting = fb.deleting /\ x.finalizer = fb.finalizer
    <2> HIDE DEF y, fb
    <2>1. /\ x \in Objects /\ x.uid = y.uid /\ x.at = y.at /\ x.labels = y.labels
          /\ x.body = y.body /\ x.deleting = fb.deleting /\ x.finalizer = fb.finalizer
        BY <1>3, <1>4 DEF Objects
    <2>2. ObjectOK("FluentBit", n, x, uids)
        BY <1>1, <1>3, <1>4, <2>1, MarkedAgain
    <2> QED
        BY <1>3, <2>1, <2>2
<1>6. Put("FluentBit", n, x) /\ UNCHANGED <<cache, uids>>
    BY DEF EditFluentBit, server
<1>7. Rewrite(n, x)
    BY <1>5, <1>6 DEF Rewrite
<1>8. Marks(x) = Marks(fb)
    BY <1>5 DEF Marks
<1> QED
    BY <1>7, <1>8

LEMMA DeleteEffect ==
    ASSUME Types, NEW n \in FluentBits, DeleteFluentBit(n)
    PROVE  \E x : /\ Rewrite(n, x) /\ UNCHANGED uids /\ Live("FluentBit", n).uid # 0
                  /\ Marks(x) = IF Live("FluentBit", n).finalizer
                                  THEN [Marks(Live("FluentBit", n)) EXCEPT !.deleting = TRUE]
                                  ELSE Marks(None)
<1> DEFINE fb == Live("FluentBit", n)
           y == [fb EXCEPT !.deleting = TRUE]
<1>1. /\ uids \in Nat /\ fb \in Objects /\ fb # None /\ fb.uid # 0
      /\ ObjectOK("FluentBit", n, fb, uids)
    BY LiveTypes DEF DeleteFluentBit, Kinds
<1>2. UNCHANGED <<cache, uids>>
    BY DEF DeleteFluentBit, server
<1>3. CASE fb.finalizer
    <2>1. /\ y \in Objects /\ y.uid = fb.uid /\ y.at = fb.at /\ y.labels = fb.labels
          /\ y.body = fb.body /\ y.deleting = TRUE /\ y.finalizer = TRUE
        <3> HIDE DEF fb
        <3> QED
            BY <1>1, <1>3 DEF Objects
    <2>2. ObjectOK("FluentBit", n, y, uids)
        BY <1>1, <2>1, MarkedAgain
    <2>3. Put("FluentBit", n, y)
        BY <1>3 DEF DeleteFluentBit
    <2>4. Marks(y) = [Marks(fb) EXCEPT !.deleting = TRUE]
        <3> HIDE DEF fb, y
        <3> QED
            BY <1>1, <1>3, <2>1, OtherMark
    <2>5. Rewrite(n, y)
        BY <1>2, <2>1, <2>2, <2>3 DEF Rewrite
    <2> QED
        BY <1>1, <1>2, <1>3, <2>4, <2>5
<1>4. CASE ~fb.finalizer
    <2>1. Put("FluentBit", n, None)
        BY <1>4 DEF DeleteFluentBit
    <2>2. Rewrite(n, None)
        BY <1>2, <1>4, <2>1, NoneIsObject DEF Rewrite, ObjectOK
    <2> QED
        BY <1>1, <1>2, <1>4, <2>2
<1> QED
    BY <1>3, <1>4

LEMMA AddEffect ==
    ASSUME Types, AddFinalizer
    PROVE  \/ Again /\ UNCHANGED <<cache, events, uids>>
           \/ /\ Return /\ Live("FluentBit", pass.name) = pass.fb
              /\ \E x : /\ Rewrite(pass.name, x) /\ UNCHANGED uids
                        /\ Marks(x) = [Marks(pass.fb) EXCEPT !.finalizer = TRUE]
<1> DEFINE n == pass.name
           y == [pass.fb EXCEPT !.finalizer = TRUE]
<1>1. n \in FluentBits /\ UNCHANGED <<cache, uids>>
    BY DEF AddFinalizer, At, Types, PassShaped, server
<1>2. CASE Live("FluentBit", n) = pass.fb
    <2>1. /\ uids \in Nat /\ pass.fb \in Objects /\ pass.fb # None
          /\ ObjectOK("FluentBit", n, pass.fb, uids)
        BY <1>1, <1>2, LiveTypes DEF Types, TypeOK, PassOK, AddFinalizer, At, Kinds
    <2>2. /\ y \in Objects /\ y.uid = pass.fb.uid /\ y.at = pass.fb.at
          /\ y.labels = pass.fb.labels /\ y.body = pass.fb.body
          /\ y.deleting = pass.fb.deleting /\ y.finalizer = TRUE
          /\ pass.fb.deleting \in BOOLEAN
        BY <2>1 DEF Objects
    <2>3. ObjectOK("FluentBit", n, y, uids)
        BY <1>1, <2>1, <2>2, MarkedAgain
    <2>4. Put("FluentBit", n, y) /\ Return
        BY <1>2 DEF AddFinalizer, UpdateFluentBit
    <2>5. Rewrite(n, y)
        BY <1>1, <1>2, <2>2, <2>3, <2>4 DEF Rewrite
    <2>6. Marks(y) = [Marks(pass.fb) EXCEPT !.finalizer = TRUE]
        <3> HIDE DEF y
        <3> QED
            BY <2>1, <2>2, OtherMark
    <2> QED
        BY <1>1, <1>2, <2>4, <2>5, <2>6
<1>3. CASE Live("FluentBit", n) # pass.fb
    BY <1>1, <1>3 DEF AddFinalizer, UpdateFluentBit
<1> QED
    BY <1>2, <1>3

LEMMA RemoveEffect ==
    ASSUME Types, RemoveFinalizer
    PROVE  \/ Again /\ UNCHANGED <<cache, events, uids>>
           \/ /\ Return /\ Live("FluentBit", pass.name) = pass.fb
              /\ Rewrite(pass.name, None) /\ UNCHANGED uids
<1>1. pass.name \in FluentBits /\ UNCHANGED <<cache, uids>>
    BY DEF RemoveFinalizer, At, Types, PassShaped, server
<1>2. CASE Live("FluentBit", pass.name) = pass.fb
    <2>1. Put("FluentBit", pass.name, None) /\ Return
        BY <1>2 DEF RemoveFinalizer, UpdateFluentBit
    <2>2. pass.pc = "removeFinalizer"
        BY DEF RemoveFinalizer, At
    <2> QED
        BY <1>1, <1>2, <2>1, <2>2, NoneIsObject DEF Rewrite, ObjectOK
<1>3. CASE Live("FluentBit", pass.name) # pass.fb
    BY <1>1, <1>3 DEF RemoveFinalizer, UpdateFluentBit
<1> QED
    BY <1>2, <1>3
-----------------------------------------------------------------------------
(* Writes of a dependent.                                                   *)

DependentWrite(k, n, x) ==
    /\ Put(k, n, x) /\ UNCHANGED <<cache, uids>>
    /\ x \in Objects /\ ObjectOK(k, n, x, uids)

LEMMA RemovalEffect ==
    ASSUME NEW k, NEW n, Put(k, n, None), UNCHANGED <<cache, uids>>
    PROVE  DependentWrite(k, n, None)
    BY NoneIsObject DEF DependentWrite, ObjectOK

LEMMA PassObjects ==
    ASSUME Types, pass.pc # "idle"
    PROVE  /\ pass.name \in FluentBits /\ uids \in Nat
           /\ pass.fb \in Objects /\ pass.fb.uid \in 1 .. uids
           /\ ObjectOK("FluentBit", pass.name, pass.fb, uids)
           /\ pass.base \in Objects
           /\ ObjectOK("DaemonSet", pass.name, pass.base, uids)
           /\ pass.base = None <=> pass.base.uid = 0
<1>1. uids \in Nat
    BY ControllerAssumption DEF ControllerAssumption, Types, TypeOK, RestOK
<1>2. pass.base \in Objects /\ ObjectOK("DaemonSet", pass.name, pass.base, uids)
    BY DEF Types, PassShaped
<1>3. pass.base = None <=> pass.base.uid = 0
    BY <1>1, <1>2, UidTells DEF Kinds
<1>4. pass.fb \in Objects /\ ObjectOK("FluentBit", pass.name, pass.fb, uids) /\ pass.fb # None
    BY DEF Types, PassShaped, TypeOK, PassOK
<1> QED
    BY <1>1, <1>2, <1>3, <1>4 DEF Types, PassShaped, ObjectOK

LEMMA AccountEffect ==
    ASSUME Types, CreateServiceAccount
    PROVE  \/ UNCHANGED <<cache, events, uids>>
           \/ /\ Live("ServiceAccount", pass.name) = None
              /\ \E x : DependentWrite("ServiceAccount", pass.name, x) /\ x.uid = pass.fb.uid
<1> DEFINE x == ServiceAccount(pass.fb.uid)
<1>1. pass.fb.uid \in 1 .. uids /\ uids \in Nat
    BY PassObjects DEF CreateServiceAccount, At
<1>2. /\ x \in Objects /\ x.uid = pass.fb.uid
      /\ x.deleting = None.deleting /\ x.finalizer = None.finalizer /\ x.at = None.at
      /\ x.labels = None.labels /\ x.body = None.body
    BY <1>1, NoneIsObject DEF ServiceAccount, Objects
<1>3. None.at = 0 /\ None.labels = "" /\ None.body = ""
    BY DEF None
<1>4. Plain("ServiceAccount", x)
    BY <1>2, <1>3 DEF Plain
<1>5. ObjectOK("ServiceAccount", pass.name, x, uids)
    BY <1>1, <1>2, <1>3, <1>4, NoneIsObject DEF ObjectOK
<1>6. UNCHANGED <<cache, uids>>
    BY DEF CreateServiceAccount, server
<1>7. CASE Live("ServiceAccount", pass.name) = None
    <2>1. Put("ServiceAccount", pass.name, x)
        BY <1>7 DEF CreateServiceAccount
    <2> QED
        BY <1>2, <1>5, <1>6, <1>7, <2>1 DEF DependentWrite
<1>8. CASE Live("ServiceAccount", pass.name) # None
    BY <1>6, <1>8 DEF CreateServiceAccount
<1> QED
    BY <1>7, <1>8

\* The uid of a DaemonSet is that of the pass's FluentBit, or it is kept when
\* the one read had that already.
LEMMA DaemonSetEffect ==
    ASSUME Types, WriteDaemonSet
    PROVE  \/ Again /\ UNCHANGED <<cache, events, uids>>
           \/ /\ Return
              /\ \E x : /\ DependentWrite("DaemonSet", pass.name, x)
                        /\ \/ x.uid = pass.fb.uid
                           \/ /\ pass.base.uid = pass.fb.uid
                              /\ x.uid = Live("DaemonSet", pass.name).uid
                        /\ Live("DaemonSet", pass.name).uid # 0 \/ x.uid = pass.fb.uid
<1> DEFINE live == Live("DaemonSet", pass.name)
           want == MakeDaemonSet(pass.fb)
           new  == IF pass.base = None THEN want ELSE Patched(live, pass.base, want)
           refused == \/ (pass.base = None) # (live = None)
                      \/ live # None /\ live.labels # new.labels
<1>1. /\ pass.fb \in Objects /\ pass.fb.uid \in 1 .. uids /\ uids \in Nat
      /\ pass.base \in Objects /\ pass.name \in FluentBits
    BY PassObjects DEF WriteDaemonSet, At
<1>2. /\ live \in Objects /\ ObjectOK("DaemonSet", pass.name, live, uids)
      /\ live = None <=> live.uid = 0
    BY <1>1, LiveTypes DEF Kinds
<1>3. /\ want \in Objects /\ want.uid = pass.fb.uid /\ ~want.deleting
      /\ ~want.finalizer /\ want.at = 0
    <2>1. None.at = 0
        BY DEF None
    <2> QED
        BY <1>1, <2>1, NoneIsObject DEF MakeDaemonSet, Objects
<1>4. UNCHANGED <<cache, uids>>
    BY DEF WriteDaemonSet, server
<1>5. CASE refused
    BY <1>4, <1>5 DEF WriteDaemonSet
<1>6. CASE ~refused
    <2>1. Put("DaemonSet", pass.name, new) /\ Return
        BY <1>6 DEF WriteDaemonSet
    <2>2. CASE pass.base = None
        <3>1. new = want
            BY <2>2
        <3>2. ObjectOK("DaemonSet", pass.name, want, uids)
            BY <1>1, <1>3 DEF ObjectOK, Plain
        <3> HIDE DEF want, new
        <3> QED
            BY <1>3, <1>4, <2>1, <3>1, <3>2 DEF DependentWrite
    <2>3. CASE pass.base # None
        <3>1. live # None
            BY <1>6, <2>3
        <3>2. /\ ~live.deleting /\ ~live.finalizer /\ live.at = 0 /\ live.uid \in 1 .. uids
            BY <1>2, <3>1 DEF ObjectOK
        <3>3. new = Patched(live, pass.base, want)
            BY <2>3
        <3> HIDE DEF live, want, new
        <3>4. /\ new \in Objects /\ ~new.deleting /\ ~new.finalizer /\ new.at = 0
              /\ new.uid = IF pass.base.uid = want.uid THEN live.uid ELSE want.uid
            BY <1>1, <1>2, <1>3, <3>2, <3>3 DEF Patched, Objects
        <3>5. new.uid \in 1 .. uids
            BY <1>1, <1>3, <3>2, <3>4
        <3>6. ObjectOK("DaemonSet", pass.name, new, uids)
            BY <3>4, <3>5 DEF ObjectOK, Plain
        <3>7. DependentWrite("DaemonSet", pass.name, new)
            BY <1>4, <2>1, <3>4, <3>6 DEF DependentWrite
        <3> QED
            BY <1>2, <1>3, <2>1, <3>1, <3>4, <3>7 DEF live
    <2> QED
        BY <2>2, <2>3
<1> QED
    BY <1>5, <1>6
-----------------------------------------------------------------------------
(* Every step keeps the types.                                              *)

LEMMA QuietTypes ==
    ASSUME Types, UNCHANGED <<cache, events, uids>>
    PROVE  Shaped' /\ ObjectsOK'
    BY DEF Types, TypeOK, Shaped, ObjectsOK

LEMMA PassKept ==
    ASSUME Types, UNCHANGED pass, uids' \in Nat, uids <= uids'
    PROVE  PassShaped' /\ PassOK'
<1>1. uids \in Nat
    BY ControllerAssumption DEF ControllerAssumption, Types, TypeOK, RestOK
<1> QED
    BY <1>1, KnownLater DEF Types, TypeOK, PassShaped, PassOK

LEMMA RewriteTypes ==
    ASSUME Types, NEW n \in FluentBits, NEW x, Rewrite(n, x)
    PROVE  Shaped' /\ ObjectsOK' /\ uids' \in Nat /\ uids <= uids'
<1>1. uids \in Nat /\ uids' \in Nat /\ uids <= uids'
    BY ControllerAssumption DEF ControllerAssumption, Types, TypeOK, RestOK, Rewrite
<1>2. events' \in [Kinds -> [FluentBits -> Seq(Objects)]] /\ ObjectsOK'
    BY <1>1, PutTypes DEF Rewrite, Kinds
<1> QED
    BY <1>1, <1>2 DEF Rewrite, Types, Shaped

LEMMA WriteTypes ==
    ASSUME Types, NEW k \in Kinds, NEW n \in FluentBits, NEW x, DependentWrite(k, n, x)
    PROVE  Shaped' /\ ObjectsOK'
<1>1. uids \in Nat /\ uids' \in Nat /\ uids <= uids'
    BY ControllerAssumption
       DEF ControllerAssumption, Types, TypeOK, RestOK, DependentWrite
<1>2. events' \in [Kinds -> [FluentBits -> Seq(Objects)]] /\ ObjectsOK'
    BY <1>1, PutTypes DEF DependentWrite
<1> QED
    BY <1>1, <1>2 DEF DependentWrite, Types, Shaped

LEMMA UsersKeepTypes ==
    ASSUME Types, NEW n \in FluentBits,
           CreateFluentBit(n) \/ EditFluentBit(n) \/ DeleteFluentBit(n)
    PROVE  Types'
<1>1. PICK x : Rewrite(n, x)
    BY CreateEffect, EditEffect, DeleteEffect
<1>2. Shaped' /\ ObjectsOK' /\ uids' \in Nat /\ uids <= uids'
    BY <1>1, RewriteTypes
<1>3. UNCHANGED pass
    BY DEF CreateFluentBit, EditFluentBit, DeleteFluentBit
<1>4. PassShaped' /\ PassOK'
    BY <1>2, <1>3, PassKept
<1>5. RestOK'
    BY ControllerAssumption DEF ControllerAssumption, Types, TypeOK, RestOK,
       CreateFluentBit, EditFluentBit, DeleteFluentBit, server
<1> QED
    BY <1>2, <1>4, <1>5 DEF Types, TypeOK

LEMMA SecretsKeepTypes ==
    ASSUME Types, NEW n \in FluentBits, MakeSecret(n) \/ LoseSecret(n) \/ DeliverSecret(n)
    PROVE  Types'
<1>1. UNCHANGED <<cache, events, uids, pass>>
    BY DEF MakeSecret, LoseSecret, DeliverSecret, server
<1>2. uids \in Nat
    BY ControllerAssumption DEF ControllerAssumption, Types, TypeOK, RestOK
<1>3. RestOK'
    BY ControllerAssumption DEF ControllerAssumption, Types, TypeOK, RestOK,
       MakeSecret, LoseSecret, DeliverSecret, server
<1> QED
    BY <1>1, <1>2, <1>3, QuietTypes, PassKept DEF Types, TypeOK

LEMMA OthersKeepTypes ==
    ASSUME Types, NEW n \in FluentBits, NEW k \in Kinds, Tamper(k, n) \/ CollectGarbage(k, n)
    PROVE  Types'
<1>1. DependentWrite(k, n, None)
    BY RemovalEffect DEF Tamper, CollectGarbage, server
<1>2. UNCHANGED <<pass, uids>> /\ uids \in Nat
    BY ControllerAssumption DEF ControllerAssumption, Types, TypeOK, RestOK,
       Tamper, CollectGarbage, server
<1>3. RestOK'
    BY ControllerAssumption DEF ControllerAssumption, Types, TypeOK, RestOK,
       Tamper, CollectGarbage, server
<1> QED
    BY <1>1, <1>2, <1>3, WriteTypes, PassKept DEF Types, TypeOK

LEMMA DeliverKeepsTypes ==
    ASSUME Types, NEW n \in FluentBits, NEW k \in Kinds, Deliver(k, n)
    PROVE  Types'
<1>1. UNCHANGED <<pass, uids>> /\ uids \in Nat
    BY ControllerAssumption DEF ControllerAssumption, Types, TypeOK, RestOK,
       Deliver, server
<1>2. /\ events[k][n] \in Seq(Objects) /\ events[k][n] # <<>>
      /\ cache' = [cache EXCEPT ![k][n] = Head(events[k][n])]
      /\ events' = [events EXCEPT ![k][n] = Tail(events[k][n])]
    BY DEF Deliver, Types, Shaped
<1>3. /\ Head(events[k][n]) = events[k][n][1] /\ 1 \in DOMAIN events[k][n]
      /\ Head(events[k][n]) \in Objects /\ Tail(events[k][n]) \in Seq(Objects)
      /\ Len(Tail(events[k][n])) = Len(events[k][n]) - 1
      /\ \A i \in DOMAIN Tail(events[k][n]) :
            i + 1 \in DOMAIN events[k][n] /\ Tail(events[k][n])[i] = events[k][n][i + 1]
    BY <1>2
<1>4. Shaped'
    BY <1>2, <1>3 DEF Types, Shaped
<1>5. ASSUME NEW k2 \in Kinds, NEW n2 \in FluentBits
      PROVE  /\ ObjectOK(k2, n2, cache'[k2][n2], uids)
             /\ \A i \in DOMAIN events'[k2][n2] :
                    ObjectOK(k2, n2, events'[k2][n2][i], uids)
             /\ Len(events'[k2][n2]) <= MaxPending
    <2>1. /\ ObjectOK(k2, n2, cache[k2][n2], uids)
          /\ \A i \in DOMAIN events[k2][n2] : ObjectOK(k2, n2, events[k2][n2][i], uids)
          /\ Len(events[k2][n2]) <= MaxPending
        BY DEF Types, TypeOK, ObjectsOK
    <2>2. CASE <<k2, n2>> = <<k, n>>
        <3>1. cache'[k][n] = Head(events[k][n]) /\ events'[k][n] = Tail(events[k][n])
            BY <1>2 DEF Types, Shaped
        <3>2. Len(events[k][n]) \in Nat /\ MaxPending \in Nat
            BY <1>2, ControllerAssumption DEF ControllerAssumption
        <3> QED
            BY <1>3, <2>1, <2>2, <3>1, <3>2
    <2>3. CASE <<k2, n2>> # <<k, n>>
        <3>1. cache'[k2][n2] = cache[k2][n2] /\ events'[k2][n2] = events[k2][n2]
            BY <1>2, <2>3 DEF Types, Shaped
        <3> QED
            BY <2>1, <3>1
    <2> QED
        BY <2>2, <2>3
<1>6. ObjectsOK'
    BY <1>1, <1>5 DEF ObjectsOK
<1>7. RestOK'
    BY DEF Types, TypeOK, RestOK, Deliver, server
<1> QED
    BY <1>1, <1>4, <1>6, <1>7, PassKept DEF Types, TypeOK

LEMMA RestartKeepsTypes ==
    ASSUME Types, Restart
    PROVE  Types'
<1>1. PassShaped' /\ PassOK' /\ UNCHANGED uids
    BY IdleTypes DEF Restart, server
<1>2. \A k \in Kinds, n \in FluentBits :
         Live(k, n) \in Objects /\ ObjectOK(k, n, Live(k, n), uids)
    BY LiveTypes
<1>3. /\ \A k \in Kinds, n \in FluentBits :
            cache'[k][n] = Live(k, n) /\ events'[k][n] = <<>>
      /\ Shaped'
    BY <1>2 DEF Restart, Shaped
<1>4. ObjectsOK'
    BY <1>1, <1>2, <1>3, ControllerAssumption DEF ObjectsOK, ControllerAssumption
<1>5. RestOK'
    BY ControllerAssumption
       DEF ControllerAssumption, Types, TypeOK, RestOK, Restart, server
<1> QED
    BY <1>1, <1>3, <1>4, <1>5 DEF Types, TypeOK

LEMMA PassesKeepTypes ==
    ASSUME Types, Step \/ CallFails
    PROVE  Types'
<1> USE DEF At
<1>1. ASSUME Begin PROVE Types'
    <2>1. UNCHANGED <<cache, events, uids>> /\ RestOK'
        BY <1>1 DEF Begin, Types, TypeOK, RestOK, server
    <2>2. PICK n \in queue :
             pass' = IF Gone(cache["FluentBit"][n]) \/ Branch(cache["FluentBit"][n]) = "idle"
                     THEN Idle
                     ELSE [pc |-> Branch(cache["FluentBit"][n]), name |-> n,
                           fb |-> cache["FluentBit"][n], base |-> None]
        BY <1>1 DEF Begin
    <2>3. n \in FluentBits
        BY DEF Types, TypeOK, RestOK
    <2>4. /\ cache["FluentBit"][n] \in Objects
          /\ ObjectOK("FluentBit", n, cache["FluentBit"][n], uids)
        BY <2>3 DEF Types, TypeOK, ObjectsOK, Shaped, Kinds
    <2>5. CASE pass' = Idle
        BY <2>1, <2>5, IdleTypes, QuietTypes DEF Types, TypeOK
    <2>6. CASE pass' # Idle
        <3>1. Branch(cache["FluentBit"][n]) \in PCs
            BY DEF Branch, PCs, TakingDown, Deploying
        <3>2. /\ pass' = [pc |-> Branch(cache["FluentBit"][n]), name |-> n,
                          fb |-> cache["FluentBit"][n], base |-> None]
              /\ cache["FluentBit"][n] # None
            BY <2>2, <2>6 DEF Gone
        <3>3. PassShaped' /\ PassOK'
            BY <2>1, <2>3, <2>4, <3>1, <3>2, NoneIsObject DEF PassShaped, PassOK, ObjectOK
        <3> QED
            BY <2>1, <3>3, QuietTypes DEF Types, TypeOK
    <2> QED
        BY <2>5, <2>6
<1>2. ASSUME AddFinalizer \/ RemoveFinalizer PROVE Types'
    <2>1. /\ pass.pc # "idle" /\ pass.name \in FluentBits
          /\ UNCHANGED <<secret, secretCache, roles, bindings, uids, faults>>
        BY <1>2 DEF AddFinalizer, RemoveFinalizer, server, Types, PassShaped
    <2>2. Again \/ Return
        BY <1>2 DEF AddFinalizer, RemoveFinalizer, UpdateFluentBit
    <2>3. PassShaped' /\ PassOK' /\ queue' \subseteq FluentBits
        BY <2>1, <2>2, AgainTypes, ReturnTypes
    <2>4. UNCHANGED <<cache, events, uids>> \/ \E x : Rewrite(pass.name, x)
        BY <1>2, AddEffect, RemoveEffect
    <2>5. Shaped' /\ ObjectsOK'
        BY <2>1, <2>4, QuietTypes, RewriteTypes
    <2> QED
        BY <2>1, <2>3, <2>5 DEF Types, TypeOK, RestOK
<1>3. ASSUME GetSecret PROVE Types'
    <2>1. UNCHANGED <<cache, events, uids>> /\ pass.pc # "idle"
        BY <1>3 DEF GetSecret, server
    <2>2. PassShaped' /\ PassOK' /\ queue' \subseteq FluentBits
        <3>1. CASE Again
            BY <2>1, <3>1, AgainTypes
        <3>2. CASE Goto("createRole") /\ UNCHANGED queue
            BY <2>1, <3>2, GotoTypes
               DEF Goto, Types, TypeOK, RestOK, PCs, Deploying
        <3> QED
            BY <1>3, <3>1, <3>2 DEF GetSecret
    <2>3. RestOK'
        BY <1>3, <2>2 DEF GetSecret, server, Types, TypeOK, RestOK
    <2> QED
        BY <2>1, <2>2, <2>3, QuietTypes DEF Types, TypeOK
<1>4. ASSUME CreateRole \/ CreateBinding PROVE Types'
    <2>1. UNCHANGED <<cache, events, uids>> /\ pass.pc # "idle" /\ pass.name \in FluentBits
        BY <1>4 DEF CreateRole, CreateBinding, Types, PassShaped
    <2>2. PassShaped' /\ PassOK'
        BY <1>4, <2>1, GotoTypes
           DEF CreateRole, CreateBinding, Goto, Types, TypeOK, PCs, Deploying
    <2>3. Scope(pass.name) \in Scopes
        BY <2>1 DEF Scopes
    <2>4. RestOK'
        BY <1>4, <2>1, <2>3 DEF CreateRole, CreateBinding, Types, TypeOK, RestOK
    <2> QED
        BY <2>1, <2>2, <2>4, QuietTypes DEF Types, TypeOK
<1>5. ASSUME CreateServiceAccount PROVE Types'
    <2>1. /\ pass.pc # "idle" /\ pass.name \in FluentBits /\ UNCHANGED uids
          /\ Goto("createBinding") /\ RestOK'
        BY <1>5 DEF CreateServiceAccount, AfterServiceAccount, server, Types, PassShaped,
           TypeOK, RestOK
    <2>2. PassShaped' /\ PassOK'
        BY <2>1, GotoTypes DEF Goto, Types, TypeOK, PCs, Deploying
    <2>3. Shaped' /\ ObjectsOK'
        BY <1>5, <2>1, AccountEffect, QuietTypes, WriteTypes DEF Kinds
    <2> QED
        BY <2>1, <2>2, <2>3 DEF Types, TypeOK
<1>6. ASSUME GetDaemonSet PROVE Types'
    <2>1. /\ UNCHANGED <<cache, events, uids>> /\ RestOK' /\ pass.name \in FluentBits
          /\ pass.pc # "idle"
        BY <1>6 DEF GetDaemonSet, server, Types, TypeOK, RestOK, PassShaped
    <2> DEFINE ds == cache["DaemonSet"][pass.name]
    <2>2. ds \in Objects /\ ObjectOK("DaemonSet", pass.name, ds, uids)
        BY <2>1 DEF Types, TypeOK, ObjectsOK, Shaped, Kinds
    <2>3. /\ pass' \in [pc : PCs, name : {pass.name}, fb : Objects, base : Objects]
          /\ pass'.name = pass.name /\ pass'.fb = pass.fb /\ pass'.base = ds
          /\ pass'.pc = "writeDaemonSet"
        <3> HIDE DEF ds
        <3>1. pass' = [pass EXCEPT !.pc = "writeDaemonSet", !.base = ds]
            BY <1>6 DEF GetDaemonSet, ds
        <3> QED
            BY <2>2, <3>1 DEF Types, PassShaped, PCs, Deploying
    <2>4. PassShaped' /\ PassOK'
        BY <2>1, <2>2, <2>3 DEF Types, TypeOK, PassShaped, PassOK
    <2> QED
        BY <2>1, <2>4, QuietTypes DEF Types, TypeOK
<1>7. ASSUME WriteDaemonSet PROVE Types'
    <2>1. /\ pass.pc # "idle" /\ pass.name \in FluentBits
          /\ UNCHANGED <<secret, secretCache, roles, bindings, uids, faults>>
        BY <1>7 DEF WriteDaemonSet, server, Types, PassShaped
    <2>2. PassShaped' /\ PassOK' /\ queue' \subseteq FluentBits
        BY <1>7, <2>1, DaemonSetEffect, AgainTypes, ReturnTypes
    <2>3. Shaped' /\ ObjectsOK'
        BY <1>7, <2>1, DaemonSetEffect, QuietTypes, WriteTypes DEF Kinds
    <2> QED
        BY <2>1, <2>2, <2>3 DEF Types, TypeOK, RestOK
<1>8. ASSUME DeleteServiceAccount \/ DeleteDaemonSet PROVE Types'
    <2>1. /\ pass.pc # "idle" /\ pass.name \in FluentBits /\ UNCHANGED <<cache, uids>>
          /\ RestOK'
        BY <1>8 DEF DeleteServiceAccount, DeleteDaemonSet, server, Types, PassShaped,
           TypeOK, RestOK
    <2>2. PassShaped' /\ PassOK'
        BY <1>8, <2>1, GotoTypes
           DEF DeleteServiceAccount, DeleteDaemonSet, Goto, Types, TypeOK, PCs, TakingDown
    <2>3. UNCHANGED events \/ \E k \in Kinds : DependentWrite(k, pass.name, None)
        BY <1>8, <2>1, RemovalEffect DEF DeleteServiceAccount, DeleteDaemonSet, Kinds
    <2>4. Shaped' /\ ObjectsOK'
        BY <2>1, <2>3, QuietTypes, WriteTypes
    <2> QED
        BY <2>1, <2>2, <2>4 DEF Types, TypeOK
<1>9. ASSUME CallFails PROVE Types'
    <2>1. pass.pc # "idle" /\ UNCHANGED <<cache, events, uids>>
        BY <1>9 DEF CallFails, server
    <2>2. PassShaped' /\ PassOK' /\ queue' \subseteq FluentBits
        BY <1>9, <2>1, AgainTypes DEF CallFails
    <2>3. RestOK'
        BY <1>9, <2>2, ControllerAssumption
           DEF ControllerAssumption, CallFails, server, Types, TypeOK, RestOK
    <2> QED
        BY <2>1, <2>2, <2>3, QuietTypes DEF Types, TypeOK
<1> QED
    BY <1>1, <1>2, <1>3, <1>4, <1>5, <1>6, <1>7, <1>8, <1>9 DEF Step

LEMMA TypesNext == Types /\ [Next]_vars => Types'
<1> SUFFICES ASSUME Types, [Next]_vars PROVE Types'
    OBVIOUS
<1>1. CASE UNCHANGED vars
    BY <1>1 DEF vars, Types, Shaped, PassShaped, TypeOK, ObjectsOK, PassOK, RestOK
<1> QED
    BY <1>1, UsersKeepTypes, SecretsKeepTypes, OthersKeepTypes, DeliverKeepsTypes,
       RestartKeepsTypes, PassesKeepTypes DEF Next

\* The state of the controller keeps its types: every object that anybody knows
\* was made by the users or by the reconciler, and a mark implies a finalizer.
THEOREM FluentBitTypes == Spec => []TypeOK
<1>1. Spec => []Types
    BY TypesInit, TypesNext, PTL DEF Spec
<1>2. Types => TypeOK
    BY DEF Types
<1> QED
    BY <1>1, <1>2, PTL
-----------------------------------------------------------------------------
(* The order of what the caches see, and what a pass may rely on.           *)

FB == "FluentBit"
DS == "DaemonSet"

\* A later object of a name has a larger uid.
Ascending(k, n) ==
    \A i, j \in Places(k, n) :
        i <= j /\ Seen(k, n, i).uid # 0 /\ Seen(k, n, j).uid # 0
          => Seen(k, n, i).uid <= Seen(k, n, j).uid

\* A FluentBit once marked remains so.
Marked(n) ==
    \A i, j \in Places(FB, n) :
        i <= j /\ Seen(FB, n, i).uid = Seen(FB, n, j).uid /\ Seen(FB, n, i).deleting
          => Seen(FB, n, j).deleting

\* Whoever sees a FluentBit with a finalizer and no mark sees one that exists.
Guarded(n) ==
    \A i \in Places(FB, n) :
        Seen(FB, n, i).finalizer /\ ~Seen(FB, n, i).deleting
          => Live(FB, n).uid = Seen(FB, n, i).uid /\ Live(FB, n).finalizer

\* No DaemonSet belongs to a FluentBit that the cache has not seen.
Behind(n) ==
    \A i \in Places(DS, n), j \in Places(FB, n) :
        Seen(FB, n, j).uid # 0 => Seen(DS, n, i).uid <= Seen(FB, n, j).uid

Ordered(n) ==
    Ascending(FB, n) /\ Ascending(DS, n) /\ Marked(n) /\ Guarded(n) /\ Behind(n)

\* The FluentBit of a pass is no younger than what the cache has now, ...
Recent ==
    pass.pc # "idle" =>
        \A j \in Places(FB, pass.name) :
            Seen(FB, pass.name, j).uid # 0 => pass.fb.uid <= Seen(FB, pass.name, j).uid

\* ... exists, with a finalizer, while it is deployed, ...
Held ==
    pass.pc \in Deploying =>
        /\ Live(FB, pass.name).uid = pass.fb.uid
        /\ Live(FB, pass.name).finalizer

\* ... and is known to be marked while it is taken down.
Doomed ==
    pass.pc \in TakingDown =>
        \A j \in Places(FB, pass.name) :
            Seen(FB, pass.name, j).uid = pass.fb.uid => Seen(FB, pass.name, j).deleting

\* A DaemonSet that a pass has read is not followed by an older one.
Based ==
    pass.pc = "writeDaemonSet" /\ pass.base.uid # 0 =>
        \A j \in Places(DS, pass.name) :
            Seen(DS, pass.name, j).uid # 0 => pass.base.uid <= Seen(DS, pass.name, j).uid

PassInv == Recent /\ Held /\ Doomed /\ Based

OrphanInv == Types /\ PassInv /\ \A n \in FluentBits : Ordered(n)

-----------------------------------------------------------------------------

LEMMA SeenTypes ==
    ASSUME Types, NEW k \in Kinds, NEW n \in FluentBits
    PROVE  /\ Len(events[k][n]) \in Nat
           /\ \A i \in Places(k, n) : /\ Seen(k, n, i) \in Objects
                                      /\ Seen(k, n, i).uid \in 0 .. uids
                                      /\ Seen(k, n, i) = None <=> Seen(k, n, i).uid = 0
           /\ Live(k, n) = Seen(k, n, Len(events[k][n]))
           /\ Len(events[k][n]) \in Places(k, n)
           /\ uids \in Nat
<1>1. uids \in Nat
    BY LiveTypes
<1>2. Len(events[k][n]) \in Places(k, n)
    BY LiveIsLast DEF Types, Places
<1> QED
    BY <1>1, <1>2, SeenOK, LiveIsLast, UidTells DEF Types

LEMMA MovedSeen ==
    ASSUME Types, Types', NEW k \in Kinds, NEW n \in FluentBits, Moved(k, n)
    PROVE  /\ \E d \in Nat : \A i \in Places(k, n)' :
                 i \in Nat /\ i + d \in Places(k, n) /\ Seen(k, n, i)' = Seen(k, n, i + d)
           /\ Live(k, n)' = Live(k, n)
<1>1. /\ Len(events[k][n]) \in Nat /\ Len(events'[k][n]) \in Nat
      /\ Live(k, n) = Seen(k, n, Len(events[k][n]))
      /\ Live(k, n)' = Seen(k, n, Len(events[k][n]))'
    <2>1. Len(events[k][n]) \in Nat /\ Live(k, n) = Seen(k, n, Len(events[k][n]))
        BY LiveIsLast DEF Types
    <2>2. (Shaped => Len(events[k][n]) \in Nat /\ Live(k, n) = Seen(k, n, Len(events[k][n])))'
        BY LiveIsLast, PTL
    <2> QED
        BY <2>1, <2>2 DEF Types
<1>2. PICK d \in Places(k, n) :
        /\ Len(events'[k][n]) = Len(events[k][n]) - d
        /\ \A i \in Places(k, n)' : Seen(k, n, i)' = Seen(k, n, i + d)
    BY DEF Moved
<1>3. d \in Nat /\ \A i \in Places(k, n)' : i \in Nat /\ i + d \in Places(k, n)
    BY <1>1, <1>2 DEF Places
<1>4. Live(k, n)' = Live(k, n)
    <2>1. Len(events'[k][n]) \in Places(k, n)'
        BY <1>1 DEF Places
    <2>2. Seen(k, n, Len(events[k][n]))' = Seen(k, n, Len(events'[k][n]) + d)
        BY <1>2, <2>1 DEF Seen
    <2>3. Len(events'[k][n]) + d = Len(events[k][n])
        BY <1>1, <1>2, <1>3
    <2> QED
        BY <1>1, <2>2, <2>3
<1> QED
    BY <1>2, <1>3, <1>4

LEMMA GrownSeen ==
    ASSUME Types, Types', NEW k \in Kinds, NEW n \in FluentBits, NEW x, Grown(k, n, x)
    PROVE  \E l \in Places(k, n)' :
              /\ Seen(k, n, l)' = x /\ Live(k, n)' = x
              /\ \A i \in Places(k, n)' :
                    \/ i \in Places(k, n) /\ i < l /\ Seen(k, n, i)' = Seen(k, n, i)
                    \/ i = l
<1>1. Len(events[k][n]) \in Nat /\ Len(events'[k][n]) = Len(events[k][n]) + 1
    BY LiveIsLast DEF Types, Grown
<1>2. Live(k, n)' = Seen(k, n, Len(events[k][n]))'
    <2>1. (Shaped => Live(k, n) = Seen(k, n, Len(events[k][n])))'
        BY LiveIsLast, PTL
    <2> QED
        BY <2>1 DEF Types
<1>3. Seen(k, n, Len(events[k][n]))' = x
    BY DEF Grown
<1> PICK l \in Nat : l = Len(events'[k][n])
    BY <1>1
<1>4. l \in Places(k, n)' /\ Seen(k, n, l)' = x
    BY <1>1, <1>3 DEF Places, Seen
<1>5. ASSUME NEW i \in Places(k, n)', i # l
      PROVE  i \in Places(k, n) /\ i < l /\ Seen(k, n, i)' = Seen(k, n, i)
    BY <1>1, <1>5 DEF Places, Grown
<1> QED
    BY <1>2, <1>3, <1>4, <1>5

LEMMA AscendingMoved ==
    ASSUME Types, Types', NEW k \in Kinds, NEW n \in FluentBits, Moved(k, n),
           Ascending(k, n)
    PROVE  Ascending(k, n)'
<1>1. PICK d \in Nat : \A i \in Places(k, n)' :
         i \in Nat /\ i + d \in Places(k, n) /\ Seen(k, n, i)' = Seen(k, n, i + d)
    BY MovedSeen
<1> SUFFICES ASSUME NEW i \in Places(k, n)', NEW j \in Places(k, n)', i <= j,
                    Seen(k, n, i)'.uid # 0, Seen(k, n, j)'.uid # 0
             PROVE  Seen(k, n, i)'.uid <= Seen(k, n, j)'.uid
    BY DEF Ascending
<1>2. i \in Nat /\ j \in Nat /\ i + d <= j + d
    BY <1>1
<1> QED
    BY <1>1, <1>2 DEF Ascending

LEMMA AscendingGrown ==
    ASSUME Types, Types', NEW k \in Kinds, NEW n \in FluentBits, NEW x \in Objects,
           Grown(k, n, x), Ascending(k, n),
           x.uid # 0 => \A i \in Places(k, n) : Seen(k, n, i).uid <= x.uid
    PROVE  Ascending(k, n)'
<1>1. PICK l \in Places(k, n)' :
         /\ Seen(k, n, l)' = x
         /\ \A i \in Places(k, n)' :
               \/ i \in Places(k, n) /\ i < l /\ Seen(k, n, i)' = Seen(k, n, i)
               \/ i = l
    BY GrownSeen
<1> SUFFICES ASSUME NEW i \in Places(k, n)', NEW j \in Places(k, n)', i <= j,
                    Seen(k, n, i)'.uid # 0, Seen(k, n, j)'.uid # 0
             PROVE  Seen(k, n, i)'.uid <= Seen(k, n, j)'.uid
    BY DEF Ascending
<1>2. Seen(k, n, l)'.uid \in Nat
    BY <1>1 DEF Objects
<1>3. CASE j = l /\ i = l
    BY <1>1, <1>2, <1>3
<1>4. CASE j = l /\ i # l
    BY <1>1, <1>4
<1>5. CASE j # l /\ i # l
    BY <1>1, <1>5 DEF Ascending
<1>6. CASE j # l /\ i = l
    BY <1>1, <1>6 DEF Places
<1> QED
    BY <1>3, <1>4, <1>5, <1>6

LEMMA MarkedMoved ==
    ASSUME Types, Types', NEW n \in FluentBits, Moved(FB, n), Marked(n), Guarded(n)
    PROVE  Marked(n)' /\ Guarded(n)'
<1>1. PICK d \in Nat : \A i \in Places(FB, n)' :
         i \in Nat /\ i + d \in Places(FB, n) /\ Seen(FB, n, i)' = Seen(FB, n, i + d)
    BY MovedSeen DEF FB, Kinds
<1>2. Live(FB, n)' = Live(FB, n)
    BY MovedSeen DEF FB, Kinds
<1>3. Marked(n)'
    <2> SUFFICES ASSUME NEW i \in Places(FB, n)', NEW j \in Places(FB, n)', i <= j,
                        Seen(FB, n, i)'.uid = Seen(FB, n, j)'.uid,
                        Seen(FB, n, i)'.deleting
                 PROVE  Seen(FB, n, j)'.deleting
        BY DEF Marked
    <2>1. i \in Nat /\ j \in Nat /\ i + d <= j + d
        BY <1>1
    <2> QED
        BY <1>1, <2>1 DEF Marked
<1>4. Guarded(n)'
    BY <1>1, <1>2 DEF Guarded
<1> QED
    BY <1>3, <1>4

LEMMA BehindMoved ==
    ASSUME Types, Types', NEW n \in FluentBits, Moved(FB, n), Moved(DS, n), Behind(n)
    PROVE  Behind(n)'
<1>1. PICK d \in Nat : \A i \in Places(FB, n)' :
         i \in Nat /\ i + d \in Places(FB, n) /\ Seen(FB, n, i)' = Seen(FB, n, i + d)
    BY MovedSeen DEF FB, Kinds
<1>2. PICK e \in Nat : \A i \in Places(DS, n)' :
         i \in Nat /\ i + e \in Places(DS, n) /\ Seen(DS, n, i)' = Seen(DS, n, i + e)
    BY MovedSeen DEF DS, Kinds
<1> QED
    BY <1>1, <1>2 DEF Behind

LEMMA OrderedMoved ==
    ASSUME Types, Types', NEW n \in FluentBits, Ordered(n), Moved(FB, n), Moved(DS, n)
    PROVE  Ordered(n)'
    BY AscendingMoved, MarkedMoved, BehindMoved DEF Ordered, FB, DS, Kinds

\* A FluentBit is created, edited, marked or removed.
LEMMA OrderedRewritten ==
    ASSUME Types, Types', NEW n \in FluentBits, Ordered(n), Doomed, NEW x,
           Rewrite(n, x), Grown(FB, n, x), Moved(DS, n)
    PROVE  Ordered(n)'
<1>1. PICK l \in Places(FB, n)' :
         /\ Seen(FB, n, l)' = x /\ Live(FB, n)' = x
         /\ \A i \in Places(FB, n)' :
               \/ i \in Places(FB, n) /\ i < l /\ Seen(FB, n, i)' = Seen(FB, n, i)
               \/ i = l
    BY GrownSeen DEF FB, Kinds
<1>2. PICK e \in Nat : \A i \in Places(DS, n)' :
         i \in Nat /\ i + e \in Places(DS, n) /\ Seen(DS, n, i)' = Seen(DS, n, i + e)
    BY MovedSeen DEF DS, Kinds
<1>3. PICK m \in Places(FB, n) :
         /\ Seen(FB, n, m) = Live(FB, n) /\ m \in Nat
         /\ \A i \in Places(FB, n) : i <= m /\ i \in Nat
    BY SeenTypes DEF FB, Kinds, Places
<1>4. \A i \in Places(FB, n) : Seen(FB, n, i).uid \in 0 .. uids
    BY SeenTypes DEF FB, Kinds
<1>5. \A i \in Places(DS, n) : Seen(DS, n, i).uid \in 0 .. uids
    BY SeenTypes DEF DS, Kinds
<1>6. uids \in Nat /\ x \in Objects
    <2>1. uids \in Nat
        BY SeenTypes DEF FB, Kinds
    <2> QED
        BY <2>1 DEF Rewrite
<1>7. x.uid # 0 => \/ x.uid = Seen(FB, n, m).uid
                   \/ x.uid = uids + 1
    BY <1>3, NoneIsObject DEF Rewrite, FB
<1>8. x.uid # 0 => \A i \in Places(FB, n) : Seen(FB, n, i).uid <= x.uid
    <2> SUFFICES ASSUME x.uid # 0, NEW i \in Places(FB, n)
                 PROVE  Seen(FB, n, i).uid <= x.uid
        OBVIOUS
    <2>1. i <= m
        BY <1>3
    <2>2. x.uid \in Nat
        BY <1>6 DEF Objects
    <2> QED
        BY <1>4, <1>6, <1>7, <2>1, <2>2 DEF Ordered, Ascending
<1>9. Ascending(FB, n)'
    BY <1>6, <1>8, AscendingGrown DEF Ordered, FB, Kinds
<1>10. Ascending(DS, n)'
    BY AscendingMoved DEF Ordered, DS, Kinds
<1>11. ASSUME NEW i \in Places(FB, n), Seen(FB, n, i).uid = x.uid, Seen(FB, n, i).deleting
       PROVE  x.deleting
    <2>1. Seen(FB, n, i).uid # 0
        BY <1>11, SeenTypes, NoneIsObject DEF FB, Kinds
    <2>2. x.uid = Seen(FB, n, m).uid
        BY <1>4, <1>6, <1>7, <1>11, <2>1
    <2>3. Live(FB, n).deleting
        BY <1>3, <1>11, <2>2 DEF Ordered, Marked
    <2> QED
        BY <1>3, <1>6, <2>1, <2>2, <2>3, <1>11, <1>4, NoneIsObject DEF Rewrite, FB
<1>12. Marked(n)'
    <2> SUFFICES ASSUME NEW i \in Places(FB, n)', NEW j \in Places(FB, n)', i <= j,
                        Seen(FB, n, i)'.uid = Seen(FB, n, j)'.uid,
                        Seen(FB, n, i)'.deleting
                 PROVE  Seen(FB, n, j)'.deleting
        BY DEF Marked
    <2>1. i \in Nat /\ j \in Nat /\ l \in Nat
        BY DEF Places
    <2>2. CASE j = l /\ i = l
        BY <2>2
    <2>3. CASE j = l /\ i # l
        BY <1>1, <1>11, <2>3
    <2>4. CASE j # l /\ i # l
        BY <1>1, <2>4 DEF Ordered, Marked
    <2>5. CASE j # l /\ i = l
        BY <1>1, <2>1, <2>5
    <2> QED
        BY <2>2, <2>3, <2>4, <2>5
<1>13. ASSUME NEW i \in Places(FB, n), Seen(FB, n, i).finalizer, ~Seen(FB, n, i).deleting
       PROVE  x.uid = Seen(FB, n, i).uid /\ x.finalizer
    <2>1. Live(FB, n).uid = Seen(FB, n, i).uid /\ Live(FB, n).finalizer
        BY <1>13 DEF Ordered, Guarded
    <2>2. Seen(FB, n, i).uid # 0
        BY <1>13, SeenTypes, NoneIsObject DEF FB, Kinds
    <2>3. ~(pass.pc = "removeFinalizer" /\ pass.name = n /\ Live(FB, n) = pass.fb)
        BY <1>13, <2>1 DEF Doomed, TakingDown
    <2> QED
        BY <2>1, <2>2, <2>3 DEF Rewrite, FB
<1>14. Guarded(n)'
    BY <1>1, <1>13 DEF Ordered, Guarded
<1>15. Behind(n)'
    <2> SUFFICES ASSUME NEW i \in Places(DS, n)', NEW j \in Places(FB, n)',
                        Seen(FB, n, j)'.uid # 0
                 PROVE  Seen(DS, n, i)'.uid <= Seen(FB, n, j)'.uid
        BY DEF Behind
    <2>1. i + e \in Places(DS, n) /\ Seen(DS, n, i)' = Seen(DS, n, i + e)
        BY <1>2
    <2>2. CASE j # l
        BY <1>1, <2>1, <2>2 DEF Ordered, Behind
    <2>3. CASE j = l
        <3>1. CASE x.uid = Seen(FB, n, m).uid
            BY <1>1, <2>1, <2>3, <3>1 DEF Ordered, Behind
        <3>2. CASE x.uid = uids + 1
            BY <1>1, <1>5, <1>6, <2>1, <2>3, <3>2
        <3> QED
            BY <1>1, <1>7, <2>3, <3>1, <3>2
    <2> QED
        BY <2>2, <2>3
<1> QED
    BY <1>9, <1>10, <1>12, <1>14, <1>15 DEF Ordered

\* A DaemonSet is written for, or removed from, a FluentBit.
LEMMA OrderedWritten ==
    ASSUME Types, Types', NEW n \in FluentBits, Ordered(n), NEW x \in Objects,
           Grown(DS, n, x), Moved(FB, n),
           x.uid # 0 => /\ x.uid = Live(FB, n).uid
                        /\ \A i \in Places(FB, n) :
                              Seen(FB, n, i).uid # 0 => x.uid <= Seen(FB, n, i).uid
    PROVE  Ordered(n)'
<1>1. PICK l \in Places(DS, n)' :
         /\ Seen(DS, n, l)' = x
         /\ \A i \in Places(DS, n)' :
               \/ i \in Places(DS, n) /\ i < l /\ Seen(DS, n, i)' = Seen(DS, n, i)
               \/ i = l
    BY GrownSeen DEF DS, Kinds
<1>2. PICK d \in Nat : \A i \in Places(FB, n)' :
         i \in Nat /\ i + d \in Places(FB, n) /\ Seen(FB, n, i)' = Seen(FB, n, i + d)
    BY MovedSeen DEF FB, Kinds
<1>3. PICK m \in Places(FB, n) : Seen(FB, n, m) = Live(FB, n)
    BY SeenTypes DEF FB, Kinds
<1>4. x.uid # 0 => \A i \in Places(DS, n) : Seen(DS, n, i).uid <= x.uid
    BY <1>3 DEF Ordered, Behind
<1>5. Ascending(DS, n)'
    BY <1>4, AscendingGrown DEF Ordered, DS, Kinds
<1>6. Ascending(FB, n)' /\ Marked(n)' /\ Guarded(n)'
    BY AscendingMoved, MarkedMoved DEF Ordered, FB, Kinds
<1>7. Behind(n)'
    <2> SUFFICES ASSUME NEW i \in Places(DS, n)', NEW j \in Places(FB, n)',
                        Seen(FB, n, j)'.uid # 0
                 PROVE  Seen(DS, n, i)'.uid <= Seen(FB, n, j)'.uid
        BY DEF Behind
    <2>1. /\ j + d \in Places(FB, n) /\ Seen(FB, n, j)' = Seen(FB, n, j + d)
          /\ Seen(FB, n, j + d).uid \in 0 .. uids
        BY <1>2, SeenTypes DEF FB, Kinds
    <2>2. CASE i # l
        BY <1>1, <2>1, <2>2 DEF Ordered, Behind
    <2>3. CASE i = l /\ x.uid # 0
        BY <1>1, <2>1, <2>3
    <2>4. CASE i = l /\ x.uid = 0
        BY <1>1, <2>1, <2>4
    <2> QED
        BY <2>2, <2>3, <2>4
<1> QED
    BY <1>5, <1>6, <1>7 DEF Ordered
-----------------------------------------------------------------------------
(* What a step does to the FluentBit and the DaemonSet of one name.         *)

Quiet(n) == Moved(FB, n) /\ Moved(DS, n)

Rewritten(n) == \E x : Rewrite(n, x) /\ Grown(FB, n, x) /\ Moved(DS, n)

\* A DaemonSet is only given a uid by the pass that ends with it.
Written(n) ==
    \E x \in Objects :
        /\ Grown(DS, n, x) /\ Moved(FB, n)
        /\ x.uid # 0 => /\ pass.pc = "writeDaemonSet" /\ pass.name = n /\ pass' = Idle
                        /\ x.uid = pass.fb.uid /\ x.uid = Live(FB, n).uid

Effect(n) == Quiet(n) \/ Rewritten(n) \/ Written(n)

LEMMA QuietEffect ==
    ASSUME Types, NEW n \in FluentBits, UNCHANGED <<cache, events>>
    PROVE  Effect(n)
<1>1. Moved(FB, n) /\ Moved(DS, n)
    BY Unmoved DEF Types, FB, DS, Kinds
<1> QED
    BY <1>1 DEF Effect, Quiet

LEMMA RewriteEffect ==
    ASSUME Types, NEW m \in FluentBits, NEW x, Rewrite(m, x), NEW n \in FluentBits
    PROVE  Effect(n)
<1>1. MaxPending \in Nat
    BY ControllerAssumption DEF ControllerAssumption
<1>2. /\ \A k2 \in Kinds, n2 \in FluentBits : <<k2, n2>> # <<FB, m>> => Moved(k2, n2)
      /\ UNCHANGED events \/ Grown(FB, m, x)
    BY <1>1, PutEffect DEF Rewrite, Types, FB, Kinds
<1>3. Moved(DS, n)
    BY <1>2 DEF DS, FB, Kinds
<1>4. CASE n # m
    BY <1>2, <1>3, <1>4 DEF Effect, Quiet, FB, Kinds
<1>5. CASE UNCHANGED events
    BY <1>5, QuietEffect DEF Rewrite
<1>6. CASE n = m /\ Grown(FB, m, x)
    BY <1>3, <1>6 DEF Effect, Rewritten
<1> QED
    BY <1>2, <1>4, <1>5, <1>6

LEMMA WriteEffect ==
    ASSUME Types, NEW m \in FluentBits, NEW k \in Kinds, k # FB, NEW x,
           DependentWrite(k, m, x), NEW n \in FluentBits,
           k = DS /\ x.uid # 0 =>
               /\ pass.pc = "writeDaemonSet" /\ pass.name = m /\ pass' = Idle
               /\ x.uid = pass.fb.uid /\ x.uid = Live(FB, m).uid
    PROVE  Effect(n)
<1>1. MaxPending \in Nat
    BY ControllerAssumption DEF ControllerAssumption
<1>2. /\ \A k2 \in Kinds, n2 \in FluentBits : <<k2, n2>> # <<k, m>> => Moved(k2, n2)
      /\ UNCHANGED events \/ Grown(k, m, x)
    BY <1>1, PutEffect DEF DependentWrite, Types
<1>3. Moved(FB, n)
    BY <1>2 DEF FB, Kinds
<1>4. CASE n # m \/ k # DS
    BY <1>2, <1>3, <1>4 DEF Effect, Quiet, DS, Kinds
<1>5. CASE UNCHANGED events
    BY <1>5, QuietEffect DEF DependentWrite
<1>6. CASE n = m /\ k = DS /\ Grown(k, m, x)
    BY <1>3, <1>6 DEF Effect, Written, DependentWrite
<1> QED
    BY <1>2, <1>4, <1>5, <1>6

LEMMA DeliverMoves ==
    ASSUME Types, NEW m \in FluentBits, NEW k \in Kinds, Deliver(k, m), NEW n \in FluentBits
    PROVE  \A k2 \in Kinds : Moved(k2, n)
<1>1. ASSUME NEW k2 \in Kinds PROVE Moved(k2, n)
    <2>1. /\ events[k][m] \in Seq(Objects) /\ events[k][m] # <<>>
          /\ cache' = [cache EXCEPT ![k][m] = Head(events[k][m])]
          /\ events' = [events EXCEPT ![k][m] = Tail(events[k][m])]
        BY DEF Deliver, Types, Shaped
    <2>2. CASE <<k2, n>> # <<k, m>>
        <3>1. cache'[k2][n] = cache[k2][n] /\ events'[k2][n] = events[k2][n]
            BY <2>1, <2>2 DEF Types, Shaped
        <3> QED
            BY <3>1, Unmoved DEF Types
    <2>3. CASE <<k2, n>> = <<k, m>>
        <3>1. cache'[k][m] = events[k][m][1] /\ events'[k][m] = Tail(events[k][m])
            BY <2>1 DEF Types, Shaped
        <3>2. /\ Len(events[k][m]) \in Nat /\ Len(events[k][m]) >= 1
              /\ Len(events'[k][m]) = Len(events[k][m]) - 1
              /\ \A i \in 1 .. Len(events[k][m]) - 1 :
                    events'[k][m][i] = events[k][m][i + 1]
            <4>1. \A s \in Seq(Objects) : s # <<>> =>
                    /\ Len(s) \in Nat /\ Len(s) >= 1 /\ Len(Tail(s)) = Len(s) - 1
                    /\ \A i \in 1 .. Len(s) - 1 : Tail(s)[i] = s[i + 1]
                OBVIOUS
            <4> QED
                BY <2>1, <3>1, <4>1
        <3>3. 1 \in Places(k, m)
            BY <3>2 DEF Places
        <3>4. ASSUME NEW i \in Places(k, m)' PROVE Seen(k, m, i)' = Seen(k, m, i + 1)
            <4>1. i \in 0 .. Len(events[k][m]) - 1
                BY <3>2 DEF Places
            <4> QED
                BY <3>1, <3>2, <4>1 DEF Seen
        <3> QED
            BY <2>3, <3>2, <3>3, <3>4 DEF Moved
    <2> QED
        BY <2>2, <2>3
<1> QED
    BY <1>1

LEMMA RestartMoves ==
    ASSUME Types, Restart, NEW n \in FluentBits
    PROVE  \A k \in Kinds : Moved(k, n)
<1>1. ASSUME NEW k \in Kinds PROVE Moved(k, n)
    <2>1. cache'[k][n] = Live(k, n) /\ events'[k][n] = <<>>
        BY DEF Restart
    <2>2. /\ Len(events[k][n]) \in Places(k, n) /\ Len(events[k][n]) \in Nat
          /\ Live(k, n) = Seen(k, n, Len(events[k][n]))
        BY SeenTypes
    <2>3. ASSUME NEW i \in Places(k, n)'
          PROVE  Seen(k, n, i)' = Seen(k, n, i + Len(events[k][n]))
        BY <2>1, <2>2 DEF Places, Seen
    <2> QED
        BY <2>1, <2>2, <2>3 DEF Moved
<1> QED
    BY <1>1

\* A pass writes a DaemonSet of the FluentBit that exists: where it keeps the
\* uid it finds, that is not larger than the FluentBit's, nor smaller than the
\* one the pass has read.
LEMMA DaemonSetOwner ==
    ASSUME Types, PassInv, \A n \in FluentBits : Ordered(n), WriteDaemonSet, NEW x,
           \/ x.uid = pass.fb.uid
           \/ pass.base.uid = pass.fb.uid /\ x.uid = Live(DS, pass.name).uid,
           Live(DS, pass.name).uid # 0 \/ x.uid = pass.fb.uid
    PROVE  x.uid = pass.fb.uid /\ pass.fb.uid = Live(FB, pass.name).uid
<1>1. /\ pass.pc = "writeDaemonSet" /\ pass.name \in FluentBits
      /\ pass.fb.uid \in 1 .. uids /\ uids \in Nat
    BY PassObjects DEF WriteDaemonSet, At
<1>2. Live(FB, pass.name).uid = pass.fb.uid
    BY <1>1 DEF PassInv, Held, Deploying
<1>3. CASE pass.base.uid = pass.fb.uid /\ x.uid = Live(DS, pass.name).uid /\ x.uid # 0
    <2>1. PICK i \in Places(DS, pass.name) :
            Seen(DS, pass.name, i) = Live(DS, pass.name) /\ Seen(DS, pass.name, i).uid \in 0 .. uids
        BY <1>1, SeenTypes DEF DS, Kinds
    <2>2. PICK j \in Places(FB, pass.name) : Seen(FB, pass.name, j) = Live(FB, pass.name)
        BY <1>1, SeenTypes DEF FB, Kinds
    <2>3. x.uid <= pass.fb.uid
        BY <1>1, <1>2, <1>3, <2>1, <2>2 DEF Ordered, Behind
    <2>4. pass.fb.uid <= x.uid
        BY <1>1, <1>3, <2>1 DEF PassInv, Based
    <2> QED
        BY <1>1, <1>2, <1>3, <2>1, <2>3, <2>4
<1> QED
    BY <1>2, <1>3

LEMMA StepEffect ==
    ASSUME OrphanInv, [Next]_vars, NEW n \in FluentBits
    PROVE  Effect(n)
<1> USE DEF OrphanInv
<1>1. CASE UNCHANGED vars
    BY <1>1, QuietEffect DEF vars
<1>2. ASSUME NEW m \in FluentBits, CreateFluentBit(m) \/ EditFluentBit(m) \/ DeleteFluentBit(m)
      PROVE  Effect(n)
    BY <1>2, CreateEffect, EditEffect, DeleteEffect, RewriteEffect
<1>3. ASSUME NEW m \in FluentBits, MakeSecret(m) \/ LoseSecret(m) \/ DeliverSecret(m)
      PROVE  Effect(n)
    BY <1>3, QuietEffect DEF MakeSecret, LoseSecret, DeliverSecret
<1>4. ASSUME NEW m \in FluentBits, NEW k \in Kinds, Tamper(k, m) \/ CollectGarbage(k, m)
      PROVE  Effect(n)
    <2>1. Put(k, m, None) /\ UNCHANGED <<cache, uids>> /\ k # FB
        BY <1>4 DEF Tamper, CollectGarbage, Orphaned, server, FB
    <2> QED
        BY <2>1, RemovalEffect, WriteEffect, NoneIsObject
<1>5. ASSUME NEW m \in FluentBits, NEW k \in Kinds, Deliver(k, m) PROVE Effect(n)
    BY <1>5, DeliverMoves DEF Effect, Quiet, FB, DS, Kinds
<1>6. CASE Restart
    BY <1>6, RestartMoves DEF Effect, Quiet, FB, DS, Kinds
<1>7. CASE \/ Begin \/ GetSecret \/ CreateRole \/ CreateBinding \/ GetDaemonSet \/ CallFails
    BY <1>7, QuietEffect DEF Begin, GetSecret, CreateRole, CreateBinding, GetDaemonSet, CallFails
<1>8. CASE AddFinalizer \/ RemoveFinalizer
    <2>1. pass.name \in FluentBits
        BY <1>8, PassObjects DEF AddFinalizer, RemoveFinalizer, At
    <2> QED
        BY <1>8, <2>1, AddEffect, RemoveEffect, RewriteEffect, QuietEffect
<1>9. CASE CreateServiceAccount
    <2>1. pass.name \in FluentBits
        BY <1>9, PassObjects DEF CreateServiceAccount, At
    <2> QED
        BY <1>9, <2>1, AccountEffect, WriteEffect, QuietEffect DEF Kinds, FB, DS
<1>10. CASE WriteDaemonSet
    <2>1. pass.name \in FluentBits /\ pass.pc = "writeDaemonSet"
        BY <1>10, PassObjects DEF WriteDaemonSet, At
    <2>2. CASE UNCHANGED <<cache, events>>
        BY <2>2, QuietEffect
    <2>3. CASE ~ UNCHANGED <<cache, events>>
        <3>1. /\ Return
              /\ \E x : /\ DependentWrite("DaemonSet", pass.name, x)
                        /\ \/ x.uid = pass.fb.uid
                           \/ /\ pass.base.uid = pass.fb.uid
                              /\ x.uid = Live("DaemonSet", pass.name).uid
                        /\ Live("DaemonSet", pass.name).uid # 0 \/ x.uid = pass.fb.uid
            BY <1>10, <2>3, DaemonSetEffect
        <3>2. PICK x : /\ DependentWrite(DS, pass.name, x)
                       /\ x.uid = pass.fb.uid /\ x.uid = Live(FB, pass.name).uid
            BY <1>10, <3>1, DaemonSetOwner DEF DS
        <3> QED
            BY <2>1, <3>1, <3>2, WriteEffect DEF Return, Kinds, FB, DS
    <2> QED
        BY <2>2, <2>3
<1>11. CASE DeleteServiceAccount \/ DeleteDaemonSet
    <2>1. pass.name \in FluentBits /\ UNCHANGED <<cache, uids>>
        BY <1>11, PassObjects DEF DeleteServiceAccount, DeleteDaemonSet, At, server
    <2>2. UNCHANGED events \/ \E k \in Kinds : k # FB /\ Put(k, pass.name, None)
        BY <1>11 DEF DeleteServiceAccount, DeleteDaemonSet, Kinds, FB
    <2> QED
        BY <2>1, <2>2, RemovalEffect, WriteEffect, QuietEffect, NoneIsObject
<1> QED
    BY <1>1, <1>2, <1>3, <1>4, <1>5, <1>6, <1>7, <1>8, <1>9, <1>10, <1>11 DEF Next, Step

LEMMA EffectOrdered ==
    ASSUME Types, Types', PassInv, NEW n \in FluentBits, Ordered(n), Effect(n)
    PROVE  Ordered(n)'
<1>1. CASE Quiet(n)
    BY <1>1, OrderedMoved DEF Quiet
<1>2. CASE Rewritten(n)
    BY <1>2, OrderedRewritten DEF Rewritten, PassInv
<1>3. CASE Written(n)
    <2>1. PICK x \in Objects :
            /\ Grown(DS, n, x) /\ Moved(FB, n)
            /\ x.uid # 0 => /\ pass.pc = "writeDaemonSet" /\ pass.name = n
                            /\ x.uid = pass.fb.uid /\ x.uid = Live(FB, n).uid
        BY <1>3 DEF Written
    <2>2. ASSUME x.uid # 0, NEW i \in Places(FB, n), Seen(FB, n, i).uid # 0
          PROVE  x.uid <= Seen(FB, n, i).uid
        BY <2>1, <2>2 DEF PassInv, Recent
    <2> QED
        BY <2>1, <2>2, OrderedWritten
<1> QED
    BY <1>1, <1>2, <1>3 DEF Effect

-----------------------------------------------------------------------------
(* What a pass relies on stays true while it goes on, and is true when it   *)
(* begins and when it has read the DaemonSet.                               *)

Continues ==
    /\ pass'.pc # "idle" /\ pass.pc # "idle"
    /\ pass'.name = pass.name /\ pass'.fb = pass.fb
    /\ pass'.pc \in Deploying => pass.pc \in Deploying
    /\ pass'.pc \in TakingDown => pass.pc \in TakingDown

KeepsBase == pass'.pc = "writeDaemonSet" => pass.pc = pass'.pc /\ pass'.base = pass.base

LEMMA IdleInv == ASSUME pass' = Idle PROVE PassInv'
    BY DEF Idle, PassInv, Recent, Held, Doomed, Based, Deploying, TakingDown

LEMMA RecentKept ==
    ASSUME OrphanInv, Types', Continues, Effect(pass.name)
    PROVE  Recent' /\ Held' /\ Doomed'
<1> PICK n \in FluentBits, u \in Nat : n = pass.name /\ u = pass.fb.uid /\ u \in 1 .. uids
    BY PassObjects DEF OrphanInv, Continues
<1>1. n \in FluentBits /\ u \in 1 .. uids /\ uids \in Nat
    BY PassObjects DEF OrphanInv, Continues
<1>2. \A i \in Places(FB, n) : Seen(FB, n, i).uid \in 0 .. uids
    BY <1>1, SeenTypes DEF OrphanInv, FB, Kinds
<1>3. PICK m \in Places(FB, n) : Seen(FB, n, m) = Live(FB, n)
    BY <1>1, SeenTypes DEF OrphanInv, FB, Kinds
<1>4. pass'.name = n /\ pass'.fb.uid = u
    BY DEF Continues
<1>5. /\ \A j \in Places(FB, n) : Seen(FB, n, j).uid # 0 => u <= Seen(FB, n, j).uid
      /\ pass'.pc \in Deploying => Live(FB, n).uid = u /\ Live(FB, n).finalizer
      /\ pass'.pc \in TakingDown =>
           \A j \in Places(FB, n) : Seen(FB, n, j).uid = u => Seen(FB, n, j).deleting
    BY DEF OrphanInv, PassInv, Recent, Held, Doomed, Continues
<1> SUFFICES
      /\ \A j \in Places(FB, n)' : Seen(FB, n, j)'.uid # 0 => u <= Seen(FB, n, j)'.uid
      /\ pass'.pc \in Deploying => Live(FB, n)'.uid = u /\ Live(FB, n)'.finalizer
      /\ pass'.pc \in TakingDown =>
           \A j \in Places(FB, n)' : Seen(FB, n, j)'.uid = u => Seen(FB, n, j)'.deleting
    BY <1>4 DEF Recent, Held, Doomed, Seen, Places, Live
<1>6. CASE Moved(FB, n)
    <2>1. Live(FB, n)' = Live(FB, n)
        BY <1>1, <1>6, MovedSeen DEF OrphanInv, FB, Kinds
    <2>2. PICK d \in Nat : \A i \in Places(FB, n)' :
             i \in Nat /\ i + d \in Places(FB, n) /\ Seen(FB, n, i)' = Seen(FB, n, i + d)
        BY <1>1, <1>6, MovedSeen DEF OrphanInv, FB, Kinds
    <2> QED
        BY <1>5, <2>1, <2>2
<1>7. CASE Rewritten(n)
    <2>1. PICK x : Rewrite(n, x) /\ Grown(FB, n, x)
        BY <1>7 DEF Rewritten
    <2>2. PICK l \in Places(FB, n)' :
            /\ Seen(FB, n, l)' = x /\ Live(FB, n)' = x
            /\ \A i \in Places(FB, n)' :
                  \/ i \in Places(FB, n) /\ i < l /\ Seen(FB, n, i)' = Seen(FB, n, i)
                  \/ i = l
        BY <1>1, <2>1, GrownSeen DEF OrphanInv, FB, Kinds
    <2>3. CASE /\ x.uid = Live(FB, n).uid
               /\ Live(FB, n).deleting => x.deleting
               /\ Live(FB, n).finalizer => x.finalizer
        BY <1>3, <1>5, <2>2, <2>3
    <2>4. CASE x.uid = uids + 1 /\ Live(FB, n).uid = 0
        BY <1>1, <1>5, <2>2, <2>4
    <2>5. CASE /\ x = None
               /\ pass.pc = "removeFinalizer" \/ ~Live(FB, n).finalizer
        <3>1. pass'.pc \notin Deploying
            BY <1>5, <2>5 DEF Continues, Deploying
        <3> QED
            BY <1>1, <1>5, <2>2, <2>5, <3>1, NoneIsObject
    <2> QED
        BY <2>1, <2>3, <2>4, <2>5 DEF Rewrite, FB
<1>8. CASE Written(n)
    BY <1>6, <1>8 DEF Written
<1> QED
    BY <1>6, <1>7, <1>8 DEF Effect, Quiet

LEMMA BasedKept ==
    ASSUME OrphanInv, Types', Continues, KeepsBase, Effect(pass.name)
    PROVE  Based'
<1> PICK n \in FluentBits, b \in Nat : n = pass.name /\ b = pass.base.uid
    BY PassObjects DEF OrphanInv, Continues, Objects
<1> SUFFICES ASSUME pass'.pc = "writeDaemonSet", b # 0
             PROVE  \A j \in Places(DS, n)' :
                        Seen(DS, n, j)'.uid # 0 => b <= Seen(DS, n, j)'.uid
    BY DEF Continues, KeepsBase, Based, Seen, Places
<1>1. /\ n \in FluentBits
      /\ \A j \in Places(DS, n) : Seen(DS, n, j).uid # 0 => b <= Seen(DS, n, j).uid
    BY PassObjects DEF OrphanInv, PassInv, Based, KeepsBase, Continues
<1>2. CASE Moved(DS, n)
    BY <1>1, <1>2, MovedSeen DEF OrphanInv, DS, Kinds
<1>3. CASE Written(n)
    <2>1. PICK x \in Objects : Grown(DS, n, x) /\ (x.uid # 0 => pass' = Idle)
        BY <1>3 DEF Written
    <2>2. x.uid = 0
        BY <2>1 DEF Idle
    <2>3. PICK l \in Places(DS, n)' :
            /\ Seen(DS, n, l)' = x
            /\ \A i \in Places(DS, n)' :
                  \/ i \in Places(DS, n) /\ i < l /\ Seen(DS, n, i)' = Seen(DS, n, i)
                  \/ i = l
        BY <1>1, <2>1, GrownSeen DEF OrphanInv, DS, Kinds
    <2> QED
        BY <1>1, <2>2, <2>3
<1> QED
    BY <1>2, <1>3 DEF Effect, Quiet, Rewritten

LEMMA BeginInv ==
    ASSUME OrphanInv, Begin
    PROVE  PassInv'
<1>1. PICK n \in FluentBits :
         pass' = IF Gone(cache[FB][n]) \/ Branch(cache[FB][n]) = "idle" THEN Idle
                 ELSE [pc |-> Branch(cache[FB][n]), name |-> n, fb |-> cache[FB][n],
                       base |-> None]
    BY DEF Begin, OrphanInv, Types, TypeOK, RestOK, FB
<1>2. CASE pass' = Idle
    BY <1>2, IdleInv
<1>3. CASE pass' # Idle
    <2> PICK fb : fb = cache[FB][n]
        OBVIOUS
    <2>1. pass' = [pc |-> Branch(fb), name |-> n, fb |-> fb, base |-> None] /\ fb # None
        BY <1>1, <1>3 DEF Gone
    <2>2. /\ Seen(FB, n, 0) = fb /\ 0 \in Places(FB, n) /\ fb.uid # 0
          /\ \A j \in Places(FB, n) : 0 <= j
        BY <2>1, SeenTypes DEF OrphanInv, Places, Seen, FB, Kinds
    <2>3. Ordered(n) /\ UNCHANGED <<cache, events>>
        BY DEF OrphanInv, Begin
    <2>4. Recent'
        <3>1. \A j \in Places(FB, n) : Seen(FB, n, j).uid # 0 => fb.uid <= Seen(FB, n, j).uid
            BY <2>2, <2>3 DEF Ordered, Ascending
        <3> QED
            BY <2>1, <2>3, <3>1 DEF Recent, Places, Seen
    <2>5. Held'
        <3>1. pass'.pc \in Deploying => fb.finalizer /\ ~fb.deleting
            BY <2>1 DEF Branch, NeedsFinalizer, Deploying
        <3>2. pass'.pc \in Deploying => Live(FB, n).uid = fb.uid /\ Live(FB, n).finalizer
            BY <2>2, <2>3, <3>1 DEF Ordered, Guarded
        <3> QED
            BY <2>1, <2>3, <3>2 DEF Held, Live
    <2>6. Doomed'
        <3>1. pass'.pc \in TakingDown => fb.deleting
            BY <2>1 DEF Branch, NeedsFinalizer, TakingDown
        <3>2. fb.deleting =>
                \A j \in Places(FB, n) : Seen(FB, n, j).uid = fb.uid => Seen(FB, n, j).deleting
            BY <2>2, <2>3 DEF Ordered, Marked
        <3> QED
            BY <2>1, <2>3, <3>1, <3>2 DEF Doomed, Places, Seen
    <2>7. Based'
        BY <2>1, NoneIsObject DEF Based
    <2> QED
        BY <2>4, <2>5, <2>6, <2>7 DEF PassInv
<1> QED
    BY <1>2, <1>3

LEMMA GetDaemonSetInv ==
    ASSUME OrphanInv, Types', GetDaemonSet
    PROVE  PassInv'
<1>1. /\ pass' = [pass EXCEPT !.pc = "writeDaemonSet", !.base = cache[DS][pass.name]]
      /\ pass.pc = "getDaemonSet" /\ UNCHANGED <<cache, events>>
    BY DEF GetDaemonSet, At, DS
<1>2. PICK n \in FluentBits : n = pass.name
    BY <1>1, PassObjects DEF OrphanInv
<1>3. /\ pass'.pc = "writeDaemonSet" /\ pass'.name = pass.name /\ pass'.fb = pass.fb
      /\ pass'.base = cache[DS][n]
    BY <1>1, <1>2 DEF OrphanInv, Types, PassShaped
<1>4. Recent' /\ Held' /\ Doomed'
    <2>1. Continues
        BY <1>1, <1>3 DEF Continues, Deploying, TakingDown
    <2> QED
        BY <1>1, <1>2, <2>1, QuietEffect, RecentKept DEF OrphanInv
<1>5. Based'
    <2>1. /\ Seen(DS, n, 0) = cache[DS][n] /\ 0 \in Places(DS, n)
          /\ \A j \in Places(DS, n) : 0 <= j
        BY SeenTypes DEF OrphanInv, Places, Seen, DS, Kinds
    <2>2. cache[DS][n].uid # 0 =>
            \A j \in Places(DS, n) :
                Seen(DS, n, j).uid # 0 => cache[DS][n].uid <= Seen(DS, n, j).uid
        BY <2>1 DEF OrphanInv, Ordered, Ascending
    <2> QED
        BY <1>1, <1>2, <1>3, <2>2 DEF Based, Places, Seen
<1> QED
    BY <1>4, <1>5 DEF PassInv

\* Every other step leaves the pass alone, ends it, or takes it to its next call.
LEMMA PassSteps ==
    ASSUME OrphanInv, [Next]_vars
    PROVE  Begin \/ GetDaemonSet \/ pass' = Idle \/ UNCHANGED pass \/ (Continues /\ KeepsBase)
<1>1. CASE UNCHANGED pass
    BY <1>1
<1>2. CASE pass' = Idle
    BY <1>2
<1>3. CASE AddFinalizer \/ RemoveFinalizer \/ WriteDaemonSet \/ CallFails
    BY <1>3 DEF AddFinalizer, RemoveFinalizer, WriteDaemonSet, CallFails, UpdateFluentBit,
       Again, Return
<1>4. CASE GetSecret \/ CreateRole \/ CreateServiceAccount \/ CreateBinding
           \/ DeleteServiceAccount \/ DeleteDaemonSet
    <2>1. CASE Again
        BY <2>1 DEF Again
    <2>2. CASE ~Again
        <3>1. PICK q \in PCs : Goto(q) /\ \/ pass.pc \in Deploying /\ q \in Deploying \ {"writeDaemonSet"}
                                          \/ pass.pc \in TakingDown /\ q \in TakingDown
            BY <1>4, <2>2 DEF GetSecret, CreateRole, CreateServiceAccount, CreateBinding,
               DeleteServiceAccount, DeleteDaemonSet, AfterServiceAccount, At, PCs,
               Deploying, TakingDown
        <3>2. pass'.pc = q /\ pass'.name = pass.name /\ pass'.fb = pass.fb
            BY <3>1 DEF Goto, OrphanInv, Types, PassShaped
        <3> QED
            BY <3>1, <3>2 DEF Continues, KeepsBase, Deploying, TakingDown
    <2> QED
        BY <2>1, <2>2
<1>5. CASE /\ pass' # Idle /\ pass' # pass /\ ~Begin /\ ~GetDaemonSet
           /\ ~(AddFinalizer \/ RemoveFinalizer \/ WriteDaemonSet \/ CallFails)
           /\ ~(\/ GetSecret \/ CreateRole \/ CreateServiceAccount \/ CreateBinding
                \/ DeleteServiceAccount \/ DeleteDaemonSet)
    BY <1>5 DEF Next, Step, vars, CreateFluentBit, EditFluentBit, DeleteFluentBit,
       MakeSecret, LoseSecret, DeliverSecret, Tamper, CollectGarbage, Deliver, Restart
<1> QED
    BY <1>1, <1>2, <1>3, <1>4, <1>5

LEMMA OrphanNext == OrphanInv /\ [Next]_vars => OrphanInv'
<1> SUFFICES ASSUME OrphanInv, [Next]_vars PROVE OrphanInv'
    OBVIOUS
<1>1. Types'
    BY TypesNext DEF OrphanInv
<1>2. \A n \in FluentBits : Effect(n)
    BY StepEffect
<1>3. \A n \in FluentBits : Ordered(n)'
    BY <1>1, <1>2, EffectOrdered DEF OrphanInv
<1>4. PassInv'
    <2>1. CASE Begin
        BY <2>1, BeginInv
    <2>2. CASE GetDaemonSet
        BY <1>1, <2>2, GetDaemonSetInv
    <2>3. CASE pass' = Idle
        BY <2>3, IdleInv
    <2>4. CASE Continues /\ KeepsBase
        <3>1. pass.name \in FluentBits
            BY <2>4, PassObjects DEF OrphanInv, Continues
        <3> QED
            BY <1>1, <1>2, <2>4, <3>1, RecentKept, BasedKept DEF PassInv
    <2>5. CASE UNCHANGED pass /\ pass.pc # "idle"
        <3>1. Continues /\ KeepsBase
            BY <2>5 DEF Continues, KeepsBase
        <3> QED
            BY <2>4, <3>1
    <2>6. CASE UNCHANGED pass /\ pass.pc = "idle"
        BY <2>6 DEF PassInv, Recent, Held, Doomed, Based, Deploying, TakingDown
    <2> QED
        BY <2>1, <2>2, <2>3, <2>4, <2>5, <2>6, PassSteps
<1> QED
    BY <1>1, <1>3, <1>4 DEF OrphanInv

LEMMA OrphanInit == Init => OrphanInv
<1> SUFFICES ASSUME Init PROVE OrphanInv
    OBVIOUS
<1>1. Types
    BY TypesInit
<1>2. PassInv
    BY DEF Init, Idle, PassInv, Recent, Held, Doomed, Based, Deploying, TakingDown
<1>3. ASSUME NEW n \in FluentBits PROVE Ordered(n)
    <2>1. \A k \in Kinds : /\ \A i \in Places(k, n) : Seen(k, n, i) = None
        BY DEF Init, Places, Seen
    <2> QED
        BY <2>1, NoneIsObject DEF Ordered, Ascending, Marked, Guarded, Behind, FB, DS, Kinds
<1> QED
    BY <1>1, <1>2, <1>3 DEF OrphanInv

-----------------------------------------------------------------------------
(* The writes of the dependents.                                            *)

LEMMA PutLive ==
    ASSUME Types, Types', NEW m \in FluentBits, NEW k \in Kinds, NEW x \in Objects,
           Put(k, m, x), UNCHANGED cache
    PROVE  /\ Live(k, m)' = x
           /\ \A k2 \in Kinds, n \in FluentBits :
                 k2 # k \/ n # m => Live(k2, n)' = Live(k2, n)
<1>1. MaxPending \in Nat
    BY ControllerAssumption DEF ControllerAssumption
<1>2. /\ \A k2 \in Kinds, n \in FluentBits : <<k2, n>> # <<k, m>> => Moved(k2, n)
      /\ (UNCHANGED events /\ x = Live(k, m)) \/ Grown(k, m, x)
    BY <1>1, PutEffect DEF Types
<1>3. UNCHANGED events => Live(k, m)' = Live(k, m)
    BY DEF Live
<1>4. Live(k, m)' = x
    BY <1>2, <1>3, GrownSeen
<1> QED
    BY <1>2, <1>4, MovedSeen

LEMMA WriteLive ==
    ASSUME Types, Types', NEW m \in FluentBits, NEW k \in Kinds, NEW x,
           DependentWrite(k, m, x),
           NEW n \in FluentBits, NEW k2 \in Kinds, Live(k2, n)' # Live(k2, n)
    PROVE  k2 = k /\ n = m /\ Live(k2, n)' = x
    BY PutLive DEF DependentWrite

\* A ServiceAccount or a DaemonSet is only ever made for, or given to, the
\* FluentBit that exists at that moment, however old the caches are that the
\* pass has read: the finalizer keeps the FluentBit of a deploying pass.
THEOREM NoOrphans == Spec => NeverOrphans
<1>1. ASSUME OrphanInv, [Next]_vars, NEW n \in FluentBits,
             NEW k \in {"ServiceAccount", "DaemonSet"},
             CreateServiceAccount \/ WriteDaemonSet, Live(k, n)' # Live(k, n)
      PROVE  Live(k, n)'.uid = Live("FluentBit", n).uid
    <2>1. Types /\ Types' /\ pass.name \in FluentBits /\ k \in Kinds
        BY <1>1, TypesNext, PassObjects
           DEF OrphanInv, CreateServiceAccount, WriteDaemonSet, At, Kinds
    <2>2. ~UNCHANGED <<cache, events, uids>>
        BY <1>1 DEF Live
    <2>3. CASE CreateServiceAccount
        <3>1. PICK x : DependentWrite("ServiceAccount", pass.name, x) /\ x.uid = pass.fb.uid
            BY <2>1, <2>2, <2>3, AccountEffect
        <3>2. Live("FluentBit", pass.name).uid = pass.fb.uid
            BY <1>1, <2>3 DEF OrphanInv, PassInv, Held, Deploying, CreateServiceAccount, At, FB,
               AfterServiceAccount
        <3> QED
            BY <1>1, <2>1, <3>1, <3>2, WriteLive DEF Kinds
    <2>4. CASE WriteDaemonSet
        <3>1. PICK x : /\ DependentWrite("DaemonSet", pass.name, x)
                       /\ \/ x.uid = pass.fb.uid
                          \/ /\ pass.base.uid = pass.fb.uid
                             /\ x.uid = Live("DaemonSet", pass.name).uid
                       /\ Live("DaemonSet", pass.name).uid # 0 \/ x.uid = pass.fb.uid
            BY <2>1, <2>2, <2>4, DaemonSetEffect
        <3>2. x.uid = Live("FluentBit", pass.name).uid
            BY <1>1, <2>4, <3>1, DaemonSetOwner DEF OrphanInv, FB, DS
        <3> QED
            BY <1>1, <2>1, <3>1, <3>2, WriteLive DEF Kinds
    <2> QED
        BY <1>1, <2>3, <2>4
<1>2. OrphanInv /\ [Next]_vars =>
        [\A n \in FluentBits, k \in {"ServiceAccount", "DaemonSet"} :
            (CreateServiceAccount \/ WriteDaemonSet) /\ Live(k, n)' # Live(k, n)
               => Live(k, n)'.uid = Live("FluentBit", n).uid]_vars
    BY <1>1
<1>3. Spec => []OrphanInv
    BY OrphanInit, OrphanNext, PTL DEF Spec
<1> QED
    BY <1>2, <1>3, PTL DEF Spec, NeverOrphans
-----------------------------------------------------------------------------
(* Wake-ups: a name that nothing will make Reconcile look at again is done, *)
(* or it is being worked on by a pass that has read what the caches have.   *)

Still(n) == \A k \in Kinds : events[k][n] = <<>>
Resting(n) == n \notin queue /\ Still(n)
WorksOn(n) == pass.pc # "idle" /\ pass.name = n

\* As far as the caches tell, there is nothing left to do.
Done(n) ==
    LET fb == cache["FluentBit"][n] IN
    \/ fb = None
    \/ /\ ~fb.deleting
       /\ cache["DaemonSet"][n] = MakeDaemonSet(fb)
       /\ cache["ServiceAccount"][n] # None

\* What the pass has read it would read again, and what it has made is there.
Current(n) ==
    /\ pass.fb = cache["FluentBit"][n]
    /\ pass.pc \in {"createBinding", "getDaemonSet", "writeDaemonSet"} =>
          cache["ServiceAccount"][n] # None
    /\ pass.pc = "writeDaemonSet" => pass.base = cache["DaemonSet"][n]

\* The way that a pass takes is the one for its FluentBit.
Fits ==
    /\ pass.pc \in Deploying => ~pass.fb.deleting
    /\ pass.pc = "addFinalizer" => ~pass.fb.finalizer

Woken == \A n \in FluentBits : Resting(n) => IF WorksOn(n) THEN Current(n) ELSE Done(n)

WakeInv == Types /\ Fits /\ Woken

\* A write that makes no event writes what the cache has.
LEMMA WriteRests ==
    ASSUME Types, NEW k \in Kinds, NEW n \in FluentBits, NEW x \in Objects,
           UNCHANGED cache, Put(k, n, x), NEW m \in FluentBits, Still(m)'
    PROVE  /\ Still(m)
           /\ m = n => x = cache[k][n]
<1>1. MaxPending \in Nat /\ Shaped
    BY ControllerAssumption DEF ControllerAssumption, Types
<1>2. /\ \A k2 \in Kinds, n2 \in FluentBits :
            <<k2, n2>> # <<k, n>> => events'[k2][n2] = events[k2][n2]
      /\ \/ UNCHANGED events /\ x = Live(k, n)
         \/ events'[k][n] = Append(events[k][n], x)
    BY <1>1, PutEffect
<1>3. CASE m = n
    <2>1. events'[k][n] = <<>> /\ events[k][n] \in Seq(Objects)
        BY <1>1, <1>3 DEF Still, Shaped
    <2>2. events'[k][n] # Append(events[k][n], x)
        BY <2>1
    <2>3. UNCHANGED events /\ x = Live(k, n)
        BY <1>2, <2>2
    <2> QED
        BY <1>3, <2>1, <2>3 DEF Still, Live
<1>4. CASE m # n
    BY <1>2, <1>4 DEF Still
<1> QED
    BY <1>3, <1>4

\* Steps of anybody else leave what the names at rest rely on.
LEMMA OthersWake ==
    ASSUME Fits, Woken, UNCHANGED <<cache, pass, queue>>,
           \A m \in FluentBits : Still(m)' => Still(m)
    PROVE  Fits' /\ Woken'
<1>1. Fits'
    BY DEF Fits
<1>2. ASSUME NEW m \in FluentBits, Resting(m)'
      PROVE  IF WorksOn(m)' THEN Current(m)' ELSE Done(m)'
    <2>1. Resting(m)
        BY <1>2 DEF Resting
    <2> QED
        BY <2>1 DEF Woken, WorksOn, Current, Done
<1> QED
    BY <1>1, <1>2 DEF Woken

\* A step of a pass concerns the name it works on, which may come back.
LEMMA PassWakes ==
    ASSUME Types, Woken, pass.pc # "idle", UNCHANGED cache,
           NEW n \in FluentBits, n = pass.name,
           queue' \in {queue, queue \cup {n}},
           pass' = Idle \/ pass'.name = n,
           \A m \in FluentBits : Still(m)' => Still(m),
           Resting(n)' => IF WorksOn(n)' THEN Current(n)' ELSE Done(n)'
    PROVE  Woken'
<1>1. ASSUME NEW m \in FluentBits, Resting(m)', m # n
      PROVE  ~WorksOn(m)' /\ Done(m)'
    <2>1. Resting(m) /\ ~WorksOn(m)
        BY <1>1 DEF Resting, WorksOn
    <2>2. ~WorksOn(m)'
        BY <1>1 DEF WorksOn, Idle
    <2> QED
        BY <2>1, <2>2 DEF Woken, Done
<1>2. ASSUME NEW m \in FluentBits, Resting(m)'
      PROVE  IF WorksOn(m)' THEN Current(m)' ELSE Done(m)'
    <2>1. CASE m = n
        BY <1>2, <2>1
    <2>2. CASE m # n
        BY <1>1, <1>2, <2>2
    <2> QED
        BY <2>1, <2>2
<1> QED
    BY <1>2 DEF Woken

LEMMA AgainWakes ==
    ASSUME Types, Woken, pass.pc # "idle", UNCHANGED <<cache, events>>, Again
    PROVE  Fits' /\ Woken'
<1>1. Fits'
    BY DEF Again, Fits, Idle, Deploying
<1>2. PICK n \in FluentBits : n = pass.name
    BY PassObjects
<1>3. ~Resting(n)'
    BY <1>2 DEF Again, Resting
<1> QED
    BY <1>1, <1>2, <1>3, PassWakes DEF Again, Still

\* The pass goes on.
LEMMA GotoWakes ==
    ASSUME Types, Fits, Woken, NEW q \in PCs \ {"idle", "addFinalizer", "writeDaemonSet"},
           pass.pc # "idle", q \in Deploying => pass.pc \in Deploying,
           Goto(q), UNCHANGED <<cache, queue>>, NEW n \in FluentBits, n = pass.name,
           \A m \in FluentBits : Still(m)' => Still(m),
           Still(n)' /\ q \in {"createBinding", "getDaemonSet"} =>
              pass.pc = "createBinding" \/ cache["ServiceAccount"][n] # None
    PROVE  Fits' /\ Woken'
<1>1. pass'.pc = q /\ pass'.name = pass.name /\ pass'.fb = pass.fb
    BY DEF Goto, Types, PassShaped
<1>2. Fits'
    BY <1>1 DEF Fits
<1>3. ASSUME Resting(n)' PROVE WorksOn(n)' /\ Current(n)'
    <2>1. Resting(n) /\ WorksOn(n)
        BY <1>3 DEF Resting, WorksOn
    <2>2. Current(n)
        BY <2>1 DEF Woken
    <2> QED
        BY <1>1, <1>3, <2>2 DEF WorksOn, Current, Resting
<1> QED
    BY <1>1, <1>2, <1>3, PassWakes

LEMMA UsersWake ==
    ASSUME WakeInv, NEW n \in FluentBits,
           \/ CreateFluentBit(n) \/ EditFluentBit(n) \/ DeleteFluentBit(n)
           \/ MakeSecret(n) \/ LoseSecret(n) \/ DeliverSecret(n)
           \/ \E k \in Kinds : Tamper(k, n) \/ CollectGarbage(k, n)
    PROVE  Fits' /\ Woken'
<1>1. UNCHANGED <<cache, pass, queue>>
    BY DEF CreateFluentBit, EditFluentBit, DeleteFluentBit, MakeSecret, LoseSecret,
       DeliverSecret, Tamper, CollectGarbage
<1>2. \/ UNCHANGED events
      \/ \E k \in Kinds, x \in Objects : Put(k, n, x)
    <2>1. CASE CreateFluentBit(n) \/ EditFluentBit(n) \/ DeleteFluentBit(n)
        BY <2>1, CreateEffect, EditEffect, DeleteEffect DEF WakeInv, Rewrite, Kinds
    <2>2. CASE \E k \in Kinds : Tamper(k, n) \/ CollectGarbage(k, n)
        BY <2>2, NoneIsObject DEF Tamper, CollectGarbage
    <2>3. CASE MakeSecret(n) \/ LoseSecret(n) \/ DeliverSecret(n)
        BY <2>3 DEF MakeSecret, LoseSecret, DeliverSecret
    <2> QED
        BY <2>1, <2>2, <2>3
<1>3. \A m \in FluentBits : Still(m)' => Still(m)
    BY <1>1, <1>2, WriteRests DEF WakeInv, Still
<1> QED
    BY <1>1, <1>3, OthersWake DEF WakeInv

\* A delivered state requests its name, as every kind is watched.
LEMMA DeliverWakes ==
    ASSUME WakeInv, NEW n \in FluentBits, NEW k \in Kinds, Deliver(k, n)
    PROVE  Fits' /\ Woken'
<1>1. UNCHANGED pass /\ queue' = queue \cup {n}
    BY DEF Deliver, Watched, Kinds
<1>2. \A m \in FluentBits, k2 \in Kinds :
         m # n => cache'[k2][m] = cache[k2][m] /\ events'[k2][m] = events[k2][m]
    BY DEF Deliver, WakeInv, Types, Shaped
<1>3. ASSUME NEW m \in FluentBits, Resting(m)'
      PROVE  IF WorksOn(m)' THEN Current(m)' ELSE Done(m)'
    <2>1. m # n /\ Resting(m)
        BY <1>1, <1>2, <1>3 DEF Resting, Still
    <2>2. \A k2 \in Kinds : cache'[k2][m] = cache[k2][m]
        BY <1>2, <2>1
    <2> QED
        BY <1>1, <2>1, <2>2 DEF WakeInv, Woken, WorksOn, Current, Done, Kinds
<1> QED
    BY <1>1, <1>3 DEF WakeInv, Woken, Fits

\* After a restart every object requests its name.
LEMMA RestartWakes ==
    ASSUME WakeInv, Restart
    PROVE  Fits' /\ Woken'
<1>1. pass' = Idle
    BY DEF Restart
<1>2. ASSUME NEW m \in FluentBits, Resting(m)' PROVE ~WorksOn(m)' /\ Done(m)'
    <2>1. "FluentBit" \in Watched /\ "FluentBit" \in Kinds
        BY DEF Watched, Kinds
    <2>2. Live("FluentBit", m) = None /\ cache'["FluentBit"][m] = Live("FluentBit", m)
        BY <1>2, <2>1 DEF Restart, Resting
    <2> QED
        BY <1>1, <2>2 DEF Done, WorksOn, Idle
<1> QED
    BY <1>1, <1>2 DEF Woken, Fits, Idle, Deploying

\* A pass begins with what the cache has; it has nothing to do for a FluentBit
\* that is gone, and there is no other that it leaves as it is.
LEMMA BeginWakes ==
    ASSUME WakeInv, Begin
    PROVE  Fits' /\ Woken'
<1>1. PICK n \in queue :
         /\ queue' = queue \ {n}
         /\ pass' = IF Gone(cache["FluentBit"][n]) \/ Branch(cache["FluentBit"][n]) = "idle"
                    THEN Idle
                    ELSE [pc |-> Branch(cache["FluentBit"][n]), name |-> n,
                          fb |-> cache["FluentBit"][n], base |-> None]
    BY DEF Begin
<1> DEFINE fb == cache["FluentBit"][n]
<1>2. n \in FluentBits /\ UNCHANGED <<cache, events>> /\ pass.pc = "idle"
    BY DEF Begin, At, WakeInv, Types, TypeOK, RestOK
<1>3. ObjectOK("FluentBit", n, fb, uids) /\ fb \in Objects
    BY <1>2 DEF WakeInv, Types, TypeOK, ObjectsOK, Shaped, Kinds
<1>4. Branch(fb) = "idle" => fb = None
    BY <1>3 DEF Branch, ObjectOK, NeedsFinalizer
<1>5. Fits'
    BY <1>1 DEF Fits, Idle, Deploying, Branch, NeedsFinalizer
<1>6. ASSUME NEW m \in FluentBits, Resting(m)'
      PROVE  IF WorksOn(m)' THEN Current(m)' ELSE Done(m)'
    <2>1. CASE m # n
        <3>1. Resting(m) /\ ~WorksOn(m) /\ ~WorksOn(m)'
            BY <1>1, <1>2, <1>6, <2>1 DEF Resting, Still, WorksOn, Idle
        <3> QED
            BY <1>2, <3>1 DEF WakeInv, Woken, Done
    <2>2. CASE m = n /\ fb = None
        BY <1>1, <1>2, <2>2 DEF Gone, WorksOn, Idle, Done
    <2>3. CASE m = n /\ fb # None
        <3>1. /\ pass'.pc = Branch(fb) /\ pass'.pc # "idle" /\ pass'.name = n
              /\ pass'.fb = fb
            BY <1>1, <1>4, <2>3 DEF Gone
        <3> QED
            BY <1>2, <2>3, <3>1 DEF WorksOn, Current, Branch
    <2> QED
        BY <2>1, <2>2, <2>3
<1> QED
    BY <1>5, <1>6 DEF Woken

\* The finalizer that is added or removed makes an event, which requests the name.
LEMMA FinalizerWakes ==
    ASSUME WakeInv, AddFinalizer \/ RemoveFinalizer
    PROVE  Fits' /\ Woken'
<1>0. PICK n \in FluentBits : n = pass.name
    BY PassObjects DEF AddFinalizer, RemoveFinalizer, At, WakeInv
<1> USE <1>0
<1>1. /\ Types /\ pass.pc # "idle" /\ UNCHANGED cache
      /\ pass.fb \in Objects /\ pass.fb # None
    BY PassObjects DEF AddFinalizer, RemoveFinalizer, At, WakeInv, Types, TypeOK, PassOK
<1>2. CASE Again /\ UNCHANGED events
    BY <1>1, <1>2, AgainWakes DEF WakeInv
<1>3. CASE Live("FluentBit", n) = pass.fb /\ Return
    <2>1. PICK y \in Objects : Put("FluentBit", n, y) /\ y # pass.fb
        <3>1. CASE AddFinalizer
            <4>1. [pass.fb EXCEPT !.finalizer = TRUE] \in Objects
                BY <1>1 DEF Objects
            <4>2. [pass.fb EXCEPT !.finalizer = TRUE] # pass.fb
                BY <1>1, <3>1 DEF Objects, WakeInv, Fits, AddFinalizer, At
            <4> QED
                BY <1>3, <3>1, <4>1, <4>2 DEF AddFinalizer, UpdateFluentBit
        <3>2. CASE RemoveFinalizer
            BY <1>1, <1>3, <3>2, NoneIsObject DEF RemoveFinalizer, UpdateFluentBit
        <3> QED
            BY <3>1, <3>2
    <2>2. \A m \in FluentBits :
             Still(m)' => Still(m) /\ (m = n => y = cache["FluentBit"][n])
        BY <1>1, <2>1, WriteRests DEF Kinds
    <2>3. ~Still(n)'
        BY <1>1, <1>3, <2>1, <2>2 DEF Still, Live, Kinds
    <2>4. Fits'
        BY <1>3 DEF Return, Fits, Idle, Deploying
    <2> QED
        BY <1>1, <1>3, <2>2, <2>3, <2>4, PassWakes DEF Return, WakeInv, Resting
<1> QED
    BY <1>2, <1>3 DEF AddFinalizer, RemoveFinalizer, UpdateFluentBit

LEMMA AccountWakes ==
    ASSUME WakeInv, CreateServiceAccount
    PROVE  Fits' /\ Woken'
<1>0. PICK n \in FluentBits : n = pass.name
    BY PassObjects DEF CreateServiceAccount, At, WakeInv
<1> USE <1>0
<1>1. /\ Types /\ pass.pc = "createServiceAccount" /\ UNCHANGED <<cache, queue>>
      /\ n \in FluentBits /\ Goto("createBinding")
    BY PassObjects DEF CreateServiceAccount, At, WakeInv, AfterServiceAccount
<1>2. CASE Live("ServiceAccount", n) # None
    <2>1. UNCHANGED events
        BY <1>2 DEF CreateServiceAccount
    <2>2. Still(n)' => cache["ServiceAccount"][n] # None
        BY <1>1, <1>2, <2>1 DEF Still, Live, Kinds
    <2> QED
        BY <1>1, <2>1, <2>2, GotoWakes DEF WakeInv, Still, PCs, Deploying
<1>3. CASE Live("ServiceAccount", n) = None
    <2>1. PICK x \in Objects : Put("ServiceAccount", n, x) /\ x.uid = pass.fb.uid
        <3>1. ServiceAccount(pass.fb.uid) \in Objects
              /\ ServiceAccount(pass.fb.uid).uid = pass.fb.uid
            BY <1>1, PassObjects, NoneIsObject DEF ServiceAccount, Objects
        <3> QED
            BY <1>3, <3>1 DEF CreateServiceAccount
    <2>2. \A m \in FluentBits :
             Still(m)' => Still(m) /\ (m = n => x = cache["ServiceAccount"][n])
        BY <1>1, <2>1, WriteRests DEF Kinds
    <2>3. x # None
        BY <1>1, <2>1, PassObjects, NoneIsObject
    <2> QED
        BY <1>1, <2>2, <2>3, GotoWakes DEF WakeInv, PCs, Deploying
<1> QED
    BY <1>2, <1>3

\* A DaemonSet that is written without an event was the expected one already.
LEMMA DaemonSetWakes ==
    ASSUME WakeInv, WriteDaemonSet
    PROVE  Fits' /\ Woken'
<1>0. PICK n \in FluentBits : n = pass.name
    BY PassObjects DEF WriteDaemonSet, At, WakeInv
<1> USE <1>0
<1> DEFINE live == Live("DaemonSet", n)
           want == MakeDaemonSet(pass.fb)
           new  == IF pass.base = None THEN want ELSE Patched(live, pass.base, want)
<1>1. /\ Types /\ pass.pc = "writeDaemonSet" /\ UNCHANGED cache
      /\ n \in FluentBits /\ pass.fb \in Objects /\ pass.fb.uid # 0
      /\ live \in Objects
    BY PassObjects, LiveTypes DEF WriteDaemonSet, At, WakeInv, Kinds
<1>2. CASE Again /\ UNCHANGED events
    BY <1>1, <1>2, AgainWakes DEF WakeInv
<1>3. CASE /\ Return /\ Put("DaemonSet", n, new)
           /\ (pass.base = None) = (live = None)
    <2>1. want \in Objects /\ want.uid = pass.fb.uid
          /\ want.deleting = None.deleting /\ want.finalizer = None.finalizer
          /\ want.at = None.at
        BY <1>1, NoneIsObject DEF MakeDaemonSet, Objects
    <2>2. new \in Objects
        <3> HIDE DEF want, live
        <3> QED
            BY <1>1, <2>1 DEF Patched, Objects
    <2>3. \A m \in FluentBits :
             Still(m)' => Still(m) /\ (m = n => new = cache["DaemonSet"][n])
        BY <1>1, <1>3, <2>2, WriteRests DEF Kinds
    <2>4. ASSUME Resting(n)' PROVE ~WorksOn(n)' /\ Done(n)'
        <3>1. Resting(n) /\ WorksOn(n) /\ new = cache["DaemonSet"][n]
            BY <1>1, <1>3, <2>3, <2>4 DEF Resting, Return, WorksOn
        <3>2. live = cache["DaemonSet"][n]
            BY <3>1 DEF Resting, Still, Live, Kinds
        <3>3. /\ pass.base = live /\ pass.fb = cache["FluentBit"][n]
              /\ cache["ServiceAccount"][n] # None
            BY <1>1, <3>1, <3>2 DEF WakeInv, Woken, Current
        <3>4. live # None
            BY <1>1, <2>1, <3>1, <3>2, <3>3, NoneIsObject
        <3>5. ObjectOK("DaemonSet", n, live, uids) /\ None.at = 0
            BY <1>1, LiveTypes DEF Kinds, None
        <3>6. live = want
            <4>1. live = Patched(live, live, want)
                BY <3>1, <3>2, <3>3, <3>4
            <4>2. /\ live.at = want.at /\ live.deleting = want.deleting
                  /\ live.finalizer = want.finalizer
                BY <1>1, <2>1, <3>4, <3>5, NoneIsObject DEF ObjectOK, Objects
            <4> HIDE DEF live, want
            <4>3. live.uid = want.uid /\ live.labels = want.labels /\ live.body = want.body
                BY <1>1, <2>1, <4>1 DEF Patched, Objects
            <4> QED
                BY <1>1, <2>1, <4>2, <4>3, SameFields
        <3>7. ~WorksOn(n)' /\ ~pass.fb.deleting
            BY <1>1, <1>3 DEF Return, WorksOn, Idle, WakeInv, Fits, Deploying
        <3> QED
            BY <1>1, <3>2, <3>3, <3>6, <3>7 DEF Done
    <2>5. Fits'
        BY <1>3 DEF Return, Fits, Idle, Deploying
    <2> QED
        BY <1>1, <1>3, <2>3, <2>4, <2>5, PassWakes DEF Return, WakeInv
<1> QED
    BY <1>2, <1>3 DEF WriteDaemonSet

LEMMA StepsWake ==
    ASSUME WakeInv, NEW n \in FluentBits, n = pass.name,
           \/ CallFails \/ GetSecret \/ CreateRole \/ CreateBinding
           \/ DeleteServiceAccount \/ DeleteDaemonSet \/ GetDaemonSet
    PROVE  Fits' /\ Woken'
<1>1. CASE CallFails
    BY <1>1, AgainWakes DEF CallFails, At, WakeInv
<1>2. CASE GetSecret
    <2>1. CASE Again
        BY <1>2, <2>1, AgainWakes DEF GetSecret, At, WakeInv
    <2>2. CASE Goto("createRole") /\ UNCHANGED queue
        BY <1>2, <2>2, GotoWakes DEF GetSecret, At, WakeInv, Still, PCs, Deploying
    <2> QED
        BY <1>2, <2>1, <2>2 DEF GetSecret
<1>3. CASE CreateRole \/ CreateBinding
    BY <1>3, GotoWakes DEF CreateRole, CreateBinding, At, WakeInv, Still, PCs, Deploying
<1>4. CASE DeleteServiceAccount \/ DeleteDaemonSet
    <2>1. /\ pass.pc # "idle" /\ pass.pc \notin Deploying /\ UNCHANGED <<cache, queue>>
          /\ Goto("deleteDaemonSet") \/ Goto("removeFinalizer")
        BY <1>4 DEF Deploying, DeleteServiceAccount, DeleteDaemonSet, At, WakeInv
    <2>2. UNCHANGED events \/ \E k \in Kinds : Put(k, n, None)
        BY <1>4 DEF DeleteServiceAccount, DeleteDaemonSet, Kinds
    <2>3. \A m \in FluentBits : Still(m)' => Still(m)
        BY <2>1, <2>2, NoneIsObject, WriteRests DEF WakeInv, Still
    <2> QED
        BY <2>1, <2>3, GotoWakes DEF WakeInv, PCs, Deploying, TakingDown
<1>5. CASE GetDaemonSet
    <2>1. /\ pass.pc = "getDaemonSet" /\ UNCHANGED <<cache, events, queue>>
        BY <1>5 DEF GetDaemonSet, At
    <2>2. /\ pass'.pc = "writeDaemonSet" /\ pass'.name = n /\ pass'.fb = pass.fb
          /\ pass'.base = cache["DaemonSet"][n]
        BY <1>5 DEF GetDaemonSet, WakeInv, Types, PassShaped
    <2>3. ASSUME Resting(n)' PROVE WorksOn(n)' /\ Current(n)'
        <3>1. Resting(n) /\ WorksOn(n)
            BY <2>1, <2>3 DEF Resting, Still, WorksOn
        <3> QED
            BY <2>1, <2>2, <3>1 DEF WakeInv, Woken, WorksOn, Current
    <2> QED
        BY <2>1, <2>2, <2>3, PassWakes DEF WakeInv, Fits, Still, Deploying
<1> QED
    BY <1>1, <1>2, <1>3, <1>4, <1>5

LEMMA PassesWake ==
    ASSUME WakeInv, Step \/ CallFails
    PROVE  Fits' /\ Woken'
<1>1. CASE Begin \/ AddFinalizer \/ RemoveFinalizer \/ CreateServiceAccount \/ WriteDaemonSet
    BY <1>1, BeginWakes, FinalizerWakes, AccountWakes, DaemonSetWakes
<1>2. CASE \/ CallFails \/ GetSecret \/ CreateRole \/ CreateBinding
           \/ DeleteServiceAccount \/ DeleteDaemonSet \/ GetDaemonSet
    <2>1. pass.name \in FluentBits
        BY <1>2, PassObjects
           DEF CallFails, GetSecret, CreateRole, CreateBinding, DeleteServiceAccount,
               DeleteDaemonSet, GetDaemonSet, At, WakeInv
    <2> QED
        BY <1>2, <2>1, StepsWake
<1> QED
    BY <1>1, <1>2 DEF Step

LEMMA WakeNext == WakeInv /\ [Next]_vars => WakeInv'
<1> SUFFICES ASSUME WakeInv, [Next]_vars PROVE WakeInv'
    OBVIOUS
<1>1. Types'
    BY TypesNext DEF WakeInv
<1>2. CASE UNCHANGED vars
    <2>1. UNCHANGED <<cache, events, pass, queue>>
        BY <1>2 DEF vars
    <2> QED
        BY <1>1, <2>1, OthersWake DEF WakeInv, Still
<1>3. ASSUME NEW n \in FluentBits, NEW k \in Kinds, Deliver(k, n) PROVE WakeInv'
    BY <1>1, <1>3, DeliverWakes DEF WakeInv
<1>4. ASSUME NEW n \in FluentBits,
             \/ CreateFluentBit(n) \/ EditFluentBit(n) \/ DeleteFluentBit(n)
             \/ MakeSecret(n) \/ LoseSecret(n) \/ DeliverSecret(n)
             \/ \E k \in Kinds : Tamper(k, n) \/ CollectGarbage(k, n)
      PROVE  WakeInv'
    BY <1>1, <1>4, UsersWake DEF WakeInv
<1>5. CASE Restart \/ Step \/ CallFails
    BY <1>1, <1>5, RestartWakes, PassesWake DEF WakeInv
<1> QED
    BY <1>1, <1>2, <1>3, <1>4, <1>5 DEF WakeInv, Next

LEMMA WakeInit == Init => WakeInv
<1> SUFFICES ASSUME Init PROVE WakeInv
    OBVIOUS
<1>1. Types /\ Fits
    BY TypesInit DEF Init, Idle, Fits, Deploying
<1>2. \A n \in FluentBits : Done(n) /\ ~WorksOn(n)
    BY DEF Init, Idle, Done, WorksOn, Kinds
<1> QED
    BY <1>1, <1>2 DEF WakeInv, Woken

\* No wake-up is lost, for any number of FluentBits, faults and restarts: when
\* nothing can make Reconcile run again, every FluentBit is deployed as it asks
\* or it and its dependents are gone.
THEOREM EveryWakeupCounts == Spec => []NoLostWakeup
<1>1. Spec => []WakeInv
    BY WakeInit, WakeNext, PTL DEF Spec
<1>2. ASSUME WakeInv, AtRest, NEW n \in FluentBits PROVE Settled(n)
    <2> DEFINE fb == cache["FluentBit"][n]
               ds == cache["DaemonSet"][n]
               sa == cache["ServiceAccount"][n]
    <2>1. /\ Live("FluentBit", n) = fb /\ Live("DaemonSet", n) = ds
          /\ Live("ServiceAccount", n) = sa
          /\ ~Orphaned("DaemonSet", n) /\ ~Orphaned("ServiceAccount", n)
        BY <1>2 DEF AtRest, Live, Kinds
    <2>2. Done(n)
        BY <1>2 DEF AtRest, WakeInv, Woken, Resting, Still, WorksOn
    <2>3. /\ ds = None \/ ds.uid = fb.uid
          /\ sa = None \/ sa.uid = fb.uid
        BY <2>1 DEF Orphaned
    <2>4. /\ sa \in Objects /\ fb \in Objects
          /\ ObjectOK("ServiceAccount", n, sa, uids)
          /\ ds = None <=> ds.uid = 0
          /\ sa = None <=> sa.uid = 0
        BY <1>2, <2>1, LiveTypes DEF WakeInv, Kinds
    <2>5. CASE fb = None
        BY <2>1, <2>3, <2>4, <2>5, NoneIsObject DEF Settled
    <2>6. CASE fb # None
        <3>1. ~fb.deleting /\ ds = MakeDaemonSet(fb) /\ sa # None
            BY <2>2, <2>6 DEF Done
        <3>2. sa = ServiceAccount(fb.uid)
            <4>1. /\ sa.uid = fb.uid /\ ~sa.deleting /\ ~sa.finalizer /\ sa.at = 0
                  /\ sa.labels = "" /\ sa.body = ""
                BY <2>3, <2>4, <3>1 DEF ObjectOK, Plain
            <4> HIDE DEF sa, fb
            <4>2. /\ ServiceAccount(fb.uid).uid = fb.uid
                  /\ ServiceAccount(fb.uid) \in Objects
                  /\ ServiceAccount(fb.uid).labels = "" /\ ServiceAccount(fb.uid).body = ""
                  /\ ServiceAccount(fb.uid).at = 0
                  /\ ~ServiceAccount(fb.uid).deleting /\ ~ServiceAccount(fb.uid).finalizer
                BY <2>4, NoneIsObject DEF ServiceAccount, None, Objects
            <4>3. /\ sa.deleting = ServiceAccount(fb.uid).deleting
                  /\ sa.finalizer = ServiceAccount(fb.uid).finalizer
                BY <2>4, <4>1, <4>2 DEF Objects
            <4> QED
                BY <2>4, <4>1, <4>2, <4>3, SameFields
        <3> QED
            BY <2>1, <2>6, <3>1, <3>2 DEF Settled, Deployed
    <2> QED
        BY <2>5, <2>6
<1>3. WakeInv => NoLostWakeup
    BY <1>2 DEF NoLostWakeup
<1> QED
    BY <1>1, <1>3, PTL
-----------------------------------------------------------------------------
(* The lifecycle: what the steps make of the state of the server.           *)

SA == "ServiceAccount"

\* No dependent belongs to a FluentBit that a cache has yet to see, ...
Later(n) ==
    \A k \in Dependents, j \in Places(FB, n) :
        Seen(FB, n, j).uid # 0 => Live(k, n).uid <= Seen(FB, n, j).uid

\* ... nor to a later one than the FluentBit of the pass.
PassLater ==
    pass.pc # "idle" => \A k \in Dependents : Live(k, pass.name).uid <= pass.fb.uid

LifeInv == OrphanInv /\ (\A n \in FluentBits : Later(n)) /\ PassLater

LEMMA DependentKinds == FB \in Kinds /\ Dependents \subseteq Kinds /\ FB \notin Dependents
    BY DEF FB, Dependents, Kinds

\* A removal of a dependent, or a write of one by a deploying pass.
OwnerWrite(k, n, x) ==
    /\ DependentWrite(k, n, x)
    /\ x.uid # 0 => /\ CreateServiceAccount \/ WriteDaemonSet
                    /\ pass.pc \in Deploying /\ n = pass.name
                    /\ x.uid = pass.fb.uid /\ x.uid = Live(FB, n).uid

\* What makes the steps of a user, of a pass and of the others different from
\* each other as far as the dependents are concerned.
LEMMA OwnerStep ==
    ASSUME OrphanInv, Types', [Next]_vars
    PROVE  \/ \A k \in Dependents, n \in FluentBits : Live(k, n)' = Live(k, n)
           \/ \E k \in Dependents, n \in FluentBits, x \in Objects : OwnerWrite(k, n, x)
<1> USE DEF OrphanInv
<1>1. ASSUME NEW m \in FluentBits, NEW x, Rewrite(m, x)
      PROVE  \A k \in Dependents, n \in FluentBits : Live(k, n)' = Live(k, n)
    <2>1. Put(FB, m, x) /\ UNCHANGED cache /\ x \in Objects
        BY <1>1 DEF Rewrite, FB
    <2> QED
        BY <2>1, PutLive, DependentKinds
<1>2. UNCHANGED <<cache, events>>
        => \A k \in Dependents, n \in FluentBits : Live(k, n)' = Live(k, n)
    BY DEF Live
<1>3. ASSUME NEW m \in FluentBits, CreateFluentBit(m) \/ EditFluentBit(m) \/ DeleteFluentBit(m)
      PROVE  \A k \in Dependents, n \in FluentBits : Live(k, n)' = Live(k, n)
    BY <1>1, <1>3, CreateEffect, EditEffect, DeleteEffect
<1>4. ASSUME NEW m \in FluentBits, MakeSecret(m) \/ LoseSecret(m) \/ DeliverSecret(m)
      PROVE  UNCHANGED <<cache, events>>
    BY <1>4 DEF MakeSecret, LoseSecret, DeliverSecret
<1>5. ASSUME NEW m \in FluentBits, NEW k \in Kinds, Put(k, m, None), UNCHANGED <<cache, uids>>,
             k # FB
      PROVE  \E k2 \in Dependents, n \in FluentBits, x \in Objects : OwnerWrite(k2, n, x)
    <2>1. k \in Dependents
        BY <1>5 DEF Dependents, Kinds, FB
    <2>2. OwnerWrite(k, m, None)
        BY <1>5, RemovalEffect, NoneIsObject DEF OwnerWrite
    <2> QED
        BY <2>1, <2>2, NoneIsObject
<1>6. ASSUME NEW m \in FluentBits, NEW k \in Kinds, Tamper(k, m) \/ CollectGarbage(k, m)
      PROVE  \E k2 \in Dependents, n \in FluentBits, x \in Objects : OwnerWrite(k2, n, x)
    BY <1>5, <1>6 DEF Tamper, CollectGarbage, Orphaned, server, FB
<1>7. ASSUME \/ Restart \/ \E m \in FluentBits, k \in Kinds : Deliver(k, m)
      PROVE  \A k \in Dependents, n \in FluentBits : Live(k, n)' = Live(k, n)
    BY <1>7, RestartMoves, DeliverMoves, MovedSeen, DependentKinds
<1>8. CASE UNCHANGED vars \/ Begin \/ GetSecret \/ CreateRole \/ CreateBinding
           \/ GetDaemonSet \/ CallFails
    BY <1>2, <1>8 DEF vars, Begin, GetSecret, CreateRole, CreateBinding, GetDaemonSet, CallFails
<1>9. CASE AddFinalizer \/ RemoveFinalizer
    <2>1. pass.name \in FluentBits
        BY <1>9, PassObjects DEF AddFinalizer, RemoveFinalizer, At
    <2> QED
        BY <1>1, <1>2, <1>9, <2>1, AddEffect, RemoveEffect
<1>10. CASE CreateServiceAccount
    <2>1. pass.name \in FluentBits /\ pass.pc \in Deploying /\ SA \in Dependents
        BY <1>10, PassObjects DEF CreateServiceAccount, At, Deploying, SA, Dependents
    <2>2. Live(FB, pass.name).uid = pass.fb.uid
        BY <2>1 DEF PassInv, Held
    <2>3. ASSUME NEW x, DependentWrite(SA, pass.name, x), x.uid = pass.fb.uid
          PROVE  x \in Objects /\ OwnerWrite(SA, pass.name, x)
        BY <1>10, <2>1, <2>2, <2>3 DEF OwnerWrite, DependentWrite
    <2> QED
        BY <1>2, <1>10, <2>1, <2>3, AccountEffect DEF SA
<1>11. CASE WriteDaemonSet
    <2>1. pass.name \in FluentBits /\ pass.pc \in Deploying /\ DS \in Dependents
        BY <1>11, PassObjects DEF WriteDaemonSet, At, Deploying, DS, Dependents
    <2>2. CASE ~UNCHANGED <<cache, events>>
        <3>1. PICK x : /\ DependentWrite(DS, pass.name, x)
                       /\ \/ x.uid = pass.fb.uid
                          \/ pass.base.uid = pass.fb.uid /\ x.uid = Live(DS, pass.name).uid
                       /\ Live(DS, pass.name).uid # 0 \/ x.uid = pass.fb.uid
            BY <1>11, <2>2, DaemonSetEffect DEF DS
        <3>2. x.uid = pass.fb.uid /\ pass.fb.uid = Live(FB, pass.name).uid
            BY <1>11, <3>1, DaemonSetOwner
        <3>3. OwnerWrite(DS, pass.name, x) /\ x \in Objects
            BY <1>11, <2>1, <3>1, <3>2 DEF OwnerWrite, DependentWrite
        <3> QED
            BY <2>1, <3>3
    <2> QED
        BY <1>2, <2>2
<1>12. CASE DeleteServiceAccount \/ DeleteDaemonSet
    <2>1. pass.name \in FluentBits /\ UNCHANGED <<cache, uids>>
        BY <1>12, PassObjects DEF DeleteServiceAccount, DeleteDaemonSet, At, server
    <2>2. UNCHANGED events \/ \E k \in Kinds : k # FB /\ Put(k, pass.name, None)
        BY <1>12 DEF DeleteServiceAccount, DeleteDaemonSet, Kinds, FB
    <2> QED
        BY <1>2, <1>5, <2>1, <2>2
<1> QED
    BY <1>2, <1>3, <1>4, <1>6, <1>7, <1>8, <1>9, <1>10, <1>11, <1>12 DEF Next, Step

\* A dependent keeps its owner or loses it, unless a pass gives it its own.
LEMMA OwnerNext ==
    ASSUME OrphanInv, Types', [Next]_vars, NEW k \in Dependents, NEW n \in FluentBits
    PROVE  \/ Live(k, n)'.uid = Live(k, n).uid
           \/ Live(k, n)'.uid = 0
           \/ /\ Live(k, n)'.uid = pass.fb.uid /\ n = pass.name
              /\ pass.pc \in Deploying /\ Moved(FB, n)
<1>1. CASE Live(k, n)' = Live(k, n)
    BY <1>1
<1>2. CASE Live(k, n)' # Live(k, n)
    <2>1. PICK k2 \in Dependents, m \in FluentBits, x \in Objects : OwnerWrite(k2, m, x)
        BY <1>2, OwnerStep
    <2>2. k = k2 /\ n = m /\ Live(k, n)' = x
        BY <1>2, <2>1, WriteLive, DependentKinds DEF OwnerWrite, OrphanInv
    <2>3. MaxPending \in Nat
        BY ControllerAssumption DEF ControllerAssumption
    <2>4. Moved(FB, n)
        <3>1. Put(k, n, x) /\ UNCHANGED cache /\ k # FB /\ k \in Kinds
            BY <2>1, <2>2, DependentKinds DEF OwnerWrite, DependentWrite
        <3> QED
            BY <2>3, <3>1, PutEffect, DependentKinds DEF OrphanInv, Types
    <2> QED
        BY <2>1, <2>2, <2>4 DEF OwnerWrite
<1> QED
    BY <1>1, <1>2

LEMMA LiveTypesNext ==
    ASSUME Types', NEW k \in Kinds, NEW n \in FluentBits
    PROVE  Live(k, n)'.uid \in 0 .. uids'
<1>1. (Types => Live(k, n).uid \in 0 .. uids)'
    BY LiveTypes, PTL
<1> QED
    BY <1>1

LEMMA LaterNext ==
    ASSUME LifeInv, Types', [Next]_vars, NEW n \in FluentBits
    PROVE  Later(n)'
<1> SUFFICES ASSUME NEW k \in Dependents, NEW j \in Places(FB, n)', Seen(FB, n, j)'.uid # 0
             PROVE  Live(k, n)'.uid <= Seen(FB, n, j)'.uid
    BY DEF Later
<1>1. Effect(n) /\ FB \in Kinds /\ k \in Kinds /\ uids \in Nat
    BY StepEffect, DependentKinds, SeenTypes DEF LifeInv, OrphanInv
<1>2. Live(k, n).uid \in 0 .. uids /\ Live(k, n)'.uid \in 0 .. uids'
    BY <1>1, LiveTypes, LiveTypesNext DEF LifeInv, OrphanInv
<1>3. /\ \A i \in Places(FB, n) : /\ Seen(FB, n, i).uid \in 0 .. uids
                                  /\ Seen(FB, n, i).uid # 0
                                       => Live(k, n).uid <= Seen(FB, n, i).uid
      /\ \E m \in Places(FB, n) : Seen(FB, n, m) = Live(FB, n)
    BY <1>1, SeenTypes DEF LifeInv, OrphanInv, Later
<1>4. CASE Live(k, n)'.uid \in {0, Live(k, n).uid}
    <2>1. CASE Moved(FB, n)
        <3>1. PICK d \in Nat : j + d \in Places(FB, n) /\ Seen(FB, n, j)' = Seen(FB, n, j + d)
            BY <1>1, <2>1, MovedSeen DEF LifeInv, OrphanInv
        <3> QED
            BY <1>1, <1>2, <1>3, <1>4, <3>1
    <2>2. CASE Rewritten(n)
        <3>1. PICK x : Rewrite(n, x) /\ Grown(FB, n, x)
            BY <2>2 DEF Rewritten
        <3>2. CASE Seen(FB, n, j)' = x
            <4>1. x.uid = Live(FB, n).uid \/ x.uid = uids + 1
                BY <1>1, <3>1, <3>2, NoneIsObject DEF Rewrite, FB
            <4> QED
                BY <1>1, <1>2, <1>3, <1>4, <3>2, <4>1
        <3>3. CASE j \in Places(FB, n) /\ Seen(FB, n, j)' = Seen(FB, n, j)
            BY <1>1, <1>2, <1>3, <1>4, <3>3
        <3> QED
            BY <1>1, <3>1, <3>2, <3>3, GrownSeen DEF LifeInv, OrphanInv
    <2> QED
        BY <1>1, <2>1, <2>2 DEF Effect, Quiet, Written
<1>5. CASE /\ Live(k, n)'.uid = pass.fb.uid /\ n = pass.name
           /\ pass.pc \in Deploying /\ Moved(FB, n)
    <2>1. PICK d \in Nat : j + d \in Places(FB, n) /\ Seen(FB, n, j)' = Seen(FB, n, j + d)
        BY <1>1, <1>5, MovedSeen DEF LifeInv, OrphanInv
    <2> QED
        BY <1>5, <2>1 DEF LifeInv, OrphanInv, PassInv, Recent, Deploying
<1> QED
    BY <1>4, <1>5, OwnerNext DEF LifeInv

LEMMA PassLaterNext ==
    ASSUME LifeInv, Types', [Next]_vars
    PROVE  PassLater'
<1>1. ASSUME pass.pc # "idle", pass'.name = pass.name, pass'.fb = pass.fb, NEW k \in Dependents
      PROVE  Live(k, pass.name)'.uid <= pass'.fb.uid
    <2>1. /\ pass.name \in FluentBits /\ pass.fb.uid \in Nat
          /\ Live(k, pass.name).uid <= pass.fb.uid
        BY <1>1, PassObjects DEF LifeInv, OrphanInv, PassLater
    <2> QED
        BY <1>1, <2>1, OwnerNext DEF LifeInv
<1>2. ASSUME UNCHANGED pass \/ (Continues /\ KeepsBase) \/ pass' = Idle \/ GetDaemonSet
      PROVE  PassLater'
    <2>1. \/ pass'.pc = "idle"
          \/ pass.pc # "idle" /\ pass'.name = pass.name /\ pass'.fb = pass.fb
        <3>1. CASE GetDaemonSet
            BY <3>1 DEF GetDaemonSet, At, LifeInv, OrphanInv, Types, PassShaped
        <3>2. CASE UNCHANGED pass
            BY <3>2
        <3> QED
            BY <1>2, <3>1, <3>2 DEF Continues, Idle
    <2> QED
        BY <1>1, <2>1 DEF PassLater, Live
<1>3. CASE Begin
    <2>1. PICK n \in FluentBits :
             pass' = IF Gone(cache[FB][n]) \/ Branch(cache[FB][n]) = "idle" THEN Idle
                     ELSE [pc |-> Branch(cache[FB][n]), name |-> n, fb |-> cache[FB][n],
                           base |-> None]
        BY <1>3 DEF Begin, LifeInv, OrphanInv, Types, TypeOK, RestOK, FB
    <2>2. CASE pass' # Idle
        <3>1. pass'.name = n /\ pass'.fb = cache[FB][n] /\ cache[FB][n] # None
            BY <2>1, <2>2 DEF Gone
        <3>2. Seen(FB, n, 0) = cache[FB][n] /\ 0 \in Places(FB, n) /\ cache[FB][n].uid # 0
            BY <3>1, SeenTypes, DependentKinds DEF LifeInv, OrphanInv, Places, Seen
        <3>3. UNCHANGED <<cache, events>>
            BY <1>3 DEF Begin
        <3> QED
            BY <3>1, <3>2, <3>3 DEF PassLater, LifeInv, Later, Live
    <2> QED
        BY <1>2, <2>2
<1> QED
    BY <1>2, <1>3, PassSteps DEF LifeInv

LEMMA LifeNext == LifeInv /\ [Next]_vars => LifeInv'
<1> SUFFICES ASSUME LifeInv, [Next]_vars PROVE LifeInv'
    OBVIOUS
<1>1. OrphanInv' /\ Types'
    BY OrphanNext DEF LifeInv, OrphanInv
<1> QED
    BY <1>1, LaterNext, PassLaterNext DEF LifeInv

LEMMA LifeInit == Init => LifeInv
<1> SUFFICES ASSUME Init PROVE LifeInv
    OBVIOUS
<1>1. OrphanInv /\ Types
    BY OrphanInit DEF OrphanInv
<1>2. \A k \in Kinds, n \in FluentBits : Live(k, n) = None
    BY DEF Init, Live
<1>3. ASSUME NEW n \in FluentBits PROVE Later(n)
    BY <1>1, <1>2, SeenTypes, NoneIsObject, DependentKinds DEF Later
<1> QED
    BY <1>1, <1>3 DEF LifeInv, PassLater, Init, Idle

-----------------------------------------------------------------------------
(* The lifecycle: every step is one of FluentBitLifecycle, or none.         *)

\* A FluentBit is rewritten: its name's marks become those of the new state.
LEMMA RewriteMaps ==
    ASSUME Types, Types', NEW m \in FluentBits, NEW x, Rewrite(m, x)
    PROVE  Lifecycle!Becomes(m, Marks(x)) /\ UNCHANGED Owned
<1>1. /\ Live(FB, m)' = x
      /\ \A k \in Kinds, n \in FluentBits : k # FB \/ n # m => Live(k, n)' = Live(k, n)
    BY PutLive, DependentKinds DEF Rewrite, FB
<1>2. UNCHANGED Owned
    BY <1>1, DependentKinds DEF Owned
<1>3. ASSUME NEW n \in FluentBits
      PROVE  FluentBitMarks'[n] = IF n = m THEN Marks(x) ELSE FluentBitMarks[n]
    <2>1. FluentBitMarks'[n] = Marks(Live(FB, n)')
        BY DEF FluentBitMarks, FB, Marks
    <2>2. FluentBitMarks[n] = Marks(Live(FB, n))
        BY DEF FluentBitMarks, FB
    <2> QED
        BY <1>1, <2>1, <2>2, DependentKinds
<1>4. FluentBitMarks' = [FluentBitMarks EXCEPT ![m] = Marks(x)]
    BY <1>3 DEF FluentBitMarks
<1> QED
    BY <1>2, <1>4 DEF Lifecycle!Becomes

\* A dependent is written: only that one changes.
LEMMA WriteMaps ==
    ASSUME Types, Types', NEW m \in FluentBits, NEW k \in Dependents, NEW x,
           DependentWrite(k, m, x)
    PROVE  /\ UNCHANGED FluentBitMarks
           /\ Owned'[k][m] = x /\ Lifecycle!Changes(k, m)
<1>1. /\ Live(k, m)' = x
      /\ \A k2 \in Kinds, n \in FluentBits : k2 # k \/ n # m => Live(k2, n)' = Live(k2, n)
    BY PutLive, DependentKinds DEF DependentWrite
<1>2. \A n \in FluentBits : Live("FluentBit", n)' = Live("FluentBit", n)
    BY <1>1, DependentKinds DEF FB
<1>3. UNCHANGED FluentBitMarks
    BY <1>2 DEF FluentBitMarks, Marks
<1>4. \A k2 \in Dependents, n \in FluentBits :
         /\ Owned'[k2][n] = Live(k2, n)'
         /\ Owned[k2][n] = Live(k2, n)
    BY DEF Owned
<1>5. Owned'[k][m] = x
    BY <1>1, <1>4
<1>6. Owned' = [Owned EXCEPT ![k][m] = Owned'[k][m]]
    <2>1. \A k2 \in Dependents, n \in FluentBits :
             k2 # k \/ n # m => Owned'[k2][n] = Owned[k2][n]
        BY <1>1, <1>4, DependentKinds
    <2>2. /\ Owned = [k2 \in Dependents |-> Owned[k2]]
          /\ Owned' = [k2 \in Dependents |-> Owned'[k2]]
          /\ \A k2 \in Dependents : /\ Owned[k2] = [n \in FluentBits |-> Owned[k2][n]]
                                   /\ Owned'[k2] = [n \in FluentBits |-> Owned'[k2][n]]
        BY DEF Owned
    <2>3. Owned'[k] = [Owned[k] EXCEPT ![m] = Owned'[k][m]]
        BY <2>1, <2>2
    <2>4. \A k2 \in Dependents : k2 # k => Owned'[k2] = Owned[k2]
        BY <2>1, <2>2
    <2> QED
        BY <2>2, <2>3, <2>4
<1> QED
    BY <1>3, <1>5, <1>6 DEF Lifecycle!Changes

\* What the abstract state shows of a name.
LEMMA Shown ==
    ASSUME Types, NEW n \in FluentBits, NEW k \in Dependents
    PROVE  /\ FluentBitMarks[n] = Marks(Live(FB, n)) /\ Owned[k][n] = Live(k, n)
           /\ FluentBitMarks[n].uid = Live(FB, n).uid
           /\ FluentBitMarks[n].deleting = Live(FB, n).deleting
           /\ FluentBitMarks[n].finalizer = Live(FB, n).finalizer
           /\ Lifecycle!Exists(n) <=> Live(FB, n).uid # 0
           /\ Marks(None) = Lifecycle!NoFluentBit
    BY NoneIsObject DEF FluentBitMarks, Owned, Marks, FB, Lifecycle!Exists,
       Lifecycle!NoFluentBit, None

\* A pass that takes down does not meet a dependent in use: that would be its own
\* FluentBit's, which everybody sees marked.
LEMMA TakesNothingInUse ==
    ASSUME LifeInv, pass.pc \in TakingDown, NEW k \in Dependents
    PROVE  ~Lifecycle!InUse(k, pass.name)
<1>1. /\ pass.name \in FluentBits /\ pass.fb.uid \in Nat
      /\ Live(k, pass.name).uid <= pass.fb.uid
    BY PassObjects DEF LifeInv, OrphanInv, PassLater, TakingDown
<1>2. PICK m \in Places(FB, pass.name) : Seen(FB, pass.name, m) = Live(FB, pass.name)
    BY <1>1, SeenTypes, DependentKinds DEF LifeInv, OrphanInv
<1>3. Live(FB, pass.name).uid \in Nat
    BY <1>1, LiveTypes, DependentKinds DEF LifeInv, OrphanInv
<1>4. SUFFICES ASSUME Live(FB, pass.name).uid # 0,
                      Live(k, pass.name).uid = Live(FB, pass.name).uid
               PROVE  Live(FB, pass.name).deleting
    BY <1>1, Shown DEF Lifecycle!InUse, LifeInv, OrphanInv
<1>5. pass.fb.uid <= Live(FB, pass.name).uid
    BY <1>2, <1>4 DEF LifeInv, OrphanInv, PassInv, Recent, TakingDown
<1>6. Live(FB, pass.name).uid = pass.fb.uid
    BY <1>1, <1>3, <1>4, <1>5
<1> QED
    BY <1>2, <1>6 DEF LifeInv, OrphanInv, PassInv, Doomed

LEMMA SameServer ==
    ASSUME \A k \in Kinds, n \in FluentBits : Live(k, n)' = Live(k, n)
    PROVE  UNCHANGED <<FluentBitMarks, Owned>>
<1>1. \A n \in FluentBits : Live("FluentBit", n)' = Live("FluentBit", n)
    BY DependentKinds DEF FB
<1>2. \A k \in Dependents, n \in FluentBits : Live(k, n)' = Live(k, n)
    BY DependentKinds
<1> QED
    BY <1>1, <1>2 DEF FluentBitMarks, Owned, Marks

LEMMA NewMark ==
    ASSUME NEW x \in Objects, ~x.deleting, ~x.finalizer
    PROVE  Marks(x) = [Lifecycle!NoFluentBit EXCEPT !.uid = x.uid]
<1> DEFINE a == Lifecycle!NoFluentBit
           b == [a EXCEPT !.uid = x.uid]
<1>1. a \in MarkSet /\ a.deleting = FALSE /\ a.finalizer = FALSE
    BY DEF MarkSet, Lifecycle!NoFluentBit
<1>2. Marks(x) \in MarkSet /\ Marks(x).uid = x.uid /\ x.uid \in Nat
      /\ Marks(x).deleting = FALSE /\ Marks(x).finalizer = FALSE
    BY DEF Marks, Objects, MarkSet
<1> HIDE DEF a
<1>3. b \in MarkSet /\ b.uid = x.uid /\ b.deleting = a.deleting /\ b.finalizer = a.finalizer
    BY <1>1, <1>2 DEF MarkSet
<1> HIDE DEF b
<1>4. Marks(x) = b
    BY <1>1, <1>2, <1>3, SameMarks
<1> QED
    BY <1>4 DEF a, b

LEMMA UsersMap ==
    ASSUME LifeInv, Types', NEW n \in FluentBits,
           CreateFluentBit(n) \/ EditFluentBit(n) \/ DeleteFluentBit(n)
    PROVE  \/ Lifecycle!Create(n) \/ Lifecycle!Delete(n)
           \/ UNCHANGED Lifecycle!vars
<1>1. Types /\ FB = "FluentBit" /\ SA \in Dependents
    BY DEF LifeInv, OrphanInv, FB, SA, Dependents
<1>2. CASE CreateFluentBit(n)
    <2>1. PICK x : Rewrite(n, x)
        BY <1>1, <1>2, CreateEffect
    <2>2. /\ uids' = uids + 1 /\ UNCHANGED faults /\ Live(FB, n).uid = 0 /\ uids \in Nat
        BY <1>1, <1>2, NoneIsObject, LiveTypes, DependentKinds DEF CreateFluentBit
    <2>3. x.uid = uids' /\ ~x.finalizer /\ ~x.deleting /\ x \in Objects
        BY <2>1, <2>2 DEF Rewrite
    <2>4. Marks(x) = [Lifecycle!NoFluentBit EXCEPT !.uid = uids']
        BY <2>3, NewMark
    <2> QED
        BY <1>1, <2>1, <2>2, <2>4, RewriteMaps, Shown DEF Lifecycle!Create
<1>3. CASE EditFluentBit(n)
    <2>1. PICK x : Rewrite(n, x) /\ Marks(x) = Marks(Live(FB, n))
        BY <1>1, <1>3, EditEffect
    <2>2. UNCHANGED <<uids, faults>>
        BY <1>3 DEF EditFluentBit, server
    <2>3. FluentBitMarks' = [FluentBitMarks EXCEPT ![n] = FluentBitMarks[n]] /\ UNCHANGED Owned
        BY <1>1, <2>1, RewriteMaps, Shown DEF Lifecycle!Becomes
    <2>4. UNCHANGED FluentBitMarks
        BY <2>3 DEF FluentBitMarks
    <2> QED
        BY <2>2, <2>3, <2>4 DEF Lifecycle!vars
<1>4. CASE DeleteFluentBit(n)
    <2>1. PICK x : /\ Rewrite(n, x) /\ UNCHANGED uids /\ Live(FB, n).uid # 0
                   /\ Marks(x) = IF Live(FB, n).finalizer
                                   THEN [Marks(Live(FB, n)) EXCEPT !.deleting = TRUE]
                                   ELSE Marks(None)
        BY <1>1, <1>4, DeleteEffect
    <2>2. UNCHANGED faults
        BY <1>4 DEF DeleteFluentBit
    <2>3. Lifecycle!Becomes(n, Marks(x)) /\ UNCHANGED Owned
        BY <1>1, <2>1, RewriteMaps
    <2>4. Marks(x) = IF FluentBitMarks[n].finalizer
                       THEN [FluentBitMarks[n] EXCEPT !.deleting = TRUE]
                       ELSE Lifecycle!NoFluentBit
        BY <1>1, <2>1, Shown
    <2> QED
        BY <1>1, <2>1, <2>2, <2>3, <2>4, Shown DEF Lifecycle!Delete
<1> QED
    BY <1>2, <1>3, <1>4

\* A pass puts the finalizer on a FluentBit that is not marked, and takes it off
\* one that is.
LEMMA FinalizersMap ==
    ASSUME LifeInv, Fits, Types', AddFinalizer \/ RemoveFinalizer
    PROVE  \/ Lifecycle!Protect(pass.name) \/ Lifecycle!Release(pass.name)
           \/ UNCHANGED Lifecycle!vars
<1>1. /\ Types /\ FB = "FluentBit" /\ SA \in Dependents
      /\ pass.pc # "idle" /\ pass.name \in FluentBits /\ pass.fb.uid # 0
      /\ ObjectOK(FB, pass.name, pass.fb, uids) /\ pass.fb # None
      /\ UNCHANGED faults
    BY PassObjects, NoneIsObject
       DEF LifeInv, OrphanInv, FB, SA, Dependents, AddFinalizer, RemoveFinalizer, At
<1>2. UNCHANGED <<cache, events>> => UNCHANGED <<FluentBitMarks, Owned>>
    BY DEF FluentBitMarks, Owned, Live
<1>3. CASE UNCHANGED <<cache, events, uids>>
    BY <1>1, <1>2, <1>3 DEF Lifecycle!vars
<1>4. CASE AddFinalizer /\ ~UNCHANGED <<cache, events, uids>>
    <2>1. Live(FB, pass.name) = pass.fb
        BY <1>1, <1>4, AddEffect
    <2>2. PICK x : /\ Rewrite(pass.name, x) /\ UNCHANGED uids
                   /\ Marks(x) = [Marks(pass.fb) EXCEPT !.finalizer = TRUE]
        BY <1>1, <1>4, AddEffect
    <2>3. ~pass.fb.deleting
        <3>1. ~pass.fb.finalizer
            BY <1>4 DEF AddFinalizer, At, Fits
        <3> QED
            BY <1>1, <3>1 DEF ObjectOK
    <2>4. Lifecycle!Becomes(pass.name, Marks(x)) /\ UNCHANGED Owned
        BY <1>1, <2>2, RewriteMaps
    <2>5. /\ FluentBitMarks[pass.name] = Marks(pass.fb) /\ Lifecycle!Exists(pass.name)
          /\ ~FluentBitMarks[pass.name].deleting
        BY <1>1, <2>1, <2>3, Shown
    <2>6. Lifecycle!Becomes(pass.name, [FluentBitMarks[pass.name] EXCEPT !.finalizer = TRUE])
        BY <2>2, <2>4, <2>5
    <2> QED
        BY <1>1, <2>2, <2>4, <2>5, <2>6 DEF Lifecycle!Protect
<1>5. CASE RemoveFinalizer /\ ~UNCHANGED <<cache, events, uids>>
    <2>1. /\ Live(FB, pass.name) = pass.fb /\ Rewrite(pass.name, None) /\ UNCHANGED uids
        BY <1>1, <1>5, RemoveEffect
    <2>2. Live(FB, pass.name).deleting
        <3>1. PICK m \in Places(FB, pass.name) : Seen(FB, pass.name, m) = Live(FB, pass.name)
            BY <1>1, SeenTypes, DependentKinds
        <3> QED
            BY <1>5, <2>1, <3>1
               DEF RemoveFinalizer, At, LifeInv, OrphanInv, PassInv, Doomed, TakingDown
    <2> QED
        BY <1>1, <2>1, <2>2, RewriteMaps, Shown DEF Lifecycle!Release
<1> QED
    BY <1>3, <1>4, <1>5

\* The writes of the dependents by a pass.
LEMMA PassWritesMap ==
    ASSUME LifeInv, Types', [Next]_vars,
           \/ CreateServiceAccount \/ WriteDaemonSet
           \/ DeleteServiceAccount \/ DeleteDaemonSet
    PROVE  \/ \E k \in Dependents :
                 Lifecycle!Deploy(k, pass.name) \/ Lifecycle!TakeDown(k, pass.name)
           \/ UNCHANGED Lifecycle!vars
<1>1. /\ Types /\ pass.name \in FluentBits /\ UNCHANGED <<cache, uids, faults>>
      /\ pass.fb.uid \in 1 .. uids /\ uids \in Nat
    BY PassObjects
       DEF LifeInv, OrphanInv, CreateServiceAccount, WriteDaemonSet, DeleteServiceAccount,
           DeleteDaemonSet, At, server
<1>2. CASE UNCHANGED events
    <2>1. UNCHANGED <<FluentBitMarks, Owned>>
        BY <1>1, <1>2 DEF FluentBitMarks, Owned, Live
    <2> QED
        BY <1>1, <2>1 DEF Lifecycle!vars
<1>3. CASE ~UNCHANGED events /\ (DeleteServiceAccount \/ DeleteDaemonSet)
    <2>1. PICK k \in Dependents : Put(k, pass.name, None)
        BY <1>3 DEF DeleteServiceAccount, DeleteDaemonSet, Dependents
    <2>2. DependentWrite(k, pass.name, None)
        BY <1>1, <2>1, RemovalEffect
    <2>3. pass.pc \in TakingDown
        BY <1>3 DEF DeleteServiceAccount, DeleteDaemonSet, At, TakingDown
    <2>4. Lifecycle!TakeDown(k, pass.name)
        BY <1>1, <2>2, <2>3, WriteMaps, TakesNothingInUse, NoneIsObject
           DEF Lifecycle!TakeDown
    <2> QED
        BY <2>4
<1>4. CASE ~UNCHANGED events /\ (CreateServiceAccount \/ WriteDaemonSet)
    <2>1. PICK k, x : /\ k \in Dependents /\ DependentWrite(k, pass.name, x)
                      /\ x.uid = Live(FB, pass.name).uid
        <3>1. CASE CreateServiceAccount
            <4>1. PICK x : DependentWrite(SA, pass.name, x) /\ x.uid = pass.fb.uid
                BY <1>1, <1>4, <3>1, AccountEffect DEF SA
            <4>2. Live(FB, pass.name).uid = pass.fb.uid
                BY <3>1 DEF LifeInv, OrphanInv, PassInv, Held, Deploying,
                   CreateServiceAccount, At
            <4> QED
                BY <4>1, <4>2 DEF SA, Dependents
        <3>2. CASE WriteDaemonSet
            <4>1. PICK x : /\ DependentWrite(DS, pass.name, x)
                           /\ \/ x.uid = pass.fb.uid
                              \/ pass.base.uid = pass.fb.uid /\ x.uid = Live(DS, pass.name).uid
                           /\ Live(DS, pass.name).uid # 0 \/ x.uid = pass.fb.uid
                BY <1>1, <1>4, <3>2, DaemonSetEffect DEF DS
            <4>2. x.uid = Live(FB, pass.name).uid
                BY <1>1, <3>2, <4>1, DaemonSetOwner DEF LifeInv, OrphanInv
            <4> QED
                BY <4>1, <4>2 DEF DS, Dependents
        <3> QED
            BY <1>4, <3>1, <3>2
    <2>2. Live(FB, pass.name).uid = pass.fb.uid /\ Live(FB, pass.name).finalizer
        BY <1>4 DEF LifeInv, OrphanInv, PassInv, Held, Deploying, CreateServiceAccount,
           WriteDaemonSet, At
    <2>3. pass.fb.uid # 0
        BY <1>1
    <2>4. Lifecycle!Deploy(k, pass.name)
        BY <1>1, <2>1, <2>2, <2>3, WriteMaps, Shown DEF Lifecycle!Deploy
    <2> QED
        BY <2>1, <2>4
<1> QED
    BY <1>2, <1>3, <1>4

\* The garbage collector and those who tamper.
LEMMA OthersMap ==
    ASSUME LifeInv, Types', NEW n \in FluentBits, NEW k \in Kinds,
           Tamper(k, n) \/ CollectGarbage(k, n)
    PROVE  /\ k \in Dependents
           /\ Lifecycle!TakeDown(k, n) \/ Lifecycle!Fault
<1>1. /\ Types /\ UNCHANGED <<cache, uids>> /\ Put(k, n, None) /\ k # FB
    BY DEF LifeInv, OrphanInv, Tamper, CollectGarbage, Orphaned, server, FB
<1>2. k \in Dependents /\ DependentWrite(k, n, None)
    BY <1>1, RemovalEffect DEF Dependents, Kinds, FB
<1>3. /\ UNCHANGED FluentBitMarks
      /\ Owned'[k][n].uid = 0 /\ Lifecycle!Changes(k, n)
    BY <1>1, <1>2, WriteMaps, NoneIsObject
<1>4. CASE Tamper(k, n)
    BY <1>1, <1>2, <1>3, <1>4 DEF Tamper, Lifecycle!Fault
<1>5. CASE CollectGarbage(k, n)
    <2>1. UNCHANGED faults /\ Live(k, n).uid # Live(FB, n).uid
        BY <1>5 DEF CollectGarbage, Orphaned, FB
    <2> QED
        BY <1>1, <1>2, <1>3, <2>1, Shown DEF Lifecycle!TakeDown, Lifecycle!InUse
<1> QED
    BY <1>2, <1>4, <1>5

\* What leaves the server alone, and may be a fault.
LEMMA QuietMap ==
    ASSUME LifeInv, Types',
           \/ UNCHANGED vars \/ Restart \/ Begin \/ GetSecret \/ CreateRole \/ CreateBinding
           \/ GetDaemonSet \/ CallFails
           \/ \E n \in FluentBits : \/ MakeSecret(n) \/ LoseSecret(n) \/ DeliverSecret(n)
                                    \/ \E k \in Kinds : Deliver(k, n)
    PROVE  Lifecycle!Fault \/ UNCHANGED Lifecycle!vars
<1>1. Types
    BY DEF LifeInv, OrphanInv
<1>2. UNCHANGED <<FluentBitMarks, Owned>>
    <2>1. CASE Restart \/ \E n \in FluentBits, k \in Kinds : Deliver(k, n)
        BY <1>1, <2>1, RestartMoves, DeliverMoves, MovedSeen, SameServer
    <2>2. CASE UNCHANGED <<cache, events>>
        BY <2>2 DEF FluentBitMarks, Owned, Live
    <2> QED
        BY <2>1, <2>2 DEF vars, Begin, GetSecret, CreateRole, CreateBinding, GetDaemonSet,
           CallFails, MakeSecret, LoseSecret, DeliverSecret
<1>3. UNCHANGED uids /\ (UNCHANGED faults \/ faults' = faults + 1)
    BY DEF vars, server, Restart, Begin, GetSecret, CreateRole, CreateBinding, GetDaemonSet,
       CallFails, MakeSecret, LoseSecret, DeliverSecret, Deliver
<1> QED
    BY <1>2, <1>3 DEF Lifecycle!Fault, Lifecycle!vars

LEMMA LifecycleNext ==
    ASSUME LifeInv, WakeInv, [Next]_vars
    PROVE  [Lifecycle!Next]_(Lifecycle!vars)
<1>1. Types' /\ Fits
    BY OrphanNext DEF LifeInv, OrphanInv, WakeInv
<1>2. CASE \E n \in FluentBits :
              CreateFluentBit(n) \/ EditFluentBit(n) \/ DeleteFluentBit(n)
    BY <1>1, <1>2, UsersMap DEF Lifecycle!Next
<1>3. CASE \E n \in FluentBits, k \in Kinds : Tamper(k, n) \/ CollectGarbage(k, n)
    BY <1>1, <1>3, OthersMap DEF Lifecycle!Next
<1>4. CASE AddFinalizer \/ RemoveFinalizer
    <2>1. pass.name \in FluentBits
        BY <1>4, PassObjects DEF LifeInv, OrphanInv, AddFinalizer, RemoveFinalizer, At
    <2> QED
        BY <1>1, <1>4, <2>1, FinalizersMap DEF Lifecycle!Next
<1>5. CASE \/ CreateServiceAccount \/ WriteDaemonSet
           \/ DeleteServiceAccount \/ DeleteDaemonSet
    <2>1. pass.name \in FluentBits
        BY <1>5, PassObjects DEF LifeInv, OrphanInv, CreateServiceAccount, WriteDaemonSet,
           DeleteServiceAccount, DeleteDaemonSet, At
    <2> QED
        BY <1>1, <1>5, <2>1, PassWritesMap DEF Lifecycle!Next
<1>6. CASE \/ UNCHANGED vars \/ Restart \/ Begin \/ GetSecret \/ CreateRole \/ CreateBinding
           \/ GetDaemonSet \/ CallFails
           \/ \E n \in FluentBits : \/ MakeSecret(n) \/ LoseSecret(n) \/ DeliverSecret(n)
                                    \/ \E k \in Kinds : Deliver(k, n)
    BY <1>1, <1>6, QuietMap DEF Lifecycle!Next
<1> QED
    BY <1>2, <1>3, <1>4, <1>5, <1>6 DEF Next, Step

\* The controller implements FluentBitLifecycle, for any names, numbers of
\* FluentBits, events under way, failed calls and restarts: what it reads from
\* its caches, however late, never makes it deploy for a FluentBit that is gone,
\* take the finalizer off one that is not marked, or take down what belongs to
\* the FluentBit that exists.
THEOREM LifecycleImplemented == Spec => ImplementsLifecycle
<1>1. Init => Lifecycle!Init
    <2> SUFFICES ASSUME Init PROVE Lifecycle!Init
        OBVIOUS
    <2>1. \A k \in Kinds, n \in FluentBits : Live(k, n) = None
        BY DEF Init, Live
    <2>2. FluentBitMarks = [n \in FluentBits |-> Lifecycle!NoFluentBit]
        <3>1. \A n \in FluentBits : Live("FluentBit", n) = None
            BY <2>1, DependentKinds DEF FB
        <3>2. Marks(None) = Lifecycle!NoFluentBit
            BY NoneIsObject DEF Marks, Lifecycle!NoFluentBit, None
        <3> QED
            BY <3>1, <3>2 DEF FluentBitMarks
    <2>3. \A k \in Dependents, n \in FluentBits : Owned[k][n].uid = 0
        BY <2>1, NoneIsObject, DependentKinds DEF Owned
    <2> QED
        BY <2>2, <2>3 DEF Init, Lifecycle!Init
<1>2. Spec => []LifeInv
    BY LifeInit, LifeNext, PTL DEF Spec
<1>3. Spec => []WakeInv
    BY WakeInit, WakeNext, PTL DEF Spec
<1>4. LifeInv /\ WakeInv /\ [Next]_vars => [Lifecycle!Next]_(Lifecycle!vars)
    BY LifecycleNext
<1> QED
    BY <1>1, <1>2, <1>3, <1>4, PTL DEF Spec, ImplementsLifecycle, Lifecycle!Spec

\* So a dependent of a FluentBit that exists and is not marked stays with it
\* unless there is a fault: no pass that takes down an earlier FluentBit of the
\* name touches it, nor does one that deploys, nor the garbage collector.
THEOREM InUseStays == Spec => Lifecycle!KeepsInUse
<1>1. ASSUME [Lifecycle!Next]_(Lifecycle!vars), NEW k \in Dependents, NEW n \in FluentBits,
             Lifecycle!InUse(k, n), UNCHANGED faults, LifeInv
      PROVE  UNCHANGED <<Owned[k][n].uid>>
    <2>1. faults \in Int
        <3>1. faults \in 0 .. MaxFaults
            BY <1>1 DEF LifeInv, OrphanInv, Types, TypeOK, RestOK
        <3> QED
            BY <3>1, ControllerAssumption DEF ControllerAssumption
    <2>2. ~Lifecycle!Fault
        BY <1>1, <2>1 DEF Lifecycle!Fault
    <2>3. CASE UNCHANGED Owned
        BY <2>3
    <2>4. ASSUME NEW k2 \in Dependents, NEW m \in FluentBits, Lifecycle!Changes(k2, m),
                 k2 # k \/ m # n
          PROVE  Owned'[k][n] = Owned[k][n]
        <3>1. Owned' = [Owned EXCEPT ![k2][m] = Owned'[k2][m]]
            BY <2>4 DEF Lifecycle!Changes
        <3>2. /\ Owned = [k3 \in Dependents |-> Owned[k3]]
              /\ Owned[k2] = [l \in FluentBits |-> Owned[k2][l]]
            BY DEF Owned
        <3>3. Owned'[k2] = [Owned[k2] EXCEPT ![m] = Owned'[k2][m]]
              /\ \A k3 \in Dependents : k3 # k2 => Owned'[k3] = Owned[k3]
            BY <3>1, <3>2
        <3> QED
            BY <2>4, <3>2, <3>3
    <2>5. ASSUME NEW k2 \in Dependents, NEW m \in FluentBits, Lifecycle!Deploy(k2, m)
          PROVE  Owned'[k][n].uid = Owned[k][n].uid
        BY <1>1, <2>4, <2>5 DEF Lifecycle!Deploy, Lifecycle!InUse
    <2>6. ASSUME NEW k2 \in Dependents, NEW m \in FluentBits, Lifecycle!TakeDown(k2, m)
          PROVE  Owned'[k][n].uid = Owned[k][n].uid
        BY <1>1, <2>4, <2>6 DEF Lifecycle!TakeDown
    <2> QED
        BY <1>1, <2>2, <2>3, <2>5, <2>6
           DEF Lifecycle!Next, Lifecycle!vars, Lifecycle!Create, Lifecycle!Protect,
               Lifecycle!Delete, Lifecycle!Release
<1>2. LifeInv /\ [Lifecycle!Next]_(Lifecycle!vars) =>
        [\A k \in Dependents, n \in FluentBits :
            Lifecycle!InUse(k, n) /\ UNCHANGED faults
               => UNCHANGED <<Owned[k][n].uid>>]_(Lifecycle!vars)
    BY <1>1
<1>3. Spec => []LifeInv
    BY LifeInit, LifeNext, PTL DEF Spec
<1> QED
    BY <1>2, <1>3, LifecycleImplemented, PTL
       DEF ImplementsLifecycle, Lifecycle!Spec, Lifecycle!KeepsInUse
-----------------------------------------------------------------------------
(* Grants: a role binding is made once and has one subject.                 *)

\* No binding is another FluentBit's, and a pass that comes to the DaemonSet
\* has the role, and the binding of its own name.
Bound ==
    /\ \A n \in FluentBits : bindings[Scope(n)] \in {Nobody, n}
    /\ pass.pc \in {"createServiceAccount", "createBinding", "getDaemonSet", "writeDaemonSet"} =>
          Scope(pass.name) \in roles
    /\ pass.pc \in {"getDaemonSet", "writeDaemonSet"} =>
          bindings[Scope(pass.name)] = pass.name

GrantInv == OrphanInv /\ Bound /\ Granted

\* A pass comes to the DaemonSet by way of the role and the binding.
LEMMA BoundUnchanged ==
    ASSUME Types, Bound, [Next]_vars, ~CreateRole, ~CreateBinding,
           UNCHANGED <<roles, bindings>>
    PROVE  Bound'
<1> USE DEF At
<1>1. ASSUME UNCHANGED pass
             \/ pass'.pc \notin {"createServiceAccount", "createBinding",
                                 "getDaemonSet", "writeDaemonSet"}
      PROVE  Bound'
    BY <1>1 DEF Bound
<1>2. CASE CreateServiceAccount
    <2>1. /\ pass'.pc = "createBinding" /\ pass'.name = pass.name
          /\ pass.pc = "createServiceAccount"
        BY <1>2 DEF CreateServiceAccount, AfterServiceAccount, Goto, Types, PassShaped
    <2> QED
        BY <2>1 DEF Bound
<1>3. CASE GetDaemonSet
    <2>1. /\ pass'.pc = "writeDaemonSet" /\ pass'.name = pass.name
          /\ pass.pc = "getDaemonSet"
        BY <1>3 DEF GetDaemonSet, Types, PassShaped
    <2> QED
        BY <2>1 DEF Bound
<1>4. CASE GetSecret \/ DeleteServiceAccount \/ DeleteDaemonSet
    <2>1. pass' = Idle \/ pass'.pc \in {"createRole", "deleteDaemonSet", "removeFinalizer"}
        BY <1>4 DEF GetSecret, DeleteServiceAccount, DeleteDaemonSet, Goto, Again,
           Types, PassShaped
    <2> QED
        BY <1>1, <2>1 DEF Idle
<1>5. CASE Begin
    <2>1. pass' = Idle \/ pass'.pc \in {"deleteServiceAccount", "addFinalizer", "getSecret"}
        BY <1>5 DEF Begin, Branch
    <2> QED
        BY <1>1, <2>1 DEF Idle
<1>6. CASE AddFinalizer \/ RemoveFinalizer \/ WriteDaemonSet \/ CallFails \/ Restart
    <2>1. pass' = Idle
        BY <1>6 DEF AddFinalizer, RemoveFinalizer, UpdateFluentBit, WriteDaemonSet,
           CallFails, Restart, Again, Return
    <2> QED
        BY <1>1, <2>1 DEF Idle
<1>7. CASE \/ UNCHANGED vars
           \/ \E n \in FluentBits :
                 \/ CreateFluentBit(n) \/ EditFluentBit(n) \/ DeleteFluentBit(n)
                 \/ MakeSecret(n) \/ LoseSecret(n) \/ DeliverSecret(n)
                 \/ \E k \in Kinds : Tamper(k, n) \/ CollectGarbage(k, n) \/ Deliver(k, n)
    <2>1. UNCHANGED pass
        BY <1>7 DEF vars, CreateFluentBit, EditFluentBit, DeleteFluentBit, MakeSecret,
           LoseSecret, DeliverSecret, Tamper, CollectGarbage, Deliver
    <2> QED
        BY <1>1, <2>1
<1> QED
    BY <1>2, <1>3, <1>4, <1>5, <1>6, <1>7 DEF Next, Step

\* Nobody takes a role or a binding away.
LEMMA BoundKept ==
    ASSUME OwnScopes, Types, Bound, [Next]_vars
    PROVE  /\ Bound'
           /\ roles \subseteq roles'
           /\ \A n \in FluentBits : bindings[Scope(n)] = n => bindings'[Scope(n)] = n
<1> USE DEF At
<1>1. CASE ~CreateRole /\ ~CreateBinding
    <2>1. UNCHANGED <<roles, bindings>>
        BY <1>1 DEF Next, Step, vars, server, CreateFluentBit, EditFluentBit,
           DeleteFluentBit, MakeSecret, LoseSecret, DeliverSecret, Tamper, CollectGarbage,
           Deliver, Restart, CallFails, Begin, AddFinalizer, GetSecret,
           CreateServiceAccount, GetDaemonSet, WriteDaemonSet, DeleteServiceAccount,
           DeleteDaemonSet, RemoveFinalizer
    <2> QED
        BY <1>1, <2>1, BoundUnchanged
<1>2. CASE CreateRole
    <2>1. /\ pass'.pc = "createServiceAccount" /\ pass'.name = pass.name
          /\ roles' = roles \cup {Scope(pass.name)} /\ UNCHANGED bindings
        BY <1>2 DEF CreateRole, Goto, Types, PassShaped
    <2>2. Scope(pass'.name) = Scope(pass.name)
        BY <2>1
    <2> QED
        BY <2>1, <2>2 DEF Bound
<1>3. CASE CreateBinding
    <2>1. /\ pass'.pc = "getDaemonSet" /\ pass'.name = pass.name
          /\ pass.pc = "createBinding" /\ pass.name \in FluentBits /\ UNCHANGED roles
        BY <1>3, PassObjects DEF CreateBinding, Goto, Types, PassShaped
    <2>2. Scope(pass'.name) = Scope(pass.name) /\ Scope(pass.name) \in Scopes
        BY <2>1 DEF Scopes
    <2>3. /\ bindings[Scope(pass.name)] \in {Nobody, pass.name}
          /\ bindings'[Scope(pass.name)] = pass.name
        BY <1>3, <2>1, <2>2 DEF CreateBinding, Bound, Types, TypeOK, RestOK
    <2>4. \A n \in FluentBits : n # pass.name => bindings'[Scope(n)] = bindings[Scope(n)]
        BY <1>3, <2>1 DEF CreateBinding, OwnScopes, Types, TypeOK, RestOK, Scopes
    <2>5. \A n \in FluentBits : bindings'[Scope(n)] \in {Nobody, n}
        BY <2>1, <2>3, <2>4 DEF Bound
    <2>6. Scope(pass.name) \in roles
        BY <2>1 DEF Bound
    <2>7. Bound'
        BY <2>1, <2>2, <2>3, <2>5, <2>6 DEF Bound, Scope
    <2> QED
        BY <2>1, <2>3, <2>4, <2>7
<1> QED
    BY <1>1, <1>2, <1>3

LEMMA GrantNext == ASSUME OwnScopes PROVE GrantInv /\ [Next]_vars => GrantInv'
<1> SUFFICES ASSUME GrantInv, [Next]_vars PROVE GrantInv'
    OBVIOUS
<1>1. OrphanInv' /\ Types /\ Types'
    BY OrphanNext DEF GrantInv, OrphanInv
<1>2. /\ Bound' /\ roles \subseteq roles'
      /\ \A n \in FluentBits : bindings[Scope(n)] = n => bindings'[Scope(n)] = n
    BY <1>1, BoundKept DEF GrantInv
<1>3. ASSUME NEW n \in FluentBits, Live(DS, n)' # None
      PROVE  Scope(n) \in roles /\ bindings[Scope(n)] = n
    <2>1. CASE Live(DS, n) # None
        BY <2>1 DEF GrantInv, Granted, DS
    <2>2. CASE Live(DS, n) = None
        <3>1. DS \in Kinds
            BY DEF DS, Kinds
        <3>2. ~Moved(DS, n)
            BY <1>1, <1>3, <2>2, <3>1, MovedSeen
        <3>3. Written(n)
            BY <3>2, StepEffect DEF GrantInv, Effect, Quiet, Rewritten
        <3>4. PICK x \in Objects :
                /\ Grown(DS, n, x)
                /\ x.uid # 0 => pass.pc = "writeDaemonSet" /\ pass.name = n
            BY <3>3 DEF Written
        <3>5. Live(DS, n)' = x
            BY <1>1, <3>1, <3>4, GrownSeen
        <3>6. ASSUME NEW k \in Kinds
              PROVE  (Types => (Live(k, n) = None <=> Live(k, n).uid = 0))'
            BY LiveTypes, PTL
        <3>7. x.uid # 0
            BY <1>1, <1>3, <3>1, <3>5, <3>6 DEF None
        <3> QED
            BY <3>4, <3>7 DEF GrantInv, Bound
    <2> QED
        BY <2>1, <2>2
<1>4. Granted'
    BY <1>2, <1>3 DEF Granted, DS, Scope
<1> QED
    BY <1>1, <1>2, <1>4 DEF GrantInv

\* Where FluentBits do not share their RBAC objects, every DaemonSet that runs
\* has a ServiceAccount that is bound to the role: a pass binds before it writes,
\* and nothing is unbound.
THEOREM OwnScopesGranted == ASSUME OwnScopes PROVE Spec => []Granted
<1>1. Init => GrantInv
    <2> SUFFICES ASSUME Init PROVE GrantInv
        OBVIOUS
    <2>1. OrphanInv
        BY OrphanInit
    <2>2. Bound
        BY DEF Init, Bound, Idle, Scopes
    <2>3. Granted
        BY DEF Init, Granted, Live, Kinds
    <2> QED
        BY <2>1, <2>2, <2>3 DEF GrantInv
<1>2. GrantInv /\ [Next]_vars => GrantInv'
    BY GrantNext
<1>3. GrantInv => Granted
    BY DEF GrantInv
<1> QED
    BY <1>1, <1>2, <1>3, PTL DEF Spec
=============================================================================
