------------------------- MODULE MappedMemoryProofs -------------------------
(***************************************************************************)
(* The mappings of libgetts, for any number of threads, any address space  *)
(* and files of any size.                                                  *)
(***************************************************************************)
EXTENDS MappedMemory, TLAPS

InUse(t) == step[t] \in {"mapped", "parsing"}

\* What holds until some mmap falls between two munmaps: who stands between
\* them names no page that another thread uses.
Safe ==
  /\ ~crashed
  /\ \A t \in Threads : InUse(t) => \A q \in range[t] : owner[q] = t
  /\ \A t, u \in Threads : t # u /\ InUse(t) /\ step[u] = "between" =>
       \A q \in range[t] : q \notin range[u]

IInv == TypeOK /\ (~raced => Safe)

\* What is left of the owners when the pages R are unmapped.
LEMMA UnmappedOwner ==
  ASSUME TypeOK, NEW R
  PROVE  /\ Unmapped(R) \in [Pages -> Threads \cup {NoThread}]
         /\ \A q \in Pages : Unmapped(R)[q] = IF q \in R THEN NoThread ELSE owner[q]
BY DEF Unmapped, TypeOK

LEMMA InitIInv == Init => IInv
BY PagesAssumption DEF PagesAssumption, Init, IInv, TypeOK, Safe, InUse, Files

\* Mapping a file keeps the types and takes free pages only.
LEMMA MapStep ==
  ASSUME IInv, NEW t \in Threads, Map(t)
  PROVE  IInv'
<1>1. PICK R \in Places(PagesOf[file[t]]) :
        /\ range' = [range EXCEPT ![t] = R]
        /\ owner' = [q \in Pages |-> IF q \in R THEN t ELSE owner[q]]
  BY DEF Map
<1>2. R \subseteq Pages /\ \A q \in R : owner[q] = NoThread BY DEF Places
<1> HIDE DEF Places
<1>3. TypeOK'
  <2>1. step' \in [Threads -> {"idle", "open", "mapped", "parsing", "between"}]
    BY DEF IInv, TypeOK, Map
  <2>2. range' \in [Threads -> SUBSET Pages] BY <1>1, <1>2 DEF IInv, TypeOK
  <2>3. owner' \in [Pages -> Threads \cup {NoThread}] BY <1>1 DEF IInv, TypeOK
  <2>4. raced' \in BOOLEAN /\ crashed' \in BOOLEAN /\ file' \in [Threads -> Files]
    BY DEF IInv, TypeOK, Map
  <2>5. ASSUME NEW q \in Pages, owner'[q] # NoThread PROVE q \in range'[owner'[q]]
    <3>1. CASE q \in R
      <4>1. owner'[q] = t /\ range'[t] = R BY <1>1, <3>1 DEF IInv, TypeOK
      <4> QED BY <3>1, <4>1
    <3>2. CASE q \notin R
      <4>1. owner'[q] = owner[q] BY <1>1, <3>2
      <4>2. owner[q] \in Threads /\ q \in range[owner[q]] BY <2>5, <4>1 DEF IInv, TypeOK
      <4>3. range[t] = {} BY DEF IInv, TypeOK, Map, At
      <4>4. range'[owner[q]] = range[owner[q]] BY <1>1, <4>2, <4>3 DEF IInv, TypeOK
      <4> QED BY <4>1, <4>2, <4>4
    <3> QED BY <3>1, <3>2
  <2>6. ASSUME NEW u \in Threads, step'[u] \in {"idle", "open"} PROVE range'[u] = {}
    <3>1. u # t BY <2>6 DEF IInv, TypeOK, Map
    <3>2. step'[u] = step[u] /\ range'[u] = range[u] BY <3>1, <1>1 DEF IInv, TypeOK, Map
    <3> QED BY <2>6, <3>2 DEF IInv, TypeOK
  <2> QED BY <2>1, <2>2, <2>3, <2>4, <2>5, <2>6 DEF TypeOK
<1>4. ASSUME ~raced' PROVE Safe'
  <2>1. ~raced /\ \A u \in Threads \ {t} : step[u] # "between" BY <1>4 DEF Map
  <2>2. Safe BY <2>1 DEF IInv
  <2>3. \A u \in Threads : step'[u] # "between" BY <2>1 DEF IInv, TypeOK, Map
  <2>4. ~crashed' BY <2>2 DEF Safe, Map
  <2>5. ASSUME NEW u \in Threads, InUse(u)', NEW q \in range'[u] PROVE owner'[q] = u
    <3>1. CASE u = t
      <4>1. q \in R BY <1>1, <2>5, <3>1 DEF IInv, TypeOK
      <4> QED BY <1>1, <1>2, <3>1, <4>1
    <3>2. CASE u # t
      <4>1. InUse(u) /\ q \in range[u] /\ q \in Pages
        BY <1>1, <2>5, <3>2 DEF IInv, TypeOK, Map, InUse
      <4>2. owner[q] = u BY <2>2, <4>1 DEF Safe
      <4>3. q \notin R BY <1>2, <4>2, PagesAssumption DEF PagesAssumption
      <4> QED BY <1>1, <4>1, <4>2, <4>3
    <3> QED BY <3>1, <3>2
  <2> QED BY <2>3, <2>4, <2>5 DEF Safe
<1> QED BY <1>3, <1>4 DEF IInv

\* Unmapping what thread t holds, as its last act on that file.
LEMMA UnmapStep ==
  ASSUME IInv, NEW t \in Threads, InUse(t) \/ step[t] = "between",
         owner' = Unmapped(range[t]), range' = [range EXCEPT ![t] = {}],
         step' \in [Threads -> {"idle", "open", "mapped", "parsing", "between"}],
         step'[t] \in {"idle", "open"}, \A u \in Threads \ {t} : step'[u] = step[u],
         file' \in [Threads -> Files], raced' = raced, crashed' = crashed
  PROVE  IInv'
<1>1. /\ owner' \in [Pages -> Threads \cup {NoThread}]
      /\ \A q \in Pages : owner'[q] = IF q \in range[t] THEN NoThread ELSE owner[q]
  BY UnmappedOwner DEF IInv
<1>2. TypeOK'
  <2>1. range' \in [Threads -> SUBSET Pages] BY DEF IInv, TypeOK
  <2>2. raced' \in BOOLEAN /\ crashed' \in BOOLEAN BY DEF IInv, TypeOK
  <2>3. ASSUME NEW q \in Pages, owner'[q] # NoThread PROVE q \in range'[owner'[q]]
    <3>1. q \notin range[t] /\ owner'[q] = owner[q] BY <1>1, <2>3
    <3>2. owner[q] \in Threads /\ q \in range[owner[q]] BY <2>3, <3>1 DEF IInv, TypeOK
    <3>3. owner[q] # t BY <3>1, <3>2
    <3> QED BY <3>1, <3>2, <3>3 DEF IInv, TypeOK
  <2>4. ASSUME NEW u \in Threads, step'[u] \in {"idle", "open"} PROVE range'[u] = {}
    BY <2>4 DEF IInv, TypeOK
  <2> QED BY <1>1, <2>1, <2>2, <2>3, <2>4 DEF TypeOK
<1>3. ASSUME ~raced' PROVE Safe'
  <2>1. Safe BY <1>3 DEF IInv
  <2>2. ASSUME NEW u \in Threads, InUse(u)'
        PROVE  u # t /\ InUse(u) /\ range'[u] = range[u] /\ range[u] \subseteq Pages
    BY <2>2 DEF IInv, TypeOK, InUse
  <2>3. ASSUME NEW u \in Threads, InUse(u)', NEW q \in range'[u] PROVE owner'[q] = u
    <3>1. u # t /\ InUse(u) /\ q \in range[u] /\ q \in Pages BY <2>2, <2>3
    <3>2. owner[q] = u BY <2>1, <3>1 DEF Safe
    <3>3. q \notin range[t]
      <4>1. CASE InUse(t)
        <5> SUFFICES ASSUME q \in range[t] PROVE FALSE OBVIOUS
        <5>1. owner[q] = t BY <2>1, <4>1 DEF Safe
        <5> QED BY <3>1, <3>2, <5>1
      <4>2. CASE step[t] = "between" BY <2>1, <3>1, <4>2 DEF Safe
      <4> QED BY <4>1, <4>2
    <3> QED BY <1>1, <3>1, <3>2, <3>3
  <2>4. ASSUME NEW u \in Threads, NEW v \in Threads, u # v, InUse(u)', step'[v] = "between",
               NEW q \in range'[u]
        PROVE  q \notin range'[v]
    <3>1. InUse(u) /\ q \in range[u] BY <2>2, <2>4
    <3>2. v # t BY <2>4
    <3>3. step[v] = "between" /\ range'[v] = range[v] BY <2>4, <3>2 DEF IInv, TypeOK
    <3> QED BY <2>1, <2>4, <3>1, <3>3 DEF Safe
  <2>5. ~crashed' BY <2>1 DEF Safe
  <2> QED BY <2>3, <2>4, <2>5 DEF Safe
<1> QED BY <1>2, <1>3 DEF IInv

\* The first of the two destructors: the pages are free, and still named.
LEMMA UnmapCopyStep ==
  ASSUME IInv, NEW t \in Threads, UnmapCopy(t)
  PROVE  IInv'
<1>1. /\ owner' \in [Pages -> Threads \cup {NoThread}]
      /\ \A q \in Pages : owner'[q] = IF q \in range[t] THEN NoThread ELSE owner[q]
  BY UnmappedOwner DEF IInv, UnmapCopy
<1>2. /\ step[t] = "parsing" /\ step' = [step EXCEPT ![t] = "between"]
      /\ UNCHANGED <<file, range, raced, crashed>>
  BY DEF UnmapCopy, At
<1>3. TypeOK'
  <2>1. step' \in [Threads -> {"idle", "open", "mapped", "parsing", "between"}]
    BY <1>2 DEF IInv, TypeOK
  <2>2. ASSUME NEW q \in Pages, owner'[q] # NoThread PROVE q \in range'[owner'[q]]
    BY <1>1, <1>2, <2>2 DEF IInv, TypeOK
  <2>3. ASSUME NEW u \in Threads, step'[u] \in {"idle", "open"} PROVE range'[u] = {}
    BY <1>2, <2>3 DEF IInv, TypeOK
  <2> QED BY <1>1, <1>2, <2>1, <2>2, <2>3 DEF IInv, TypeOK
<1>4. ASSUME ~raced' PROVE Safe'
  <2>1. Safe BY <1>2, <1>4 DEF IInv
  <2>2. ASSUME NEW u \in Threads, InUse(u)'
        PROVE  u # t /\ InUse(u) /\ range'[u] = range[u] /\ range[u] \subseteq Pages
    BY <1>2, <2>2 DEF IInv, TypeOK, InUse
  <2>3. ASSUME NEW u \in Threads, InUse(u), u # t, NEW q \in range[u]
        PROVE  owner[q] = u /\ q \notin range[t]
    <3>1. owner[q] = u BY <2>1, <2>3 DEF Safe
    <3>2. InUse(t) BY <1>2 DEF InUse
    <3>3. q \in range[t] => owner[q] = t BY <2>1, <3>2 DEF Safe
    <3> QED BY <2>3, <3>1, <3>3
  <2>4. ASSUME NEW u \in Threads, InUse(u)', NEW q \in range'[u] PROVE owner'[q] = u
    <3>1. u # t /\ InUse(u) /\ q \in range[u] /\ q \in Pages BY <2>2, <2>4
    <3>2. owner[q] = u /\ q \notin range[t] BY <2>3, <3>1
    <3> QED BY <1>1, <3>1, <3>2
  <2>5. ASSUME NEW u \in Threads, NEW v \in Threads, u # v, InUse(u)', step'[v] = "between",
               NEW q \in range'[u]
        PROVE  q \notin range'[v]
    <3>1. u # t /\ InUse(u) /\ q \in range[u] BY <2>2, <2>5
    <3>2. CASE v = t
      <4>1. q \notin range[t] BY <2>3, <3>1
      <4> QED BY <1>2, <3>2, <4>1
    <3>3. CASE v # t
      <4>1. step[v] = "between" BY <1>2, <2>5, <3>3 DEF IInv, TypeOK
      <4> QED BY <1>2, <2>1, <2>5, <3>1, <4>1 DEF Safe
    <3> QED BY <3>2, <3>3
  <2>6. ~crashed' BY <1>2, <2>1 DEF Safe
  <2> QED BY <2>4, <2>5, <2>6 DEF Safe
<1> QED BY <1>3, <1>4 DEF IInv

\* Steps that leave the mappings alone and end nothing that is in use.
LEMMA QuietStep ==
  ASSUME IInv, NEW t \in Threads, UNCHANGED <<range, owner, raced, crashed>>,
         step' \in [Threads -> {"idle", "open", "mapped", "parsing", "between"}],
         file' \in [Threads -> Files], \A u \in Threads \ {t} : step'[u] = step[u],
         \/ step[t] \in {"idle", "open"} /\ step'[t] \in {"idle", "open"}
         \/ step[t] = "mapped" /\ step'[t] = "parsing"
  PROVE  IInv'
<1>1. TypeOK' BY DEF IInv, TypeOK
<1>2. \A u \in Threads : /\ InUse(u)' <=> InUse(u)
                         /\ step'[u] = "between" <=> step[u] = "between"
  BY DEF InUse
<1>3. Safe => Safe'
  <2> HIDE DEF InUse
  <2> QED BY <1>2 DEF Safe, InUse
<1> QED BY <1>1, <1>3 DEF IInv

LEMMA Inductive ==
  ASSUME IInv, [Next]_vars
  PROVE  IInv'
<1>1. ASSUME NEW t \in Threads, Call(t) PROVE IInv'
  <2>1. file' \in [Threads -> Files] BY <1>1 DEF Call, IInv, TypeOK, Files
  <2> QED BY <1>1, <2>1, QuietStep DEF Call, At, IInv, TypeOK
<1>2. ASSUME NEW t \in Threads, OpenError(t) PROVE IInv'
  BY <1>2, QuietStep DEF OpenError, At, IInv, TypeOK
<1>3. ASSUME NEW t \in Threads, Map(t) PROVE IInv' BY <1>3, MapStep
<1>4. ASSUME NEW t \in Threads, Build(t) PROVE IInv'
  BY <1>4, QuietStep DEF Build, At, IInv, TypeOK
<1>5. ASSUME NEW t \in Threads, Crash(t) PROVE IInv'
  <2>1. PICK q \in range[t] : owner[q] = NoThread BY <1>5 DEF Crash
  <2>2. InUse(t) BY <1>5 DEF Crash, At, InUse
  <2>3. ~Safe BY <2>1, <2>2, PagesAssumption DEF Safe, PagesAssumption
  <2>4. raced' BY <1>5, <2>3 DEF Crash, IInv
  <2>5. TypeOK' BY <1>5 DEF Crash, IInv, TypeOK
  <2> QED BY <2>4, <2>5 DEF IInv
<1>6. ASSUME NEW t \in Threads, Unmap(t) PROVE IInv'
  <2>1. file' \in [Threads -> Files] BY <1>6 DEF Unmap, IInv, TypeOK, Files
  <2>2. /\ step' \in [Threads -> {"idle", "open", "mapped", "parsing", "between"}]
        /\ step'[t] \in {"idle", "open"} /\ \A u \in Threads \ {t} : step'[u] = step[u]
    BY <1>6 DEF Unmap, IInv, TypeOK
  <2>3. InUse(t) BY <1>6 DEF Unmap, At, InUse
  <2>4. /\ owner' = Unmapped(range[t]) /\ range' = [range EXCEPT ![t] = {}]
        /\ raced' = raced /\ crashed' = crashed
    BY <1>6 DEF Unmap
  <2> QED BY <2>1, <2>2, <2>3, <2>4, UnmapStep
<1>7. ASSUME NEW t \in Threads, UnmapCopy(t) PROVE IInv' BY <1>7, UnmapCopyStep
<1>8. ASSUME NEW t \in Threads, UnmapAgain(t) PROVE IInv'
  <2>1. file' \in [Threads -> Files] BY <1>8 DEF UnmapAgain, IInv, TypeOK
  <2>2. /\ step' \in [Threads -> {"idle", "open", "mapped", "parsing", "between"}]
        /\ step'[t] \in {"idle", "open"} /\ \A u \in Threads \ {t} : step'[u] = step[u]
    BY <1>8 DEF UnmapAgain, IInv, TypeOK
  <2>3. step[t] = "between" BY <1>8 DEF UnmapAgain, At
  <2>4. /\ owner' = Unmapped(range[t]) /\ range' = [range EXCEPT ![t] = {}]
        /\ raced' = raced /\ crashed' = crashed
    BY <1>8 DEF UnmapAgain
  <2> QED BY <2>1, <2>2, <2>3, <2>4, UnmapStep
<1>9. CASE UNCHANGED vars BY <1>9 DEF vars, IInv, TypeOK, Safe, InUse
<1> QED BY <1>1, <1>2, <1>3, <1>4, <1>5, <1>6, <1>7, <1>8, <1>9 DEF Next

\* TypeOK of any number of threads: no call leaves a mapping behind, whatever
\* the calls unmap of each other.
THEOREM TypeCorrect == Spec => []TypeOK
BY InitIInv, Inductive, PTL DEF Spec, IInv

\* HarmOnlyBetween: a lock that keeps mmap out of the two destructors, or one
\* call at a time, is enough for every call to keep what it has mapped.
THEOREM HarmOnlyBetweenHolds == Spec => []HarmOnlyBetween
<1>1. IInv => HarmOnlyBetween BY DEF IInv, Safe, InUse, HarmOnlyBetween
<1> QED BY <1>1, InitIInv, Inductive, PTL DEF Spec
=============================================================================
