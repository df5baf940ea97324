---------------------------- MODULE MappedMemory ----------------------------
(***************************************************************************)
(* The mappings of libgetts when the threads of a server call it: each     *)
(* call maps .avc_conf, .ts_idx and the FLV file, one after the other, and *)
(* FileMappedMemory unmaps in its destructor.  flv::Parser keeps a copy of *)
(* the third, so that one mapping is unmapped twice.                       *)
(*                                                                         *)
(* What a call does with the contents is the subject of GetTs; here it may *)
(* give up wherever getts_impl returns 0.                                  *)
(***************************************************************************)
EXTENDS Naturals

CONSTANTS
  Threads,    \* the threads of the process
  NoThread,   \* the owner of a page that is not mapped
  NumPages,   \* pages of the address space that mmap may choose from
  PagesOf     \* PagesOf[f]: the pages of a file

Files == {"conf", "index", "flv"}
Pages == 0..NumPages-1

ASSUME PagesAssumption ==
  /\ NoThread \notin Threads
  /\ NumPages \in Nat
  /\ PagesOf \in [Files -> Nat \ {0}]

VARIABLES
  step,      \* "idle", "open": before mmap, "mapped", "parsing": the parser has
             \* its copy, "between": between the two destructors
  file,      \* the file a thread is at
  range,     \* the pages _ptr and _size of its FileMappedMemory stand for
  owner,     \* the thread that mapped a page
  raced,     \* history: some mmap happened between another thread's two munmaps
  crashed    \* the process has read an address that is not mapped

vars == <<step, file, range, owner, raced, crashed>>

\* The places mmap may choose: as many pages in a row, none of them in use.
Places(n) ==
  { R \in {p..p+n-1 : p \in Pages} :
      R \subseteq Pages /\ \A q \in R : owner[q] = NoThread }

\* Seeded error: one page unmapped whatever _size is.
Unmapped_one(R) ==
  [q \in Pages |-> IF q \in R /\ q - 1 \notin R THEN NoThread ELSE owner[q]]

\* munmap(_ptr, _size) does not ask who has mapped what it unmaps.
Unmapped(R) == [q \in Pages |-> IF q \in R THEN NoThread ELSE owner[q]]

Init ==
  /\ step = [t \in Threads |-> "idle"] /\ file = [t \in Threads |-> "conf"]
  /\ range = [t \in Threads |-> {}] /\ owner = [q \in Pages |-> NoThread]
  /\ raced = FALSE /\ crashed = FALSE

At(t, s) == ~crashed /\ step[t] = s

Call(t) ==
  /\ At(t, "idle")
  /\ step' = [step EXCEPT ![t] = "open"] /\ file' = [file EXCEPT ![t] = "conf"]
  /\ UNCHANGED <<range, owner, raced, crashed>>

\* No such file, an empty one, or no room: getts_impl returns, and to unmap
\* MAP_FAILED does nothing.
OpenError(t) ==
  /\ At(t, "open")
  /\ step' = [step EXCEPT ![t] = "idle"]
  /\ UNCHANGED <<file, range, owner, raced, crashed>>

Map(t) ==
  /\ At(t, "open")
  /\ \E R \in Places(PagesOf[file[t]]) :
       /\ range' = [range EXCEPT ![t] = R]
       /\ owner' = [q \in Pages |-> IF q \in R THEN t ELSE owner[q]]
  /\ step' = [step EXCEPT ![t] = "mapped"]
  /\ raced' = (raced \/ \E u \in Threads \ {t} : step[u] = "between")
  /\ UNCHANGED <<file, crashed>>

\* Seeded error: the mapping is passed to the parser by value, and a third
\* destructor runs when the constructor is over.
Build_byvalue(t) ==
  /\ At(t, "mapped") /\ file[t] = "flv"
  /\ step' = [step EXCEPT ![t] = "parsing"]
  /\ owner' = Unmapped(range[t])
  /\ UNCHANGED <<file, range, raced, crashed>>

\* The parser copies the address and the size.
Build(t) ==
  /\ At(t, "mapped") /\ file[t] = "flv"
  /\ step' = [step EXCEPT ![t] = "parsing"]
  /\ UNCHANGED <<file, range, owner, raced, crashed>>

\* A page is read while it is not mapped.
Crash(t) ==
  /\ At(t, "mapped") \/ At(t, "parsing")
  /\ \E q \in range[t] : owner[q] = NoThread
  /\ crashed' = TRUE
  /\ UNCHANGED <<step, file, range, owner, raced>>

\* The end of the block around conf_mm or index_mm: the next file, or return 0
\* after contents that are refused.
Unmap(t) ==
  /\ At(t, "mapped") /\ file[t] # "flv"
  /\ owner' = Unmapped(range[t])
  /\ range' = [range EXCEPT ![t] = {}]
  /\ \/ /\ step' = [step EXCEPT ![t] = "open"]
        /\ file' = [file EXCEPT ![t] = IF @ = "conf" THEN "index" ELSE "flv"]
     \/ step' = [step EXCEPT ![t] = "idle"] /\ UNCHANGED file
  /\ UNCHANGED <<raced, crashed>>

\* Any return from getts_impl behind the parser: its destructor comes first.
UnmapCopy(t) ==
  /\ At(t, "parsing")
  /\ owner' = Unmapped(range[t])
  /\ step' = [step EXCEPT ![t] = "between"]
  /\ UNCHANGED <<file, range, raced, crashed>>

UnmapAgain(t) ==
  /\ At(t, "between")
  /\ owner' = Unmapped(range[t])
  /\ range' = [range EXCEPT ![t] = {}]
  /\ step' = [step EXCEPT ![t] = "idle"]
  /\ UNCHANGED <<file, raced, crashed>>

Next == \E t \in Threads :
  \/ Call(t) \/ OpenError(t) \/ Map(t) \/ Build(t) \/ Crash(t)
  \/ Unmap(t) \/ UnmapCopy(t) \/ UnmapAgain(t)

Spec == Init /\ [][Next]_vars

----------------------------------------------------------------------------
\* A page in use belongs to the mapping that its owner has now: whatever calls
\* unmap of each other, and wherever they give up, no call leaves one behind.
TypeOK ==
  /\ step \in [Threads -> {"idle", "open", "mapped", "parsing", "between"}]
  /\ file \in [Threads -> Files]
  /\ range \in [Threads -> SUBSET Pages]
  /\ owner \in [Pages -> Threads \cup {NoThread}]
  /\ raced \in BOOLEAN /\ crashed \in BOOLEAN
  /\ \A q \in Pages : owner[q] # NoThread => q \in range[owner[q]]
  /\ \A t \in Threads : step[t] \in {"idle", "open"} => range[t] = {}

\* The second munmap of a mapping does harm only if some thread maps a file
\* between the two: as long as that has not happened, a program or a server
\* that makes one call at a time among them, every call keeps what it reads.
HarmOnlyBetween ==
  ~raced => /\ ~crashed
            /\ \A t \in Threads : step[t] \in {"mapped", "parsing"} =>
                 \A q \in range[t] : owner[q] = t
=============================================================================
