------------------------------- MODULE MyMalloc -------------------------------
(****************************************************************************)
(* The block allocator (MALLOC/malloc.c) under tasks that preempt one       *)
(* another.  lwIP takes mailboxes from it in tcpip_thread and in the TCP    *)
(* client (LWIP/arch/sys_arch.c), the WiFi task its work strings.  Nothing  *)
(* protects the map: each entry read or written is a step, and a task runs  *)
(* while no more urgent one is in a call.                                   *)
(****************************************************************************)
EXTENDS Integers, FiniteSets

CONSTANTS Tasks,        \* the callers, by priority: a smaller number preempts
          Blocks,       \* entries of the map
          BlockSize,    \* bytes per block (32)
          Sizes,        \* bytes asked for
          MaxRegions    \* bound: regions a task holds

ASSUME MallocAssumption ==
  /\ Tasks \subseteq Nat /\ Blocks \in Nat \ {0} /\ BlockSize \in Nat \ {0}
  /\ Sizes \subseteq Nat /\ MaxRegions \in Nat

VARIABLES
  memmap,       \* 0, or the number of blocks of the region
  step,         \* task -> "out", "scan", "mark", "clear"
  offset,       \* task -> the block its call is at; the region's first
  cmemb,        \* task -> free blocks counted in a row
  nmemb,        \* task -> blocks of its region
  i,            \* task -> blocks marked or cleared
  regions,      \* task -> the regions it was given, [at, len]
  clashed,      \* a call to mymalloc began while another was searching or marking
  disturbed     \* tasks in a search that another call has preempted

locals == <<step, offset, cmemb, nmemb, i>>
ghosts == <<clashed, disturbed>>
memVars == <<memmap, locals, regions, ghosts>>

BlocksOf(r) == r.at .. r.at + r.len - 1

MemInit ==
  /\ memmap = [b \in 0 .. Blocks - 1 |-> 0]
  /\ step = [p \in Tasks |-> "out"]
  /\ offset = [p \in Tasks |-> 0] /\ cmemb = [p \in Tasks |-> 0]
  /\ nmemb = [p \in Tasks |-> 0] /\ i = [p \in Tasks |-> 0]
  /\ regions = [p \in Tasks |-> {}] /\ clashed = FALSE /\ disturbed = {}

MayCall(p) == \A q \in Tasks : q <= p => step[q] = "out"
Preempts(p) == disturbed' = (disturbed \ {p}) \cup {q \in Tasks : step[q] = "scan"}
MayStep(p) == \A q \in Tasks : q < p => step[q] = "out"
Leave(p) ==
  /\ step' = [step EXCEPT ![p] = "out"] /\ offset' = [offset EXCEPT ![p] = 0]
  /\ cmemb' = [cmemb EXCEPT ![p] = 0] /\ nmemb' = [nmemb EXCEPT ![p] = 0]
  /\ i' = [i EXCEPT ![p] = 0]
-----------------------------------------------------------------------------
BlocksFor(size) == size \div BlockSize + (IF size % BlockSize # 0 THEN 1 ELSE 0)

Top == Blocks - 1

(* A size of 0 is refused at once.                                           *)
mymalloc(p) ==
  /\ MayCall(p) /\ Cardinality(regions[p]) < MaxRegions
  /\ \E size \in Sizes \ {0} : nmemb' = [nmemb EXCEPT ![p] = BlocksFor(size)]
  /\ step' = [step EXCEPT ![p] = "scan"] /\ offset' = [offset EXCEPT ![p] = Top]
  /\ clashed' = (clashed \/ \E q \in Tasks : step[q] \in {"scan", "mark"})
  /\ Preempts(p)
  /\ UNCHANGED <<memmap, cmemb, i, regions>>

CountOn(p) == IF memmap[offset[p]] = 0 THEN cmemb[p] + 1 ELSE cmemb[p]  \* slip: no reset
Count(p) == IF memmap[offset[p]] = 0 THEN cmemb[p] + 1 ELSE 0

(* One entry of the search, from the top; below the last there is no room.   *)
Scan(p) ==
  /\ step[p] = "scan" /\ MayStep(p)
  /\ IF Count(p) = nmemb[p]
     THEN /\ step' = [step EXCEPT ![p] = "mark"]
          /\ UNCHANGED <<offset, cmemb, nmemb, i>>
     ELSE IF offset[p] = 0 THEN Leave(p)
     ELSE /\ offset' = [offset EXCEPT ![p] = @ - 1]
          /\ cmemb' = [cmemb EXCEPT ![p] = Count(p)]
          /\ UNCHANGED <<step, nmemb, i>>
  /\ UNCHANGED <<memmap, regions, ghosts>>

Mark(p) ==
  /\ step[p] = "mark" /\ MayStep(p) /\ i[p] < nmemb[p]
  /\ memmap' = [memmap EXCEPT ![offset[p] + i[p]] = nmemb[p]]
  /\ i' = [i EXCEPT ![p] = @ + 1]
  /\ UNCHANGED <<step, offset, cmemb, nmemb, regions, ghosts>>

Given(p) ==
  /\ step[p] = "mark" /\ MayStep(p) /\ i[p] = nmemb[p]
  /\ regions' = [regions EXCEPT ![p] = @ \cup {[at |-> offset[p], len |-> nmemb[p]]}]
  /\ Leave(p)
  /\ UNCHANGED <<memmap, ghosts>>

(* A task gives back a region it holds; the map says how long it is.         *)
myfree(p) ==
  /\ MayCall(p)
  /\ \E r \in regions[p] :
       /\ regions' = [regions EXCEPT ![p] = @ \ {r}]
       /\ offset' = [offset EXCEPT ![p] = r.at] /\ nmemb' = [nmemb EXCEPT ![p] = memmap[r.at]]
  /\ step' = [step EXCEPT ![p] = "clear"]
  /\ Preempts(p)
  /\ UNCHANGED <<memmap, cmemb, i, clashed>>

ClearMap(p) ==
  /\ step[p] = "clear" /\ MayStep(p)
  /\ IF i[p] < nmemb[p]
     THEN /\ memmap' = [memmap EXCEPT ![offset[p] + i[p]] = 0]
          /\ i' = [i EXCEPT ![p] = @ + 1] /\ UNCHANGED <<step, offset, cmemb, nmemb>>
     ELSE Leave(p) /\ UNCHANGED memmap
  /\ UNCHANGED <<regions, ghosts>>

MemNext == \E p \in Tasks : mymalloc(p) \/ Scan(p) \/ Mark(p) \/ Given(p) \/ myfree(p) \/ ClearMap(p)
(* Bound: what happens to the map after a clash is not followed.           *)
Unclashed == ~clashed
MemSpec == MemInit /\ [][MemNext]_memVars
-----------------------------------------------------------------------------
Region == [at : 0 .. Blocks - 1, len : 0 .. Blocks]
MemTypeOK ==
  /\ memmap \in [0 .. Blocks - 1 -> 0 .. Blocks]
  /\ step \in [Tasks -> {"out", "scan", "mark", "clear"}]
  /\ offset \in [Tasks -> 0 .. Blocks - 1] /\ cmemb \in [Tasks -> 0 .. Blocks]
  /\ nmemb \in [Tasks -> Nat] /\ i \in [Tasks -> 0 .. Blocks]
  /\ regions \in [Tasks -> SUBSET Region] /\ clashed \in BOOLEAN
  /\ disturbed \subseteq Tasks

(* Blocks a task owns: its regions, and what it has marked or not yet        *)
(* cleared in a call.                                                        *)
InCall(p) ==
  CASE step[p] = "mark" -> offset[p] .. offset[p] + i[p] - 1
    [] step[p] = "clear" -> offset[p] + i[p] .. offset[p] + nmemb[p] - 1
    [] OTHER -> {}
Owned(p) == (UNION {BlocksOf(r) : r \in regions[p]}) \cup InCall(p)

(* No block belongs to two tasks or two regions, and the blocks that are     *)
(* marked are those that somebody owns, so none is lost to the pool.         *)
BlocksAccounted ==
  clashed \/
    /\ \A p, q \in Tasks : p # q => Owned(p) \cap Owned(q) = {}
    /\ \A p \in Tasks : \A r, s \in regions[p] : r # s => BlocksOf(r) \cap BlocksOf(s) = {}
    /\ \A p \in Tasks : \A r \in regions[p] : BlocksOf(r) \cap InCall(p) = {}
    /\ {b \in DOMAIN memmap : memmap[b] # 0} = UNION {Owned(p) : p \in Tasks}

(* A search that ends without a region has left no run of free blocks that   *)
(* is long enough.                                                           *)
RefusedForLackOfRoom(p) ==
  (step[p] = "scan" /\ step'[p] = "out" /\ p \notin disturbed) =>
    \A at \in 0 .. Blocks - nmemb[p] : \E b \in at .. at + nmemb[p] - 1 : memmap[b] # 0

(* As long as no search is preempted by another call to mymalloc, though     *)
(* releases preempt and are preempted anywhere, blocks are accounted for     *)
(* after every step (malloc.c:99-106); and a search that no call preempts    *)
(* refuses only for lack of room (malloc.c:97-110).                          *)
AllocatorSound ==
  [][BlocksAccounted' /\ \A p \in Tasks : RefusedForLackOfRoom(p)]_memVars
=============================================================================
