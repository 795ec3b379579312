----------------------------- MODULE PagingProofs -----------------------------
(***************************************************************************)
(* For every number of slots and every set of video pages: whatever the    *)
(* processor has cached when execute and halt exchange the program's page, *)
(* a program reaches its own frame and video memory and nothing else, and  *)
(* the kernel stays mapped throughout.                                     *)
(***************************************************************************)
EXTENDS Paging, TLAPS

\* The translations page_init sets up, and the one execute and halt exchange.
KernelWalk == [dir |-> 1, tbl |-> Whole, us |-> 0, to |-> Kernel]
LowWalk(t) == [dir |-> 0, tbl |-> t, us |-> 0, to |-> Video(t)]
VideoWalk(t) == [dir |-> VidDir, tbl |-> t, us |-> 1, to |-> Video(t)]
ProgramWalk(i) == [dir |-> ProgDir, tbl |-> Whole, us |-> 1,
                   to |-> [frame |-> FrameOf(i), page |-> Whole]]

FixedWalks == {KernelWalk} \cup {LowWalk(t) : t \in VideoPages} \cup {VideoWalk(t) : t \in VideoPages}

\* The tables are those of page_init but for the program's entry, which is that of the
\* slot about to run; until the flush the cache may hold the program's page of another
\* slot, and of that page only.
TablesInv ==
    IF pg
    THEN /\ table = InitialTable
         /\ pageDir = IF pc = "boot" THEN InitialDir
                      ELSE [InitialDir EXCEPT ![ProgDir] =
                                [p |-> 1, us |-> 1, ps |-> 1, add |-> FrameOf(cur)]]
    ELSE pc = "boot" /\ tlb = {}

CacheInv ==
    /\ \A w \in tlb : w \in FixedWalks \/ \E i \in Slots : w = ProgramWalk(i)
    /\ pc \notin {"changed", "halt"} => tlb \subseteq Walk

PagingInv ==
    /\ pg \in BOOLEAN /\ cur \in Slots
    /\ pc \in {"boot", "user", "changed", "load", "halt"}
    /\ TablesInv
    /\ CacheInv

-------------------------------------------------------------------------------
\* Before the first program the tables give the translations of page_init and no other.
LEMMA BootWalk ==
    ASSUME pg, TablesInv, pc = "boot"
    PROVE  Walk = FixedWalks
<1>1. table = InitialTable /\ pageDir = InitialDir
  BY DEF TablesInv
<1>2. {e \in Dirs : pageDir[e].p = 1 /\ pageDir[e].ps = 1} = {1}
  BY <1>1 DEF Dirs, InitialDir, NoEntry, ProgDir, VidDir
<1>3. {e \in Dirs : pageDir[e].p = 1 /\ pageDir[e].ps = 0} = {0, VidDir}
  BY <1>1 DEF Dirs, InitialDir, NoEntry, ProgDir, VidDir
<1>4. {u \in Tbl : table[u].p = 1} = VideoPages
  BY <1>1 DEF Tbl, InitialTable
<1>5. \A t \in VideoPages : table[t].add = t /\ table[t].us = 1
  BY <1>1 DEF Tbl, InitialTable
<1>6. /\ pageDir[1].us = 0 /\ pageDir[1].add = 1
      /\ pageDir[0].us = 0 /\ pageDir[VidDir].us = 1
  BY <1>1 DEF Dirs, InitialDir, ProgDir, VidDir
<1> QED
  BY <1>2, <1>3, <1>4, <1>5, <1>6
     DEF Walk, FixedWalks, KernelWalk, LowWalk, VideoWalk, Kernel, Video

\* From then on they give the program's page too, at the frame of the slot to run.
LEMMA RunWalk ==
    ASSUME pg, TablesInv, pc # "boot"
    PROVE  Walk = FixedWalks \cup {ProgramWalk(cur)}
<1> DEFINE entry == [p |-> 1, us |-> 1, ps |-> 1, add |-> FrameOf(cur)]
<1>1. table = InitialTable /\ pageDir = [InitialDir EXCEPT ![ProgDir] = entry]
  BY DEF TablesInv
<1>2. /\ pageDir[ProgDir] = entry
      /\ \A d \in Dirs : d # ProgDir => pageDir[d] = InitialDir[d]
  BY <1>1 DEF Dirs, InitialDir, ProgDir, VidDir
<1>3. entry.p = 1 /\ entry.ps = 1 /\ entry.us = 1 /\ entry.add = FrameOf(cur)
  OBVIOUS
<1> HIDE DEF entry
<1>4. {e \in Dirs : pageDir[e].p = 1 /\ pageDir[e].ps = 1} = {1, ProgDir}
  BY <1>2, <1>3 DEF Dirs, InitialDir, NoEntry, ProgDir, VidDir
<1>5. {e \in Dirs : pageDir[e].p = 1 /\ pageDir[e].ps = 0} = {0, VidDir}
  BY <1>2, <1>3 DEF Dirs, InitialDir, NoEntry, ProgDir, VidDir
<1>6. {u \in Tbl : table[u].p = 1} = VideoPages
  BY <1>1 DEF Tbl, InitialTable
<1>7. \A t \in VideoPages : table[t].add = t /\ table[t].us = 1
  BY <1>1 DEF Tbl, InitialTable
<1>8. /\ pageDir[1].us = 0 /\ pageDir[1].add = 1
      /\ pageDir[0].us = 0 /\ pageDir[VidDir].us = 1
  BY <1>2 DEF Dirs, InitialDir, ProgDir, VidDir
<1>9. {[dir |-> d, tbl |-> Whole, us |-> pageDir[d].us, to |-> [frame |-> pageDir[d].add, page |-> Whole]] :
          d \in {1, ProgDir}} = {KernelWalk, ProgramWalk(cur)}
  BY <1>2, <1>3, <1>8 DEF KernelWalk, ProgramWalk, Kernel, ProgDir
<1>10. {[dir |-> d, tbl |-> t, us |-> pageDir[d].us * table[t].us, to |-> Video(table[t].add)] :
          d \in {0, VidDir}, t \in VideoPages}
       = {LowWalk(t) : t \in VideoPages} \cup {VideoWalk(t) : t \in VideoPages}
  BY <1>7, <1>8 DEF LowWalk, VideoWalk, VidDir
<1> QED
  BY <1>4, <1>5, <1>6, <1>9, <1>10 DEF Walk, FixedWalks

\* Paging is off and the cache empty when the boot loader hands over.
LEMMA PagingInit == PageInit => PagingInv
<1> SUFFICES ASSUME PageInit PROVE PagingInv
  OBVIOUS
<1>1. cur \in Slots
  BY PagingAssumption DEF PageInit, Slots
<1>2. pg = FALSE /\ tlb = {} /\ pc = "boot"
  BY DEF PageInit
<1> QED
  BY <1>1, <1>2, Zenon DEF PagingInv, TablesInv, CacheInv

\* page_init switches paging on with the tables it has set up.
LEMMA PageInitInv ==
    ASSUME PagingInv, page_init
    PROVE  PagingInv'
<1>1. TablesInv' /\ tlb' = {} /\ pc' = "boot" /\ pg' = TRUE /\ cur' \in Slots
  BY DEF page_init, PagingInv, TablesInv
<1> QED
  BY <1>1 DEF PagingInv, CacheInv

\* What the processor caches is a translation the tables then give.
LEMMA FillInv ==
    ASSUME PagingInv, Fill
    PROVE  PagingInv'
<1>1. pg /\ UNCHANGED <<pageDir, table, pg, cur, pc>> /\ TablesInv /\ CacheInv /\ cur \in Slots
  BY DEF Fill, PagingInv
<1>2. PICK w \in Walk : tlb' = tlb \cup {w}
  BY DEF Fill
<1>3. w \in FixedWalks \/ \E i \in Slots : w = ProgramWalk(i)
  BY <1>1, <1>2, BootWalk, RunWalk
<1>4. UNCHANGED Walk
  BY <1>1 DEF Walk
<1>5. CacheInv'
  BY <1>1, <1>2, <1>3, <1>4 DEF CacheInv
<1>6. TablesInv'
  BY <1>1 DEF TablesInv
<1> QED
  BY <1>1, <1>5, <1>6 DEF PagingInv

\* execute and halt change the one entry and leave the cache as it is: what it holds of
\* the program's page may now be another slot's.
LEMMA MapInv ==
    ASSUME PagingInv, pg, cur' \in Slots, MapProgram(cur'), pc' \in {"changed", "halt"},
           UNCHANGED <<table, pg, tlb>>
    PROVE  PagingInv'
<1>1. TablesInv /\ CacheInv
  BY DEF PagingInv
<1>2. pageDir' = [InitialDir EXCEPT ![ProgDir] = [p |-> 1, us |-> 1, ps |-> 1, add |-> FrameOf(cur')]]
  BY <1>1, Zenon DEF TablesInv, MapProgram, InitialDir, Dirs, ProgDir
<1>3. TablesInv'
  BY <1>1, <1>2 DEF TablesInv
<1>4. CacheInv'
  BY <1>1 DEF CacheInv
<1> QED
  BY <1>3, <1>4 DEF PagingInv

\* The flush leaves nothing cached.
LEMMA FlushInv ==
    ASSUME PagingInv, flushTLB
    PROVE  PagingInv'
<1>1. /\ tlb' = {} /\ UNCHANGED <<pageDir, table, pg, cur>> /\ pc # "boot"
      /\ pc' \in {"load", "user"} /\ TablesInv
  BY DEF flushTLB, FlushedTLB, PagingInv
<1> QED
  BY <1>1 DEF PagingInv, TablesInv, CacheInv

\* Every step of the kernel and of the processor preserves the invariant.
LEMMA PagingNext == PagingInv /\ [PageNext]_pageVars => PagingInv'
<1> SUFFICES ASSUME PagingInv, [PageNext]_pageVars PROVE PagingInv'
  OBVIOUS
<1>1. CASE page_init
  BY <1>1, PageInitInv
<1>2. CASE Fill
  BY <1>2, FillInv
<1>3. CASE ExecuteMap
  <2>1. pg /\ cur' \in Slots
    BY <1>3, PagingAssumption DEF ExecuteMap, PagingInv, TablesInv, Slots
  <2> QED
    BY <1>3, <2>1, MapInv DEF ExecuteMap
<1>4. CASE flushTLB
  BY <1>4, FlushInv
<1>5. CASE Load
  <2>1. UNCHANGED Walk
    BY <1>5 DEF Load, Walk
  <2> QED
    BY <1>5, <2>1 DEF Load, PagingInv, TablesInv, CacheInv
<1>6. CASE HaltMap
  <2>1. pg /\ cur' \in Slots
    BY <1>6, PagingAssumption DEF HaltMap, HasParent, PagingInv, TablesInv, Slots
  <2> QED
    BY <1>6, <2>1, MapInv DEF HaltMap
<1>7. CASE UNCHANGED pageVars
  <2>1. UNCHANGED Walk
    BY <1>7 DEF pageVars, Walk
  <2> QED
    BY <1>7, <2>1 DEF pageVars, PagingInv, TablesInv, CacheInv
<1> QED
  BY <1>1, <1>2, <1>3, <1>4, <1>5, <1>6, <1>7 DEF PageNext

\* The inductive invariant holds of every reachable state.
LEMMA PagingInvariance == PageSpec => []PagingInv
  BY PagingInit, PagingNext, PTL DEF PageSpec

\* While a program runs or is loaded (paging.c, chgDir and flushTLB), the addresses of its
\* page lead to the frame of its slot and no other address does, cached or not.
THEOREM ProgramsHaveOwnFrame == PageSpec => []OwnFrameOnly
<1>1. PagingInv => OwnFrameOnly
  <2> SUFFICES ASSUME PagingInv, pc \in {"user", "load"} PROVE OwnFrameOnly
    BY DEF OwnFrameOnly
  <2>1. Walk = FixedWalks \cup {ProgramWalk(cur)} /\ tlb \subseteq Walk /\ cur \in Nat
    BY RunWalk, PagingAssumption DEF PagingInv, TablesInv, CacheInv, Slots
  <2>2. \A w \in FixedWalks : w.dir # ProgDir /\ w.to.frame \in {0, 1}
    BY DEF FixedWalks, KernelWalk, LowWalk, VideoWalk, Kernel, Video, ProgDir, VidDir
  <2>3. ProgramWalk(cur).dir = ProgDir
        /\ ProgramWalk(cur).to = [frame |-> FrameOf(cur), page |-> Whole]
    BY DEF ProgramWalk
  <2>4. FrameOf(cur) \notin {0, 1}
    BY <2>1 DEF FrameOf
  <2>5. \A i \in Slots : FrameOf(i) = FrameOf(cur) => i = cur
    BY <2>1 DEF FrameOf, Slots
  <2> QED
    BY <2>1, <2>2, <2>3, <2>4, <2>5 DEF OwnFrameOnly
<1> QED
  BY <1>1, PagingInvariance, PTL

\* A program reaches nothing but its page and, at 132 MB, the pages of video memory.
THEOREM ProgramsAreConfined == PageSpec => []ProgramReach
<1>1. PagingInv => ProgramReach
  <2> SUFFICES ASSUME PagingInv, pc = "user" PROVE ProgramReach
    BY DEF ProgramReach
  <2>1. Walk = FixedWalks \cup {ProgramWalk(cur)} /\ tlb \subseteq Walk
    BY RunWalk DEF PagingInv, TablesInv, CacheInv
  <2>2. \A w \in FixedWalks : w.us = 1 =>
            w.dir = VidDir /\ w.tbl \in VideoPages /\ w.to = Video(w.tbl)
    BY DEF FixedWalks, KernelWalk, LowWalk, VideoWalk
  <2>3. ProgramWalk(cur).dir = ProgDir
    BY DEF ProgramWalk
  <2> QED
    BY <2>1, <2>2, <2>3 DEF ProgramReach
<1> QED
  BY <1>1, PagingInvariance, PTL

\* From page_init on the kernel and video memory keep their mapping at every step of every
\* call, in the tables and in the cache.
THEOREM KernelMapped == PageSpec => []KernelStaysMapped
<1>1. PagingInv => KernelStaysMapped
  <2> SUFFICES ASSUME PagingInv, pg PROVE KernelStaysMapped
    BY DEF KernelStaysMapped
  <2>1. FixedWalks \subseteq Walk
    BY BootWalk, RunWalk DEF PagingInv
  <2>2. KernelWalk \in Walk /\ KernelWalk.dir = 1 /\ KernelWalk.to = Kernel
    BY <2>1 DEF FixedWalks, KernelWalk
  <2>3. \A t \in VideoPages : /\ LowWalk(t) \in Walk /\ LowWalk(t).dir = 0
                               /\ LowWalk(t).tbl = t /\ LowWalk(t).to = Video(t)
    BY <2>1 DEF FixedWalks, LowWalk
  <2>4. \A i \in Slots : ProgramWalk(i).dir \notin {0, 1}
    BY DEF ProgramWalk, ProgDir
  <2>5. \A w \in tlb : w.dir \in {0, 1} => w \in Walk
    BY <2>1, <2>4 DEF PagingInv, CacheInv
  <2> QED
    BY <2>2, <2>3, <2>5 DEF KernelStaysMapped
<1> QED
  BY <1>1, PagingInvariance, PTL

===============================================================================
