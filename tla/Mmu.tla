-------------------------------- MODULE Mmu --------------------------------
(***************************************************************************)
(* Address translation and exception entry of the VR4300: the segments of  *)
(* crates/rustyn64-cpu/src/addr.rs, the TLB of tlb.rs, the exception entry *)
(* and ERET of exception.rs, and the part of COP0 (cop0.rs) and of WB      *)
(* (pipeline.rs) through which system software drives them.                *)
(*                                                                         *)
(* An address is a region (bits 62 and 63) and one of sixteen pages, which *)
(* stand for the 40 bits the TLB compares.  A page is the smallest page a  *)
(* TLB entry can map; an entry maps a pair of them, or a pair of pages     *)
(* four times that size.  One step is one instruction.                     *)
(***************************************************************************)
EXTENDS Naturals, FiniteSets

CONSTANTS
    N,          \* how many TLB entries there are
    Va,         \* the addresses used
    LoPairs,    \* the values written to EntryLo0 and EntryLo1
    Asid,       \* the address-space identifiers
    Wireds,     \* the values written to Wired
    Modes,      \* the processor modes software switches to
    MaxWrites   \* the bound: how many privileged instructions a behaviour has

EntryLo == [dirty : BOOLEAN, valid : BOOLEAN, global : BOOLEAN]

ASSUME MmuAssumption ==
    /\ N \in Nat \ {0}
    /\ Va \subseteq [region : 0..3, page : 0..15]
    /\ LoPairs \subseteq EntryLo \X EntryLo
    /\ Asid \subseteq Nat
    /\ Modes \subseteq [ksu : 0..3, exl : BOOLEAN, wide : BOOLEAN]
    /\ Wireds \subseteq 0..2 * N - 1
    /\ MaxWrites \in Nat

VARIABLES
    c,          \* COP0, as far as translation and exceptions use it
    tlb,        \* the entries
    shutdown,   \* the TLB's own shutdown flag
    fault,      \* the last TLB exception, while EntryHi still holds what it left
    writes      \* how many privileged instructions there have been

mmuVars == <<c, tlb, shutdown, fault, writes>>

-----------------------------------------------------------------------------
(* Segments.  The kernel's own 32-bit segments are the top four pages of   *)
(* region 3, the low 2 GiB the first four of region 0; an address with     *)
(* bits set between the 40th and the region is invalid and not enumerated. *)
(* Whether a direct segment is cached is left to the cache model.          *)
KSEG0 == [region |-> 3, page |-> 12]
KSEG1 == [region |-> 3, page |-> 13]
SSEG  == [region |-> 3, page |-> 14]

Low(v)      == v.region = 0 /\ v.page < 4
IsCompat(v) == Low(v) \/ (v.region = 3 /\ v.page >= 12)

CompatKernelSegment(v) == IF v \in {KSEG0, KSEG1} THEN "direct" ELSE "mapped"

UserSegment(v, wide) == IF Low(v) \/ (wide /\ v.region = 0) THEN "mapped" ELSE "invalid"

SupervisorSegment(v, wide) ==
    IF Low(v) \/ v = SSEG \/ (wide /\ v.region \in {0, 1}) THEN "mapped" ELSE "invalid"

(* xkphys decodes 32 bits of address.                                      *)
XkPhys(v) == IF v.page < 4 THEN "direct" ELSE "invalid"

KernelSegment(v, wide) ==
    CASE IsCompat(v)                          -> CompatKernelSegment(v)
      [] ~IsCompat(v) /\ ~wide                -> "invalid"
      [] ~IsCompat(v) /\ wide /\ v.region = 2 -> XkPhys(v)
      [] ~IsCompat(v) /\ wide /\ v.region # 2 -> "mapped"

AccessMode(r) ==
    LET mode == IF r.exl \/ r.erl \/ r.ksu = 3 THEN 0 ELSE r.ksu
    IN  [mode |-> mode, wide |-> r.wide, erl |-> r.erl]

Segment(v, a) ==
    IF a.erl /\ Low(v) THEN "direct"
    ELSE CASE a.mode = 0 -> KernelSegment(v, a.wide)
           [] a.mode = 1 -> SupervisorSegment(v, a.wide)
           [] a.mode = 2 -> UserSegment(v, a.wide)

-----------------------------------------------------------------------------
(* The TLB.                                                                *)
PairSize(mask) == IF mask = 3 THEN 8 ELSE 2
PageSize(mask) == PairSize(mask) \div 2
Vpn2Of(page, mask) == page - (page % PairSize(mask))

(* The chip decides each pair of mask bits by its high bit.                 *)
CanonicalPageMask(m) == IF m >= 2 THEN 3 ELSE 0

Matches(e, v, asid) ==
    e.region = v.region /\ e.vpn2 = Vpn2Of(v.page, e.mask) /\ (e.global \/ e.asid = asid)

Matching(v, asid) == {i \in 0..N - 1 : Matches(tlb[i], v, asid)}
Lowest(S) == CHOOSE i \in S : \A j \in S : i <= j

Page(e, v) == IF v.page % PairSize(e.mask) < PageSize(e.mask) THEN e.lo0 ELSE e.lo1

(* Two entries that match, valid or not, shut the TLB down for good.        *)
Lookup(v, asid, store) ==
    LET S == Matching(v, asid)
        p == Page(tlb[Lowest(S)], v)
    IN  IF shutdown \/ Cardinality(S) # 1 THEN "refill"
        ELSE IF ~p.valid THEN "invalid"
        ELSE IF store /\ ~p.dirty THEN "modified"
        ELSE "hit"

ShutsDown(v, asid) == ~shutdown /\ Cardinality(Matching(v, asid)) > 1

(* The global bit is kept once for both halves.                             *)
PageFrom(x) == [x EXCEPT !.global = FALSE]

(* TLBWI and TLBWR: EntryHi, EntryLo0, EntryLo1 and PageMask make the entry; *)
(* it is global if both halves are.                                        *)
EntryFrom(r) ==
    LET mask == CanonicalPageMask(r.mask)
    IN  [mask |-> mask, region |-> r.hi.region, vpn2 |-> Vpn2Of(r.hi.page, mask), asid |-> r.hi.asid,
         global |-> r.lo0.global /\ r.lo1.global,
         lo0 |-> PageFrom(r.lo0), lo1 |-> PageFrom(r.lo1)]

(* A mutant: the global bit is not put back.                                *)
ReadEntryBug(r, e) ==
    [r EXCEPT !.mask = e.mask, !.hi = [region |-> e.region, page |-> e.vpn2, asid |-> e.asid],
              !.lo0 = e.lo0, !.lo1 = e.lo1]

(* TLBR: what it puts into the four registers.                              *)
ReadEntry(r, e) ==
    [r EXCEPT !.mask = e.mask, !.hi = [region |-> e.region, page |-> e.vpn2, asid |-> e.asid],
              !.lo0 = [e.lo0 EXCEPT !.global = e.global], !.lo1 = [e.lo1 EXCEPT !.global = e.global]]

(* TLBP: the first entry that matches, or N for the P bit.                  *)
Probe(r) ==
    LET S == Matching(r.hi, r.hi.asid) IN IF S = {} THEN N ELSE Lowest(S)

(* `Random` counts down from the last entry to Wired, one per instruction;  *)
(* it has twice the range that there are entries.                          *)
TickRandom(r) == [r EXCEPT !.random = IF @ = r.wired THEN N - 1 ELSE (@ + 2 * N - 1) % (2 * N)]

(* A mutant: the count simply goes down.                                   *)
TickRandomByBug(r, n) == [r EXCEPT !.random = (@ + 6 * N - n) % (2 * N)]

(* `tick_random_by`: n of those in closed form, for a batch of idle loops.  *)
TickRandomBy(r, n) ==
    LET d     == (r.random + 2 * N - r.wired) % (2 * N)
        cycle == ((N - 1 + 2 * N - r.wired) % (2 * N)) + 1
    IN  [r EXCEPT !.random = IF n <= d THEN (@ + 2 * N - n) % (2 * N)
                             ELSE (N - 1 + 2 * N - ((n - d - 1) % cycle)) % (2 * N)]

-----------------------------------------------------------------------------
(* Exception entry.  A TLB or address exception leaves the page in EntryHi  *)
(* and keeps the ASID that was there.                                      *)
WritesBadVaddr(exc) == exc \in {"address", "refill", "invalid", "modified"}

(* A mutant: only the 40-bit page number reaches EntryHi.                   *)
EntryHiForBug(hi, v) == [hi EXCEPT !.page = Vpn2Of(v.page, 0)]

EntryHiFor(hi, v) == [region |-> v.region, page |-> Vpn2Of(v.page, 0), asid |-> hi.asid]

Dispatch(r, exc, v) ==
    [r EXCEPT !.exl = TRUE,
              !.hi = IF WritesBadVaddr(exc) THEN EntryHiFor(@, v) ELSE @]

Nmi(r) == [r EXCEPT !.erl = TRUE, !.ts = FALSE]

EretFrom(r) == IF r.erl THEN [r EXCEPT !.erl = FALSE] ELSE [r EXCEPT !.exl = FALSE]

-----------------------------------------------------------------------------
NoFault == [kind |-> "none", v |-> [region |-> 0, page |-> 0], filled |-> FALSE]

Kernel == AccessMode(c).mode = 0

Retire(r) == c' = TickRandom(r)

(* A privileged instruction, within the bound.                             *)
Privileged == Kernel /\ writes < MaxWrites /\ writes' = writes + 1

(* Reset; the TLB holds distinct entries that are not valid.               *)
MmuInit ==
    /\ \E lo \in LoPairs :
          c = [ksu |-> 0, exl |-> FALSE, erl |-> TRUE, wide |-> FALSE, ts |-> FALSE,
               hi |-> [region |-> 0, page |-> 0, asid |-> 0], mask |-> 0, lo0 |-> lo[1], lo1 |-> lo[2],
               index |-> 0, random |-> N - 1, wired |-> 0]
    /\ tlb = LET none == [dirty |-> FALSE, valid |-> FALSE, global |-> FALSE]
             IN  [i \in 0..N - 1 |-> [mask |-> 0, region |-> 0, vpn2 |-> 14 - 2 * i, asid |-> 0,
                                      global |-> FALSE, lo0 |-> none, lo1 |-> none]]
    /\ shutdown = FALSE /\ fault = NoFault /\ writes = 0

WriteHi == \E v \in Va, a \in Asid :
    /\ Privileged /\ fault' = NoFault /\ UNCHANGED <<tlb, shutdown>>
    /\ Retire([c EXCEPT !.hi = [region |-> v.region, page |-> Vpn2Of(v.page, 0), asid |-> a]])

WriteLoAndMask == \E lo \in LoPairs, m \in {0, 2} :
    /\ Privileged /\ UNCHANGED <<tlb, shutdown, fault>>
    /\ Retire([c EXCEPT !.lo0 = lo[1], !.lo1 = lo[2], !.mask = m])

(* Writing Wired sets Random to the last entry.                             *)
WriteWired == \E w \in Wireds :
    /\ Privileged /\ UNCHANGED <<tlb, shutdown, fault>>
    /\ Retire([c EXCEPT !.wired = w, !.random = N - 1])

WriteStatus == \E m \in Modes :
    /\ Privileged /\ UNCHANGED <<tlb, shutdown, fault>>
    /\ Retire([c EXCEPT !.ksu = m.ksu, !.exl = m.exl, !.erl = FALSE, !.wide = m.wide])

TlbRead ==
    /\ Privileged /\ fault' = NoFault /\ UNCHANGED <<tlb, shutdown>>
    /\ Retire(ReadEntry(c, tlb[c.index % N]))

WriteEntry(i) ==
    /\ Privileged /\ Retire(c)
    /\ tlb' = [tlb EXCEPT ![i % N] = EntryFrom(c)]
    /\ fault' = IF fault.kind = "refill" /\ ~fault.filled
                THEN [fault EXCEPT !.filled = TRUE] ELSE NoFault
    /\ UNCHANGED shutdown

TlbWriteIndexed == WriteEntry(c.index)
TlbWriteRandom  == WriteEntry(c.random)

TlbProbe ==
    /\ Privileged /\ UNCHANGED <<tlb, shutdown, fault>>
    /\ Retire([c EXCEPT !.index = Probe(c)])

(* A data access or a fetch; only a data access that faults mirrors a       *)
(* shutdown into Status.                                                   *)
Access == \E v \in Va, store, fetch \in BOOLEAN :
    LET seg == Segment(v, AccessMode(c))
        res == IF seg = "mapped" THEN Lookup(v, c.hi.asid, store) ELSE seg
        sd  == shutdown \/ (seg = "mapped" /\ ShutsDown(v, c.hi.asid))
        r   == [c EXCEPT !.ts = @ \/ (sd /\ ~fetch)]
    IN  /\ fetch => ~store
        /\ shutdown' = sd /\ UNCHANGED <<tlb, writes>>
        /\ \/ /\ res \in {"hit", "direct"}
              /\ Retire(c) /\ UNCHANGED fault
           \/ /\ res = "invalid" /\ seg = "invalid"
              /\ c' = Dispatch(r, "address", v) /\ fault' = NoFault
           \/ /\ seg = "mapped" /\ res # "hit"
              /\ c' = Dispatch(r, res, v)
              /\ fault' = [kind |-> res, v |-> v, filled |-> FALSE]

Eret == Privileged /\ Retire(EretFrom(c)) /\ UNCHANGED <<tlb, shutdown, fault>>

TakeNmi == ~c.erl /\ c' = Nmi(c) /\ UNCHANGED <<tlb, shutdown, fault, writes>>

MmuNext ==
    \/ WriteHi \/ WriteLoAndMask \/ WriteWired \/ WriteStatus
    \/ TlbRead \/ TlbWriteIndexed \/ TlbWriteRandom \/ TlbProbe
    \/ Access \/ Eret \/ TakeNmi

MmuSpec == MmuInit /\ [][MmuNext]_mmuVars

-----------------------------------------------------------------------------
(* Properties.                                                             *)

(* What a TLB exception leaves in EntryHi is what its handler needs: after  *)
(* Invalid or Modified, TLBP finds the entry; after a refill it finds none, *)
(* and one TLB write later the address matches exactly one entry, for every *)
(* page size, region and address space.                                    *)
HandlerCanRepair ==
    /\ fault.kind \in {"invalid", "modified"} => Probe(c) # N
    /\ fault.kind = "refill" /\ ~shutdown =>
          IF fault.filled THEN Cardinality(Matching(fault.v, c.hi.asid)) = 1 ELSE Probe(c) = N

(* An entry read with TLBR and written back is the entry it was.            *)
ReadBack == \A i \in 0..N - 1 : EntryFrom(ReadEntry(c, tlb[i])) = tlb[i]

(* Random never points at a wired entry, so TLBWR spares them; and the     *)
(* closed form that retires a batch of idle loops goes on, whatever Wired  *)
(* is, as ticking once per instruction does: nothing for no instruction,   *)
(* and one tick more for one instruction more.                             *)
RandomExact ==
    /\ c.wired < N => c.random \in c.wired..N - 1
    /\ TickRandomBy(c, 0) = c
    /\ \A n \in 0..5 * N : TickRandomBy(c, n + 1) = TickRandom(TickRandomBy(c, n))

(* What the handlers of the kernel can rely on (exception.rs, tlb.rs,      *)
(* cop0.rs): the faulting access is left as they need it, what TLBR reads  *)
(* is what was written, and Random stays above the wired entries.          *)
ServesHandler == HandlerCanRepair /\ ReadBack /\ RandomExact
=============================================================================
