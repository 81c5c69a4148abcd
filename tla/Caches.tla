------------------------------- MODULE Caches -------------------------------
(***************************************************************************)
(* The two primary caches of crates/rustyn64-cpu/src/cache.rs and the      *)
(* paths through them in pipeline.rs: cached and uncached loads, stores    *)
(* and fetches, and the CACHE instruction.                                 *)
(*                                                                         *)
(* The geometry is the chip's, scaled down: an instruction line is twice a *)
(* data line, the data cache covers two pages and the instruction cache    *)
(* four, and a tag is a page number, so that index and tag overlap.        *)
(***************************************************************************)
EXTENDS Naturals

CONSTANTS
    Words,       \* the words of memory that are looked at
    Stored,      \* those that are stored to
    Value

PageWords == 4      DLine == 2      DLines == 4      ILine == 4      ILines == 4

ASSUME CachesAssumption ==
    /\ Words \subseteq Nat /\ Stored \subseteq Words /\ 0 \in Value
    /\ \A w \in Words : w - (w % DLine) \in Words

VARIABLES
    ram,
    dcache, icache,   \* lines: [tag, valid, dirty, data]
    dOff, iOff        \* words changed in memory behind the line that holds them

cachesVars == <<ram, dcache, icache, dOff, iOff>>

-----------------------------------------------------------------------------
Base(w, line)  == w - (w % line)
DIndex(w)      == (w \div DLine) % DLines
IIndex(w)      == (w \div ILine) % ILines
PageOf(w)      == w \div PageWords
Tags           == {PageOf(x) : x \in Stored}

(* A mutant: the whole index is added to the tag.                           *)
DResidentBug(k) == dcache[k].tag * PageWords + k * DLine

(* Where the words of a line come from: the tag, and the part of the index  *)
(* that lies within a page.                                                *)
DResident(k)  == dcache[k].tag * PageWords + ((k * DLine) % PageWords)
IResident(k)  == icache[k].tag * PageWords + ((k * ILine) % PageWords)

DHits(w) == dcache[DIndex(w)].valid /\ dcache[DIndex(w)].tag = PageOf(w)
IHits(w) == icache[IIndex(w)].valid /\ icache[IIndex(w)].tag = PageOf(w)

DDirty(k) == dcache[k].valid /\ dcache[k].dirty

Push(m, base, data, n) == [x \in Words |-> IF x \in base..base + n - 1 THEN data[x - base] ELSE m[x]]
Pull(m, base, n)       == [k \in 0..n - 1 |-> IF base + k \in Words THEN m[base + k] ELSE 0]

(* A mutant: the victim is dropped.                                        *)
FlushedBug(k) == ram

(* `push_line` of what `flush_index` or `miss_plan` returns for line k.     *)
Flushed(k) == IF DDirty(k) THEN Push(ram, DResident(k), dcache[k].data, DLine) ELSE ram

Installed(m, w, line) ==
    [tag |-> PageOf(w), valid |-> TRUE, dirty |-> FALSE, data |-> Pull(m, Base(w, line), line)]

(* `dcache_fill`: a hit costs nothing; otherwise the victim goes out first. *)
FillRam(w)  == IF DHits(w) THEN ram ELSE Flushed(DIndex(w))
FillLine(w) == IF DHits(w) THEN dcache[DIndex(w)] ELSE Installed(FillRam(w), w, DLine)

-----------------------------------------------------------------------------
(* What the processor sees of memory, and what is still true of it.         *)
View(w)  == IF DHits(w) THEN dcache[DIndex(w)].data[w % DLine] ELSE ram[w]
Code(w)  == IF IHits(w) THEN icache[IIndex(w)].data[w % ILine] ELSE ram[w]

DWords(w) == {x \in Words : Base(x, DLine) = Base(w, DLine)}
IWords(w) == {x \in Words : Base(x, ILine) = Base(w, ILine)}

SetD(k, line) == [dcache EXCEPT ![k] = line]
SetI(k, line) == [icache EXCEPT ![k] = line]

(* A word is off as soon as memory changes under the line that keeps        *)
(* holding it, until the line is filled or written back, or given up.      *)
DStep(m, dc, stale, fresh) ==
    /\ ram' = m /\ dcache' = dc /\ UNCHANGED icache
    /\ dOff' = [x \in Words |-> DHits(x)' /\ x \notin fresh /\ (dOff[x] \/ x \in stale)]
    /\ iOff' = [x \in Words |-> IHits(x) /\ (iOff[x] \/ m[x] # ram[x])]

IStep(ic, fresh) ==
    /\ icache' = ic /\ UNCHANGED <<ram, dcache, dOff>>
    /\ iOff' = [x \in Words |-> IHits(x)' /\ x \notin fresh /\ iOff[x]]

CachesInit ==
    /\ ram = [x \in Words |-> 0]
    /\ dcache = [k \in 0..DLines - 1 |-> [tag |-> 0, valid |-> FALSE, dirty |-> FALSE,
                                          data |-> [j \in 0..DLine - 1 |-> 0]]]
    /\ icache = [k \in 0..ILines - 1 |-> [tag |-> 0, valid |-> FALSE, dirty |-> FALSE,
                                          data |-> [j \in 0..ILine - 1 |-> 0]]]
    /\ dOff = [x \in Words |-> FALSE] /\ iOff = [x \in Words |-> FALSE]

-----------------------------------------------------------------------------
(* `read_width`, `write_width` and `fetch_word`.                            *)
CachedLoad(w) ==
    DStep(FillRam(w), SetD(DIndex(w), FillLine(w)), {},
         IF DHits(w) THEN {} ELSE DWords(w))

CachedStore(w, v) ==
    LET l == FillLine(w)
    IN  DStep(FillRam(w),
             SetD(DIndex(w), [l EXCEPT !.data[w % DLine] = v, !.dirty = TRUE]), {},
             IF DHits(w) THEN {} ELSE DWords(w))

(* An uncached store goes to memory, whatever the caches hold; so does a    *)
(* transfer by the RCP.                                                    *)
WriteMemory(w, v) ==
    DStep([ram EXCEPT ![w] = v], dcache, {w}, {})

Fetch(w) ==
    /\ ~IHits(w)
    /\ IStep(SetI(IIndex(w), Installed(ram, w, ILine)), IWords(w))

-----------------------------------------------------------------------------
(* CACHE on the data cache.                                                *)
Invalid(l) == [l EXCEPT !.valid = FALSE, !.dirty = FALSE]

IndexWritebackInvalidate(w) ==
    DStep(Flushed(DIndex(w)), SetD(DIndex(w), Invalid(dcache[DIndex(w)])), {}, {})

(* The data stays, under whatever tag software puts on it.                 *)
IndexStoreTag(w, tag, valid) ==
    LET k    == DIndex(w)
        line == [dcache[k] EXCEPT !.tag = tag, !.valid = valid, !.dirty = FALSE]
    IN  DStep(ram, SetD(k, line), {x \in Words : DIndex(x) = k}, {})

CreateDirtyExclusive(w) ==
    LET k == DIndex(w)
    IN  DStep(IF dcache[k].tag # PageOf(w) THEN Flushed(k) ELSE ram,
             SetD(k, [dcache[k] EXCEPT !.tag = PageOf(w), !.valid = TRUE, !.dirty = TRUE]), {}, DWords(w))

HitInvalidate(w) ==
    /\ DHits(w)
    /\ DStep(ram, SetD(DIndex(w), Invalid(dcache[DIndex(w)])), {}, {})

HitWritebackInvalidate(w) ==
    /\ DHits(w)
    /\ DStep(Flushed(DIndex(w)), SetD(DIndex(w), Invalid(dcache[DIndex(w)])), {}, {})

HitWriteback(w) ==
    /\ DHits(w)
    /\ DStep(Flushed(DIndex(w)), [dcache EXCEPT ![DIndex(w)].dirty = FALSE], {},
            IF DDirty(DIndex(w)) THEN DWords(w) ELSE {})

-----------------------------------------------------------------------------
(* CACHE on the instruction cache.                                         *)
IndexInvalidateI(w) ==
    IStep([icache EXCEPT ![IIndex(w)].valid = FALSE], {})

HitInvalidateI(w) ==
    /\ IHits(w)
    /\ IStep([icache EXCEPT ![IIndex(w)].valid = FALSE], {})

Fill(w) == IStep(SetI(IIndex(w), Installed(ram, w, ILine)), IWords(w))

(* The instruction line goes to memory, over whatever is there by now.      *)
HitWritebackI(w) ==
    /\ IHits(w)
    /\ DStep(Push(ram, IResident(IIndex(w)), icache[IIndex(w)].data, ILine), dcache, IWords(w), {})

(* CACHE means a line, whichever of its words it names.                     *)
Lines == {Base(x, DLine) : x \in Stored}

CachesNext ==
    \/ \E w \in Stored : CachedLoad(w) \/ Fetch(w)
    \/ \E w \in Stored, v \in Value : CachedStore(w, v) \/ WriteMemory(w, v)
    \/ \E w \in Lines :
          \/ IndexWritebackInvalidate(w) \/ CreateDirtyExclusive(w)
          \/ \E valid \in BOOLEAN, tag \in Tags : IndexStoreTag(w, tag, valid)
          \/ HitInvalidate(w) \/ HitWritebackInvalidate(w) \/ HitWriteback(w)
          \/ IndexInvalidateI(w) \/ HitInvalidateI(w) \/ Fill(w) \/ HitWritebackI(w)

CachesSpec == CachesInit /\ [][CachesNext]_cachesVars

-----------------------------------------------------------------------------
(* Properties.                                                             *)

Discards(w) ==
    \/ HitInvalidate(w) \/ CreateDirtyExclusive(w)
    \/ \E valid \in BOOLEAN, tag \in Tags : IndexStoreTag(w, tag, valid)

(* What the processor reads at a word changes only because it stored there, *)
(* because memory was written there, because software discarded or renamed *)
(* the line, or, when the line goes, because memory had changed behind it: *)
(* no eviction and no write-back loses a store or puts it somewhere else.  *)
NoStoreLost ==
    [][\A w \in Words :
          View(w)' # View(w) =>
             \/ dOff[w]
             \/ \E v \in Value : CachedStore(w, v) \/ WriteMemory(w, v)
             \/ \E x \in Lines : HitWritebackI(x) /\ IIndex(x) = IIndex(w)
             \/ \E x \in Lines : DIndex(x) = DIndex(w) /\ Discards(x)]_cachesVars

(* Memory holds what the processor sees, unless the line is dirty or memory *)
(* was changed behind it; and once it does, a fetch sees it too unless the *)
(* instruction line is older: write back, invalidate, and the code is new. *)
WrittenBackMeansVisible ==
    \A w \in Words :
        ~dOff[w] /\ ~(DHits(w) /\ dcache[DIndex(w)].dirty) =>
            ram[w] = View(w) /\ (iOff[w] \/ Code(w) = View(w))
=============================================================================
