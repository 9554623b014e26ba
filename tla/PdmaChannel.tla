---------------------------- MODULE PdmaChannel ----------------------------
(***************************************************************************)
(* The channels of the PDMA driver (drv_pdma.c): allocating and freeing,   *)
(* a transfer in one descriptor, a long transfer in a chain of             *)
(* descriptors taken from the heap, and the engine that walks the chain.   *)
(*                                                                         *)
(* Drivers use a channel of their own and start a transfer only when the   *)
(* last one has been reported or terminated.  What the interrupt handler   *)
(* does between a channel's flag and the callback is in PdmaMemfun; here a *)
(* flag is reported in the step that raises it.                            *)
(***************************************************************************)
EXTENDS Integers, FiniteSets, FiniteSetsExt

CONSTANTS
    NumChannels,   \* NU_PDMA_CH_MAX
    MaxTxCnt,      \* NU_PDMA_MAX_TXCNT, 2^16 in the hardware
    Counts,        \* transfer counts drivers ask for
    Widths,        \* data widths in bytes
    Addrs,         \* source and destination addresses
    Kinds,         \* the peripherals: "MEM" (M2M), "TX" (M2P), "RX" (P2M)
    MallocFails    \* TRUE when the heap may be exhausted

ASSUME ChannelAssumption ==
    /\ NumChannels \in Nat /\ MaxTxCnt \in Nat \ {0}
    /\ Counts \subseteq Nat /\ Addrs \subseteq Nat
    /\ Widths \subseteq {1, 2, 4} /\ Kinds \subseteq {"MEM", "TX", "RX"}
    /\ MallocFails \in BOOLEAN

Channels == 0 .. NumChannels - 1
Requests == [n : Counts, w : Widths, src : Addrs, dst : Addrs]

VARIABLES
    mask,      \* nu_pdma_chn_mask_arr: the allocated channels
    kind,      \* m_spPeripCtl.m_u32Peripheral
    inc,       \* m_spPeripCtl.m_eMemCtl: <<source, destination>> incremented?
    tbl,       \* descriptors m_ppsSgtbl points to, 0 when it is RT_NULL
    wanted,    \* m_u32WantedSGTblNum
    live,      \* descriptors allocated and not freed
    waiting,   \* a transfer was started and its end is not yet reported
    engine,    \* what the hardware does on each channel
    fault      \* did the driver use a null table

vars == <<mask, kind, inc, tbl, wanted, live, waiting, engine, fault>>

(* g_nu_pdma_peripheral_ctl_pool *)
DefaultInc(k) == <<k # "RX", k # "TX">>

(* An engine that is stopped; todo are the descriptors left, moved counts  *)
(* the data units and cells are the pairs of addresses they went between.  *)
Idle == [st |-> "idle", todo |-> {}, moved |-> 0, cells |-> {}, want |-> {}, n |-> 0]

(* nu_pdma_init *)
Init ==
    /\ mask = {}
    /\ kind = [c \in Channels |-> "MEM"]
    /\ inc = [c \in Channels |-> <<FALSE, FALSE>>]
    /\ tbl = [c \in Channels |-> 0]
    /\ wanted = [c \in Channels |-> 0]
    /\ live = 0
    /\ waiting = [c \in Channels |-> FALSE]
    /\ engine = [c \in Channels |-> Idle]
    /\ fault = FALSE

-----------------------------------------------------------------------------
(* nu_pdma_channel_allocate: the first free channel, its record cleared    *)
(* and the channel reset                                                   *)
Allocate(k) ==
    /\ mask # Channels
    /\ LET c == Min(Channels \ mask) IN
       /\ mask' = mask \cup {c}
       /\ kind' = [kind EXCEPT ![c] = k]
       /\ inc' = [inc EXCEPT ![c] = DefaultInc(k)]
       /\ tbl' = [tbl EXCEPT ![c] = 0]
       /\ wanted' = [wanted EXCEPT ![c] = 0]
       /\ engine' = [engine EXCEPT ![c] = Idle]
    /\ UNCHANGED <<live, waiting, fault>>

(* nu_pdma_channel_free: the channel is disabled, its tables stay *)
Free(c) ==
    /\ c \in mask
    /\ mask' = mask \ {c}
    /\ engine' = [engine EXCEPT ![c] = Idle]
    /\ waiting' = [waiting EXCEPT ![c] = FALSE]
    /\ UNCHANGED <<kind, inc, tbl, wanted, live, fault>>

(* nu_pdma_channel_terminate: the driver gives its transfer up *)
Terminate(c) ==
    /\ c \in mask
    /\ engine' = [engine EXCEPT ![c] = Idle]
    /\ waiting' = [waiting EXCEPT ![c] = FALSE]
    /\ UNCHANGED <<mask, kind, inc, tbl, wanted, live, fault>>

(* nu_pdma_channel_memctrl_set: M2M with a fixed source is refused *)
MemctrlSet(c, i) ==
    /\ c \in mask /\ ~waiting[c]
    /\ kind[c] = "MEM" => i[1]
    /\ inc' = [inc EXCEPT ![c] = i]
    /\ UNCHANGED <<mask, kind, tbl, wanted, live, waiting, engine, fault>>

-----------------------------------------------------------------------------
(* nu_pdma_desc_setup: the address tests *)
Aligned(r) == r.src % r.w = 0 /\ r.dst % r.w = 0

(* The TXCNT field of a descriptor holds the count less one, and its width *)
(* is that of MaxTxCnt - 1.                                                *)
TxCnt(cnt) == ((cnt - 1) % MaxTxCnt) + 1

(* Mutation: the offset grows by units instead of bytes. *)
DescOffsetInUnits(c, r, i, num) ==
    LET left == r.n - (i - 1) * MaxTxCnt
        off == (i - 1) * MaxTxCnt
    IN  [i |-> i, cnt |-> TxCnt(IF left > MaxTxCnt THEN MaxTxCnt ELSE left),
         src |-> IF inc[c][1] THEN r.src + off ELSE r.src,
         dst |-> IF inc[c][2] THEN r.dst + off ELSE r.dst,
         w |-> r.w, step |-> inc[c], silent |-> i # num]

(* Mutation: every descriptor raises the transfer-done flag. *)
DescNotSilent(c, r, i, num) ==
    LET left == r.n - (i - 1) * MaxTxCnt
        off == (i - 1) * MaxTxCnt * r.w
    IN  [i |-> i, cnt |-> TxCnt(IF left > MaxTxCnt THEN MaxTxCnt ELSE left),
         src |-> IF inc[c][1] THEN r.src + off ELSE r.src,
         dst |-> IF inc[c][2] THEN r.dst + off ELSE r.dst,
         w |-> r.w, step |-> inc[c], silent |-> FALSE]

(* The i-th of num descriptors: all but the last are full and silent *)
Desc(c, r, i, num) ==
    LET left == r.n - (i - 1) * MaxTxCnt
        off == (i - 1) * MaxTxCnt * r.w
    IN  [i |-> i, cnt |-> TxCnt(IF left > MaxTxCnt THEN MaxTxCnt ELSE left),
         src |-> IF inc[c][1] THEN r.src + off ELSE r.src,
         dst |-> IF inc[c][2] THEN r.dst + off ELSE r.dst,
         w |-> r.w, step |-> inc[c], silent |-> i # num]

(* The address pairs of cnt units of w bytes *)
Cells(src, dst, w, step, cnt) ==
    {<<IF step[1] THEN src + k * w ELSE src, IF step[2] THEN dst + k * w ELSE dst>>
        : k \in 0 .. cnt - 1}

(* _nu_pdma_transfer: hand num descriptors to the engine *)
Start(c, r, num) ==
    /\ engine' = [engine EXCEPT ![c] =
            [st |-> "busy", todo |-> {Desc(c, r, i, num) : i \in 1 .. num},
             moved |-> 0, cells |-> {},
             want |-> Cells(r.src, r.dst, r.w, inc[c], r.n), n |-> r.n]]
    /\ waiting' = [waiting EXCEPT ![c] = TRUE]

(* nu_pdma_transfer in the channel's own descriptor; a request it refuses  *)
(* changes nothing                                                         *)
Transfer(c, r) ==
    /\ c \in mask /\ ~waiting[c]
    /\ r.n \in 1 .. MaxTxCnt
    /\ Aligned(r)
    /\ Start(c, r, 1)
    /\ UNCHANGED <<mask, kind, inc, tbl, wanted, live, fault>>

(* The descriptors of _nu_pdma_transfer_chain *)
TableSize(r) == r.n \div MaxTxCnt + 1

ChainCall(c, r) == c \in mask /\ ~waiting[c] /\ r.n > MaxTxCnt

(* Mutation: the old table is forgotten instead of freed. *)
LiveWithoutForgotten(c) == live

(* Mutation: the table is freed twice. *)
LiveWithoutTwice(c) == live - 2 * tbl[c]

(* _nu_pdma_free_sgtbls: what is left on the heap *)
LiveWithout(c) == live - tbl[c]

(* _nu_pdma_transfer_chain: the old table is kept if it has the right size *)
Chain(c, r) ==
    /\ ChainCall(c, r)
    /\ Aligned(r)
    /\ LET num == TableSize(r) IN
       /\ \/ wanted[c] = num /\ tbl[c] # 0 /\ UNCHANGED <<tbl, wanted, live>>
          \/ /\ wanted[c] # num
             /\ tbl' = [tbl EXCEPT ![c] = num]
             /\ wanted' = [wanted EXCEPT ![c] = num]
             /\ live' = LiveWithout(c) + num
       /\ Start(c, r, num)
    /\ UNCHANGED <<mask, kind, inc, fault>>

(* _nu_pdma_transfer_chain: desc_setup refuses, the table is freed *)
ChainRefused(c, r) ==
    /\ ChainCall(c, r)
    /\ ~Aligned(r)
    /\ wanted[c] = TableSize(r) => tbl[c] # 0
    /\ tbl' = [tbl EXCEPT ![c] = 0]
    /\ wanted' = [wanted EXCEPT ![c] = 0]
    /\ live' = LiveWithout(c)
    /\ UNCHANGED <<mask, kind, inc, waiting, engine, fault>>

(* _nu_pdma_transfer_chain: no memory for the table.  There is none to     *)
(* free then, so m_u32WantedSGTblNum keeps the size.                       *)
ChainNoMemory(c, r) ==
    /\ MallocFails
    /\ ChainCall(c, r)
    /\ wanted[c] # TableSize(r)
    /\ tbl' = [tbl EXCEPT ![c] = 0]
    /\ wanted' = [wanted EXCEPT ![c] = TableSize(r)]
    /\ live' = LiveWithout(c)
    /\ UNCHANGED <<mask, kind, inc, waiting, engine, fault>>

(* ... and the next call of that size takes the table to be there *)
ChainNullTable(c, r) ==
    /\ ChainCall(c, r)
    /\ wanted[c] = TableSize(r) /\ tbl[c] = 0
    /\ fault' = TRUE
    /\ UNCHANGED <<mask, kind, inc, tbl, wanted, live, waiting, engine>>

-----------------------------------------------------------------------------
(* External: the engine works off the next descriptor; it raises the       *)
(* transfer-done flag unless the descriptor is silent.                     *)
HwStep(c) ==
    /\ engine[c].st = "busy"
    /\ LET e == engine[c]
           d == CHOOSE x \in e.todo : \A y \in e.todo : x.i <= y.i
       IN  /\ engine' = [engine EXCEPT ![c] =
                 [e EXCEPT !.todo = @ \ {d}, !.moved = @ + d.cnt,
                           !.st = IF e.todo = {d} THEN "done" ELSE "busy",
                           !.cells = @ \cup Cells(d.src, d.dst, d.w, d.step, d.cnt)]]
           /\ waiting' = [waiting EXCEPT ![c] = d.silent /\ @]
    /\ UNCHANGED <<mask, kind, inc, tbl, wanted, live, fault>>

(* External: a bus error ends the transfer and is reported. *)
HwAbort(c) ==
    /\ engine[c].st = "busy"
    /\ engine' = [engine EXCEPT ![c] = Idle]
    /\ waiting' = [waiting EXCEPT ![c] = FALSE]
    /\ UNCHANGED <<mask, kind, inc, tbl, wanted, live, fault>>

Next ==
    /\ ~fault
    /\ \/ \E k \in Kinds : Allocate(k)
       \/ \E c \in Channels : Free(c) \/ Terminate(c) \/ HwStep(c) \/ HwAbort(c)
       \/ \E c \in Channels, i \in BOOLEAN \X BOOLEAN : MemctrlSet(c, i)
       \/ \E c \in Channels, r \in Requests :
             \/ Transfer(c, r) \/ Chain(c, r) \/ ChainRefused(c, r)
             \/ ChainNoMemory(c, r) \/ ChainNullTable(c, r)

Spec == Init /\ [][Next]_vars

-----------------------------------------------------------------------------
TypeOK ==
    /\ mask \subseteq Channels
    /\ kind \in [Channels -> {"MEM", "TX", "RX"}]
    /\ inc \in [Channels -> BOOLEAN \X BOOLEAN]
    /\ tbl \in [Channels -> Nat] /\ wanted \in [Channels -> Nat]
    /\ live \in Nat
    /\ waiting \in [Channels -> BOOLEAN]
    /\ \A c \in Channels : engine[c].st \in {"idle", "busy", "done"}
    /\ fault \in BOOLEAN

(* A transfer that ends with the transfer-done flag moved exactly the      *)
(* units asked for, each once and between the right addresses, however     *)
(* many descriptors it was split into.                                     *)
MovesExactly ==
    \A c \in Channels : engine[c].st = "done" =>
        engine[c].moved = engine[c].n /\ engine[c].cells = engine[c].want

(* A driver that has been told its transfer is over, or has terminated it, *)
(* may start the next one and so free or rewrite the descriptors: the      *)
(* engine is then no longer walking them.                                  *)
BusyIsAwaited == \A c \in Channels : engine[c].st = "busy" => waiting[c]

(* Descriptors in the tables of the first n channels. *)
InTables[n \in 0 .. NumChannels] ==
    IF n = 0 THEN 0 ELSE InTables[n - 1] + tbl[n - 1]

(* Descriptors nothing points to any more. *)
Leaked == live - InTables[NumChannels]

(* However the sizes of a channel's transfers change and whichever of them *)
(* fail, no descriptor is lost or freed twice; only allocating a channel   *)
(* again, which clears its record, forgets a table.                        *)
TransfersLeakNothing ==
    [][Leaked' = Leaked \/ (Leaked' > Leaked /\ mask' \ mask # {})]_vars
=============================================================================
