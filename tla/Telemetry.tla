----------------------------- MODULE Telemetry -----------------------------
(***************************************************************************)
(* The producers of the management bus (fw_telem.c, one context per lane)  *)
(* and the one FIFO they share (mgmt.c). MgmtHost adds the wire and the    *)
(* host at its far end.                                                    *)
(*                                                                         *)
(* A byte is known by the frame it belongs to and its place in it. A       *)
(* lane's bring-up is reduced to what telemetry sees of it: LS_RESET       *)
(* resets the producer, LS_UP runs it, and nothing else touches it. Lanes  *)
(* tick in any order.                                                      *)
(***************************************************************************)
EXTENDS Naturals, Sequences

CONSTANTS
    Lanes,       \* lanes sharing the bus
    FrameBytes,  \* MGMT_FRAME_BYTES
    FifoBytes,   \* MGMT_FIFO_BYTES
    Drain,       \* drain_bytes_per_block
    Chunks,      \* frames an eye is sent in, 32 in the code
    SeqMod       \* the sequence number wraps here, 2^16 in the code

ASSUME TelemetryAssumption ==
    /\ FrameBytes \in Nat \ {0}
    /\ FifoBytes \in Nat /\ FifoBytes >= FrameBytes
    /\ Drain \in Nat \ {0}
    /\ Chunks \in Nat \ {0}
    /\ SeqMod \in Nat \ {0}

VARIABLES
    link,        \* each lane: "fault", "bringup" or "up"
    ctx,         \* telem_ctx_t of each lane
    txEn,        \* MGMT_TX_EN of each lane's MGMT_CTRL
    stat,        \* MGMT_STAT of each lane's aperture: free bytes
    fifo,        \* g_fifo
    dropped,     \* g_dropped > 0
    sent         \* history: the last frame of each lane since its reset

tvars == <<link, ctx, txEn, stat, fifo, dropped, sent>>

Kinds == {"status", "counters", "taps", "meta", "chunk"}
Least(a, b) == IF a < b THEN a ELSE b
-----------------------------------------------------------------------------
(* The bus.                                                                *)

Free(q) == FifoBytes - Len(q)

\* The free count reaches only the aperture that happens to be selected.
PublishSelected(l, q) == [stat EXCEPT ![l] = Free(q)]

\* publish_free, on every change: REG_MGMT_STAT of every lane.
Publish(l, q) == [k \in Lanes |-> Free(q)]

\* FrameBytes writes to REG_MGMT_DATA. A push to a full FIFO loses the byte and
\* counts it; one with MGMT_TX_EN off does nothing.
Push(l, bytes) ==
    LET taken == IF txEn[l] THEN Least(Len(bytes), Free(fifo)) ELSE 0
    IN  /\ fifo' = fifo \o SubSeq(bytes, 1, taken)
        /\ dropped' = (dropped \/ (txEn[l] /\ taken < Len(bytes)))
        /\ stat' = IF taken > 0 THEN Publish(l, fifo') ELSE stat

\* mgmt_bus_tick, once per block: Drain bytes leave for the wire.
Moved == Least(Drain, Len(fifo))
BusTick ==
    /\ fifo' = SubSeq(fifo, Moved + 1, Len(fifo))
    /\ stat' = [k \in Lanes |-> Free(fifo')]
    /\ UNCHANGED <<link, ctx, txEn, dropped, sent>>
-----------------------------------------------------------------------------
(* The producers.                                                          *)

ClearCtx == [seq |-> 0, phase |-> 0, off |-> 0, meta |-> FALSE]

\* One context for every lane.
ContextShared(l) == CHOOSE k \in Lanes : TRUE
\* fw_telem_select_lane, called with the aperture: each lane has its own.
Context(l) == l

\* The frame a context is about to send; the eye's metadata goes out in a
\* frame of its own before the first chunk. `up` is the state byte of STATUS.
NextFrame(l, c) ==
    [lane |-> l, seq |-> c.seq, up |-> link[l] = "up", off |-> c.off,
     kind |-> CASE c.phase = 0 -> "status"
                [] c.phase = 1 -> "counters"
                [] c.phase = 2 -> "taps"
                [] c.phase = 3 -> IF c.meta THEN "chunk" ELSE "meta"]

Bytes(f) == [i \in 1..FrameBytes |-> [frame |-> f, at |-> i]]

\* The metadata flag survives the end of an eye.
AdvanceStaleMeta(c) ==
    LET d == [c EXCEPT !.seq = (@ + 1) % SeqMod]
    IN  CASE c.phase # 3 -> [d EXCEPT !.phase = (@ + 1) % 4]
          [] c.phase = 3 /\ ~c.meta -> [d EXCEPT !.meta = TRUE]
          [] c.phase = 3 /\ c.meta /\ c.off + 1 < Chunks -> [d EXCEPT !.off = @ + 1]
          [] OTHER -> [d EXCEPT !.phase = 0, !.off = 0]

\* The round robin: an eye keeps its slot until the last chunk has gone out.
Advance(c) ==
    LET d == [c EXCEPT !.seq = (@ + 1) % SeqMod]
    IN  CASE c.phase # 3 -> [d EXCEPT !.phase = (@ + 1) % 4]
          [] c.phase = 3 /\ ~c.meta -> [d EXCEPT !.meta = TRUE]
          [] c.phase = 3 /\ c.meta /\ c.off + 1 < Chunks -> [d EXCEPT !.off = @ + 1]
          [] OTHER -> [d EXCEPT !.phase = 0, !.off = 0, !.meta = FALSE]

\* Room for the next byte, or for the frame one call emits.
NeedByte == 1
Need == FrameBytes

\* fw_telem_step, called in LS_UP only: backpressure first, then one frame.
Step(l) ==
    LET f == NextFrame(l, ctx[Context(l)])
    IN  /\ link[l] = "up"
        /\ stat[l] >= Need
        /\ Push(l, Bytes(f))
        /\ ctx' = [ctx EXCEPT ![Context(l)] = Advance(@)]
        /\ sent' = [sent EXCEPT ![l] = <<f>>]
        /\ UNCHANGED <<link, txEn>>

\* LS_RESET of lane l: fw_telem_reset.
Reset(l) ==
    /\ link[l] = "fault" /\ link' = [link EXCEPT ![l] = "bringup"]
    /\ ctx' = [ctx EXCEPT ![Context(l)] = ClearCtx]
    /\ txEn' = [txEn EXCEPT ![l] = TRUE]
    /\ sent' = [sent EXCEPT ![l] = <<>>]
    /\ UNCHANGED <<stat, fifo, dropped>>

\* enter(LS_UP) from LS_TRACK.
ComeUp(l) ==
    /\ link[l] = "bringup" /\ link' = [link EXCEPT ![l] = "up"]
    /\ UNCHANGED <<ctx, txEn, stat, fifo, dropped, sent>>

\* enter(LS_FAULT), from LS_UP or from any state on the way there.
GoDown(l) ==
    /\ link[l] # "fault" /\ link' = [link EXCEPT ![l] = "fault"]
    /\ UNCHANGED <<ctx, txEn, stat, fifo, dropped, sent>>
-----------------------------------------------------------------------------
\* hal_reset_all and mgmt_bus_init: the free count is in the selected aperture
\* only, until the first block publishes it.
TelemetryInit ==
    /\ link = [l \in Lanes |-> "fault"]
    /\ ctx = [l \in Lanes |-> ClearCtx]
    /\ txEn = [l \in Lanes |-> FALSE]
    /\ \E l \in Lanes : stat = [k \in Lanes |-> IF k = l THEN FifoBytes ELSE 0]
    /\ fifo = <<>> /\ dropped = FALSE
    /\ sent = [l \in Lanes |-> <<>>]

Produce == \E l \in Lanes : Step(l) \/ Reset(l) \/ ComeUp(l) \/ GoDown(l)
TelemetryNext == BusTick \/ Produce
TelemetrySpec == TelemetryInit /\ [][TelemetryNext]_tvars
-----------------------------------------------------------------------------
FrameSet == [lane : Lanes, seq : 0..(SeqMod - 1), up : BOOLEAN,
             off : 0..(Chunks - 1), kind : Kinds]
IsByte(b) == b.frame \in FrameSet /\ b.at \in 1..FrameBytes

\* The free count a lane reads may be old, but never promises room there is not.
StatHonest == \A l \in Lanes : stat[l] <= Free(fifo)

\* Every context stays inside its record and the FIFO inside its memory, and no
\* lane's free count is more than the FIFO really has (publish_free, mgmt.c:105).
TelemetryTypeOK ==
    /\ link \in [Lanes -> {"fault", "bringup", "up"}]
    /\ ctx \in [Lanes -> [seq : 0..(SeqMod - 1), phase : 0..3,
                          off : 0..(Chunks - 1), meta : BOOLEAN]]
    /\ txEn \in [Lanes -> BOOLEAN] /\ stat \in [Lanes -> 0..FifoBytes] /\ StatHonest
    /\ Len(fifo) <= FifoBytes /\ \A i \in 1..Len(fifo) : IsByte(fifo[i])
    /\ dropped \in BOOLEAN
    /\ \A l \in Lanes : sent[l] = <<>> \/ sent[l][1] \in FrameSet

\* Each producer reserves room for its frame by reading the free count, with
\* every other producer reading and pushing in between (fw_telem.c:107,
\* mgmt.c:86): nothing is ever pushed into a full FIFO.
NothingDropped == ~dropped

\* A frame is never interleaved with another's bytes, nor cut: what is in the
\* FIFO from any first byte on is that frame, whole.
FramesWhole ==
    /\ \A i \in 1..Len(fifo) :
         fifo[i].at < FrameBytes =>
            /\ i < Len(fifo)
            /\ fifo[i + 1] = [fifo[i] EXCEPT !.at = @ + 1]
    /\ fifo # <<>> => fifo[Len(fifo)].at = FrameBytes

\* What may follow a frame in its lane's cycle of records, with the sequence
\* number one on.
Follows(f, g) ==
    /\ g.seq = (f.seq + 1) % SeqMod
    /\ CASE f.kind = "status"   -> g.kind = "counters"
         [] f.kind = "counters" -> g.kind = "taps"
         [] f.kind = "taps"     -> g.kind = "meta"
         [] f.kind = "meta"     -> g.kind = "chunk" /\ g.off = 0
         [] f.kind = "chunk"    -> IF f.off + 1 < Chunks
                                   THEN g.kind = "chunk" /\ g.off = f.off + 1
                                   ELSE g.kind = "status"

\* Every lane sends complete record sets of its own, whatever the others send
\* and wherever in an eye it was reset: its records follow each other in the
\* cycle, and the first after a reset is STATUS.
RecordsComplete ==
    [][\A l \in Lanes : (sent'[l] # sent[l] /\ sent'[l] # <<>>) =>
         IF sent[l] = <<>> THEN sent'[l][1].kind = "status" /\ sent'[l][1].seq = 0
                           ELSE Follows(sent[l][1], sent'[l][1])]_tvars
=============================================================================
