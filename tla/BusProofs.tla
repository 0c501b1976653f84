----------------------------- MODULE BusProofs -----------------------------
(***************************************************************************)
(* The management bus, for any number of lanes, any sizes of frame, FIFO   *)
(* and wire, any eye and any sequence counter: what the producers leave in *)
(* the FIFO (BusInv), what of it the host takes (HostInv), and that the    *)
(* order in which a macro ticks its lanes is one the bus allows.           *)
(***************************************************************************)
EXTENDS MgmtHost, MacroBus, SequenceTheorems, TLAPS

Byte == [frame : FrameSet, at : 1..FrameBytes]
\* What a history of frames may be: nothing, or the last frame.
Histories == {<<>>} \cup {<<f>> : f \in FrameSet}
Contexts == [seq : 0..(SeqMod - 1), phase : 0..3, off : 0..(Chunks - 1), meta : BOOLEAN]

BusTyped ==
    /\ link \in [Lanes -> {"fault", "bringup", "up"}]
    /\ ctx \in [Lanes -> Contexts]
    /\ txEn \in [Lanes -> BOOLEAN] /\ stat \in [Lanes -> 0..FifoBytes]
    /\ fifo \in Seq(Byte) /\ Len(fifo) <= FifoBytes
    /\ dropped \in BOOLEAN
    /\ sent \in [Lanes -> Histories]

\* The chunk number counts only while an eye is being sent.
InRecord(c) == /\ c.phase # 3 => ~c.meta
               /\ ~c.meta => c.off = 0

\* Where a context stands after it has sent f.
Stands(f, c) ==
    /\ c.seq = (f.seq + 1) % SeqMod
    /\ CASE f.kind = "status"   -> c.phase = 1
         [] f.kind = "counters" -> c.phase = 2
         [] f.kind = "taps"     -> c.phase = 3 /\ ~c.meta
         [] f.kind = "meta"     -> c.phase = 3 /\ c.meta /\ c.off = 0
         [] f.kind = "chunk"    -> IF f.off + 1 < Chunks
                                   THEN c.phase = 3 /\ c.meta /\ c.off = f.off + 1
                                   ELSE c.phase = 0

\* Every context is in its lane's cycle of records, right after the last frame
\* it sent or at the start.
InCycle ==
    \A l \in Lanes : /\ InRecord(ctx[l])
                     /\ sent[l] = <<>> => ctx[l] = ClearCtx
                     /\ \A f \in FrameSet : sent[l] = <<f>> => Stands(f, ctx[l])

BusInv == BusTyped /\ NothingDropped /\ StatHonest /\ FramesWhole /\ InCycle
-----------------------------------------------------------------------------
\* The constants and the smaller of two numbers.
LEMMA BusFacts ==
  /\ FrameBytes \in Nat \ {0} /\ FifoBytes \in Nat /\ FrameBytes <= FifoBytes
  /\ Drain \in Nat /\ Chunks \in Nat \ {0} /\ SeqMod \in Nat \ {0}
  /\ 0 \in 0..(SeqMod - 1) /\ 0 \in 0..(Chunks - 1)
  /\ \A s \in 0..(SeqMod - 1) : (s + 1) % SeqMod \in 0..(SeqMod - 1)
  /\ \A a, b \in Nat : Least(a, b) \in Nat /\ Least(a, b) <= a /\ Least(a, b) <= b
<1>1. /\ FrameBytes \in Nat \ {0} /\ FifoBytes \in Nat /\ FrameBytes <= FifoBytes
      /\ Drain \in Nat /\ Chunks \in Nat \ {0} /\ SeqMod \in Nat \ {0}
  BY TelemetryAssumption
<1>2. \A s \in 0..(SeqMod - 1) : (s + 1) % SeqMod \in 0..(SeqMod - 1)
  BY <1>1
<1>3. QED
  BY <1>1, <1>2 DEF Least

\* A frame's bytes.
LEMMA FrameBytesSeq ==
  ASSUME NEW f \in FrameSet
  PROVE  /\ Bytes(f) \in Seq(Byte) /\ Len(Bytes(f)) = FrameBytes
         /\ \A i \in 1..FrameBytes : Bytes(f)[i] = [frame |-> f, at |-> i]
<1>1. FrameBytes \in Nat
  BY BusFacts
<1>2. \A i \in 1..FrameBytes : [frame |-> f, at |-> i] \in Byte
  BY DEF Byte
<1>3. QED
  BY <1>1, <1>2 DEF Bytes

\* What the block takes from the head of the FIFO leaves the rest in place.
LEMMA RestOf ==
  ASSUME NEW q \in Seq(Byte), NEW m \in Nat, m <= Len(q)
  PROVE  /\ SubSeq(q, m + 1, Len(q)) \in Seq(Byte)
         /\ Len(SubSeq(q, m + 1, Len(q))) = Len(q) - m
         /\ \A i \in 1..(Len(q) - m) : SubSeq(q, m + 1, Len(q))[i] = q[m + i]
<1>1. Len(q) \in Nat /\ \A i \in (m + 1)..Len(q) : q[i] \in Byte
  BY ElementOfSeq
<1>2. m + 1 \in Int /\ Len(q) \in Int
  BY <1>1
<1>3. /\ SubSeq(q, m + 1, Len(q)) \in Seq(Byte)
      /\ Len(SubSeq(q, m + 1, Len(q))) = IF m + 1 <= Len(q) THEN Len(q) - (m + 1) + 1 ELSE 0
      /\ \A i \in 1..(Len(q) - (m + 1) + 1) : SubSeq(q, m + 1, Len(q))[i] = q[(m + 1) + i - 1]
  BY <1>1, <1>2, SubSeqProperties
<1>4. QED
  BY <1>1, <1>3

\* A byte of the FIFO.
LEMMA ByteFields ==
  ASSUME NEW q \in Seq(Byte), NEW i \in 1..Len(q)
  PROVE  /\ q[i] \in Byte /\ IsByte(q[i]) /\ q[i].at \in 1..FrameBytes
         /\ q[i].frame \in FrameSet
         /\ q[i] = [frame |-> q[i].frame, at |-> q[i].at]
<1>1. q[i] \in Byte
  BY ElementOfSeq
<1>2. QED
  BY <1>1 DEF Byte, IsByte

\* The strengthened typing is the one the runs check.
LEMMA BusTypedOK == BusTyped /\ StatHonest => TelemetryTypeOK
<1> SUFFICES ASSUME BusTyped, StatHonest PROVE TelemetryTypeOK
  OBVIOUS
<1>1. \A i \in 1..Len(fifo) : IsByte(fifo[i])
  BY ByteFields DEF BusTyped
<1>2. \A l \in Lanes : sent[l] = <<>> \/ sent[l][1] \in FrameSet
  BY DEF BusTyped, Histories
<1>3. QED
  BY <1>1, <1>2 DEF BusTyped, TelemetryTypeOK, Contexts

\* Before the first block.
LEMMA BusInit == TelemetryInit => BusInv
<1> SUFFICES ASSUME TelemetryInit PROVE BusInv
  OBVIOUS
<1>1. fifo = <<>> /\ Len(fifo) = 0 /\ fifo \in Seq(Byte)
  BY DEF TelemetryInit
<1>2. PICK l \in Lanes : stat = [k \in Lanes |-> IF k = l THEN FifoBytes ELSE 0]
  BY DEF TelemetryInit
<1>3. stat \in [Lanes -> 0..FifoBytes] /\ StatHonest
  BY <1>1, <1>2, BusFacts DEF StatHonest, Free
<1>4. ClearCtx \in Contexts /\ InRecord(ClearCtx)
  BY BusFacts DEF ClearCtx, Contexts, InRecord
<1>5. BusTyped
  <2>1. sent \in [Lanes -> Histories]
    BY Zenon DEF TelemetryInit, Histories
  <2>2. ctx \in [Lanes -> Contexts]
    BY <1>4 DEF TelemetryInit
  <2>3. Len(fifo) <= FifoBytes
    BY <1>1, BusFacts
  <2>4. QED
    BY <1>1, <1>3, <2>1, <2>2, <2>3 DEF TelemetryInit, BusTyped
<1>6. InCycle
  BY <1>4 DEF TelemetryInit, InCycle
<1>7. FramesWhole /\ NothingDropped
  BY <1>1 DEF FramesWhole, NothingDropped, TelemetryInit
<1>8. QED
  BY <1>3, <1>5, <1>6, <1>7 DEF BusInv

\* A block drains the FIFO from its head and tells every lane what is free.
LEMMA TickKeeps == BusInv /\ BusTick => BusInv'
<1> SUFFICES ASSUME BusInv, BusTick PROVE BusInv'
  OBVIOUS
<1>1. fifo \in Seq(Byte) /\ Len(fifo) \in Nat /\ Len(fifo) <= FifoBytes
  BY DEF BusInv, BusTyped
<1>2. Moved \in Nat /\ Moved <= Len(fifo)
  BY <1>1, BusFacts DEF Moved
<1>3. /\ fifo' \in Seq(Byte) /\ Len(fifo') = Len(fifo) - Moved
      /\ \A i \in 1..Len(fifo') : fifo'[i] = fifo[Moved + i]
  <2> DEFINE rest == SubSeq(fifo, Moved + 1, Len(fifo))
  <2>1. /\ rest \in Seq(Byte) /\ Len(rest) = Len(fifo) - Moved
        /\ \A i \in 1..(Len(fifo) - Moved) : rest[i] = fifo[Moved + i]
    BY <1>1, <1>2, RestOf
  <2>2. fifo' = rest
    BY DEF BusTick
  <2>3. QED
    BY <2>1, <2>2
<1>4. stat' \in [Lanes -> 0..FifoBytes] /\ StatHonest'
  <2>1. Free(fifo)' \in 0..FifoBytes
    BY <1>1, <1>2, <1>3, BusFacts DEF Free
  <2>2. stat' = [k \in Lanes |-> Free(fifo)']
    BY DEF BusTick, Free
  <2>3. QED
    BY <2>1, <2>2, <1>3 DEF StatHonest, Free
<1>5. BusTyped'
  <2>1. Len(fifo') <= FifoBytes
    BY <1>1, <1>2, <1>3, BusFacts
  <2>2. QED
    BY <1>3, <1>4, <2>1 DEF BusInv, BusTyped, BusTick
<1>6. FramesWhole'
  <2>1. ASSUME NEW i \in 1..Len(fifo'), fifo'[i].at < FrameBytes
        PROVE  i < Len(fifo') /\ fifo'[i + 1] = [fifo'[i] EXCEPT !.at = @ + 1]
    <3>1. Moved + i \in 1..Len(fifo) /\ fifo'[i] = fifo[Moved + i]
      BY <1>1, <1>2, <1>3
    <3>2. Moved + i < Len(fifo) /\ fifo[Moved + i + 1] = [fifo[Moved + i] EXCEPT !.at = @ + 1]
      BY <2>1, <3>1 DEF BusInv, FramesWhole
    <3>3. i < Len(fifo') /\ i + 1 \in 1..Len(fifo') /\ Moved + (i + 1) = Moved + i + 1
      BY <1>1, <1>2, <1>3, <3>2
    <3>4. fifo'[i + 1] = fifo[Moved + i + 1]
      BY <1>3, <3>3
    <3>5. QED
      BY <3>1, <3>2, <3>3, <3>4
  <2>2. fifo' # <<>> => fifo'[Len(fifo')].at = FrameBytes
    <3> SUFFICES ASSUME fifo' # <<>> PROVE fifo'[Len(fifo')].at = FrameBytes
      OBVIOUS
    <3>1. Len(fifo') \in 1..Len(fifo') /\ Moved + Len(fifo') = Len(fifo) /\ fifo # <<>>
      BY <1>1, <1>2, <1>3
    <3>2. QED
      BY <1>3, <3>1 DEF BusInv, FramesWhole
  <2>3. QED
    BY <2>1, <2>2 DEF FramesWhole
<1>7. NothingDropped' /\ InCycle'
  BY DEF BusInv, BusTick, NothingDropped, InCycle
<1>8. QED
  BY <1>4, <1>5, <1>6, <1>7 DEF BusInv

\* A frame appended to the FIFO, whole.
LEMMA PushWhole ==
  ASSUME BusTyped, FramesWhole, NEW f \in FrameSet, Len(fifo) + FrameBytes <= FifoBytes,
         fifo' = fifo \o Bytes(f)
  PROVE  /\ fifo' \in Seq(Byte) /\ Len(fifo') = Len(fifo) + FrameBytes
         /\ FramesWhole'
<1>1. fifo \in Seq(Byte) /\ Len(fifo) \in Nat
  BY DEF BusTyped
<1>2. /\ Bytes(f) \in Seq(Byte) /\ Len(Bytes(f)) = FrameBytes
      /\ \A i \in 1..FrameBytes : Bytes(f)[i] = [frame |-> f, at |-> i]
  BY FrameBytesSeq
<1>3. /\ fifo' \in Seq(Byte) /\ Len(fifo') = Len(fifo) + FrameBytes
      /\ \A i \in 1..(Len(fifo) + FrameBytes) :
            fifo'[i] = IF i <= Len(fifo) THEN fifo[i]
                       ELSE [frame |-> f, at |-> i - Len(fifo)]
  <2>1. /\ fifo' \in Seq(Byte) /\ Len(fifo') = Len(fifo) + Len(Bytes(f))
        /\ \A i \in 1..(Len(fifo) + Len(Bytes(f))) :
              fifo'[i] = IF i <= Len(fifo) THEN fifo[i] ELSE Bytes(f)[i - Len(fifo)]
    BY <1>1, <1>2, ConcatProperties
  <2>2. \A i \in 1..(Len(fifo) + FrameBytes) : ~(i <= Len(fifo)) => i - Len(fifo) \in 1..FrameBytes
    BY <1>1, BusFacts
  <2>3. QED
    BY <1>2, <2>1, <2>2
<1>4. Len(fifo') = Len(fifo) + FrameBytes /\ FrameBytes \in Nat \ {0} /\ Len(fifo) \in Nat
  BY <1>1, <1>3, BusFacts
<1>5. ASSUME NEW i \in 1..Len(fifo'), fifo'[i].at < FrameBytes
      PROVE  i < Len(fifo') /\ fifo'[i + 1] = [fifo'[i] EXCEPT !.at = @ + 1]
  <2>1. CASE i <= Len(fifo)
    <3>1. i \in 1..Len(fifo) /\ fifo'[i] = fifo[i]
      BY <1>1, <1>3, <2>1
    <3>2. i < Len(fifo) /\ fifo[i + 1] = [fifo[i] EXCEPT !.at = @ + 1]
      BY <1>5, <3>1 DEF FramesWhole
    <3>3. i + 1 \in 1..(Len(fifo) + FrameBytes) /\ i + 1 <= Len(fifo)
      BY <1>1, <3>1, <3>2, BusFacts
    <3>4. fifo'[i + 1] = fifo[i + 1]
      BY <1>3, <3>3
    <3>5. QED
      BY <1>1, <1>3, <3>1, <3>2, <3>4, BusFacts
  <2>2. CASE ~(i <= Len(fifo))
    <3>1. i \in 1..(Len(fifo) + FrameBytes)
      BY <1>3
    <3>2. fifo'[i] = [frame |-> f, at |-> i - Len(fifo)]
      BY <1>3, <2>2, <3>1
    <3>3. i - Len(fifo) < FrameBytes
      BY <1>5, <3>2
    <3>4. i + 1 \in 1..(Len(fifo) + FrameBytes) /\ ~(i + 1 <= Len(fifo)) /\ i < Len(fifo')
      BY <1>4, <2>2, <3>1, <3>3
    <3>5. fifo'[i + 1] = [frame |-> f, at |-> (i + 1) - Len(fifo)]
      BY <1>3, <3>4
    <3>6. (i + 1) - Len(fifo) = (i - Len(fifo)) + 1
      BY <1>1, <3>1, BusFacts
    <3>7. QED
      BY <3>2, <3>4, <3>5, <3>6
  <2>3. QED
    BY <2>1, <2>2
<1>6. fifo'[Len(fifo')].at = FrameBytes
  <2>1. Len(fifo') \in 1..(Len(fifo) + FrameBytes) /\ ~(Len(fifo') <= Len(fifo))
        /\ Len(fifo') - Len(fifo) = FrameBytes
    BY <1>4
  <2>2. fifo'[Len(fifo')] = [frame |-> f, at |-> FrameBytes]
    BY <1>3, <2>1
  <2>3. QED
    BY <2>2
<1>7. QED
  BY <1>3, <1>5, <1>6 DEF FramesWhole

\* The frame a context is about to send, and where the context stands after it.
LEMMA NextFrameFits ==
  ASSUME NEW l \in Lanes, NEW c \in Contexts, InRecord(c)
  PROVE  /\ NextFrame(l, c) \in FrameSet
         /\ NextFrame(l, c).lane = l
         /\ Advance(c) \in Contexts /\ InRecord(Advance(c))
         /\ Stands(NextFrame(l, c), Advance(c))
<1> DEFINE s == (c.seq + 1) % SeqMod
<1>1. /\ c.seq \in 0..(SeqMod - 1) /\ c.phase \in 0..3 /\ c.off \in 0..(Chunks - 1)
      /\ c.meta \in BOOLEAN
      /\ c = [seq |-> c.seq, phase |-> c.phase, off |-> c.off, meta |-> c.meta]
  BY DEF Contexts
<1>2. s \in 0..(SeqMod - 1) /\ 0 \in 0..(Chunks - 1)
  BY <1>1, BusFacts
<1>3. NextFrame(l, c).kind = CASE c.phase = 0 -> "status"
                               [] c.phase = 1 -> "counters"
                               [] c.phase = 2 -> "taps"
                               [] c.phase = 3 -> IF c.meta THEN "chunk" ELSE "meta"
  BY DEF NextFrame
<1>4. NextFrame(l, c).seq = c.seq /\ NextFrame(l, c).off = c.off /\ NextFrame(l, c).lane = l
  BY DEF NextFrame
<1>5. NextFrame(l, c) \in FrameSet
  <2>1. (CASE c.phase = 0 -> "status"
           [] c.phase = 1 -> "counters"
           [] c.phase = 2 -> "taps"
           [] c.phase = 3 -> IF c.meta THEN "chunk" ELSE "meta") \in Kinds
    BY <1>1 DEF Kinds
  <2>2. (link[l] = "up") \in BOOLEAN
    OBVIOUS
  <2>3. QED
    BY <1>1, <2>1, <2>2 DEF NextFrame, FrameSet
<1> HIDE DEF s
<1>6. CASE c.phase # 3
  <2>1. Advance(c) = [seq |-> s, phase |-> (c.phase + 1) % 4, off |-> c.off, meta |-> c.meta]
    BY <1>1, <1>6 DEF Advance, s
  <2>2. (c.phase + 1) % 4 = c.phase + 1 /\ ~c.meta /\ c.off = 0
    BY <1>1, <1>6 DEF InRecord
  <2>3. c.phase \in {0, 1, 2}
    BY <1>1, <1>6
  <2>4. Advance(c) \in Contexts /\ InRecord(Advance(c))
    BY <1>1, <1>2, <2>1, <2>2, <2>3 DEF Contexts, InRecord
  <2>5. Stands(NextFrame(l, c), Advance(c))
    <3>1. Advance(c).seq = s /\ Advance(c).phase = c.phase + 1 /\ Advance(c).meta = c.meta
      BY <2>1, <2>2
    <3>2. CASE c.phase = 0
      BY <1>3, <1>4, <3>1, <3>2 DEF Stands, s
    <3>3. CASE c.phase = 1
      BY <1>3, <1>4, <3>1, <3>3 DEF Stands, s
    <3>4. CASE c.phase = 2
      BY <1>3, <1>4, <2>2, <3>1, <3>4 DEF Stands, s
    <3>5. QED
      BY <2>3, <3>2, <3>3, <3>4
  <2>6. QED
    BY <1>4, <1>5, <2>4, <2>5
<1>7. CASE c.phase = 3 /\ ~c.meta
  <2>1. Advance(c) = [seq |-> s, phase |-> 3, off |-> c.off, meta |-> TRUE]
    BY <1>1, <1>7 DEF Advance, s
  <2>2. c.off = 0
    BY <1>7 DEF InRecord
  <2>3. Advance(c) \in Contexts /\ InRecord(Advance(c))
    BY <1>1, <1>2, <2>1 DEF Contexts, InRecord
  <2>4. Stands(NextFrame(l, c), Advance(c))
    BY <1>3, <1>4, <1>7, <2>1, <2>2 DEF Stands, s
  <2>5. QED
    BY <1>4, <1>5, <2>3, <2>4
<1>8. CASE c.phase = 3 /\ c.meta /\ c.off + 1 < Chunks
  <2>1. Advance(c) = [seq |-> s, phase |-> 3, off |-> c.off + 1, meta |-> c.meta]
    BY <1>1, <1>8 DEF Advance, s
  <2>2. c.off + 1 \in 0..(Chunks - 1)
    BY <1>1, <1>8, BusFacts
  <2>3. Advance(c) \in Contexts /\ InRecord(Advance(c))
    BY <1>1, <1>2, <1>8, <2>1, <2>2 DEF Contexts, InRecord
  <2>4. Stands(NextFrame(l, c), Advance(c))
    BY <1>3, <1>4, <1>8, <2>1 DEF Stands, s
  <2>5. QED
    BY <1>4, <1>5, <2>3, <2>4
<1>9. CASE c.phase = 3 /\ c.meta /\ ~(c.off + 1 < Chunks)
  <2>1. Advance(c) = [seq |-> s, phase |-> 0, off |-> 0, meta |-> FALSE]
    BY <1>1, <1>9 DEF Advance, s
  <2>2. Advance(c) \in Contexts /\ InRecord(Advance(c))
    BY <1>2, <2>1 DEF Contexts, InRecord
  <2>3. Stands(NextFrame(l, c), Advance(c))
    BY <1>3, <1>4, <1>9, <2>1 DEF Stands, s
  <2>4. QED
    BY <1>4, <1>5, <2>2, <2>3
<1>10. QED
  BY <1>1, <1>6, <1>7, <1>8, <1>9

\* What follows a frame is what its context sends next.
LEMMA StandsFollows ==
  ASSUME NEW l \in Lanes, NEW c \in Contexts, NEW f \in FrameSet, Stands(f, c)
  PROVE  Follows(f, NextFrame(l, c))
<1>1. f.kind \in Kinds
  BY DEF FrameSet
<1>2. NextFrame(l, c).kind = CASE c.phase = 0 -> "status"
                               [] c.phase = 1 -> "counters"
                               [] c.phase = 2 -> "taps"
                               [] c.phase = 3 -> IF c.meta THEN "chunk" ELSE "meta"
  BY DEF NextFrame
<1>3. NextFrame(l, c).seq = c.seq /\ NextFrame(l, c).off = c.off
  BY DEF NextFrame
<1>4. CASE f.kind = "chunk"
  BY <1>2, <1>3, <1>4 DEF Stands, Follows
<1>5. CASE f.kind = "status"
  BY <1>2, <1>3, <1>5 DEF Stands, Follows
<1>6. CASE f.kind = "counters"
  BY <1>2, <1>3, <1>6 DEF Stands, Follows
<1>7. CASE f.kind = "taps"
  BY <1>2, <1>3, <1>7 DEF Stands, Follows
<1>8. CASE f.kind = "meta"
  BY <1>2, <1>3, <1>8 DEF Stands, Follows
<1>9. QED
  BY <1>1, <1>4, <1>5, <1>6, <1>7, <1>8 DEF Kinds

\* The room a lane reserves is what its frame needs, whoever went between.
LEMMA PushedWhole ==
  ASSUME BusInv, NEW l \in Lanes, Step(l), txEn[l]
  PROVE  /\ Len(fifo) + FrameBytes <= FifoBytes
         /\ fifo' = fifo \o Bytes(NextFrame(l, ctx[l])) /\ dropped' = dropped
         /\ stat' = [k \in Lanes |-> FifoBytes - Len(fifo')]
<1> DEFINE f == NextFrame(l, ctx[l])
<1>1. /\ ctx[l] \in Contexts /\ InRecord(ctx[l])
      /\ fifo \in Seq(Byte) /\ Len(fifo) \in Nat /\ stat[l] \in 0..FifoBytes
  BY DEF BusInv, BusTyped, InCycle
<1>2. f \in FrameSet
  BY <1>1, NextFrameFits
<1>3. Push(l, Bytes(f)) /\ FrameBytes <= stat[l]
  BY <1>1, BusFacts DEF Step, Context, Need
<1> HIDE DEF f
<1>4. Len(fifo) + FrameBytes <= FifoBytes
  <2>1. stat[l] <= FifoBytes - Len(fifo)
    BY DEF BusInv, StatHonest, Free
  <2>2. FrameBytes <= stat[l] /\ stat[l] \in Int
    BY <1>1, <1>3
  <2>3. FrameBytes \in Nat /\ FifoBytes \in Nat /\ Len(fifo) \in Nat
    BY <1>1, BusFacts
  <2>4. QED
    BY <2>1, <2>2, <2>3
<1>5. /\ Bytes(f) \in Seq(Byte) /\ Len(Bytes(f)) = FrameBytes
  BY <1>2, FrameBytesSeq
<1>6. Least(FrameBytes, Free(fifo)) = FrameBytes /\ SubSeq(Bytes(f), 1, FrameBytes) = Bytes(f)
  <2>1. SubSeq(Bytes(f), 1, Len(Bytes(f))) = Bytes(f)
    BY <1>5, SubSeqFull
  <2>2. QED
    BY <1>1, <1>4, <1>5, <2>1, BusFacts DEF Least, Free
<1>7. fifo' = fifo \o SubSeq(Bytes(f), 1, FrameBytes)
  BY <1>3, <1>5, <1>6 DEF Push
<1>8. dropped' = dropped
  <2>1. dropped' = (dropped \/ FrameBytes < FrameBytes)
    BY <1>3, <1>5, <1>6 DEF Push
  <2>2. ~(FrameBytes < FrameBytes) /\ dropped \in BOOLEAN
    BY BusFacts DEF BusInv, BusTyped
  <2>3. QED
    BY <2>1, <2>2, Zenon
<1>9. stat' = [k \in Lanes |-> FifoBytes - Len(fifo')]
  <2>1. stat' = IF FrameBytes > 0 THEN Publish(l, fifo') ELSE stat
    BY <1>3, <1>5, <1>6 DEF Push
  <2>2. FrameBytes > 0
    BY BusFacts
  <2>3. QED
    BY <2>1, <2>2 DEF Publish, Free
<1>10. QED
  BY <1>4, <1>6, <1>7, <1>8, <1>9 DEF f

\* One producer's turn: room is reserved and used in full, whoever went between.
LEMMA StepKeeps ==
  ASSUME BusInv, NEW l \in Lanes, Step(l)
  PROVE  BusInv'
<1> DEFINE f == NextFrame(l, ctx[l])
<1>1. /\ ctx[l] \in Contexts /\ InRecord(ctx[l]) /\ txEn[l] \in BOOLEAN
      /\ fifo \in Seq(Byte) /\ Len(fifo) \in Nat /\ stat[l] \in 0..FifoBytes
  BY DEF BusInv, BusTyped, InCycle
<1>2. /\ f \in FrameSet /\ Advance(ctx[l]) \in Contexts /\ InRecord(Advance(ctx[l]))
      /\ Stands(f, Advance(ctx[l]))
  BY <1>1, NextFrameFits
<1>3. /\ Push(l, Bytes(f))
      /\ ctx' = [ctx EXCEPT ![l] = Advance(ctx[l])]
      /\ sent' = [sent EXCEPT ![l] = <<f>>]
      /\ link' = link /\ txEn' = txEn /\ FrameBytes <= stat[l]
  BY <1>1, BusFacts DEF Step, Context, Need
<1> HIDE DEF f
<1>4. Bytes(f) \in Seq(Byte)
  BY <1>2, FrameBytesSeq
<1>7. /\ ctx' \in [Lanes -> Contexts] /\ sent' \in [Lanes -> Histories]
      /\ link' \in [Lanes -> {"fault", "bringup", "up"}] /\ txEn' \in [Lanes -> BOOLEAN]
      /\ InCycle'
  <2>1. <<f>> \in Histories
    BY <1>2 DEF Histories
  <2>2. /\ ctx \in [Lanes -> Contexts] /\ sent \in [Lanes -> Histories]
        /\ link \in [Lanes -> {"fault", "bringup", "up"}] /\ txEn \in [Lanes -> BOOLEAN]
    BY DEF BusInv, BusTyped
  <2>3. ctx' \in [Lanes -> Contexts] /\ sent' \in [Lanes -> Histories]
    BY <1>2, <1>3, <2>1, <2>2
  <2>4. ASSUME NEW k \in Lanes
        PROVE  /\ InRecord(ctx'[k])
               /\ sent'[k] = <<>> => ctx'[k] = ClearCtx
               /\ \A g \in FrameSet : sent'[k] = <<g>> => Stands(g, ctx'[k])
    <3>1. CASE k = l
      <4>1. ctx'[k] = Advance(ctx[l]) /\ sent'[k] = <<f>>
        BY <1>3, <2>2, <3>1
      <4>2. <<f>> # <<>> /\ \A g \in FrameSet : <<f>> = <<g>> => g = f
        OBVIOUS
      <4>3. QED
        BY <1>2, <4>1, <4>2
    <3>2. CASE k # l
      <4>1. ctx'[k] = ctx[k] /\ sent'[k] = sent[k]
        BY <1>3, <2>2, <3>2
      <4>2. QED
        BY <4>1 DEF BusInv, InCycle
    <3>3. QED
      BY <3>1, <3>2
  <2>5. QED
    BY <1>3, <2>2, <2>3, <2>4 DEF InCycle
<1>8. CASE txEn[l]
  <2>1. /\ Len(fifo) + FrameBytes <= FifoBytes
        /\ fifo' = fifo \o Bytes(f) /\ dropped' = dropped
        /\ stat' = [k \in Lanes |-> FifoBytes - Len(fifo')]
    BY <1>8, PushedWhole DEF f
  <2>2. fifo' \in Seq(Byte) /\ Len(fifo') = Len(fifo) + FrameBytes /\ FramesWhole'
    BY <1>2, <2>1, PushWhole DEF BusInv
  <2>3. Len(fifo') <= FifoBytes /\ FifoBytes - Len(fifo') \in 0..FifoBytes
    BY <1>1, <2>1, <2>2, BusFacts
  <2>4. stat' \in [Lanes -> 0..FifoBytes] /\ StatHonest'
    BY <2>1, <2>3 DEF StatHonest, Free
  <2>5. QED
    BY <1>7, <2>1, <2>2, <2>3, <2>4 DEF BusInv, BusTyped, NothingDropped
<1>9. CASE ~txEn[l]
  <2>1. fifo' = fifo /\ dropped' = dropped /\ stat' = stat
    <3>1. fifo' = fifo \o SubSeq(Bytes(f), 1, 0) /\ dropped' = dropped /\ stat' = stat
      BY <1>3, <1>9 DEF Push, BusInv, BusTyped
    <3>2. SubSeq(Bytes(f), 1, 0) = <<>> /\ fifo \o <<>> = fifo
      BY <1>1, <1>4, SubSeqEmpty, ConcatEmptySeq
    <3>3. QED
      BY <3>1, <3>2
  <2>2. QED
    BY <1>7, <2>1 DEF BusInv, BusTyped, NothingDropped, StatHonest, Free, FramesWhole
<1>10. QED
  BY <1>1, <1>8, <1>9

\* A lane that starts over, comes up or goes down leaves the bus alone.
LEMMA LinkKeeps ==
  ASSUME BusInv, NEW l \in Lanes, Reset(l) \/ ComeUp(l) \/ GoDown(l)
  PROVE  BusInv'
<1>1. /\ ctx \in [Lanes -> Contexts] /\ sent \in [Lanes -> Histories]
      /\ link \in [Lanes -> {"fault", "bringup", "up"}] /\ txEn \in [Lanes -> BOOLEAN]
  BY DEF BusInv, BusTyped
<1>2. stat' = stat /\ fifo' = fifo /\ dropped' = dropped
  BY DEF Reset, ComeUp, GoDown
<1>3. link' \in [Lanes -> {"fault", "bringup", "up"}]
  BY <1>1 DEF Reset, ComeUp, GoDown
<1>4. CASE Reset(l)
  <2>1. /\ ctx' = [ctx EXCEPT ![l] = ClearCtx] /\ sent' = [sent EXCEPT ![l] = <<>>]
        /\ txEn' = [txEn EXCEPT ![l] = TRUE]
    BY <1>4 DEF Reset, Context
  <2>2. ClearCtx \in Contexts /\ InRecord(ClearCtx) /\ <<>> \in Histories
    BY BusFacts DEF ClearCtx, Contexts, InRecord, Histories
  <2>3. ctx' \in [Lanes -> Contexts] /\ sent' \in [Lanes -> Histories] /\ txEn' \in [Lanes -> BOOLEAN]
    BY <1>1, <2>1, <2>2
  <2>4. ASSUME NEW k \in Lanes
        PROVE  /\ InRecord(ctx'[k])
               /\ sent'[k] = <<>> => ctx'[k] = ClearCtx
               /\ \A g \in FrameSet : sent'[k] = <<g>> => Stands(g, ctx'[k])
    <3>1. CASE k = l
      <4>1. ctx'[k] = ClearCtx /\ sent'[k] = <<>> /\ \A g \in FrameSet : <<g>> # <<>>
        BY <1>1, <2>1, <3>1
      <4>2. QED
        BY <2>2, <4>1
    <3>2. CASE k # l
      BY <1>1, <2>1, <3>2 DEF BusInv, InCycle
    <3>3. QED
      BY <3>1, <3>2
  <2>5. QED
    BY <1>2, <1>3, <2>3, <2>4
       DEF BusInv, BusTyped, NothingDropped, StatHonest, Free, FramesWhole, InCycle
<1>5. CASE ComeUp(l) \/ GoDown(l)
  <2>1. ctx' = ctx /\ sent' = sent /\ txEn' = txEn
    BY <1>5 DEF ComeUp, GoDown
  <2>2. QED
    BY <1>2, <1>3, <2>1
       DEF BusInv, BusTyped, NothingDropped, StatHonest, Free, FramesWhole, InCycle
<1>6. QED
  BY <1>4, <1>5

\* Every step keeps the invariant.
LEMMA BusNextKeeps == BusInv /\ [TelemetryNext]_tvars => BusInv'
<1> SUFFICES ASSUME BusInv, [TelemetryNext]_tvars PROVE BusInv'
  OBVIOUS
<1>1. CASE BusTick
  BY <1>1, TickKeeps
<1>2. CASE Produce
  BY <1>2, StepKeeps, LinkKeeps DEF Produce
<1>3. CASE UNCHANGED tvars
  BY <1>3 DEF tvars, BusInv, BusTyped, NothingDropped, StatHonest, Free, FramesWhole, InCycle
<1>4. QED
  BY <1>1, <1>2, <1>3 DEF TelemetryNext

\* The invariant holds throughout.
LEMMA BusInvariance == TelemetrySpec => []BusInv
  BY BusInit, BusNextKeeps, PTL DEF TelemetrySpec

\* The producers and the bus stay of their types, for all constants.
THEOREM TelemetryTyped == TelemetrySpec => []TelemetryTypeOK
<1>1. BusInv => TelemetryTypeOK
  BY BusTypedOK DEF BusInv
<1>2. QED
  BY <1>1, BusInvariance, PTL

\* However many producers share the FIFO, and although each reads the free
\* count before the others push, no byte is ever pushed into a full FIFO.
THEOREM ReservationHolds == TelemetrySpec => []NothingDropped
<1>1. BusInv => NothingDropped
  BY DEF BusInv
<1>2. QED
  BY <1>1, BusInvariance, PTL

\* No frame is cut or interleaved with another's bytes.
THEOREM FramesStayWhole == TelemetrySpec => []FramesWhole
<1>1. BusInv => FramesWhole
  BY DEF BusInv
<1>2. QED
  BY <1>1, BusInvariance, PTL

\* What a step may do to the history of a lane.
LEMMA SentNext ==
  ASSUME BusInv, [TelemetryNext]_tvars, NEW l \in Lanes
  PROVE  \/ sent'[l] = sent[l] /\ ctx'[l] = ctx[l]
         \/ sent'[l] = <<>> /\ ctx'[l] = ClearCtx
         \/ sent'[l] = <<NextFrame(l, ctx[l])>> /\ Step(l)
<1>1. ctx \in [Lanes -> Contexts] /\ sent \in [Lanes -> Histories]
  BY DEF BusInv, BusTyped
<1>2. ASSUME NEW k \in Lanes, Step(k)
      PROVE  /\ k # l => sent'[l] = sent[l] /\ ctx'[l] = ctx[l]
             /\ k = l => sent'[l] = <<NextFrame(l, ctx[l])>> /\ Step(l)
  BY <1>1, <1>2 DEF Step, Context
<1>3. ASSUME NEW k \in Lanes, Reset(k)
      PROVE  /\ k # l => sent'[l] = sent[l] /\ ctx'[l] = ctx[l]
             /\ k = l => sent'[l] = <<>> /\ ctx'[l] = ClearCtx
  BY <1>1, <1>3 DEF Reset, Context
<1>4. ASSUME NEW k \in Lanes, ComeUp(k) \/ GoDown(k)
      PROVE  sent' = sent /\ ctx' = ctx
  BY <1>4 DEF ComeUp, GoDown
<1>5. BusTick \/ UNCHANGED tvars => sent' = sent /\ ctx' = ctx
  BY DEF BusTick, tvars
<1>6. QED
  BY <1>2, <1>3, <1>4, <1>5 DEF TelemetryNext, Produce

\* The frames of a lane follow each other in the cycle of records, whatever
\* the other lanes send and wherever in an eye it was reset.
THEOREM CycleKept == TelemetrySpec => RecordsComplete
<1> DEFINE Complete ==
      \A l \in Lanes : (sent'[l] # sent[l] /\ sent'[l] # <<>>) =>
         IF sent[l] = <<>> THEN sent'[l][1].kind = "status" /\ sent'[l][1].seq = 0
                           ELSE Follows(sent[l][1], sent'[l][1])
<1>1. BusInv /\ [TelemetryNext]_tvars => [Complete]_tvars
  <2> SUFFICES ASSUME BusInv, TelemetryNext, NEW l \in Lanes,
                      sent'[l] # sent[l], sent'[l] # <<>>
               PROVE  IF sent[l] = <<>> THEN sent'[l][1].kind = "status" /\ sent'[l][1].seq = 0
                                        ELSE Follows(sent[l][1], sent'[l][1])
    BY DEF Complete
  <2>1. sent'[l] = <<NextFrame(l, ctx[l])>>
    BY SentNext
  <2>2. sent'[l][1] = NextFrame(l, ctx[l])
    BY <2>1
  <2>3. ctx[l] \in Contexts /\ sent[l] \in Histories
    BY DEF BusInv, BusTyped
  <2>4. CASE sent[l] = <<>>
    <3>1. ctx[l] = ClearCtx
      BY <2>4 DEF BusInv, InCycle
    <3>2. NextFrame(l, ClearCtx).kind = "status" /\ NextFrame(l, ClearCtx).seq = 0
      BY DEF NextFrame, ClearCtx
    <3>3. QED
      BY <2>2, <2>4, <3>1, <3>2
  <2>5. CASE sent[l] # <<>>
    <3>1. PICK f \in FrameSet : sent[l] = <<f>>
      BY <2>3, <2>5 DEF Histories
    <3>2. sent[l][1] = f /\ Stands(f, ctx[l])
      BY <3>1 DEF BusInv, InCycle
    <3>3. Follows(f, NextFrame(l, ctx[l]))
      BY <2>3, <3>2, StandsFollows
    <3>4. QED
      BY <2>2, <2>5, <3>2, <3>3
  <2>6. QED
    BY <2>4, <2>5
<1>2. QED
  BY <1>1, BusInvariance, PTL DEF TelemetrySpec, RecordsComplete
-----------------------------------------------------------------------------
(* The host.  As long as the wire has lost nothing, the window, the wire and *)
(* the FIFO together are one stream of whole frames, each lane's in the      *)
(* order it sent them.                                                       *)

\* A frame of lane l begins at i.
Begins(S, i, l) == i \in 1..Len(S) /\ S[i].at = 1 /\ S[i].frame.lane = l

\* The stream is cut into whole frames from its first byte on.
Aligned(S) ==
    /\ S # <<>> => S[1].at = 1
    /\ \A i \in 1..Len(S) : S[i].at = 1 =>
          /\ i + FrameBytes - 1 <= Len(S)
          /\ \A k \in 1..FrameBytes : S[i + k - 1] = [frame |-> S[i].frame, at |-> k]
    /\ \A i \in 1..Len(S) : i + 1 <= Len(S) /\ S[i].at = FrameBytes => S[i + 1].at = 1

\* What the host may take of a lane after f: the next record, or a fresh start.
Continues(f, g) == Follows(f, g) \/ (g.kind = "status" /\ g.seq = 0)

\* Between i and j, both excluded, no frame of lane l begins.
NoneBetween(S, i, j, l) == \A k \in 1..Len(S) : i < k /\ k < j => ~Begins(S, k, l)

\* A lane's frames continue one another in the stream,
Chained(S) ==
    \A l \in Lanes : \A i, j \in 1..Len(S) :
        Begins(S, i, l) /\ Begins(S, j, l) /\ i < j /\ NoneBetween(S, i, j, l)
            => Continues(S[i].frame, S[j].frame)
\* the first of them continues what the host took of the lane last,
Resumes(S, g) ==
    \A l \in Lanes : \A j \in 1..Len(S) : \A f \in FrameSet :
        Begins(S, j, l) /\ NoneBetween(S, 0, j, l) /\ g[l] = <<f>>
            => Continues(f, S[j].frame)
\* and the last one (or what the host took, when there is none) is what the
\* lane sent last, unless it was reset since.
EndsWith(S, g, h) ==
    \A l \in Lanes : h[l] # <<>> =>
        /\ \A i \in 1..Len(S) :
              Begins(S, i, l) /\ NoneBetween(S, i, Len(S) + 1, l) => h[l] = <<S[i].frame>>
        /\ (\A i \in 1..Len(S) : ~Begins(S, i, l)) => h[l] = g[l]

InOrder(S, g, h) == Aligned(S) /\ Chained(S) /\ Resumes(S, g) /\ EndsWith(S, g, h)

\* The frame f comes to the end of the stream, or the first leaves it.
Grows(S, T, f) ==
    /\ Len(T) = Len(S) + FrameBytes
    /\ \A i \in 1..Len(T) : T[i] = IF i <= Len(S) THEN S[i]
                                    ELSE [frame |-> f, at |-> i - Len(S)]
Sheds(S, T) ==
    /\ Len(S) = Len(T) + FrameBytes
    /\ \A i \in 1..Len(T) : T[i] = S[i + FrameBytes]

\* A frame at the end of the stream.
LEMMA AppendAligned ==
  ASSUME NEW S \in Seq(Byte), NEW T \in Seq(Byte), NEW f \in FrameSet, Aligned(S),
         Grows(S, T, f)
  PROVE  /\ Aligned(T)
         /\ \A i \in 1..Len(S) : T[i] = S[i]
         /\ Len(S) + 1 \in 1..Len(T) /\ T[Len(S) + 1].frame = f
         /\ \A l \in Lanes, i \in 1..Len(T) :
               Begins(T, i, l) <=> Begins(S, i, l) \/ (i = Len(S) + 1 /\ l = f.lane)
<1>1. Len(S) \in Nat /\ FrameBytes \in Nat \ {0} /\ Len(T) = Len(S) + FrameBytes
  BY BusFacts DEF Grows
<1>2. ASSUME NEW i \in 1..Len(S) PROVE i \in 1..Len(T) /\ T[i] = S[i]
  <2>1. i \in 1..Len(T) /\ i <= Len(S)
    BY <1>1
  <2>2. QED
    BY <2>1 DEF Grows
<1>3. ASSUME NEW i \in 1..Len(T), i \notin 1..Len(S)
      PROVE  /\ T[i] = [frame |-> f, at |-> i - Len(S)] /\ i - Len(S) \in 1..FrameBytes
             /\ T[i].frame = f /\ T[i].at = i - Len(S)
  <2>1. ~(i <= Len(S)) /\ i - Len(S) \in 1..FrameBytes
    BY <1>1, <1>3
  <2>2. T[i] = [frame |-> f, at |-> i - Len(S)]
    BY <2>1 DEF Grows
  <2>3. QED
    BY <2>1, <2>2
<1>4. Len(S) + 1 \in 1..Len(T) /\ Len(S) + 1 \notin 1..Len(S) /\ Len(S) + 1 - Len(S) = 1
  BY <1>1
<1>5. T[Len(S) + 1] = [frame |-> f, at |-> 1]
  BY <1>3, <1>4
<1>6. T[1].at = 1
  <2>1. CASE S = <<>>
    BY <1>5, <2>1
  <2>2. CASE S # <<>>
    <3>1. 1 \in 1..Len(S)
      BY <2>2, EmptySeq
    <3>2. QED
      BY <1>2, <2>2, <3>1 DEF Aligned
  <2>3. QED
    BY <2>1, <2>2
<1>7. ASSUME NEW i \in 1..Len(T), T[i].at = 1
      PROVE  /\ i + FrameBytes - 1 <= Len(T)
             /\ \A k \in 1..FrameBytes : T[i + k - 1] = [frame |-> T[i].frame, at |-> k]
  <2>1. CASE i \in 1..Len(S)
    <3>1. /\ i + FrameBytes - 1 <= Len(S) /\ T[i] = S[i]
          /\ \A k \in 1..FrameBytes : S[i + k - 1] = [frame |-> S[i].frame, at |-> k]
      BY <1>2, <1>7, <2>1 DEF Aligned
    <3>2. \A k \in 1..FrameBytes : i + k - 1 \in 1..Len(S)
      BY <1>1, <3>1
    <3>3. i + FrameBytes - 1 <= Len(T)
      BY <1>1, <3>1
    <3>4. QED
      BY <1>2, <3>1, <3>2, <3>3
  <2>2. CASE i \notin 1..Len(S)
    <3>1. i - Len(S) = 1 /\ T[i].frame = f
      BY <1>3, <1>7, <2>2
    <3>2. i = Len(S) + 1 /\ i + FrameBytes - 1 <= Len(T)
      BY <1>1, <3>1
    <3>3. ASSUME NEW k \in 1..FrameBytes
          PROVE  T[i + k - 1] = [frame |-> f, at |-> k]
      <4>1. /\ i + k - 1 \in 1..Len(T) /\ i + k - 1 \notin 1..Len(S)
            /\ (i + k - 1) - Len(S) = k
        BY <1>1, <3>2
      <4>2. QED
        BY <1>3, <4>1
    <3>4. QED
      BY <3>1, <3>2, <3>3
  <2>3. QED
    BY <2>1, <2>2
<1>8. ASSUME NEW i \in 1..Len(T), i + 1 <= Len(T), T[i].at = FrameBytes
      PROVE  T[i + 1].at = 1
  <2>1. CASE i \in 1..Len(S)
    <3>1. CASE i + 1 <= Len(S)
      <4>1. i + 1 \in 1..Len(S)
        BY <1>1, <3>1
      <4>2. QED
        BY <1>2, <1>8, <2>1, <3>1, <4>1 DEF Aligned
    <3>2. CASE ~(i + 1 <= Len(S))
      <4>1. i + 1 = Len(S) + 1
        BY <1>1, <2>1, <3>2
      <4>2. QED
        BY <1>5, <4>1
    <3>3. QED
      BY <3>1, <3>2
  <2>2. CASE i \notin 1..Len(S)
    <3>1. i - Len(S) = FrameBytes /\ i \in Int
      BY <1>1, <1>3, <1>8, <2>2
    <3>2. i = Len(T)
      BY <1>1, <3>1
    <3>3. QED
      BY <1>1, <1>8, <3>2
  <2>3. QED
    BY <2>1, <2>2
<1>9. ASSUME NEW l \in Lanes, NEW i \in 1..Len(T)
      PROVE  Begins(T, i, l) <=> Begins(S, i, l) \/ (i = Len(S) + 1 /\ l = f.lane)
  <2>1. CASE i \in 1..Len(S)
    <3>1. i # Len(S) + 1
      BY <1>1, <2>1
    <3>2. QED
      BY <1>2, <2>1, <3>1 DEF Begins
  <2>2. CASE i \notin 1..Len(S)
    <3>1. T[i].at = 1 <=> i = Len(S) + 1
      BY <1>1, <1>3, <2>2
    <3>2. T[i].frame = f
      BY <1>3, <2>2
    <3>3. QED
      BY <2>2, <3>1, <3>2 DEF Begins
  <2>3. QED
    BY <2>1, <2>2
<1>10. QED
  BY <1>2, <1>4, <1>5, <1>6, <1>7, <1>8, <1>9 DEF Aligned

\* A frame that its lane sends next keeps the stream in order.
LEMMA AppendInOrder ==
  ASSUME NEW S \in Seq(Byte), NEW T \in Seq(Byte), NEW f \in FrameSet,
         Grows(S, T, f),
         NEW g \in [Lanes -> Histories], NEW h \in [Lanes -> Histories],
         InOrder(S, g, h),
         \A e \in FrameSet : h[f.lane] = <<e>> => Follows(e, f),
         h[f.lane] = <<>> => f.kind = "status" /\ f.seq = 0
  PROVE  InOrder(T, g, [h EXCEPT ![f.lane] = <<f>>])
<1> DEFINE h2 == [h EXCEPT ![f.lane] = <<f>>]
           last == Len(S) + 1
<1>1. /\ Aligned(S) /\ Chained(S) /\ Resumes(S, g) /\ EndsWith(S, g, h)
      /\ Len(S) \in Nat /\ f.lane \in Lanes /\ FrameBytes \in Nat \ {0}
      /\ Len(T) = Len(S) + FrameBytes
  BY BusFacts DEF InOrder, FrameSet, Grows
<1>2. /\ Aligned(T)
      /\ \A i \in 1..Len(S) : T[i] = S[i]
      /\ last \in 1..Len(T) /\ T[last].frame = f
      /\ \A l \in Lanes, i \in 1..Len(T) :
            Begins(T, i, l) <=> Begins(S, i, l) \/ (i = last /\ l = f.lane)
  BY <1>1, AppendAligned
<1>3. \A i \in 1..Len(S) : i \in 1..Len(T) /\ i < last /\ i # last
  BY <1>1
<1>4. h2[f.lane] = <<f>> /\ \A l \in Lanes : l # f.lane => h2[l] = h[l]
  BY <1>1
<1> HIDE DEF h2
<1>5. \A l \in Lanes, i, j \in 1..Len(T) : NoneBetween(T, i, j, l) => NoneBetween(S, i, j, l)
  BY <1>2, <1>3 DEF NoneBetween
<1>6. \A l \in Lanes, i \in 1..Len(T) : Begins(T, i, l) => i \in 1..Len(S) \/ (i = last /\ l = f.lane)
  BY <1>2 DEF Begins
<1>7. \A l \in Lanes, i \in 1..Len(S) : Begins(T, i, l) => Begins(S, i, l)
  BY <1>2, <1>3
<1>8. \A i \in 1..Len(S) : S[i].frame \in FrameSet
  BY ByteFields
<1>9. \A e \in FrameSet : h[f.lane] \in {<<>>, <<e>>} => Continues(e, f)
  BY DEF Continues
<1>10. Chained(T)
  <2> SUFFICES ASSUME NEW l \in Lanes, NEW i \in 1..Len(T), NEW j \in 1..Len(T),
                      Begins(T, i, l), Begins(T, j, l), i < j, NoneBetween(T, i, j, l)
               PROVE  Continues(T[i].frame, T[j].frame)
    BY DEF Chained
  <2>1. i \in 1..Len(S)
    <3>1. i < Len(T) + 1 /\ (j = last => i < last)
      BY <1>1
    <3>2. j \in 1..Len(S) => i # last
      BY <1>1
    <3>3. QED
      BY <1>6, <3>1, <3>2, <1>1
  <2>2. Begins(S, i, l) /\ T[i] = S[i] /\ NoneBetween(S, i, j, l)
    BY <1>2, <1>5, <1>7, <2>1
  <2>3. CASE j \in 1..Len(S)
    BY <1>1, <1>2, <1>7, <2>1, <2>2, <2>3 DEF Chained
  <2>4. CASE j \notin 1..Len(S)
    <3>1. j = last /\ l = f.lane
      BY <1>6, <2>4
    <3>2. h[l] # <<>> => h[l] = <<S[i].frame>>
      BY <1>1, <2>1, <2>2, <3>1 DEF EndsWith
    <3>3. Continues(S[i].frame, f)
      BY <1>8, <1>9, <2>1, <3>1, <3>2
    <3>4. QED
      BY <1>2, <2>2, <3>1, <3>3
  <2>5. QED
    BY <2>3, <2>4
<1>11. Resumes(T, g)
  <2> SUFFICES ASSUME NEW l \in Lanes, NEW j \in 1..Len(T), NEW e \in FrameSet,
                      Begins(T, j, l), NoneBetween(T, 0, j, l), g[l] = <<e>>
               PROVE  Continues(e, T[j].frame)
    BY DEF Resumes
  <2>1. NoneBetween(S, 0, j, l)
    BY <1>2, <1>3 DEF NoneBetween
  <2>2. CASE j \in 1..Len(S)
    <3>1. Begins(S, j, l) /\ T[j] = S[j]
      BY <1>2, <1>7, <2>2
    <3>2. QED
      BY <1>1, <2>1, <2>2, <3>1 DEF Resumes
  <2>3. CASE j \notin 1..Len(S)
    <3>1. j = last /\ l = f.lane
      BY <1>6, <2>3
    <3>2. \A i \in 1..Len(S) : 0 < i /\ i < j
      BY <1>1, <3>1
    <3>3. \A i \in 1..Len(S) : ~Begins(S, i, l)
      BY <2>1, <3>2 DEF NoneBetween
    <3>4. h[l] # <<>> => h[l] = <<e>>
      BY <1>1, <3>3 DEF EndsWith
    <3>5. QED
      BY <1>2, <1>9, <3>1, <3>4
  <2>4. QED
    BY <2>2, <2>3
<1>12. EndsWith(T, g, h2)
  <2> SUFFICES ASSUME NEW l \in Lanes, h2[l] # <<>>
               PROVE  /\ \A i \in 1..Len(T) : Begins(T, i, l) /\ NoneBetween(T, i, Len(T) + 1, l)
                            => h2[l] = <<T[i].frame>>
                      /\ (\A i \in 1..Len(T) : ~Begins(T, i, l)) => h2[l] = g[l]
    BY DEF EndsWith
  <2>1. CASE l = f.lane
    <3>1. Begins(T, last, l)
      BY <1>2, <2>1
    <3>2. ASSUME NEW i \in 1..Len(T), Begins(T, i, l), NoneBetween(T, i, Len(T) + 1, l)
          PROVE  i = last
      <4>1. last < Len(T) + 1
        BY <1>2, <1>1
      <4>2. ~(i < last)
        BY <1>2, <3>1, <3>2, <4>1 DEF NoneBetween
      <4>3. QED
        BY <1>3, <1>6, <3>2, <4>2
    <3>3. QED
      BY <1>2, <1>4, <2>1, <3>1, <3>2
  <2>2. CASE l # f.lane
    <3>1. h2[l] = h[l]
      BY <1>4, <2>2
    <3>2. ASSUME NEW i \in 1..Len(T), Begins(T, i, l), NoneBetween(T, i, Len(T) + 1, l)
          PROVE  h[l] = <<T[i].frame>>
      <4>1. i \in 1..Len(S) /\ Begins(S, i, l) /\ T[i] = S[i]
        BY <1>2, <1>6, <1>7, <2>2, <3>2
      <4>2. \A k \in 1..Len(S) : k < Len(T) + 1
        BY <1>1
      <4>3. NoneBetween(S, i, Len(S) + 1, l)
        BY <1>2, <1>3, <3>2, <4>2 DEF NoneBetween
      <4>4. QED
        BY <1>1, <3>1, <4>1, <4>3 DEF EndsWith
    <3>3. (\A i \in 1..Len(T) : ~Begins(T, i, l)) => \A i \in 1..Len(S) : ~Begins(S, i, l)
      BY <1>2, <1>3
    <3>4. QED
      BY <1>1, <3>1, <3>2, <3>3 DEF EndsWith
  <2>3. QED
    BY <2>1, <2>2
<1>13. QED
  BY <1>2, <1>10, <1>11, <1>12 DEF InOrder, h2

\* The first frame of the stream, and the stream without it.
LEMMA DropAligned ==
  ASSUME NEW S \in Seq(Byte), NEW T \in Seq(Byte), Aligned(S), Sheds(S, T)
  PROVE  /\ Aligned(T)
         /\ 1 \in 1..Len(S) /\ S[1].frame \in FrameSet
         /\ \A k \in 1..FrameBytes : S[k] = [frame |-> S[1].frame, at |-> k]
         /\ \A i \in 1..Len(T) : i + FrameBytes \in 1..Len(S) /\ T[i] = S[i + FrameBytes]
         /\ \A l \in Lanes, i \in 1..Len(T) : Begins(T, i, l) <=> Begins(S, i + FrameBytes, l)
         /\ \A l \in Lanes, k \in 1..FrameBytes :
               Begins(S, k, l) <=> k = 1 /\ l = S[1].frame.lane
<1> DEFINE F == FrameBytes
<1>1. Len(T) \in Nat /\ F \in Nat \ {0} /\ Len(S) = Len(T) + F
  BY BusFacts DEF Sheds
<1>2. ASSUME NEW i \in 1..Len(T)
      PROVE  i + F \in 1..Len(S) /\ T[i] = S[i + F]
  <2>1. i + F \in 1..Len(S)
    BY <1>1
  <2>2. QED
    BY <2>1 DEF Sheds
<1>3. 1 \in 1..Len(S) /\ S # <<>> /\ F \in 1..Len(S)
  BY <1>1, EmptySeq
<1>4. S[1].at = 1 /\ S[1].frame \in FrameSet
  BY <1>3, ByteFields DEF Aligned
<1>5. ASSUME NEW k \in 1..F
      PROVE  /\ S[k] = [frame |-> S[1].frame, at |-> k]
             /\ S[k].at = k /\ S[k].frame = S[1].frame
  <2>1. 1 + k - 1 = k
    BY <1>1
  <2>2. S[1 + k - 1] = [frame |-> S[1].frame, at |-> k]
    BY <1>3, <1>4 DEF Aligned
  <2>3. S[k] = [frame |-> S[1].frame, at |-> k]
    BY <2>1, <2>2
  <2>4. QED
    BY <2>3
<1>6. T # <<>> => T[1].at = 1
  <2> SUFFICES ASSUME T # <<>> PROVE T[1].at = 1
    OBVIOUS
  <2>1. Len(T) \in Nat \ {0}
    BY EmptySeq
  <2>2. 1 \in 1..Len(T) /\ F + 1 <= Len(S) /\ 1 + F = F + 1 /\ F \in 1..F
    BY <1>1, <2>1
  <2>3. S[F].at = F
    BY <1>5, <2>2
  <2>4. S[F + 1].at = 1
    BY <1>3, <2>2, <2>3 DEF Aligned
  <2>5. QED
    BY <1>2, <2>2, <2>4
<1>7. ASSUME NEW i \in 1..Len(T), T[i].at = 1
      PROVE  /\ i + F - 1 <= Len(T)
             /\ \A k \in 1..F : T[i + k - 1] = [frame |-> T[i].frame, at |-> k]
  <2>1. i + F \in 1..Len(S) /\ T[i] = S[i + F]
    BY <1>2
  <2>2. /\ (i + F) + F - 1 <= Len(S)
        /\ \A k \in 1..F : S[(i + F) + k - 1] = [frame |-> S[i + F].frame, at |-> k]
    BY <1>7, <2>1 DEF Aligned
  <2>3. i + F - 1 <= Len(T)
    BY <1>1, <2>2
  <2>4. ASSUME NEW k \in 1..F PROVE T[i + k - 1] = [frame |-> T[i].frame, at |-> k]
    <3>1. i + k - 1 \in 1..Len(T) /\ (i + k - 1) + F = (i + F) + k - 1
      BY <1>1, <2>3
    <3>2. QED
      BY <1>2, <2>1, <2>2, <3>1
  <2>5. QED
    BY <2>3, <2>4
<1>8. ASSUME NEW i \in 1..Len(T), i + 1 <= Len(T), T[i].at = F
      PROVE  T[i + 1].at = 1
  <2>1. /\ i + 1 \in 1..Len(T) /\ (i + 1) + F = (i + F) + 1
        /\ i + F \in 1..Len(S) /\ (i + F) + 1 <= Len(S)
    BY <1>1, <1>8
  <2>2. S[(i + F) + 1].at = 1
    BY <1>2, <1>8, <2>1 DEF Aligned
  <2>3. QED
    BY <1>2, <2>1, <2>2
<1>9. ASSUME NEW l \in Lanes, NEW i \in 1..Len(T)
      PROVE  Begins(T, i, l) <=> Begins(S, i + F, l)
  BY <1>2 DEF Begins
<1>10. ASSUME NEW l \in Lanes, NEW k \in 1..F
       PROVE  Begins(S, k, l) <=> k = 1 /\ l = S[1].frame.lane
  <2>1. k \in 1..Len(S)
    BY <1>1
  <2>2. S[k].at = k /\ S[k].frame = S[1].frame
    BY <1>5
  <2>3. QED
    BY <2>1, <2>2 DEF Begins
<1>11. QED
  BY <1>2, <1>3, <1>4, <1>5, <1>6, <1>7, <1>8, <1>9, <1>10 DEF Aligned

\* The host takes the first frame: the rest continues it.
LEMMA DropInOrder ==
  ASSUME NEW S \in Seq(Byte), NEW T \in Seq(Byte), Sheds(S, T),
         NEW g \in [Lanes -> Histories], NEW h \in [Lanes -> Histories],
         InOrder(S, g, h)
  PROVE  /\ InOrder(T, [g EXCEPT ![S[1].frame.lane] = <<S[1].frame>>], h)
         /\ \A e \in FrameSet : g[S[1].frame.lane] = <<e>> => Continues(e, S[1].frame)
<1> DEFINE F == FrameBytes
           f == S[1].frame
           g2 == [g EXCEPT ![f.lane] = <<f>>]
<1>1. /\ Aligned(S) /\ Chained(S) /\ Resumes(S, g) /\ EndsWith(S, g, h)
      /\ Len(T) \in Nat /\ F \in Nat \ {0} /\ Len(S) = Len(T) + F
  BY BusFacts DEF InOrder, Sheds
<1>2. /\ Aligned(T)
      /\ 1 \in 1..Len(S) /\ f \in FrameSet
      /\ \A i \in 1..Len(T) : i + F \in 1..Len(S) /\ T[i] = S[i + F]
      /\ \A l \in Lanes, i \in 1..Len(T) : Begins(T, i, l) <=> Begins(S, i + F, l)
      /\ \A l \in Lanes, k \in 1..F : Begins(S, k, l) <=> k = 1 /\ l = f.lane
  BY <1>1, DropAligned
<1>3. f.lane \in Lanes
  BY <1>2 DEF FrameSet
<1>4. g2[f.lane] = <<f>> /\ \A l \in Lanes : l # f.lane => g2[l] = g[l]
  BY <1>3
<1> HIDE DEF f, g2
<1>5. ASSUME NEW k \in 1..Len(S), k \notin 1..F
      PROVE  k - F \in 1..Len(T) /\ (k - F) + F = k
  BY <1>1, <1>5
<1>6. ASSUME NEW l \in Lanes, NEW k \in 1..Len(S), Begins(S, k, l)
      PROVE  \/ k = 1 /\ l = f.lane
             \/ k - F \in 1..Len(T) /\ (k - F) + F = k /\ Begins(T, k - F, l)
  BY <1>2, <1>5, <1>6
\* Nothing begins between two places of T, nothing does between those of S.
<1>7. ASSUME NEW l \in Lanes, NEW i \in 0..Len(T), NEW j \in Int, NoneBetween(T, i, j, l),
             i > 0 \/ l # f.lane
      PROVE  NoneBetween(S, i + F, j + F, l)
  <2> SUFFICES ASSUME NEW k \in 1..Len(S), i + F < k, k < j + F, Begins(S, k, l)
               PROVE  FALSE
    BY DEF NoneBetween
  <2>1. k # 1 /\ i < k - F /\ k - F < j /\ k \in Int
    BY <1>1
  <2>2. QED
    BY <1>6, <2>1, <1>7 DEF NoneBetween
<1>8. Chained(T)
  <2> SUFFICES ASSUME NEW l \in Lanes, NEW i \in 1..Len(T), NEW j \in 1..Len(T),
                      Begins(T, i, l), Begins(T, j, l), i < j, NoneBetween(T, i, j, l)
               PROVE  Continues(T[i].frame, T[j].frame)
    BY DEF Chained
  <2>1. i \in 0..Len(T) /\ i > 0 /\ j \in Int /\ i + F < j + F
    BY <1>1
  <2>2. NoneBetween(S, i + F, j + F, l)
    BY <1>7, <2>1
  <2>3. /\ i + F \in 1..Len(S) /\ j + F \in 1..Len(S)
        /\ Begins(S, i + F, l) /\ Begins(S, j + F, l)
        /\ T[i] = S[i + F] /\ T[j] = S[j + F]
    BY <1>2
  <2>4. QED
    BY <1>1, <2>1, <2>2, <2>3 DEF Chained
\* The first frame of a lane in T comes next after f, or first in S.
<1>9. Resumes(T, g2)
  <2> SUFFICES ASSUME NEW l \in Lanes, NEW j \in 1..Len(T), NEW e \in FrameSet,
                      Begins(T, j, l), NoneBetween(T, 0, j, l), g2[l] = <<e>>
               PROVE  Continues(e, T[j].frame)
    BY DEF Resumes
  <2>1. /\ j + F \in 1..Len(S) /\ Begins(S, j + F, l) /\ T[j] = S[j + F]
        /\ 1 < j + F /\ j \in Int
    BY <1>1, <1>2
  <2>2. ASSUME NEW k \in 1..Len(S), 1 < k, k < j + F PROVE ~Begins(S, k, l)
    <3> SUFFICES ASSUME Begins(S, k, l) PROVE FALSE
      OBVIOUS
    <3>1. k - F \in 1..Len(T) /\ Begins(T, k - F, l) /\ 0 < k - F /\ k - F < j
      BY <1>1, <1>6, <2>1, <2>2
    <3>2. QED
      BY <3>1 DEF NoneBetween
  <2>3. CASE l = f.lane
    <3>1. e = f
      BY <1>4, <2>3
    <3>2. F >= 1 /\ 1 \in 1..F
      BY <1>1
    <3>3. Begins(S, 1, l)
      BY <1>2, <2>3, <3>2
    <3>4. NoneBetween(S, 1, j + F, l)
      BY <2>2 DEF NoneBetween
    <3>5. QED
      BY <1>1, <1>2, <2>1, <3>1, <3>3, <3>4 DEF Chained, f
  <2>4. CASE l # f.lane
    <3>1. g[l] = <<e>>
      BY <1>4, <2>4
    <3>2. 1 \in 1..F
      BY <1>1
    <3>3. NoneBetween(S, 0, j + F, l)
      <4> SUFFICES ASSUME NEW k \in 1..Len(S), k < j + F PROVE ~Begins(S, k, l)
        BY DEF NoneBetween
      <4>1. k = 1 \/ 1 < k
        OBVIOUS
      <4>2. QED
        BY <1>2, <2>2, <2>4, <3>2, <4>1
    <3>4. QED
      BY <1>1, <2>1, <3>1, <3>3 DEF Resumes
  <2>5. QED
    BY <2>3, <2>4
<1>10. EndsWith(T, g2, h)
  <2> SUFFICES ASSUME NEW l \in Lanes, h[l] # <<>>
               PROVE  /\ \A i \in 1..Len(T) : Begins(T, i, l) /\ NoneBetween(T, i, Len(T) + 1, l)
                            => h[l] = <<T[i].frame>>
                      /\ (\A i \in 1..Len(T) : ~Begins(T, i, l)) => h[l] = g2[l]
    BY DEF EndsWith
  <2>1. ASSUME NEW i \in 1..Len(T), Begins(T, i, l), NoneBetween(T, i, Len(T) + 1, l)
        PROVE  h[l] = <<T[i].frame>>
    <3>1. i \in 0..Len(T) /\ i > 0 /\ Len(T) + 1 \in Int /\ (Len(T) + 1) + F = Len(S) + 1
      BY <1>1
    <3>2. NoneBetween(S, i + F, Len(S) + 1, l)
      BY <1>7, <2>1, <3>1
    <3>3. i + F \in 1..Len(S) /\ Begins(S, i + F, l) /\ T[i] = S[i + F]
      BY <1>2, <2>1
    <3>4. QED
      BY <1>1, <3>2, <3>3 DEF EndsWith
  <2>2. ASSUME \A i \in 1..Len(T) : ~Begins(T, i, l)
        PROVE  h[l] = g2[l]
    <3>1. \A k \in 1..Len(S) : Begins(S, k, l) => k = 1 /\ l = f.lane
      BY <1>6, <2>2
    <3>2. CASE l = f.lane
      <4>1. 1 \in 1..F
        BY <1>1
      <4>2. Begins(S, 1, l)
        BY <1>2, <3>2, <4>1
      <4>3. NoneBetween(S, 1, Len(S) + 1, l)
        BY <3>1 DEF NoneBetween
      <4>4. QED
        BY <1>1, <1>2, <1>4, <3>2, <4>2, <4>3 DEF EndsWith, f
    <3>3. CASE l # f.lane
      BY <1>1, <1>4, <3>1, <3>3 DEF EndsWith
    <3>4. QED
      BY <3>2, <3>3
  <2>3. QED
    BY <2>1, <2>2
<1>11. ASSUME NEW e \in FrameSet, g[f.lane] = <<e>>
       PROVE  Continues(e, f)
  <2>1. 1 \in 1..F /\ \A k \in 1..Len(S) : ~(0 < k /\ k < 1)
    BY <1>1
  <2>2. Begins(S, 1, f.lane) /\ NoneBetween(S, 0, 1, f.lane)
    BY <1>2, <1>3, <2>1 DEF NoneBetween
  <2>3. QED
    BY <1>1, <1>2, <1>3, <1>11, <2>2 DEF Resumes, f
<1>12. QED
  BY <1>2, <1>8, <1>9, <1>10, <1>11 DEF InOrder, g2, f

\* What the host has not yet taken of what the lanes have sent.
Stream == (win \o wire) \o fifo

HostTyped ==
    /\ wire \in Seq(Byte) /\ Len(wire) <= WireBytes
    /\ win \in Seq(Byte) /\ Len(win) < FrameBytes
    /\ lost \in 0..MaxLosses /\ faults \in 0..MaxFaults /\ hostUp \in BOOLEAN
    /\ eyeSeen \subseteq 0..(Chunks - 1)
    /\ got \in [Lanes -> Histories]

\* A lane that has left LS_RESET may push.
Enabled == \A l \in Lanes : link[l] # "fault" => txEn[l]

HostInv == BusInv /\ HostTyped /\ Enabled /\ (lost = 0 => InOrder(Stream, got, sent))

\* The parts of the stream.
LEMMA StreamFacts ==
  ASSUME NEW a \in Seq(Byte), NEW b \in Seq(Byte), NEW c \in Seq(Byte)
  PROVE  /\ (a \o b) \o c \in Seq(Byte)
         /\ Len((a \o b) \o c) = Len(a) + Len(b) + Len(c)
         /\ (a \o b) \o c = a \o (b \o c)
         /\ \A i \in 1..Len(a) : ((a \o b) \o c)[i] = a[i]
         /\ Len(a) \in Nat /\ Len(b) \in Nat /\ Len(c) \in Nat
<1>1. Len(a) \in Nat /\ Len(b) \in Nat /\ Len(c) \in Nat
  OBVIOUS
<1>2. /\ a \o b \in Seq(Byte) /\ Len(a \o b) = Len(a) + Len(b)
      /\ \A i \in 1..(Len(a) + Len(b)) :
            (a \o b)[i] = IF i <= Len(a) THEN a[i] ELSE b[i - Len(a)]
  BY ConcatProperties
<1>3. /\ (a \o b) \o c \in Seq(Byte) /\ Len((a \o b) \o c) = Len(a \o b) + Len(c)
      /\ \A i \in 1..(Len(a \o b) + Len(c)) :
            ((a \o b) \o c)[i] = IF i <= Len(a \o b) THEN (a \o b)[i] ELSE c[i - Len(a \o b)]
  BY <1>2, ConcatProperties
<1>4. ASSUME NEW i \in 1..Len(a) PROVE ((a \o b) \o c)[i] = a[i]
  <2>1. /\ i \in 1..(Len(a) + Len(b)) /\ i <= Len(a)
        /\ i \in 1..(Len(a \o b) + Len(c)) /\ i <= Len(a \o b)
    BY <1>1, <1>2
  <2>2. QED
    BY <1>2, <1>3, <2>1
<1>5. (a \o b) \o c = a \o (b \o c)
  BY ConcatAssociative
<1>6. QED
  BY <1>1, <1>2, <1>3, <1>4, <1>5

\* A frame pushed to the FIFO comes to the end of the stream.
LEMMA StreamGrows ==
  ASSUME NEW a \in Seq(Byte), NEW c \in Seq(Byte), NEW f \in FrameSet
  PROVE  Grows(a \o c, a \o (c \o Bytes(f)), f)
<1> DEFINE S == a \o c
           T == a \o (c \o Bytes(f))
<1>1. /\ Bytes(f) \in Seq(Byte) /\ Len(Bytes(f)) = FrameBytes
      /\ \A i \in 1..FrameBytes : Bytes(f)[i] = [frame |-> f, at |-> i]
  BY FrameBytesSeq
<1>2. S \in Seq(Byte) /\ Len(S) \in Nat /\ FrameBytes \in Nat
  BY ConcatProperties, BusFacts
<1>3. T = S \o Bytes(f)
  BY <1>1, ConcatAssociative, SMTT(60)
<1> HIDE DEF S, T
<1>4. /\ Len(T) = Len(S) + Len(Bytes(f))
      /\ \A i \in 1..(Len(S) + Len(Bytes(f))) :
            T[i] = IF i <= Len(S) THEN S[i] ELSE Bytes(f)[i - Len(S)]
  BY <1>1, <1>2, <1>3, ConcatProperties
<1>5. ASSUME NEW i \in 1..Len(T)
      PROVE  T[i] = IF i <= Len(S) THEN S[i] ELSE [frame |-> f, at |-> i - Len(S)]
  <2>1. ~(i <= Len(S)) => i - Len(S) \in 1..FrameBytes
    BY <1>1, <1>2, <1>4
  <2>2. QED
    BY <1>1, <1>4, <2>1
<1>6. Grows(S, T, f)
  BY <1>1, <1>4, <1>5 DEF Grows
<1>7. QED
  BY <1>6 DEF S, T

\* A whole window leaves the stream at its head.
LEMMA StreamSheds ==
  ASSUME NEW w \in Seq(Byte), NEW r \in Seq(Byte), Len(w) = FrameBytes
  PROVE  Sheds(w \o r, r)
<1>1. /\ Len(w \o r) = Len(w) + Len(r)
      /\ \A i \in 1..(Len(w) + Len(r)) :
            (w \o r)[i] = IF i <= Len(w) THEN w[i] ELSE r[i - Len(w)]
  BY ConcatProperties
<1>2. Len(r) \in Nat /\ FrameBytes \in Nat \ {0}
  BY BusFacts
<1>3. ASSUME NEW i \in 1..Len(r) PROVE r[i] = (w \o r)[i + FrameBytes]
  <2>1. /\ i + FrameBytes \in 1..(Len(w) + Len(r)) /\ ~(i + FrameBytes <= Len(w))
        /\ (i + FrameBytes) - Len(w) = i
    BY <1>2
  <2>2. QED
    BY <1>1, <2>1
<1>4. QED
  BY <1>1, <1>2, <1>3 DEF Sheds

\* Before the first block the stream is empty.
LEMMA HostInitInv == HostInit => HostInv
<1> SUFFICES ASSUME HostInit PROVE HostInv
  OBVIOUS
<1>1. BusInv
  BY BusInit DEF HostInit
<1>2. wire = <<>> /\ win = <<>> /\ fifo = <<>> /\ <<>> \in Seq(Byte) /\ Len(<<>>) = 0
  BY DEF HostInit, TelemetryInit
<1>3. HostTyped
  <2>1. got \in [Lanes -> Histories]
    BY Zenon DEF HostInit, Histories
  <2>2. QED
    <3>1. Len(wire) <= WireBytes /\ Len(win) < FrameBytes
      BY <1>2, BusFacts, HostAssumption
    <3>2. lost \in 0..MaxLosses /\ faults \in 0..MaxFaults
      BY HostAssumption DEF HostInit
    <3>3. QED
      BY <1>2, <2>1, <3>1, <3>2 DEF HostInit, HostTyped
<1>4. Enabled
  BY DEF HostInit, TelemetryInit, Enabled
<1>5. Stream = <<>>
  BY <1>2, ConcatEmptySeq DEF Stream
<1>6. sent = [l \in Lanes |-> <<>>]
  BY DEF HostInit, TelemetryInit
<1>7. Len(Stream) = 0 /\ 1..Len(Stream) = {}
  BY <1>2, <1>5
<1>8. InOrder(Stream, got, sent)
  BY <1>5, <1>6, <1>7 DEF InOrder, Aligned, Chained, Resumes, EndsWith
<1>9. QED
  BY <1>1, <1>3, <1>4, <1>8 DEF HostInv

\* What the wire can hold passes from the FIFO to it; the rest is lost.
LEMMA CarryKeeps == HostInv /\ Carry => HostInv'
<1> SUFFICES ASSUME HostInv, Carry PROVE HostInv'
  OBVIOUS
<1> DEFINE kept == Least(Moved, WireBytes - Len(wire))
<1>1. BusInv'
  BY TickKeeps DEF HostInv, Carry
<1>2. /\ fifo \in Seq(Byte) /\ wire \in Seq(Byte) /\ win \in Seq(Byte)
      /\ Len(fifo) \in Nat /\ Len(wire) \in Nat /\ Len(wire) <= WireBytes /\ WireBytes \in Nat
      /\ lost \in 0..MaxLosses /\ MaxLosses \in Nat
  BY HostAssumption DEF HostInv, HostTyped, BusInv, BusTyped
<1>3. Moved \in Nat /\ Moved <= Len(fifo)
  BY <1>2, BusFacts DEF Moved
<1>4. WireBytes - Len(wire) \in Nat
  BY <1>2
<1>5. kept \in Nat /\ kept <= Moved /\ kept <= WireBytes - Len(wire)
  BY <1>3, <1>4, BusFacts
<1>6. Room => kept = Moved
  BY <1>2, <1>3, <1>4 DEF Room, Least
<1> HIDE DEF kept
<1>7. /\ SubSeq(fifo, 1, kept) \in Seq(Byte) /\ Len(SubSeq(fifo, 1, kept)) = kept
  <2>1. \A i \in 1..kept : fifo[i] \in Byte
    BY <1>2, <1>3, <1>5, ElementOfSeq
  <2>2. /\ SubSeq(fifo, 1, kept) \in Seq(Byte)
        /\ Len(SubSeq(fifo, 1, kept)) = IF 1 <= kept THEN kept - 1 + 1 ELSE 0
    BY <1>5, <2>1, SubSeqProperties
  <2>3. QED
    BY <1>5, <2>2
<1>8. wire' = wire \o SubSeq(fifo, 1, kept)
  BY DEF Carry, kept
<1>9. wire' \in Seq(Byte) /\ Len(wire') = Len(wire) + kept
  BY <1>2, <1>7, <1>8, ConcatProperties
<1>10. HostTyped'
  <2>1. Len(wire') <= WireBytes
    BY <1>2, <1>5, <1>9
  <2>2. lost' \in 0..MaxLosses
    BY <1>2 DEF Carry
  <2>3. QED
    BY <1>9, <2>1, <2>2 DEF Carry, HostInv, HostTyped
<1>11. Enabled'
  BY DEF HostInv, Carry, BusTick, Enabled
<1>12. ASSUME lost' = 0 PROVE InOrder(Stream, got, sent)'
  <2>1. Room /\ lost = 0
    BY <1>2, <1>12 DEF Carry
  <2>2. fifo' = SubSeq(fifo, Moved + 1, Len(fifo))
    BY DEF Carry, BusTick
  <2>3. SubSeq(fifo, 1, Moved) \o SubSeq(fifo, Moved + 1, Len(fifo)) = fifo
    <3>1. 1 \in 1..(Len(fifo) + 1) /\ Moved \in (1 - 1)..Len(fifo) /\ Len(fifo) \in Moved..Len(fifo)
      BY <1>2, <1>3
    <3>2. SubSeq(fifo, 1, Moved) \o SubSeq(fifo, Moved + 1, Len(fifo)) = SubSeq(fifo, 1, Len(fifo))
      BY <1>2, <3>1, ConcatAdjacentSubSeq
    <3>3. QED
      BY <1>2, <3>2, SubSeqFull
  <2>4. fifo' \in Seq(Byte)
    BY <1>1 DEF BusInv, BusTyped
  <2>5. wire' \o fifo' = wire \o fifo
    <3>1. ASSUME NEW head \in Seq(Byte)
          PROVE  (wire \o head) \o fifo' = wire \o (head \o fifo')
      BY <1>2, <2>4, StreamFacts, SMTT(60)
    <3>2. (wire \o SubSeq(fifo, 1, kept)) \o fifo' = wire \o (SubSeq(fifo, 1, kept) \o fifo')
      BY <1>7, <3>1
    <3>3. QED
      BY <1>6, <1>8, <2>1, <2>2, <2>3, <3>2
  <2>6. Stream' = Stream
    <3>1. Stream = win \o (wire \o fifo)
      BY <1>2, StreamFacts DEF Stream
    <3>2. Stream' = win' \o (wire' \o fifo')
      <4>1. win' \in Seq(Byte)
        BY <1>2 DEF Carry
      <4>2. QED
        BY <1>9, <2>4, <4>1, StreamFacts DEF Stream
    <3>3. win' = win
      BY DEF Carry
    <3>4. QED
      BY <2>5, <3>1, <3>2, <3>3
  <2>7. got' = got /\ sent' = sent
    BY DEF Carry, BusTick
  <2>8. InOrder(Stream, got, sent)
    BY <2>1 DEF HostInv
  <2>9. QED
    BY <2>6, <2>7, <2>8
<1>13. QED
  BY <1>1, <1>10, <1>11, <1>12 DEF HostInv

\* The byte the host reads, and the stream around it: while nothing has been
\* lost, a first byte is a first byte and a full window is a frame.
LEMMA ReadFacts ==
  ASSUME HostInv, wire # <<>>, NEW STATE w, w = Append(win, Head(wire))
  PROVE  /\ w \in Seq(Byte) /\ Len(w) = Len(win) + 1 /\ Len(win) \in Nat
         /\ Tail(wire) \in Seq(Byte) /\ Len(Tail(wire)) <= WireBytes
         /\ Stream \in Seq(Byte)
         /\ Stream = w \o (Tail(wire) \o fifo)
         /\ (w \o Tail(wire)) \o fifo = Stream
         /\ Stream[1] = w[1] /\ (win = <<>> => w[1] = Head(wire))
         /\ lost = 0 => /\ w[1].at = 1
                        /\ Len(w) = FrameBytes => Good(w)
<1> DEFINE h == Head(wire)
           r == Tail(wire)
<1>1. /\ fifo \in Seq(Byte) /\ wire \in Seq(Byte) /\ win \in Seq(Byte)
      /\ Len(win) \in Nat /\ Len(wire) \in Nat /\ Len(wire) <= WireBytes /\ WireBytes \in Nat
  BY HostAssumption DEF HostInv, HostTyped, BusInv, BusTyped
<1>2. /\ h \in Byte /\ r \in Seq(Byte) /\ Len(r) = Len(wire) - 1 /\ Len(r) <= WireBytes
  BY <1>1, HeadTailProperties
<1>3. /\ w \in Seq(Byte) /\ Len(w) = Len(win) + 1 /\ w = win \o <<h>> /\ w[Len(win) + 1] = h
  BY <1>1, <1>2, AppendProperties, AppendIsConcat
<1>4. wire = <<h>> \o r
  BY <1>1
<1> HIDE DEF h, r
<1>5. Stream \in Seq(Byte)
  BY <1>1, StreamFacts DEF Stream
<1>6. win \o wire = w \o r
  <2>1. <<h>> \in Seq(Byte)
    BY <1>2
  <2>2. ASSUME NEW one \in Seq(Byte)
        PROVE  win \o (one \o r) = (win \o one) \o r
    BY <1>1, <1>2, StreamFacts
  <2>3. QED
    BY <1>3, <1>4, <2>1, <2>2
<1>7. Stream = w \o (r \o fifo) /\ (w \o r) \o fifo = Stream
  <2>1. (w \o r) \o fifo = Stream
    BY <1>6 DEF Stream
  <2>2. (w \o r) \o fifo = w \o (r \o fifo)
    BY <1>1, <1>2, <1>3, StreamFacts
  <2>3. QED
    BY <2>1, <2>2
<1>8. Len(Stream) >= Len(w) /\ \A i \in 1..Len(w) : Stream[i] = w[i]
  <2>1. /\ Len((w \o r) \o fifo) = Len(w) + Len(r) + Len(fifo)
        /\ \A i \in 1..Len(w) : ((w \o r) \o fifo)[i] = w[i]
        /\ Len(w) \in Nat /\ Len(r) \in Nat /\ Len(fifo) \in Nat
    BY <1>1, <1>2, <1>3, StreamFacts, ZenonT(60)
  <2>2. QED
    BY <1>7, <2>1
<1>9. 1 \in 1..Len(w) /\ 1 \in 1..Len(Stream)
  BY <1>1, <1>3, <1>5, <1>8
<1>10. win = <<>> => w[1] = h
  BY <1>3
<1>11. ASSUME lost = 0
       PROVE  w[1].at = 1 /\ (Len(w) = FrameBytes => Good(w))
  <2>1. Aligned(Stream)
    BY <1>11 DEF HostInv, InOrder
  <2>2. Stream # <<>>
    BY <1>9
  <2>3. w[1].at = 1 /\ Stream[1].at = 1
    BY <1>8, <1>9, <2>1, <2>2 DEF Aligned
  <2>4. ASSUME Len(w) = FrameBytes, NEW k \in 1..FrameBytes
        PROVE  w[k].at = k /\ w[k].frame = w[1].frame
    <3>1. Stream[1 + k - 1] = [frame |-> Stream[1].frame, at |-> k]
      BY <1>9, <2>1, <2>3 DEF Aligned
    <3>2. k \in 1..Len(w) /\ 1 + k - 1 = k
      BY <2>4, BusFacts
    <3>3. w[k] = Stream[k] /\ w[1] = Stream[1]
      BY <1>8, <1>9, <3>2
    <3>4. w[k] = [frame |-> w[1].frame, at |-> k]
      BY <3>1, <3>2, <3>3
    <3>5. ASSUME NEW b, NEW e, b = [frame |-> e, at |-> k] PROVE b.at = k /\ b.frame = e
      BY <3>5
    <3>6. QED
      BY <3>4, <3>5
  <2>5. QED
    BY <2>3, <2>4 DEF Good
<1>12. QED
  BY <1>1, <1>2, <1>3, <1>5, <1>7, <1>8, <1>9, <1>10, <1>11 DEF h, r

\* A full window that is a frame is the head of the stream; the host takes it.
LEMMA TakeSheds ==
  ASSUME HostInv, wire # <<>>, NEW STATE w, w = Append(win, Head(wire)), Len(w) = FrameBytes,
         win' = <<>>, wire' = Tail(wire), fifo' = fifo
  PROVE  Stream' \in Seq(Byte) /\ Sheds(Stream, Stream')
<1>1. /\ w \in Seq(Byte) /\ Tail(wire) \in Seq(Byte)
      /\ Stream = w \o (Tail(wire) \o fifo) /\ fifo \in Seq(Byte)
  BY ReadFacts DEF HostInv, BusInv, BusTyped
<1>2. Tail(wire) \o fifo \in Seq(Byte)
  BY <1>1, ConcatProperties
<1>3. Stream' = (<<>> \o Tail(wire)) \o fifo
  BY DEF Stream
<1>4. Stream' = Tail(wire) \o fifo
  BY <1>1, <1>3, ConcatEmptySeq
<1>5. QED
  BY <1>1, <1>2, <1>4, StreamSheds

\* The host reads a byte.
LEMMA ReadKeeps == HostInv /\ HostRead => HostInv'
<1> SUFFICES ASSUME HostInv, HostRead PROVE HostInv'
  OBVIOUS
<1> DEFINE w == Append(win, Head(wire))
<1>1. /\ wire # <<>> /\ wire' = Tail(wire) /\ Feed(Head(wire))
      /\ UNCHANGED <<tvars, lost, faults>>
  BY DEF HostRead
<1>2. /\ w \in Seq(Byte) /\ Len(w) = Len(win) + 1 /\ Len(win) \in Nat
      /\ Tail(wire) \in Seq(Byte) /\ Len(Tail(wire)) <= WireBytes
      /\ Stream \in Seq(Byte)
      /\ (w \o Tail(wire)) \o fifo = Stream
      /\ Stream[1] = w[1] /\ (win = <<>> => w[1] = Head(wire))
      /\ lost = 0 => /\ w[1].at = 1
                     /\ Len(w) = FrameBytes => Good(w)
  BY <1>1, ReadFacts
<1>3. /\ link' = link /\ txEn' = txEn /\ fifo' = fifo /\ sent' = sent
      /\ lost' = lost /\ faults' = faults /\ tvars' = tvars
  BY <1>1 DEF tvars
<1>4. BusInv' /\ Enabled'
  BY <1>3, BusNextKeeps DEF HostInv, Enabled
<1>5. HostTyped
  BY DEF HostInv
<1> HIDE DEF w
\* Once something has been lost, only the types matter.
<1>6. ASSUME win' \in Seq(Byte), Len(win') < FrameBytes,
             UNCHANGED <<hostUp, eyeSeen, got>>
      PROVE  HostTyped'
  BY <1>1, <1>2, <1>3, <1>5, <1>6 DEF HostTyped
<1>7. CASE win = <<>> /\ ~IsSof(Head(wire)) /\ UNCHANGED <<win, hostUp, eyeSeen, got>>
  <2>1. lost # 0
    BY <1>2, <1>7 DEF IsSof
  <2>2. HostTyped'
    BY <1>5, <1>6, <1>7 DEF HostTyped
  <2>3. QED
    BY <1>3, <1>4, <2>1, <2>2 DEF HostInv
<1>8. CASE Len(w) < FrameBytes /\ win' = w /\ UNCHANGED <<hostUp, eyeSeen, got>>
  <2>1. HostTyped'
    BY <1>2, <1>6, <1>8
  <2>2. Stream' = Stream
    BY <1>1, <1>2, <1>3, <1>8 DEF Stream
  <2>3. QED
    BY <1>3, <1>4, <1>8, <2>1, <2>2 DEF HostInv
<1>9. CASE Len(w) = FrameBytes /\ Good(w) /\ win' = <<>> /\ Take(w[1].frame)
  <2>1. 1 \in 1..Len(w)
    BY <1>2
  <2>2. w[1].frame \in FrameSet
    BY <1>2, <2>1, ByteFields
  <2>3. /\ got' = [got EXCEPT ![w[1].frame.lane] = <<w[1].frame>>]
        /\ hostUp' \in BOOLEAN /\ eyeSeen' \subseteq 0..(Chunks - 1)
    BY <1>5, <1>9, <2>2 DEF Take, HostTyped, FrameSet
  <2>4. HostTyped'
    <3>1. got' \in [Lanes -> Histories]
      <4>1. <<w[1].frame>> \in Histories
        BY <2>2 DEF Histories
      <4>2. QED
        BY <1>5, <2>3, <4>1 DEF HostTyped
    <3>2. win' \in Seq(Byte) /\ Len(win') < FrameBytes
      BY <1>9, BusFacts
    <3>3. QED
      BY <1>1, <1>2, <1>3, <1>5, <2>3, <3>1, <3>2 DEF HostTyped
  <2>5. ASSUME lost = 0 PROVE InOrder(Stream', got', sent')
    <3>1. Stream' \in Seq(Byte) /\ Sheds(Stream, Stream')
      BY <1>1, <1>3, <1>9, TakeSheds DEF w
    <3>2. InOrder(Stream, got, sent) /\ got \in [Lanes -> Histories] /\ sent \in [Lanes -> Histories]
      BY <2>5 DEF HostInv, HostTyped, BusInv, BusTyped
    <3>3. InOrder(Stream', [got EXCEPT ![Stream[1].frame.lane] = <<Stream[1].frame>>], sent)
      BY <1>2, <3>1, <3>2, DropInOrder
    <3>4. QED
      BY <1>2, <1>3, <2>3, <3>3
  <2>6. QED
    BY <1>3, <1>4, <2>4, <2>5 DEF HostInv
<1>10. CASE /\ Len(w) = FrameBytes /\ ~Good(w)
            /\ win' = Slide(w) /\ UNCHANGED <<hostUp, eyeSeen, got>>
  <2>1. lost # 0
    BY <1>2, <1>10
  <2>2. w # <<>>
    BY <1>2
  <2>3. Tail(w) \in Seq(Byte) /\ Len(Tail(w)) = Len(w) - 1
    BY <1>2, <2>2, HeadTailProperties
  <2>4. win' \in Seq(Byte) /\ Len(win') < FrameBytes
    BY <1>2, <1>10, <2>3 DEF Slide
  <2>5. HostTyped'
    BY <1>6, <1>10, <2>4
  <2>6. QED
    BY <1>3, <1>4, <2>1, <2>5 DEF HostInv
<1>11. QED
  BY <1>1, <1>7, <1>8, <1>9, <1>10 DEF Feed, w

\* The lanes: what one of them sends continues what it sent before.
LEMMA LaneworkKeeps == HostInv /\ Lanework => HostInv'
<1> SUFFICES ASSUME HostInv, Lanework PROVE HostInv'
  OBVIOUS
<1>1. /\ wire' = wire /\ win' = win /\ lost' = lost /\ hostUp' = hostUp
      /\ eyeSeen' = eyeSeen /\ got' = got
  BY DEF Lanework
<1>2. Produce
  BY DEF Lanework, Produce
<1>3. BusInv'
  BY <1>2, BusNextKeeps DEF HostInv, TelemetryNext
<1>4. faults' \in 0..MaxFaults
  <2>1. faults \in 0..MaxFaults /\ MaxFaults \in Nat
    BY HostAssumption DEF HostInv, HostTyped
  <2>2. faults' = faults \/ (faults < MaxFaults /\ faults' = faults + 1)
    BY DEF Lanework
  <2>3. QED
    BY <2>1, <2>2
<1>5. HostTyped'
  BY <1>1, <1>4 DEF HostInv, HostTyped
<1>6. /\ link \in [Lanes -> {"fault", "bringup", "up"}] /\ txEn \in [Lanes -> BOOLEAN]
      /\ ctx \in [Lanes -> Contexts] /\ sent \in [Lanes -> Histories]
      /\ got \in [Lanes -> Histories] /\ Enabled
      /\ fifo \in Seq(Byte) /\ wire \in Seq(Byte) /\ win \in Seq(Byte)
  BY DEF HostInv, BusInv, BusTyped, HostTyped
<1>7. PICK l \in Lanes : Step(l) \/ Reset(l) \/ ComeUp(l) \/ GoDown(l)
  BY <1>2 DEF Produce
<1>8. Enabled'
  BY <1>6, <1>7 DEF Enabled, Step, Reset, ComeUp, GoDown
<1>9. ASSUME lost = 0 PROVE InOrder(Stream', got, sent')
  <2>1. InOrder(Stream, got, sent)
    BY <1>9 DEF HostInv
  <2>2. CASE Step(l)
    <3> DEFINE f == NextFrame(l, ctx[l])
    <3>1. txEn[l] /\ sent' = [sent EXCEPT ![l] = <<f>>]
      BY <1>6, <2>2 DEF Step, Enabled, Context
    <3>2. ctx[l] \in Contexts /\ InRecord(ctx[l])
      BY <1>6 DEF HostInv, BusInv, InCycle
    <3>3. f \in FrameSet /\ f.lane = l
      BY <3>2, NextFrameFits
    <3>4. fifo' = fifo \o Bytes(f)
      BY <2>2, <3>1, PushedWhole DEF HostInv
    <3>5. /\ \A e \in FrameSet : sent[l] = <<e>> => Follows(e, f)
          /\ sent[l] = <<>> => f.kind = "status" /\ f.seq = 0
      <4>1. sent[l] = <<>> => ctx[l] = ClearCtx
        BY DEF HostInv, BusInv, InCycle
      <4>2. NextFrame(l, ClearCtx).kind = "status" /\ NextFrame(l, ClearCtx).seq = 0
        BY DEF NextFrame, ClearCtx
      <4>3. \A e \in FrameSet : sent[l] = <<e>> => Stands(e, ctx[l])
        BY DEF HostInv, BusInv, InCycle
      <4>4. QED
        BY <3>2, <4>1, <4>2, <4>3, StandsFollows
    <3> HIDE DEF f
    <3>6. win \o wire \in Seq(Byte)
      BY <1>6, ConcatProperties
    <3>7. Stream' = (win \o wire) \o (fifo \o Bytes(f))
      BY <1>1, <3>4 DEF Stream
    <3>8. Stream \in Seq(Byte) /\ Stream' \in Seq(Byte)
      <4>1. fifo' \in Seq(Byte)
        BY <1>3 DEF BusInv, BusTyped
      <4>2. QED
        BY <1>1, <1>6, <4>1, StreamFacts DEF Stream
    <3>9. Grows(Stream, Stream', f)
      BY <1>6, <3>3, <3>6, <3>7, StreamGrows DEF Stream
    <3>10. InOrder(Stream', got, [sent EXCEPT ![f.lane] = <<f>>])
      BY <1>6, <2>1, <3>3, <3>5, <3>8, <3>9, AppendInOrder
    <3>11. QED
      BY <3>1, <3>3, <3>10
  <2>3. CASE Reset(l)
    <3>1. sent' = [sent EXCEPT ![l] = <<>>] /\ fifo' = fifo
      BY <2>3 DEF Reset
    <3>2. Stream' = Stream
      BY <1>1, <3>1 DEF Stream
    <3>3. \A k \in Lanes : sent'[k] # <<>> => sent'[k] = sent[k]
      BY <1>6, <3>1
    <3>4. EndsWith(Stream, got, sent')
      BY <2>1, <3>3 DEF InOrder, EndsWith
    <3>5. QED
      BY <2>1, <3>2, <3>4 DEF InOrder
  <2>4. CASE ComeUp(l) \/ GoDown(l)
    <3>1. sent' = sent /\ fifo' = fifo
      BY <2>4 DEF ComeUp, GoDown
    <3>2. QED
      BY <1>1, <2>1, <3>1 DEF Stream
  <2>5. QED
    BY <1>7, <2>2, <2>3, <2>4
<1>10. QED
  BY <1>1, <1>3, <1>5, <1>8, <1>9 DEF HostInv

\* Every step of the bus, the wire and the host keeps the invariant.
LEMMA HostNextKeeps == HostInv /\ [HostNext]_mvars => HostInv'
<1> SUFFICES ASSUME HostInv, [HostNext]_mvars PROVE HostInv'
  OBVIOUS
<1>1. CASE Carry
  BY <1>1, CarryKeeps
<1>2. CASE HostRead
  BY <1>2, ReadKeeps
<1>3. CASE Lanework
  BY <1>3, LaneworkKeeps
<1>4. CASE UNCHANGED mvars
  <2>1. UNCHANGED tvars /\ UNCHANGED hvars
    BY <1>4 DEF mvars
  <2>2. BusInv'
    BY <2>1, BusNextKeeps DEF HostInv
  <2>3. QED
    BY <2>1, <2>2 DEF HostInv, HostTyped, Enabled, Stream, tvars, hvars
<1>5. QED
  BY <1>1, <1>2, <1>3, <1>4 DEF HostNext

\* The invariant of the whole bus holds throughout.
LEMMA HostInvariance == HostSpec => []HostInv
  BY HostInitInv, HostNextKeeps, PTL DEF HostSpec

\* The wire and the host stay of their types, and the window the host hunts
\* in begins with a first byte unless the wire has overflowed.
THEOREM HostStaysTyped == HostSpec => []HostTypeOK
<1>1. ASSUME HostInv PROVE HostTypeOK
  <2>1. /\ wire \in Seq(Byte) /\ win \in Seq(Byte) /\ fifo \in Seq(Byte)
        /\ got \in [Lanes -> Histories] /\ lost \in 0..MaxLosses /\ MaxLosses \in Nat
    BY <1>1, HostAssumption DEF HostInv, HostTyped, BusInv, BusTyped
  <2>2. /\ \A i \in 1..Len(wire) : IsByte(wire[i])
        /\ \A i \in 1..Len(win) : IsByte(win[i])
    BY <2>1, ByteFields
  <2>3. \A l \in Lanes : got[l] = <<>> \/ got[l][1] \in FrameSet
    BY <2>1 DEF Histories
  <2>4. ASSUME win # <<>>, ~(lost > 0) PROVE IsSof(win[1])
    <3>1. lost = 0
      BY <2>1, <2>4
    <3>2. Aligned(Stream)
      BY <1>1, <3>1 DEF HostInv, InOrder
    <3>3. 1 \in 1..Len(win)
      BY <2>1, <2>4
    <3>4. Stream \in Seq(Byte) /\ Stream[1] = win[1] /\ Len(Stream) >= Len(win)
      BY <2>1, <3>3, StreamFacts DEF Stream
    <3>5. Stream # <<>>
      BY <3>3, <3>4
    <3>6. QED
      BY <3>2, <3>4, <3>5 DEF Aligned, IsSof
  <2>5. QED
    BY <1>1, <2>2, <2>3, <2>4 DEF HostInv, HostTyped, HostTypeOK
<1>2. QED
  BY <1>1, HostInvariance, PTL

\* What the host takes of a lane continues what it took of it before, in that
\* lane's cycle of records and without a hole, for any data, as long as the
\* wire has not overflowed (host_feed, host_frame).
THEOREM HostTakesInOrder == HostSpec => HostInOrder
<1>1. HostInv /\ [HostNext]_mvars =>
        [\A l \in Lanes :
           (got'[l] # got[l] /\ got[l] # <<>> /\ lost = 0)
              => \/ Follows(got[l][1], got'[l][1])
                 \/ got'[l][1].kind = "status" /\ got'[l][1].seq = 0]_mvars
  <2> SUFFICES ASSUME HostInv, [HostNext]_mvars, NEW l \in Lanes,
                      got'[l] # got[l], got[l] # <<>>, lost = 0
               PROVE  \/ Follows(got[l][1], got'[l][1])
                      \/ got'[l][1].kind = "status" /\ got'[l][1].seq = 0
    OBVIOUS
  <2> DEFINE w == Append(win, Head(wire))
  <2>1. HostRead
    BY DEF HostNext, Carry, Lanework, mvars, hvars
  <2>2. /\ wire # <<>> /\ wire' = Tail(wire) /\ Feed(Head(wire)) /\ fifo' = fifo
        /\ got \in [Lanes -> Histories] /\ sent \in [Lanes -> Histories]
        /\ InOrder(Stream, got, sent)
    BY <2>1 DEF HostRead, tvars, HostInv, HostTyped, BusInv, BusTyped
  <2>3. Len(w) = FrameBytes /\ Good(w) /\ win' = <<>> /\ Take(w[1].frame)
    BY <2>2 DEF Feed
  <2>4. w \in Seq(Byte) /\ Stream \in Seq(Byte) /\ Stream[1] = w[1]
    BY <2>2, ReadFacts
  <2> HIDE DEF w
  <2>5. Stream' \in Seq(Byte) /\ Sheds(Stream, Stream')
    BY <2>2, <2>3, TakeSheds DEF w
  <2>6. \A e \in FrameSet : got[Stream[1].frame.lane] = <<e>> => Continues(e, Stream[1].frame)
    BY <2>2, <2>4, <2>5, DropInOrder
  <2>7. got' = [got EXCEPT ![Stream[1].frame.lane] = <<Stream[1].frame>>]
    BY <2>3, <2>4 DEF Take
  <2>8. l = Stream[1].frame.lane /\ got'[l] = <<Stream[1].frame>>
    BY <2>2, <2>7
  <2>9. PICK e \in FrameSet : got[l] = <<e>>
    BY <2>2 DEF Histories
  <2>10. Continues(e, Stream[1].frame)
    BY <2>6, <2>8, <2>9
  <2>11. got[l][1] = e /\ got'[l][1] = Stream[1].frame
    BY <2>8, <2>9
  <2>12. QED
    BY <2>10, <2>11 DEF Continues
<1>2. QED
  BY <1>1, HostInvariance, PTL DEF HostSpec, HostInOrder

\* The wire and the host take nothing back from the bus: every behaviour of
\* the whole is one of the producers and the FIFO alone.
THEOREM HostImplementsBus == HostSpec => TelemetrySpec
<1>1. HostInit => TelemetryInit
  BY DEF HostInit
<1>2. [HostNext]_mvars => [TelemetryNext]_tvars
  <2> SUFFICES ASSUME [HostNext]_mvars PROVE [TelemetryNext]_tvars
    OBVIOUS
  <2>1. CASE Carry
    BY <2>1 DEF Carry, TelemetryNext
  <2>2. CASE HostRead
    BY <2>2 DEF HostRead
  <2>3. CASE Lanework
    BY <2>3 DEF Lanework, TelemetryNext, Produce
  <2>4. CASE UNCHANGED mvars
    BY <2>4 DEF mvars
  <2>5. QED
    BY <2>1, <2>2, <2>3, <2>4 DEF HostNext
<1>3. QED
  BY <1>1, <1>2, PTL DEF HostSpec, TelemetrySpec

\* So what was proved of the bus alone holds with the wire and the host on it.
THEOREM BusHoldsWithHost ==
  HostSpec => [](TelemetryTypeOK /\ NothingDropped /\ FramesWhole) /\ RecordsComplete
  BY HostImplementsBus, TelemetryTyped, ReservationHolds, FramesStayWhole, CycleKept, PTL

-----------------------------------------------------------------------------
\* The macro's schedule, drain and rotation, whatever the number of lanes and
\* of lanes ticked a block, is one of the orders the bus allows: the supervisor
\* of hw_macro_block adds nothing to what fw_telem_step may meet.
THEOREM MacroImplementsBus ==
  ASSUME NLanes \in Nat \ {0}, Lanes = 0..(NLanes - 1)
  PROVE  MacroBusSpec => TelemetrySpec
<1>1. MacroBusInit => TelemetryInit /\ rr \in Lanes
  BY DEF MacroBusInit
<1>2. rr \in Lanes /\ [MacroBusNext]_busVars => (rr \in Lanes)' /\ [TelemetryNext]_tvars
  <2> SUFFICES ASSUME rr \in Lanes, [MacroBusNext]_busVars
               PROVE  rr' \in Lanes /\ [TelemetryNext]_tvars
    OBVIOUS
  <2>1. CASE BlockBegins
    BY <2>1 DEF BlockBegins, TelemetryNext
  <2>2. CASE Tick
    <3>1. (rr + 1) % NLanes \in 0..(NLanes - 1)
      OBVIOUS
    <3>2. rr' \in Lanes
      BY <2>2, <3>1 DEF Tick
    <3>3. \/ UNCHANGED tvars
          \/ Step(rr) \/ Reset(rr) \/ ComeUp(rr) \/ GoDown(rr)
      BY <2>2 DEF Tick, TelemStep, ElsewhereStep
    <3>4. [TelemetryNext]_tvars
      BY <3>3 DEF TelemetryNext, Produce
    <3>5. QED
      BY <3>2, <3>4
  <2>3. CASE LoseLink
    <3>1. (rr + NLanes - 1) % NLanes \in Lanes
      OBVIOUS
    <3>2. \E l \in Lanes : GoDown(l)
      BY <2>3, <3>1 DEF LoseLink
    <3>3. [TelemetryNext]_tvars
      BY <3>2 DEF TelemetryNext, Produce
    <3>4. QED
      BY <2>3, <3>3 DEF LoseLink
  <2>4. CASE UNCHANGED busVars
    BY <2>4 DEF busVars
  <2>5. QED
    BY <2>1, <2>2, <2>3, <2>4 DEF MacroBusNext
<1>3. QED
  BY <1>1, <1>2, PTL DEF MacroBusSpec, TelemetrySpec

\* So under the macro's schedule, too, nothing is dropped, no frame is torn
\* and every lane sends complete record sets: what its starved lanes lose is
\* time, never bytes.
THEOREM MacroBusKeeps ==
  ASSUME NLanes \in Nat \ {0}, Lanes = 0..(NLanes - 1)
  PROVE  MacroBusSpec => [](TelemetryTypeOK /\ NothingDropped /\ FramesWhole) /\ RecordsComplete
  BY MacroImplementsBus, TelemetryTyped, ReservationHolds, FramesStayWhole, CycleKept, PTL
=============================================================================
