------------------------------ MODULE Datapath ------------------------------
(***************************************************************************)
(* A lane's blocks of symbols (hw_lane_tx, hw_lane_rx): the codeword       *)
(* window, the equaliser's lag and its calibration, the training reference *)
(* that reaches back across the seam between blocks, and the receiver of   *)
(* module Pcs behind them.                                                 *)
(*                                                                         *)
(* What the channel, the front end, the CDR and the equaliser are to the   *)
(* symbols is a delay: the decision at n is about the symbol sent lag      *)
(* symbols earlier, and is right or wrong.                                 *)
(***************************************************************************)
EXTENDS Pcs

CONSTANTS
    BlockLen,       \* HW_BLOCK_SYMS
    LatMax, LatCorr,    \* HW_LAT_MAX, HW_LAT_CORR
    Lags,           \* the delays a lane may have
    MaxTraining,    \* bound of the model: blocks before the FEC is turned on
    MaxPayload      \* bound of the model: blocks after

ASSUME DatapathAssumption ==
    /\ {BlockLen, LatMax, LatCorr, MaxTraining, MaxPayload} \subseteq Nat \ {0}
    /\ Lags \subseteq 0..AlignMax /\ AlignMax < LatMax
    /\ LatMax - 1 + LatCorr <= BlockLen - 2 /\ AlignSyms + AlignMax <= BlockLen - 2

VARIABLES
    lag,            \* the delay this lane has, -1 before it is built
    \* hw_lane_t:
    txLat, latLocked, prevSyms, syms, decs,
    fecOn, pcsLat, pcsCalib, pcsTx, pcsRx,
    blk,            \* the block being run: number, mode, eye, rx_suspect, next symbol
    past,           \* history: the symbols of the block before, in the channel
    lastRef, lastPush   \* history: symbol a reference or a score was about,
                        \* and the symbol the decision was about
laneState == <<lag, txLat, latLocked, prevSyms>>
pcsState  == <<fecOn, pcsLat, pcsCalib>>
dpVars == <<laneState, syms, decs, pcsState, pcsTx, pcsRx, blk, past,
            lastRef, lastPush>>

Nothing == <<"none", 0>>
Same    == <<Nothing, Nothing>>
Pattern(b, n) == <<"prbs", (b % 2) * BlockLen + n>>
Zeros == [i \in 1..LatMax |-> Nothing]

Window == IF pcsCalib THEN 0 ELSE pcsLat
\* The last payload symbol of a block, and the first decision handed over.
FullWindow == BlockLen - 2
TxHigh == BlockLen - 2 - Window
RxLow  == 1 + Window
-----------------------------------------------------------------------------
\* hw_lane_init: the delay is the channel's, the estimate near it.
Build(d, estimate) ==
    /\ lag = -1 /\ lag' = d /\ txLat' = estimate
    /\ UNCHANGED <<latLocked, prevSyms, syms, decs, pcsState, pcsTx, pcsRx, blk,
                   past, lastRef, lastPush>>

\* hw_lane_set_fec, after bring-up.
SetFec ==
    /\ lag >= 0 /\ blk.at = 0 /\ ~fecOn /\ latLocked
    /\ fecOn' = TRUE /\ pcsLat' = 0 /\ pcsCalib' = TRUE
    /\ pcsTx' = 0 /\ pcsRx' = RxInit
    /\ blk' = [blk EXCEPT !.num = 0]
    /\ UNCHANGED <<laneState, syms, decs, past, lastRef, lastPush>>

\* hw_lane_tx: payload inside the window, the pattern outside it.
TxBlock(mode, eye, weak) ==
    LET InPayload(n) == fecOn /\ n >= 1 /\ n <= TxHigh
    IN  /\ lag >= 0 /\ blk.at = 0
        /\ blk.num < (IF fecOn THEN MaxPayload ELSE MaxTraining)
        /\ syms' = <<>> \o [i \in 1..BlockLen |->
                        IF InPayload(i - 1) THEN Payload(pcsTx + i - 2)
                                            ELSE Pattern(blk.num, i - 1)]
        /\ pcsTx' = IF fecOn THEN pcsTx + TxHigh ELSE pcsTx
        /\ decs' = <<>>
        /\ blk' = [num |-> blk.num + 1, at |-> 1, mode |-> mode, eye |-> eye,
                  weak |-> weak]
        /\ UNCHANGED <<laneState, pcsState, pcsRx, past, lastRef, lastPush>>

\* The symbol the decision at n is about, and the training reference for it.
Carried(n) == IF n >= lag THEN syms[n - lag + 1] ELSE past[LatMax - (lag - n) + 1]
Reference(n) ==
    IF n >= txLat THEN syms[n - txLat + 1] ELSE prevSyms[LatMax - (txLat - n) + 1]

\* While the aligner listens the eye is open but for one decision.
Plausible(right) ==
    \/ blk.eye = "open" /\ right
    \/ blk.eye = "shut" /\ ~right
    \/ /\ blk.eye = "noisy"
       /\ (pcsRx.state = "aligning" /\ ~right) =>
              \A i \in 1..Len(pcsRx.buf) : pcsRx.buf[i].right

\* One turn of hw_lane_rx's loop.
RxSymbol(right) ==
    LET n   == blk.at
        dec == [of |-> Carried(n), right |-> right]
        pushed == fecOn /\ n >= RxLow
    IN  /\ n >= 1 /\ n <= BlockLen - 2
        /\ Plausible(right)
        /\ decs' = IF blk.mode # "DATA" /\ ~latLocked THEN Append(decs, dec) ELSE decs
        /\ pcsRx' \in IF pushed THEN Push(pcsRx, dec, blk.weak) ELSE {pcsRx}
        /\ lastPush' = IF pushed /\ pcsRx.state = "running"
                       THEN <<Payload(pcsRx.ref), dec.of>> ELSE Same
        /\ lastRef' = IF blk.mode # "DATA" THEN <<Reference(n), dec.of>> ELSE Same
        /\ blk' = [blk EXCEPT !.at = n + 1]
        /\ UNCHANGED <<laneState, syms, pcsState, pcsTx, past>>

\* Sliding the transmitted symbols against the decisions.
MismatchesAt(off) ==
    Cardinality({i \in 1..LatCorr : LET d == decs[off + i]
                                    IN  ~(d.right /\ d.of = syms[1 + i])})
BestLatency == CHOOSE off \in 0..(LatMax - 1) :
    \A o \in 0..(LatMax - 1) : \/ MismatchesAt(off) < MismatchesAt(o)
                               \/ MismatchesAt(off) = MismatchesAt(o) /\ off <= o

\* The tail the next block's reference reaches back to.
TailOf(block) == SubSeq(block, BlockLen - LatMax + 1, BlockLen)
TrainingTail(block) == IF blk.mode = "DATA" THEN prevSyms ELSE TailOf(block)
CarriedTail(block) == TailOf(block)

\* The end of hw_lane_rx: lock the latency once, carry the tail forward, and
\* restart both ends with the window closed once the lag has been measured.
EndBlock ==
    /\ blk.at = BlockLen - 1
    /\ IF blk.mode # "DATA" /\ ~latLocked
       THEN /\ txLat' = BestLatency
            /\ latLocked' = (MismatchesAt(BestLatency) < LatCorr \div 2)
       ELSE UNCHANGED <<txLat, latLocked>>
    /\ prevSyms' = CarriedTail(syms)
    /\ past' = TailOf(syms)
    /\ IF fecOn /\ pcsCalib /\ pcsRx.state # "aligning"
       THEN pcsLat' = pcsRx.off /\ pcsCalib' = FALSE /\ pcsTx' = 0 /\ pcsRx' = RxInit
       ELSE UNCHANGED <<pcsLat, pcsCalib, pcsTx, pcsRx>>
    /\ blk' = [blk EXCEPT !.at = 0, !.mode = "DATA", !.eye = "open", !.weak = FALSE]
    /\ decs' = <<>> /\ syms' = <<>> /\ lastRef' = Same /\ lastPush' = Same
    /\ UNCHANGED <<lag, fecOn>>

DpInit ==
    /\ lag = -1 /\ txLat = 0 /\ latLocked = FALSE /\ prevSyms = Zeros
    /\ syms = <<>> /\ decs = <<>> /\ fecOn = FALSE /\ pcsLat = 0 /\ pcsCalib = FALSE
    /\ pcsTx = 0 /\ pcsRx = RxInit
    /\ blk = [num |-> 0, at |-> 0, mode |-> "DATA", eye |-> "open", weak |-> FALSE]
    /\ past = Zeros /\ lastRef = Same /\ lastPush = Same

DpNext ==
    \/ \E d \in Lags, e \in 0..(LatMax - 1) : Build(d, e)
    \/ SetFec
    \/ \E mode \in {"TRAIN", "VERIFY", "DATA"}, eye \in {"open", "shut"} :
           ~fecOn /\ TxBlock(mode, eye, FALSE)
    \/ \E mode \in {"VERIFY", "DATA"}, eye \in {"open", "noisy"}, weak \in BOOLEAN :
           fecOn /\ TxBlock(mode, eye, weak)
    \/ \E right \in BOOLEAN : RxSymbol(right)
    \/ EndBlock
DpSpec == DpInit /\ [][DpNext]_dpVars
-----------------------------------------------------------------------------
DpTypeOK ==
    /\ lag \in {-1} \cup Lags /\ txLat \in 0..(LatMax - 1) /\ pcsLat \in 0..AlignMax
    /\ Len(prevSyms) = LatMax /\ Len(past) = LatMax /\ blk.at \in 0..(BlockLen - 1)
    /\ pcsRx.state \in {"aligning", "skipping", "running"}
    /\ pcsRx.idx \in 0..CwSyms /\ pcsRx.nFlagged \in 0..CwGf /\ pcsRx.skip \in 0..CwSyms

\* "Decision j then carries payload symbol j, every block, with no drift to
\* accumulate" (hw_lane.c:264): every decision scored once the lag has been
\* measured is about the very symbol it is scored against, and codewords are
\* cut where the transmitter cut them.
PayloadInStep ==
    /\ ~pcsCalib => lastPush[1] = lastPush[2]
    /\ pcsRx.state = "running" => pcsRx.idx = pcsRx.ref % CwSyms

\* Once the latency is locked every reference, also one that reaches back
\* across the seam and also after blocks of traffic, is the symbol the
\* decision is about.
ReferenceFollows == latLocked => lastRef[1] = lastRef[2]

\* Errors are delivered, and codewords counted uncorrectable, only when some
\* codeword was past the code's reach for the errors and flags of its own.
ResidualExplained ==
    pcsRx.postErrors \/ pcsRx.uncorrectable => pcsRx.overBudget
=============================================================================
