------------------------------ MODULE MgmtHost ------------------------------
(***************************************************************************)
(* The far end of the management bus: the wire (mgmt.c) and the host that  *)
(* hunts for frames in its byte stream (apps/mgmt_host.c), which shares no *)
(* state with the lanes. The CRC accepts a window that is one frame from   *)
(* its first byte to its last and rejects every other.                     *)
(***************************************************************************)
EXTENDS Telemetry

CONSTANTS
    WireBytes,   \* WIRE_BYTES
    MaxLosses,   \* bound: bytes lost on the wire in one behaviour
    MaxFaults,   \* bound: times a lane goes down in one behaviour
    Lookalikes   \* <<kind, place>>: where a frame's data equals MGMT_SOF

ASSUME HostAssumption ==
    /\ WireBytes \in Nat \ {0} /\ MaxLosses \in Nat /\ MaxFaults \in Nat
    /\ Lookalikes \subseteq Kinds \X (2..FrameBytes)

VARIABLES
    wire,        \* g_wire
    lost,        \* history: ticks that lost bytes on a full wire
    faults,      \* history: times a lane went down
    win,         \* the framing window of host_feed
    hostUp,      \* host_t.state is LS_UP
    eyeSeen,     \* eye_seen, by the chunk
    got          \* history: the last frame of each lane the host took

hvars == <<wire, lost, faults, win, hostUp, eyeSeen, got>>
mvars == <<tvars, hvars>>
-----------------------------------------------------------------------------
\* mgmt_bus_tick, the wire's side: what it cannot hold is gone, uncounted.
Room == Len(wire) + Moved <= WireBytes
Carry ==
    LET kept == Least(Moved, WireBytes - Len(wire))
    IN  /\ Room \/ lost < MaxLosses
        /\ BusTick
        /\ wire' = wire \o SubSeq(fifo, 1, kept)
        /\ lost' = IF Room THEN lost ELSE lost + 1
        /\ UNCHANGED <<faults, win, hostUp, eyeSeen, got>>

IsSof(b) == b.at = 1 \/ <<b.frame.kind, b.at>> \in Lookalikes

\* mgmt_frame_check
Good(w) == \A i \in 1..FrameBytes : w[i].at = i /\ w[i].frame = w[1].frame

\* host_frame, of a frame whose CRC is right.
Take(f) ==
    /\ hostUp' = IF f.kind = "status" THEN f.up ELSE hostUp
    /\ eyeSeen' = IF f.kind = "chunk" THEN eyeSeen \cup {f.off} ELSE eyeSeen
    /\ got' = [got EXCEPT ![f.lane] = <<f>>]

\* The fill level is not taken back with the window.
SlideFull(w) == w
\* A rejected window is thrown away whole.
SlideDiscard(w) == <<>>
\* "slide the window by one and keep hunting"
Slide(w) == Tail(w)

\* host_feed, of one byte.
Feed(b) ==
    LET w == Append(win, b)
    IN  \/ /\ win = <<>> /\ ~IsSof(b)
           /\ UNCHANGED <<win, hostUp, eyeSeen, got>>
        \/ /\ win # <<>> \/ IsSof(b)
           /\ Len(w) < FrameBytes
           /\ win' = w /\ UNCHANGED <<hostUp, eyeSeen, got>>
        \/ /\ win # <<>> \/ IsSof(b)
           /\ Len(w) = FrameBytes /\ Good(w)
           /\ win' = <<>> /\ Take(w[1].frame)
        \/ /\ win # <<>> \/ IsSof(b)
           /\ Len(w) = FrameBytes /\ ~Good(w)
           /\ win' = Slide(w) /\ UNCHANGED <<hostUp, eyeSeen, got>>

\* mgmt_wire_read and host_feed
HostRead ==
    /\ wire # <<>> /\ wire' = Tail(wire)
    /\ Feed(Head(wire))
    /\ UNCHANGED <<tvars, lost, faults>>

HostInit ==
    /\ TelemetryInit
    /\ wire = <<>> /\ lost = 0 /\ faults = 0 /\ win = <<>>
    /\ hostUp = FALSE /\ eyeSeen = {} /\ got = [l \in Lanes |-> <<>>]

\* The lanes, whose steps the wire and the host do not see.
Lanework ==
    /\ \E l \in Lanes :
         \/ (Step(l) \/ Reset(l) \/ ComeUp(l)) /\ UNCHANGED faults
         \/ GoDown(l) /\ faults < MaxFaults /\ faults' = faults + 1
    /\ UNCHANGED <<wire, lost, win, hostUp, eyeSeen, got>>

HostNext == Carry \/ HostRead \/ Lanework
HostSpec == HostInit /\ [][HostNext]_mvars

\* The block loop never stops and neither does the host; a lane that is up is
\* ticked.
HostFair ==
    /\ HostSpec
    /\ WF_mvars(Carry) /\ WF_mvars(HostRead)
    /\ WF_mvars(\E l \in Lanes : Step(l) /\ UNCHANGED hvars)
-----------------------------------------------------------------------------
HostTypeOK ==
    /\ Len(wire) <= WireBytes /\ Len(win) < FrameBytes
    /\ \A i \in 1..Len(wire) : IsByte(wire[i])
    /\ \A i \in 1..Len(win) : IsByte(win[i])
    /\ win # <<>> => IsSof(win[1]) \/ lost > 0
    /\ lost \in 0..MaxLosses /\ faults \in 0..MaxFaults /\ hostUp \in BOOLEAN
    /\ eyeSeen \subseteq 0..(Chunks - 1)
    /\ \A l \in Lanes : got[l] = <<>> \/ got[l][1] \in FrameSet

\* What the host takes of a lane is that lane's cycle of records, in order and
\* without a hole, whatever its data looks like, unless the wire overflowed or
\* the lane started over (STATUS number 0).
HostInOrder ==
    [][\A l \in Lanes :
         (got'[l] # got[l] /\ got[l] # <<>> /\ lost = 0)
            => \/ Follows(got[l][1], got'[l][1])
               \/ got'[l][1].kind = "status" /\ got'[l][1].seq = 0]_mvars

\* The host finds its way back after a loss: once a lane stays up (and the
\* wire has overflowed for the last time), it goes on taking frames, although
\* it may have been thrown off in the middle of one and the data may look like
\* a first byte, and it ends up with a whole eye: the chunk that was lost comes
\* again with the next one (mgmt_host.c:245 fails without it).
HostResyncs ==
    (\E l \in Lanes : <>[](link[l] = "up"))
        => /\ []<><<\E l \in Lanes : got'[l] # got[l]>>_mvars
           /\ <>(eyeSeen = 0..(Chunks - 1))

\* "Losing the link and not being able to say so is the worst failure mode
\* here" (fw_telem.c:25): a host that believes in a link that went down learns
\* of it, or the link comes back.
LossReported ==
    (hostUp /\ \A l \in Lanes : link[l] # "up")
        ~> (~hostUp \/ \E l \in Lanes : link[l] = "up")
=============================================================================
