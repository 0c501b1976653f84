-------------------------------- MODULE Hal --------------------------------
(***************************************************************************)
(* The register file and its accessors (hal.c): one window onto the lanes' *)
(* apertures, write-one-to-clear registers, read-modify-writes that an     *)
(* interrupt may split, critical sections that hold the interrupt off and  *)
(* replay it.                                                              *)
(*                                                                         *)
(* A register word is the set of its bits that are 1.  The program calling *)
(* the accessors is any program: it may guard its read-modify-writes or    *)
(* not.  The handler writes a field of its own in CTRL of any lane, or     *)
(* does nothing, and may leave the window wherever it went.  A call that   *)
(* has no preemption point is one step; hal_field_set and hal_bit_write    *)
(* are two, the read with what hal_maybe_preempt does, and the write.      *)
(***************************************************************************)
EXTENDS Naturals

CONSTANTS
    NLanes,         \* HAL_MAX_LANES
    EventLanes,     \* lanes whose hardware raises events, a bound of the model
    MaxNest,        \* bound of the model: nesting of critical sections
    MaxPending      \* bound of the model: interrupts held off at once

ASSUME HalAssumption ==
    /\ NLanes \in Nat \ {0} /\ EventLanes \subseteq 0..(NLanes - 1)
    /\ MaxNest \in Nat \ {0} /\ MaxPending \in Nat

VARIABLES
    reg,            \* REG_FILE
    win,            \* g_lane
    crit,           \* g_crit_depth
    attached,       \* g_isr # NULL
    pending,        \* g_isr_pending
    fg,             \* where the interrupted program is in its current call
    unguarded, w1cBugs,     \* g_stats, as: was one counted since the reset
    \* what a reader of the registers is entitled to:
    sel,            \* history: the lane the program last selected
    fwBit, isrBit,  \* history: what either last wrote to its field, per lane
    owed,           \* history: events raised and not acknowledged, per lane
    due             \* history: interrupts that arrived and have not run

wires == <<win, sel, crit, attached, pending>>
stats == <<unguarded, w1cBugs>>
marks == <<fwBit, isrBit, owed, due>>
hvars == <<reg, wires, fg, stats, marks>>

Lanes  == 0..(NLanes - 1)
Events == {"los", "ovf"}
Regs   == {"CTRL", "STATUS"}
Idle   == [op |-> "idle"]

\* g_w1c_map: the bits of a register that a 1 clears.
W1cMap(r) == IF r = "STATUS" THEN Events ELSE {}

ResetFile == [l \in Lanes |-> [r \in Regs |-> {}]]
-----------------------------------------------------------------------------
\* hal_write32 on a word that holds cur.
Overwritten(cur, val, w1c) == val
Written(cur, val, w1c) ==
    IF w1c = {} THEN val ELSE (cur \ (val \cap w1c)) \cup (val \ w1c)

Store(r, val) ==
    reg' = [reg EXCEPT ![win][r] = Written(@, val, W1cMap(r))]

\* A lane number past the last is lane 0 (hal_select_lane).
Folded(l) == IF l < NLanes THEN l ELSE 0

\* Where the window points when the handler that left it at l returns.
LeftThere(saved, l) == l
Restored(saved, l) == saved

\* hal_maybe_preempt and hal_critical_exit run the handler: it writes its own
\* field of CTRL on lane l, selecting that lane for it.
IsrOn(l, v) ==
    /\ reg' = [reg EXCEPT ![l]["CTRL"] = IF v THEN @ \cup {"isr"} ELSE @ \ {"isr"}]
    /\ isrBit' = [isrBit EXCEPT ![l] = v]
    /\ win' = Restored(win, l)
IsrRuns == \/ \E l \in Lanes, v \in BOOLEAN : IsrOn(l, v)
           \/ UNCHANGED <<reg, isrBit, win>>
-----------------------------------------------------------------------------
(* The calls of the interrupted program.                                   *)

SelectLane(l) ==
    /\ fg = Idle /\ win' = Folded(l) /\ sel' = win'
    /\ UNCHANGED <<reg, crit, attached, pending, fg, stats, marks>>

CriticalEnter ==
    /\ fg = Idle /\ crit < MaxNest /\ crit' = crit + 1
    /\ UNCHANGED <<reg, win, sel, attached, pending, fg, stats, marks>>

CriticalExit ==
    /\ fg = Idle /\ crit' = IF crit > 0 THEN crit - 1 ELSE 0
    /\ fg' = [op |-> "exit"]
    /\ UNCHANGED <<reg, win, sel, attached, pending, stats, marks>>

\* The replay loop of hal_critical_exit goes round once more ...
OneMoreToReplay == crit = 0 /\ pending > 1 /\ attached
MoreToReplay == crit = 0 /\ pending > 0 /\ attached
Replay ==
    /\ fg.op = "exit" /\ MoreToReplay
    /\ IsrRuns
    /\ pending' = pending - 1 /\ due' = due - 1
    /\ UNCHANGED <<sel, crit, attached, fg, stats, fwBit, owed>>
\* ... or ends.
ExitReturns ==
    /\ fg.op = "exit" /\ ~MoreToReplay /\ fg' = Idle
    /\ UNCHANGED <<reg, wires, stats, marks>>

\* hal_maybe_preempt, between the read and the write: nobody is attached, the
\* interrupt is held off, or it runs now.
Preempted ==
    \/ ~attached /\ UNCHANGED <<reg, isrBit, win, pending, due>>
    \/ /\ attached /\ crit > 0 /\ pending < MaxPending
       /\ pending' = pending + 1 /\ due' = due + 1
       /\ UNCHANGED <<reg, isrBit, win>>
    \/ /\ attached /\ crit = 0
       /\ IsrRuns /\ UNCHANGED <<pending, due>>

\* hal_field_set and hal_bit_write: count, read, and be preempted.
RmwRead(r, mask, val) ==
    /\ fg = Idle
    /\ unguarded' = (unguarded \/ crit = 0)
    /\ w1cBugs'   = (w1cBugs \/ W1cMap(r) # {})
    /\ fg' = [op |-> "rmw", r |-> r, mask |-> mask, val |-> val,
              cur |-> reg[win][r]]
    /\ Preempted
    /\ UNCHANGED <<sel, crit, attached, fwBit, owed>>

RmwWrite ==
    /\ fg.op = "rmw"
    /\ Store(fg.r, (fg.cur \ fg.mask) \cup (fg.val \cap fg.mask))
    /\ fg' = Idle
    /\ fwBit' = IF fg.r = "CTRL" THEN [fwBit EXCEPT ![sel] = "fw" \in fg.val]
                                 ELSE fwBit
    /\ UNCHANGED <<wires, stats, isrBit, owed, due>>

\* hal_w1c: write only the bits being acknowledged.
W1c(bits) ==
    /\ fg = Idle /\ Store("STATUS", bits)
    /\ owed' = [owed EXCEPT ![sel] = @ \ bits]
    /\ UNCHANGED <<wires, fg, stats, fwBit, isrBit, due>>

\* hal_read_clear: the caller gets what it clears.
ReadClear ==
    /\ fg = Idle /\ Store("STATUS", reg[win]["STATUS"])
    /\ owed' = [owed EXCEPT ![sel] = @ \ reg[sel]["STATUS"]]
    /\ UNCHANGED <<wires, fg, stats, fwBit, isrBit, due>>
-----------------------------------------------------------------------------
(* The platform.                                                           *)

\* hw_status_set: the hardware raises an event on the lane it is running.
StatusSet(e) ==
    /\ fg = Idle /\ win \in EventLanes
    /\ reg' = [reg EXCEPT ![win]["STATUS"] = @ \cup {e}]
    /\ owed' = [owed EXCEPT ![win] = @ \cup {e}]
    /\ UNCHANGED <<wires, fg, stats, fwBit, isrBit, due>>

AttachIsr ==
    /\ fg = Idle /\ attached' = TRUE /\ pending' = 0 /\ due' = 0
    /\ UNCHANGED <<reg, win, sel, crit, fg, stats, fwBit, isrBit, owed>>
DetachIsr ==
    /\ fg = Idle /\ attached' = FALSE
    /\ UNCHANGED <<reg, win, sel, crit, pending, fg, stats, marks>>

\* hal_reset_all keeps the window and the handler.
ResetAll ==
    /\ fg = Idle /\ reg' = ResetFile
    /\ crit' = 0 /\ pending' = 0 /\ due' = 0
    /\ unguarded' = FALSE /\ w1cBugs' = FALSE
    /\ fwBit' = [l \in Lanes |-> FALSE] /\ isrBit' = [l \in Lanes |-> FALSE]
    /\ owed' = [l \in Lanes |-> {}]
    /\ UNCHANGED <<win, sel, attached, fg>>

HalInit ==
    /\ reg = ResetFile /\ win = 0 /\ sel = 0 /\ crit = 0
    /\ attached = FALSE /\ pending = 0 /\ fg = Idle
    /\ unguarded = FALSE /\ w1cBugs = FALSE
    /\ fwBit = [l \in Lanes |-> FALSE] /\ isrBit = [l \in Lanes |-> FALSE]
    /\ owed = [l \in Lanes |-> {}] /\ due = 0

Program ==
    \/ \E l \in 0..NLanes : SelectLane(l)
    \/ CriticalEnter \/ CriticalExit \/ Replay \/ ExitReturns
    \/ \E val \in SUBSET {"fw"} : RmwRead("CTRL", {"fw"}, val)
    \/ RmwRead("STATUS", {"rw"}, {"rw"})
    \/ RmwWrite
    \/ \E bits \in SUBSET Events : W1c(bits)
    \/ ReadClear
Platform == (\E e \in Events : StatusSet(e)) \/ AttachIsr \/ DetachIsr \/ ResetAll
HalNext == Program \/ Platform
HalSpec == HalInit /\ [][HalNext]_hvars
-----------------------------------------------------------------------------
Words(r) == IF r = "CTRL" THEN {"fw", "isr"} ELSE Events \cup {"rw"}
Calls == {Idle, [op |-> "exit"]} \cup
         UNION {[op : {"rmw"}, r : {r}, mask : {{"fw"}, {"rw"}},
                 val : SUBSET {"fw", "rw"}, cur : SUBSET Words(r)] : r \in Regs}

HalTypeOK ==
    /\ \A l \in Lanes : \A r \in Regs : reg[l][r] \subseteq Words(r)
    /\ {win, sel} \subseteq Lanes /\ crit \in 0..MaxNest /\ attached \in BOOLEAN
    /\ pending \in 0..MaxPending /\ due \in Nat
    /\ fg \in Calls
    /\ unguarded \in BOOLEAN /\ w1cBugs \in BOOLEAN
    /\ fwBit \in [Lanes -> BOOLEAN] /\ isrBit \in [Lanes -> BOOLEAN]
    /\ owed \in [Lanes -> SUBSET Events]

\* "An ISR touching another field [...] between our read and our write would
\* otherwise have its update silently erased" (fw_agc.c:136): as long as no
\* read-modify-write was counted as unguarded, every lane's CTRL holds what
\* the program and the handler last wrote to their fields of it, wherever the
\* handler went with the window.  The count is a complete witness.
NoLostUpdate ==
    ~unguarded =>
        \A l \in Lanes : /\ "fw"  \in reg[l]["CTRL"] <=> fwBit[l]
                         /\ "isr" \in reg[l]["CTRL"] <=> isrBit[l]

\* "The interrupt stays pending [...] and fires the moment PRIMASK clears"
\* (hal.c:267): what arrives while masked is owed exactly once, and none is
\* left when the outermost section has ended.
InterruptsServed ==
    /\ pending = due
    /\ (attached /\ crit = 0 /\ fg = Idle) => due = 0

\* "A read-modify-write on a register containing W1C bits acknowledges events
\* nobody handled" (hal.c:156), and nothing else does: as long as none was
\* counted, an event stays in STATUS until it is acknowledged by name or read.
EventsKept ==
    ~w1cBugs => \A l \in Lanes : owed[l] \subseteq reg[l]["STATUS"]
=============================================================================
