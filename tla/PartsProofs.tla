----------------------------- MODULE PartsProofs -----------------------------
(***************************************************************************)
(* The parts of a lane that share no state with one another.  Here: the    *)
(* register file (HalInv), timing recovery (CdrInv), the taps (AdaptInv),  *)
(* the gain (AgcInv) and the datapath with the receiver behind it (DpInv), *)
(* each for all of its constants.  ChannelProofs and FecProofs have the    *)
(* line and the code; the last theorem is about all of them side by side.  *)
(***************************************************************************)
EXTENDS MCParts, ChannelProofs, FecProofs

(* The register file: what a reader of CTRL and STATUS is entitled to, and *)
(* the interrupts a critical section holds off.                            *)

Bits == {"fw", "isr", "rw"} \cup Events

HalTyped == reg \in [Lanes -> [Regs -> SUBSET Bits]] /\ HalTypeOK

\* A read-modify-write in flight that the count has not owned up to still
\* holds the register's word, and writes only the program's own field.
InFlight ==
    fg.op = "rmw" =>
        /\ ~unguarded => fg.cur = reg[win][fg.r]
        /\ fg.r = "CTRL" => fg.mask = {"fw"}
        /\ fg.r = "STATUS" => fg.mask = {"rw"} /\ w1cBugs

\* Nothing is held off once the last section has been left.
Drained == fg.op # "exit" /\ attached /\ crit = 0 => pending = 0

HalInv ==
    /\ HalTyped /\ win = sel /\ pending = due
    /\ InFlight /\ Drained /\ NoLostUpdate /\ EventsKept
-----------------------------------------------------------------------------
\* One register of the selected lane changes.
LEMMA StoreFacts ==
  ASSUME HalTyped, NEW r \in Regs, NEW val \in SUBSET Bits, Store(r, val)
  PROVE  /\ reg' \in [Lanes -> [Regs -> SUBSET Bits]]
         /\ reg'[win][r] = Written(reg[win][r], val, W1cMap(r))
         /\ \A l \in Lanes, q \in Regs : l # win \/ q # r => reg'[l][q] = reg[l][q]
<1>1. reg \in [Lanes -> [Regs -> SUBSET Bits]] /\ win \in Lanes
  BY DEF HalTyped, HalTypeOK
<1>2. reg[win] \in [Regs -> SUBSET Bits] /\ reg[win][r] \in SUBSET Bits
  BY <1>1
<1> DEFINE value == Written(reg[win][r], val, W1cMap(r))
<1>3. value \in SUBSET Bits
  BY <1>2 DEF Written
<1>4. reg' = [reg EXCEPT ![win] = [reg[win] EXCEPT ![r] = value]]
  BY <1>1, <1>2 DEF Store
<1> HIDE DEF value
<1>5. [reg[win] EXCEPT ![r] = value] \in [Regs -> SUBSET Bits]
  BY <1>2, <1>3
<1>6. reg' \in [Lanes -> [Regs -> SUBSET Bits]]
  BY <1>1, <1>4, <1>5
<1>7. reg'[win] = [reg[win] EXCEPT ![r] = value] /\ \A l \in Lanes : l # win => reg'[l] = reg[l]
  BY <1>1, <1>4
<1>8. reg'[win][r] = value /\ \A q \in Regs : q # r => reg'[win][q] = reg[win][q]
  BY <1>2, <1>7
<1>9. QED
  BY <1>6, <1>7, <1>8 DEF value

\* The handler, wherever it goes, changes its own field of one CTRL and puts
\* the window back.
LEMMA IsrFacts ==
  ASSUME HalTyped, IsrRuns
  PROVE  /\ reg' \in [Lanes -> [Regs -> SUBSET Bits]] /\ win' = win
         /\ isrBit' \in [Lanes -> BOOLEAN]
         /\ \A l \in Lanes :
               /\ reg'[l]["STATUS"] = reg[l]["STATUS"]
               /\ reg'[l]["CTRL"] \subseteq reg[l]["CTRL"] \cup {"isr"}
               /\ "fw" \in reg'[l]["CTRL"] <=> "fw" \in reg[l]["CTRL"]
               /\ ("isr" \in reg[l]["CTRL"] <=> isrBit[l])
                     => ("isr" \in reg'[l]["CTRL"] <=> isrBit'[l])
<1>1. reg \in [Lanes -> [Regs -> SUBSET Bits]] /\ isrBit \in [Lanes -> BOOLEAN]
  BY DEF HalTyped, HalTypeOK
<1>2. CASE UNCHANGED <<reg, isrBit, win>>
  BY <1>1, <1>2, Zenon
<1>3. ASSUME NEW k \in Lanes, NEW v \in BOOLEAN, IsrOn(k, v)
      PROVE  /\ reg' \in [Lanes -> [Regs -> SUBSET Bits]] /\ win' = win
             /\ isrBit' \in [Lanes -> BOOLEAN]
             /\ \A l \in Lanes :
                   /\ reg'[l]["STATUS"] = reg[l]["STATUS"]
                   /\ reg'[l]["CTRL"] \subseteq reg[l]["CTRL"] \cup {"isr"}
                   /\ "fw" \in reg'[l]["CTRL"] <=> "fw" \in reg[l]["CTRL"]
                   /\ ("isr" \in reg[l]["CTRL"] <=> isrBit[l])
                         => ("isr" \in reg'[l]["CTRL"] <=> isrBit'[l])
  <2> DEFINE old == reg[k]["CTRL"]
             new == IF v THEN old \cup {"isr"} ELSE old \ {"isr"}
  <2>1. reg[k] \in [Regs -> SUBSET Bits] /\ old \in SUBSET Bits /\ "CTRL" \in Regs
        /\ "STATUS" \in Regs
    BY <1>1 DEF Regs
  <2>2. new \in SUBSET Bits /\ new \subseteq old \cup {"isr"}
        /\ ("fw" \in new <=> "fw" \in old) /\ ("isr" \in new <=> v)
    BY <2>1 DEF Bits
  <2>3. reg' = [reg EXCEPT ![k] = [reg[k] EXCEPT !["CTRL"] = new]]
        /\ isrBit' = [isrBit EXCEPT ![k] = v] /\ win' = win
    BY <1>1, <1>3, <2>1 DEF IsrOn, Restored
  <2> HIDE DEF old, new
  <2>4. [reg[k] EXCEPT !["CTRL"] = new] \in [Regs -> SUBSET Bits]
    BY <2>1, <2>2
  <2>5. reg' \in [Lanes -> [Regs -> SUBSET Bits]] /\ isrBit' \in [Lanes -> BOOLEAN]
    BY <1>1, <2>3, <2>4
  <2>6. /\ reg'[k]["CTRL"] = new /\ reg'[k]["STATUS"] = reg[k]["STATUS"]
        /\ \A l \in Lanes : l # k => reg'[l] = reg[l] /\ isrBit'[l] = isrBit[l]
        /\ isrBit'[k] = v
    BY <1>1, <2>1, <2>3
  <2>7. ASSUME NEW l \in Lanes
        PROVE  /\ reg'[l]["STATUS"] = reg[l]["STATUS"]
               /\ reg'[l]["CTRL"] \subseteq reg[l]["CTRL"] \cup {"isr"}
               /\ "fw" \in reg'[l]["CTRL"] <=> "fw" \in reg[l]["CTRL"]
               /\ ("isr" \in reg[l]["CTRL"] <=> isrBit[l])
                     => ("isr" \in reg'[l]["CTRL"] <=> isrBit'[l])
    <3>1. CASE l = k
      BY <2>2, <2>6, <3>1 DEF old
    <3>2. CASE l # k
      BY <2>6, <3>2
    <3>3. QED
      BY <3>1, <3>2
  <2>8. QED
    BY <2>3, <2>5, <2>7
<1>4. QED
  BY <1>2, <1>3 DEF IsrRuns

\* After a reset of the file.
LEMMA HalInitInv == HalInit => HalInv
<1> SUFFICES ASSUME HalInit PROVE HalInv
  OBVIOUS
<1>1. reg \in [Lanes -> [Regs -> SUBSET Bits]]
  BY DEF HalInit, ResetFile
<1>2. \A l \in Lanes : \A r \in Regs : reg[l][r] = {}
  BY DEF HalInit, ResetFile
<1>3. 0 \in Lanes /\ 0 \in 0..MaxNest /\ 0 \in 0..MaxPending /\ 0 \in Nat
  BY HalAssumption DEF Lanes
<1>4. HalTypeOK
  BY <1>2, <1>3 DEF HalInit, HalTypeOK, Calls
<1>5. InFlight /\ Drained
  BY DEF HalInit, InFlight, Drained, Idle
<1>6. NoLostUpdate /\ EventsKept
  BY <1>2 DEF HalInit, NoLostUpdate, EventsKept, Regs
<1>7. QED
  BY <1>1, <1>4, <1>5, <1>6 DEF HalInit, HalInv, HalTyped

\* The read of a read-modify-write, and what may interrupt it there.
LEMMA RmwReadKeeps ==
  ASSUME HalInv, NEW r \in Regs, NEW mask \in {{"fw"}, {"rw"}}, NEW val \in SUBSET {"fw", "rw"},
         mask = (IF r = "CTRL" THEN {"fw"} ELSE {"rw"}), RmwRead(r, mask, val)
  PROVE  HalInv'
<1>1. /\ reg \in [Lanes -> [Regs -> SUBSET Bits]] /\ win \in Lanes /\ HalTyped /\ HalTypeOK
      /\ isrBit \in [Lanes -> BOOLEAN] /\ pending \in 0..MaxPending /\ pending = due
      /\ crit \in 0..MaxNest
  BY DEF HalInv, HalTyped, HalTypeOK
<1>2. /\ fg = Idle /\ unguarded' = (unguarded \/ crit = 0)
      /\ w1cBugs' = (w1cBugs \/ W1cMap(r) # {})
      /\ fg' = [op |-> "rmw", r |-> r, mask |-> mask, val |-> val, cur |-> reg[win][r]]
      /\ Preempted /\ UNCHANGED <<sel, crit, attached, fwBit, owed>>
  BY DEF RmwRead
<1>3. \/ UNCHANGED <<reg, isrBit, win, pending, due>>
      \/ attached /\ crit > 0 /\ pending < MaxPending /\ pending' = pending + 1 /\ due' = due + 1
         /\ UNCHANGED <<reg, isrBit, win>>
      \/ attached /\ crit = 0 /\ IsrRuns /\ UNCHANGED <<pending, due>>
  BY <1>2 DEF Preempted
<1>4. /\ reg' \in [Lanes -> [Regs -> SUBSET Bits]] /\ win' = win
      /\ isrBit' \in [Lanes -> BOOLEAN]
      /\ \A l \in Lanes :
            /\ reg'[l]["STATUS"] = reg[l]["STATUS"]
            /\ reg'[l]["CTRL"] \subseteq reg[l]["CTRL"] \cup {"isr"}
            /\ "fw" \in reg'[l]["CTRL"] <=> "fw" \in reg[l]["CTRL"]
            /\ ("isr" \in reg[l]["CTRL"] <=> isrBit[l])
                  => ("isr" \in reg'[l]["CTRL"] <=> isrBit'[l])
  <2>1. CASE UNCHANGED <<reg, isrBit, win>>
    BY <1>1, <2>1, Zenon
  <2>2. CASE IsrRuns
    BY <1>1, <2>2, IsrFacts
  <2>3. QED
    BY <1>3, <2>1, <2>2
<1>5. /\ pending' \in 0..MaxPending /\ pending' = due' /\ due' \in Nat
  BY <1>1, <1>3, HalAssumption
<1>6. Drained'
  BY <1>1, <1>2, <1>3 DEF HalInv, Drained, Idle
<1>7. /\ fg'.op = "rmw" /\ fg'.r = r /\ fg'.mask = mask /\ fg'.cur = reg[win][r]
  BY <1>2
<1>8. InFlight'
  <2>1. ~unguarded' => crit > 0
    <3>1. ~unguarded' => crit # 0
      BY <1>2, Zenon
    <3>2. QED
      BY <1>1, <3>1
  <2>2. crit > 0 => reg' = reg /\ win' = win
    BY <1>1, <1>3
  <2>3. r = "STATUS" => w1cBugs'
    BY <1>2 DEF W1cMap, Events
  <2>4. QED
    BY <1>7, <2>1, <2>2, <2>3 DEF InFlight
<1>9. fg' \in Calls
  <2>1. reg[win][r] \in SUBSET Words(r)
    BY <1>1 DEF HalTypeOK
  <2>2. fg' \in [op : {"rmw"}, r : {r}, mask : {{"fw"}, {"rw"}},
                 val : SUBSET {"fw", "rw"}, cur : SUBSET Words(r)]
    BY <1>2, <2>1
  <2>3. QED
    BY <2>2 DEF Calls
<1>10. \A l \in Lanes : \A q \in Regs : reg'[l][q] \subseteq Words(q)
  <2>1. ASSUME NEW l \in Lanes PROVE reg'[l]["CTRL"] \subseteq Words("CTRL")
    BY <1>1, <1>4 DEF HalTypeOK, Words, Regs
  <2>2. ASSUME NEW l \in Lanes PROVE reg'[l]["STATUS"] \subseteq Words("STATUS")
    BY <1>1, <1>4 DEF HalTypeOK, Regs
  <2>3. QED
    BY <2>1, <2>2 DEF Regs
<1>11. HalTyped'
  <2>1. unguarded' \in BOOLEAN /\ w1cBugs' \in BOOLEAN
    BY <1>2, Zenon
  <2>2. QED
    BY <1>1, <1>2, <1>4, <1>5, <1>9, <1>10, <2>1 DEF HalTyped, HalTypeOK
<1>12. NoLostUpdate'
  <2>1. ~unguarded' => ~unguarded
    BY <1>2
  <2>2. QED
    BY <1>2, <1>4, <2>1 DEF HalInv, NoLostUpdate
<1>13. EventsKept'
  <2>1. ~w1cBugs' => ~w1cBugs
    BY <1>2
  <2>2. QED
    BY <1>2, <1>4, <2>1 DEF HalInv, EventsKept
<1>14. QED
  BY <1>2, <1>4, <1>5, <1>6, <1>8, <1>11, <1>12, <1>13 DEF HalInv

\* The write: an honest one puts back what it read but for its own field.
LEMMA RmwWriteKeeps == HalInv /\ RmwWrite => HalInv'
<1> SUFFICES ASSUME HalInv, RmwWrite PROVE HalInv'
  OBVIOUS
<1> DEFINE value == (fg.cur \ fg.mask) \cup (fg.val \cap fg.mask)
<1>1. /\ reg \in [Lanes -> [Regs -> SUBSET Bits]] /\ win \in Lanes /\ win = sel
      /\ HalTyped /\ HalTypeOK /\ fwBit \in [Lanes -> BOOLEAN]
  BY DEF HalInv, HalTyped, HalTypeOK
<1>2. /\ fg.op = "rmw" /\ Store(fg.r, value) /\ fg' = Idle
      /\ fwBit' = IF fg.r = "CTRL" THEN [fwBit EXCEPT ![sel] = "fw" \in fg.val] ELSE fwBit
      /\ UNCHANGED <<wires, stats, isrBit, owed, due>>
  BY DEF RmwWrite
<1>3. PICK r \in Regs : fg \in [op : {"rmw"}, r : {r}, mask : {{"fw"}, {"rw"}},
                                 val : SUBSET {"fw", "rw"}, cur : SUBSET Words(r)]
  BY <1>1, <1>2 DEF HalTypeOK, Calls, Idle
<1>4. /\ fg.r = r /\ fg.mask \in {{"fw"}, {"rw"}} /\ fg.val \in SUBSET {"fw", "rw"}
      /\ fg.cur \in SUBSET Words(r)
  BY <1>3
<1>5. value \in SUBSET Bits
  BY <1>4 DEF Words, Bits, Events
<1>6. /\ reg' \in [Lanes -> [Regs -> SUBSET Bits]]
      /\ reg'[win][r] = Written(reg[win][r], value, W1cMap(r))
      /\ \A l \in Lanes, q \in Regs : l # win \/ q # r => reg'[l][q] = reg[l][q]
  BY <1>1, <1>2, <1>4, <1>5, StoreFacts
<1>7. /\ fwBit' \in [Lanes -> BOOLEAN]
      /\ r = "CTRL" => fwBit'[win] = ("fw" \in fg.val)
      /\ \A l \in Lanes : r # "CTRL" \/ l # win => fwBit'[l] = fwBit[l]
  <2>1. CASE r = "CTRL"
    <3>1. fwBit' = [fwBit EXCEPT ![win] = "fw" \in fg.val] /\ ("fw" \in fg.val) \in BOOLEAN
      BY <1>1, <1>2, <1>4, <2>1
    <3>2. QED
      BY <1>1, <2>1, <3>1, Zenon
  <2>2. CASE r # "CTRL"
    BY <1>1, <1>2, <1>4, <2>2
  <2>3. QED
    BY <2>1, <2>2
<1>8. /\ r = "CTRL" => fg.mask = {"fw"}
      /\ r = "STATUS" => fg.mask = {"rw"} /\ w1cBugs
      /\ ~unguarded => fg.cur = reg[win][r]
  BY <1>2, <1>4 DEF HalInv, InFlight
<1>9. r = "CTRL" => reg'[win][r] = (fg.cur \ {"fw"}) \cup (fg.val \cap {"fw"})
  BY <1>6, <1>8 DEF Written, W1cMap
<1> HIDE DEF value
<1>10. \A l \in Lanes : \A q \in Regs : reg'[l][q] \subseteq Words(q)
  <2>1. reg'[win][r] \subseteq Words(r)
    <3>1. CASE r = "CTRL"
      BY <1>4, <1>9, <3>1 DEF Words
    <3>2. CASE r = "STATUS"
      <4>1. reg[win][r] \subseteq Words(r)
        BY <1>1 DEF HalTypeOK
      <4>2. value \subseteq Words(r)
        <5>1. fg.cur \subseteq Events \cup {"rw"}
          BY <1>4, <3>2 DEF Words
        <5>2. QED
          BY <1>4, <1>8, <3>2, <5>1 DEF value, Words
      <4>3. QED
        BY <1>6, <4>1, <4>2 DEF Written
    <3>3. QED
      BY <3>1, <3>2 DEF Regs
  <2>2. QED
    BY <1>1, <1>6, <2>1 DEF HalTypeOK
<1>11. HalTyped'
  <2>1. fg' \in Calls
    BY <1>2 DEF Calls
  <2>2. QED
    BY <1>1, <1>2, <1>6, <1>7, <1>10, <2>1 DEF HalTyped, HalTypeOK, wires, stats
<1>12. InFlight' /\ Drained'
  BY <1>2 DEF HalInv, InFlight, Drained, Idle, wires
<1>13. NoLostUpdate'
  <2> SUFFICES ASSUME ~unguarded, NEW l \in Lanes
               PROVE  /\ "fw"  \in reg'[l]["CTRL"] <=> fwBit'[l]
                      /\ "isr" \in reg'[l]["CTRL"] <=> isrBit[l]
    BY <1>2 DEF NoLostUpdate, stats
  <2>1. /\ "fw"  \in reg[l]["CTRL"] <=> fwBit[l]
        /\ "isr" \in reg[l]["CTRL"] <=> isrBit[l]
    BY DEF HalInv, NoLostUpdate
  <2>2. CASE l = win /\ r = "CTRL"
    BY <1>7, <1>8, <1>9, <2>1, <2>2
  <2>3. CASE l # win \/ r # "CTRL"
    BY <1>6, <1>7, <2>1, <2>3 DEF Regs
  <2>4. QED
    BY <2>2, <2>3
<1>14. EventsKept'
  <2>1. CASE r = "STATUS"
    BY <1>2, <1>8, <2>1 DEF EventsKept, stats
  <2>2. CASE r # "STATUS"
    BY <1>2, <1>6, <2>2 DEF HalInv, EventsKept, stats, Regs
  <2>3. QED
    BY <2>1, <2>2
<1>15. QED
  BY <1>2, <1>11, <1>12, <1>13, <1>14 DEF HalInv, wires

\* An acknowledgement, by name or by reading.
LEMMA AckKeeps ==
  HalInv /\ ((\E bits \in SUBSET Events : W1c(bits)) \/ ReadClear) => HalInv'
<1> SUFFICES ASSUME HalInv, (\E bits \in SUBSET Events : W1c(bits)) \/ ReadClear PROVE HalInv'
  OBVIOUS
<1>1. /\ reg \in [Lanes -> [Regs -> SUBSET Bits]] /\ win \in Lanes /\ win = sel
      /\ HalTyped /\ HalTypeOK /\ owed \in [Lanes -> SUBSET Events] /\ "STATUS" \in Regs
  BY DEF HalInv, HalTyped, HalTypeOK, Regs
<1> DEFINE cur == reg[win]["STATUS"]
<1>2. cur \subseteq Events \cup {"rw"} /\ cur \in SUBSET Bits
  BY <1>1 DEF HalTypeOK, Words, Bits
<1>3. PICK val \in SUBSET Bits : \E bits \in SUBSET Events :
         /\ fg = Idle /\ Store("STATUS", val)
         /\ owed' = [owed EXCEPT ![win] = @ \ bits]
         /\ bits = val \cap Events /\ val \subseteq Events \cup cur
         /\ UNCHANGED <<wires, fg, stats, fwBit, isrBit, due>>
  <2>1. CASE \E bits \in SUBSET Events : W1c(bits)
    <3>1. PICK bits \in SUBSET Events : W1c(bits)
      BY <2>1
    <3>2. bits \in SUBSET Bits /\ bits = bits \cap Events
      BY DEF Bits
    <3>3. QED
      BY <1>1, <3>1, <3>2 DEF W1c
  <2>2. CASE ReadClear
    <3> DEFINE bits == cur \cap Events
    <3>1. owed[win] \ cur = owed[win] \ bits /\ bits \in SUBSET Events
      BY <1>1
    <3>2. /\ fg = Idle /\ Store("STATUS", cur)
          /\ owed' = [owed EXCEPT ![win] = owed[win] \ bits]
          /\ UNCHANGED <<wires, fg, stats, fwBit, isrBit, due>>
      BY <1>1, <2>2, <3>1 DEF ReadClear
    <3>3. QED
      BY <1>1, <1>2, <3>1, <3>2
  <2>3. QED
    BY <2>1, <2>2
<1>4. PICK bits \in SUBSET Events :
         /\ fg = Idle /\ Store("STATUS", val)
         /\ owed' = [owed EXCEPT ![win] = @ \ bits]
         /\ bits = val \cap Events /\ val \subseteq Events \cup cur
         /\ UNCHANGED <<wires, fg, stats, fwBit, isrBit, due>>
  BY <1>3
<1>5. /\ reg' \in [Lanes -> [Regs -> SUBSET Bits]]
      /\ reg'[win]["STATUS"] = Written(cur, val, W1cMap("STATUS"))
      /\ \A l \in Lanes, q \in Regs : l # win \/ q # "STATUS" => reg'[l][q] = reg[l][q]
  BY <1>1, <1>4, StoreFacts
<1>6. reg'[win]["STATUS"] = (cur \ bits) \cup (val \ Events)
  BY <1>4, <1>5 DEF Written, W1cMap, Events
<1>7. reg'[win]["STATUS"] \subseteq Words("STATUS")
  BY <1>2, <1>4, <1>6 DEF Words
<1>8. \A l \in Lanes : \A q \in Regs : reg'[l][q] \subseteq Words(q)
  BY <1>1, <1>5, <1>7 DEF HalTypeOK
<1>9. /\ owed' \in [Lanes -> SUBSET Events] /\ owed'[win] = owed[win] \ bits
      /\ \A l \in Lanes : l # win => owed'[l] = owed[l]
  BY <1>1, <1>4
<1>10. HalTyped'
  BY <1>1, <1>4, <1>5, <1>8, <1>9 DEF HalTyped, HalTypeOK, wires, stats
<1>11. InFlight' /\ Drained'
  BY <1>4 DEF HalInv, InFlight, Drained, Idle, wires
<1>12. NoLostUpdate'
  BY <1>4, <1>5 DEF HalInv, NoLostUpdate, stats, Regs
<1>13. EventsKept'
  <2> SUFFICES ASSUME ~w1cBugs, NEW l \in Lanes PROVE owed'[l] \subseteq reg'[l]["STATUS"]
    BY <1>4 DEF EventsKept, stats
  <2>1. owed[l] \subseteq reg[l]["STATUS"]
    BY DEF HalInv, EventsKept
  <2>2. CASE l = win
    BY <1>6, <1>9, <2>1, <2>2
  <2>3. CASE l # win
    BY <1>1, <1>5, <1>9, <2>1, <2>3
  <2>4. QED
    BY <2>2, <2>3
<1>14. QED
  BY <1>4, <1>10, <1>11, <1>12, <1>13 DEF HalInv, wires

\* The hardware raises an event.
LEMMA StatusSetKeeps ==
  ASSUME HalInv, NEW e \in Events, StatusSet(e)
  PROVE  HalInv'
<1>1. /\ reg \in [Lanes -> [Regs -> SUBSET Bits]] /\ win \in Lanes
      /\ HalTypeOK /\ owed \in [Lanes -> SUBSET Events] /\ "STATUS" \in Regs
  BY DEF HalInv, HalTyped, HalTypeOK, Regs
<1>2. reg[win] \in [Regs -> SUBSET Bits] /\ reg[win]["STATUS"] \in SUBSET Words("STATUS")
  BY <1>1 DEF HalTypeOK
<1> DEFINE value == reg[win]["STATUS"] \cup {e}
<1>3. /\ fg = Idle /\ reg' = [reg EXCEPT ![win] = [reg[win] EXCEPT !["STATUS"] = value]]
      /\ owed' = [owed EXCEPT ![win] = @ \cup {e}]
      /\ UNCHANGED <<wires, fg, stats, fwBit, isrBit, due>>
  BY <1>1, <1>2 DEF StatusSet
<1>4. value \in SUBSET Bits /\ value \subseteq Words("STATUS")
  BY <1>2 DEF Bits, Words
<1> HIDE DEF value
<1>5. /\ [reg[win] EXCEPT !["STATUS"] = value] \in [Regs -> SUBSET Bits]
      /\ reg' \in [Lanes -> [Regs -> SUBSET Bits]]
  BY <1>1, <1>2, <1>3, <1>4
<1>6. /\ reg'[win]["STATUS"] = value /\ reg'[win]["CTRL"] = reg[win]["CTRL"]
      /\ \A l \in Lanes : l # win => reg'[l] = reg[l]
  BY <1>1, <1>2, <1>3 DEF Regs
<1>7. \A l \in Lanes : \A q \in Regs : reg'[l][q] \subseteq Words(q)
  BY <1>1, <1>4, <1>6 DEF HalTypeOK, Regs
<1>8. /\ owed' \in [Lanes -> SUBSET Events] /\ owed'[win] = owed[win] \cup {e}
      /\ \A l \in Lanes : l # win => owed'[l] = owed[l]
  BY <1>1, <1>3
<1>9. HalTyped'
  BY <1>1, <1>3, <1>5, <1>7, <1>8 DEF HalTyped, HalTypeOK, wires, stats
<1>10. InFlight' /\ Drained'
  BY <1>3 DEF HalInv, InFlight, Drained, Idle, wires
<1>11. NoLostUpdate'
  <2>1. \A l \in Lanes : reg'[l]["CTRL"] = reg[l]["CTRL"]
    BY <1>6
  <2>2. QED
    BY <1>3, <2>1 DEF HalInv, NoLostUpdate, stats
<1>12. EventsKept'
  <2> SUFFICES ASSUME ~w1cBugs, NEW l \in Lanes PROVE owed'[l] \subseteq reg'[l]["STATUS"]
    BY <1>3 DEF EventsKept, stats
  <2>1. owed[l] \subseteq reg[l]["STATUS"]
    BY DEF HalInv, EventsKept
  <2>2. QED
    BY <1>6, <1>8, <2>1 DEF value
<1>13. QED
  BY <1>3, <1>9, <1>10, <1>11, <1>12 DEF HalInv, wires

\* A handler that was held off runs when the section ends.
LEMMA ReplayKeeps == HalInv /\ Replay => HalInv'
<1> SUFFICES ASSUME HalInv, Replay PROVE HalInv'
  OBVIOUS
<1>1. HalTyped /\ HalTypeOK /\ pending \in 0..MaxPending /\ pending = due
  BY DEF HalInv, HalTyped, HalTypeOK
<1>2. /\ fg.op = "exit" /\ pending > 0 /\ IsrRuns
      /\ pending' = pending - 1 /\ due' = due - 1
      /\ UNCHANGED <<sel, crit, attached, fg, stats, fwBit, owed>>
  BY DEF Replay, MoreToReplay
<1>3. /\ reg' \in [Lanes -> [Regs -> SUBSET Bits]] /\ win' = win
      /\ isrBit' \in [Lanes -> BOOLEAN]
      /\ \A l \in Lanes :
            /\ reg'[l]["STATUS"] = reg[l]["STATUS"]
            /\ reg'[l]["CTRL"] \subseteq reg[l]["CTRL"] \cup {"isr"}
            /\ "fw" \in reg'[l]["CTRL"] <=> "fw" \in reg[l]["CTRL"]
            /\ ("isr" \in reg[l]["CTRL"] <=> isrBit[l])
                  => ("isr" \in reg'[l]["CTRL"] <=> isrBit'[l])
  BY <1>1, <1>2, IsrFacts
<1>4. pending' \in 0..MaxPending /\ pending' = due' /\ due' \in Nat
  BY <1>1, <1>2, HalAssumption
<1>5. \A l \in Lanes : \A q \in Regs : reg'[l][q] \subseteq Words(q)
  <2>1. ASSUME NEW l \in Lanes
        PROVE  /\ reg'[l]["CTRL"] \subseteq Words("CTRL")
               /\ reg'[l]["STATUS"] \subseteq Words("STATUS")
    BY <1>1, <1>3 DEF HalTypeOK, Words, Regs
  <2>2. QED
    BY <2>1 DEF Regs
<1>6. HalTyped'
  BY <1>1, <1>2, <1>3, <1>4, <1>5 DEF HalTyped, HalTypeOK, stats
<1>7. InFlight' /\ Drained'
  BY <1>2 DEF HalInv, InFlight, Drained
<1>8. NoLostUpdate' /\ EventsKept'
  BY <1>2, <1>3 DEF HalInv, NoLostUpdate, EventsKept, stats
<1>9. QED
  BY <1>2, <1>3, <1>4, <1>6, <1>7, <1>8 DEF HalInv

\* The calls that leave the register file alone.
LEMMA QuietKeeps ==
  ASSUME HalInv,
         \/ \E l \in 0..NLanes : SelectLane(l)
         \/ CriticalEnter \/ CriticalExit \/ ExitReturns \/ AttachIsr \/ DetachIsr
  PROVE  HalInv'
<1>1. /\ HalTyped /\ HalTypeOK /\ pending \in 0..MaxPending /\ crit \in 0..MaxNest
      /\ MaxNest \in Nat /\ NLanes \in Nat \ {0} /\ MaxPending \in Nat
  BY HalAssumption DEF HalInv, HalTyped, HalTypeOK
<1>2. /\ UNCHANGED <<reg, unguarded, w1cBugs, fwBit, isrBit, owed>>
  BY DEF SelectLane, CriticalEnter, CriticalExit, ExitReturns, AttachIsr, DetachIsr, wires,
         stats, marks
<1>3. win' \in Lanes /\ win' = sel'
  BY <1>1 DEF SelectLane, CriticalEnter, CriticalExit, ExitReturns, AttachIsr, DetachIsr, wires,
              HalInv, HalTypeOK, Folded, Lanes
<1>4. crit' \in 0..MaxNest
  BY <1>1 DEF SelectLane, CriticalEnter, CriticalExit, ExitReturns, AttachIsr, DetachIsr, wires
<1>5. pending' \in 0..MaxPending /\ pending' = due' /\ due' \in Nat
  BY <1>1 DEF SelectLane, CriticalEnter, CriticalExit, ExitReturns, AttachIsr, DetachIsr, wires,
              marks, HalInv
<1>6. attached' \in BOOLEAN /\ fg' \in Calls /\ fg'.op # "rmw"
  <2>1. attached' = attached \/ attached' = TRUE \/ attached' = FALSE
    BY Zenon DEF SelectLane, CriticalEnter, CriticalExit, ExitReturns, AttachIsr, DetachIsr, wires
  <2>2. fg' = Idle \/ fg' = [op |-> "exit"]
    BY Zenon DEF SelectLane, CriticalEnter, CriticalExit, ExitReturns, AttachIsr, DetachIsr
  <2>3. fg' \in Calls
    BY <2>2, Zenon DEF Calls
  <2>4. fg'.op # "rmw"
    BY <2>2 DEF Idle
  <2>5. attached' \in BOOLEAN
    BY <1>1, <2>1, Zenon DEF HalTypeOK
  <2>6. QED
    BY <2>3, <2>4, <2>5
<1>7. HalTyped'
  BY <1>1, <1>2, <1>3, <1>4, <1>5, <1>6 DEF HalTyped, HalTypeOK
<1>8. Drained'
  <2>1. CASE (\E l \in 0..NLanes : SelectLane(l)) \/ DetachIsr \/ AttachIsr
    BY <2>1 DEF HalInv, Drained, SelectLane, DetachIsr, AttachIsr
  <2>2. CASE CriticalEnter
    BY <1>1, <2>2 DEF Drained, CriticalEnter
  <2>3. CASE CriticalExit
    BY <2>3 DEF Drained, CriticalExit
  <2>4. CASE ExitReturns
    BY <1>1, <2>4 DEF Drained, ExitReturns, MoreToReplay, wires
  <2>5. QED
    BY <2>1, <2>2, <2>3, <2>4
<1>9. InFlight'
  BY <1>6 DEF InFlight
<1>10. NoLostUpdate' /\ EventsKept'
  BY <1>2 DEF HalInv, NoLostUpdate, EventsKept
<1>11. QED
  BY <1>3, <1>5, <1>7, <1>8, <1>9, <1>10 DEF HalInv

\* hal_reset_all.
LEMMA ResetKeeps == HalInv /\ ResetAll => HalInv'
<1> SUFFICES ASSUME HalInv, ResetAll PROVE HalInv'
  OBVIOUS
<1>1. HalTypeOK /\ win = sel
  BY DEF HalInv, HalTyped
<1>2. reg' \in [Lanes -> [Regs -> SUBSET Bits]] /\ \A l \in Lanes : \A r \in Regs : reg'[l][r] = {}
  BY DEF ResetAll, ResetFile
<1>3. 0 \in 0..MaxNest /\ 0 \in 0..MaxPending /\ 0 \in Nat
  BY HalAssumption
<1>4. HalTyped'
  BY <1>1, <1>2, <1>3 DEF ResetAll, HalTyped, HalTypeOK
<1>5. InFlight' /\ Drained'
  BY DEF ResetAll, InFlight, Drained, Idle
<1>6. NoLostUpdate' /\ EventsKept'
  BY <1>2 DEF ResetAll, NoLostUpdate, EventsKept, Regs
<1>7. QED
  BY <1>1, <1>4, <1>5, <1>6 DEF ResetAll, HalInv

\* Every call, every interrupt and every event keeps the invariant.
LEMMA HalNextKeeps == HalInv /\ [HalNext]_hvars => HalInv'
<1> SUFFICES ASSUME HalInv, [HalNext]_hvars PROVE HalInv'
  OBVIOUS
<1>1. CASE Program
  <2>1. ASSUME NEW val \in SUBSET {"fw"}, RmwRead("CTRL", {"fw"}, val) PROVE HalInv'
    <3>1. val \in SUBSET {"fw", "rw"} /\ "CTRL" \in Regs
      BY DEF Regs
    <3>2. QED
      BY <2>1, <3>1, RmwReadKeeps
  <2>2. CASE RmwRead("STATUS", {"rw"}, {"rw"})
    <3>1. {"rw"} \in SUBSET {"fw", "rw"} /\ "STATUS" \in Regs
      BY DEF Regs
    <3>2. QED
      BY <2>2, <3>1, RmwReadKeeps
  <2>3. QED
    BY <1>1, <2>1, <2>2, QuietKeeps, ReplayKeeps, RmwWriteKeeps, AckKeeps DEF Program
<1>2. CASE Platform
  BY <1>2, StatusSetKeeps, QuietKeeps, ResetKeeps DEF Platform
<1>3. CASE UNCHANGED hvars
  <2>1. UNCHANGED <<reg, win, sel, crit, attached, pending, fg, unguarded, w1cBugs,
                    fwBit, isrBit, owed, due>>
    BY <1>3 DEF hvars, wires, stats, marks
  <2>2. QED
    BY <2>1 DEF HalInv, HalTyped, HalTypeOK, InFlight, Drained, NoLostUpdate, EventsKept
<1>4. QED
  BY <1>1, <1>2, <1>3 DEF HalNext

\* The invariant of the register file holds throughout.
LEMMA HalInvariance == HalSpec => []HalInv
  BY HalInitInv, HalNextKeeps, PTL DEF HalSpec

\* The register file stays of its type and the window where the program
\* selected it, whatever lane a handler selects for itself (hal.c).
THEOREM HalStaysTyped == HalSpec => [](HalTypeOK /\ win = sel)
<1>1. HalInv => HalTypeOK /\ win = sel
  BY DEF HalInv, HalTyped
<1>2. QED
  BY <1>1, HalInvariance, PTL

\* As long as no read-modify-write was counted as unguarded, every lane's CTRL
\* holds what the program and the handler last wrote (hal_field_set).
THEOREM CountIsWitness == HalSpec => []NoLostUpdate
<1>1. HalInv => NoLostUpdate
  BY DEF HalInv
<1>2. QED
  BY <1>1, HalInvariance, PTL

\* Every interrupt held off is run exactly once, and none is left when the
\* outermost section has ended (hal_critical_exit).
THEOREM NoneLeftPending == HalSpec => []InterruptsServed
<1>1. HalInv => InterruptsServed
  BY DEF HalInv, InterruptsServed, Drained, Idle
<1>2. QED
  BY <1>1, HalInvariance, PTL

\* As long as no read-modify-write of a W1C register was counted, an event
\* stays in STATUS until it is acknowledged (hal_w1c, hal_read_clear).
THEOREM EventsStay == HalSpec => []EventsKept
<1>1. HalInv => EventsKept
  BY DEF HalInv
<1>2. QED
  BY <1>1, HalInvariance, PTL
-----------------------------------------------------------------------------
(* Timing recovery.                                                        *)

\* The lock is what the counter says, and only quiet symbols filled it.
CdrInv ==
    /\ CdrTypeOK /\ lockCount <= Dwell
    /\ locked <=> lockCount >= Dwell
    /\ LockMeansHeld

\* The constants, and a phase brought back inside its interval.
LEMMA CdrFacts ==
  /\ Ui \in Nat \ {0} /\ IntegMax \in Nat \ {0} /\ Gain \in Nat \ {0}
  /\ NoWrap \in Nat \ {0} /\ Dwell \in Nat \ {0}
  /\ 0 \in Drifts /\ \A d \in Drifts : d \in Int
  /\ \A p \in Int : Wrapped(p) \in 0..(Ui - 1) /\ Drifted(p) \in 0..(Ui - 1)
<1>1. /\ Ui \in Nat \ {0} /\ IntegMax \in Nat \ {0} /\ Gain \in Nat \ {0}
      /\ NoWrap \in Nat \ {0} /\ Dwell \in Nat \ {0} /\ 0 \in Drifts
  BY CdrAssumption
<1>2. \A d \in Drifts : d \in Int
  BY <1>1, CdrAssumption
<1>3. \A p \in Int : Wrapped(p) \in 0..(Ui - 1) /\ Drifted(p) \in 0..(Ui - 1)
  BY <1>1 DEF Wrapped, Drifted
<1>4. QED
  BY <1>1, <1>2, <1>3

\* A symbol with the loop on.
LEMMA UpdateKeeps ==
  ASSUME CdrInv, NEW e \in Errors, NEW calm \in BOOLEAN, UpdateSymbol(e, calm)
  PROVE  CdrInv'
<1> DEFINE i    == Within(integ + e, -IntegMax, IntegMax)
           p    == phase + Gain * e + i
           held == IF OffEnd(p) THEN 0
                   ELSE IF sinceWrap <= NoWrap THEN sinceWrap + 1 ELSE sinceWrap
           good == calm /\ held > NoWrap /\ OffRail(i)
<1>1. /\ phase \in Int /\ integ \in (-IntegMax)..IntegMax /\ sinceWrap \in 0..(NoWrap + 1)
      /\ lockCount \in 0..Dwell /\ e \in Int /\ drift \in Int /\ Gain * e \in Int
      /\ IntegMax \in Nat \ {0} /\ Dwell \in Nat \ {0} /\ NoWrap \in Nat \ {0}
  BY CdrFacts DEF CdrInv, CdrTypeOK, Errors
<1>2. i \in (-IntegMax)..IntegMax
  BY <1>1 DEF Within
<1>3. p \in Int
  BY <1>1, <1>2
<1>4. held \in 0..(NoWrap + 1)
  BY <1>1
<1>5. /\ integ' = i /\ sinceWrap' = held /\ phase' = Drifted(Wrapped(p) + drift)
      /\ lockCount' = Counted(lockCount, good) /\ locked' = (lockCount' >= Dwell)
      /\ cdrOn' = cdrOn /\ drift' = drift
  BY DEF UpdateSymbol
<1>6. phase' \in 0..(Ui - 1)
  BY <1>1, <1>3, <1>5, CdrFacts
<1> HIDE DEF i, p, held
<1>7. /\ lockCount' \in 0..Dwell
      /\ lockCount' >= Dwell => good
  <2>1. CASE good
    BY <1>1, <1>5, <2>1 DEF Counted
  <2>2. CASE ~good
    <3>1. lockCount' = IF lockCount > 0 THEN lockCount - 1 ELSE 0
      BY <1>5, <2>2 DEF Counted
    <3>2. QED
      BY <1>1, <3>1
  <2>3. QED
    BY <2>1, <2>2
<1>8. LockMeansHeld'
  BY <1>5, <1>7 DEF LockMeansHeld
<1>9. CdrTypeOK'
  <2>1. locked' \in BOOLEAN
    BY <1>5
  <2>2. QED
    BY <1>2, <1>4, <1>5, <1>6, <1>7, <2>1 DEF CdrInv, CdrTypeOK
<1>10. lockCount' <= Dwell /\ (locked' <=> lockCount' >= Dwell)
  <2>1. lockCount' <= Dwell
    BY <1>1, <1>7
  <2>2. locked' <=> lockCount' >= Dwell
    BY <1>5, Zenon
  <2>3. QED
    BY <2>1, <2>2
<1>11. QED
  BY <1>8, <1>9, <1>10 DEF CdrInv

\* Every symbol and every switch keeps the invariant.
LEMMA CdrNextKeeps == CdrInv /\ [CdrNext]_cdrVars => CdrInv'
<1> SUFFICES ASSUME CdrInv, [CdrNext]_cdrVars PROVE CdrInv'
  OBVIOUS
<1>1. CASE CoastSymbol
  <2>1. phase \in Int /\ drift \in Int
    BY CdrFacts DEF CdrInv, CdrTypeOK
  <2>2. phase' \in 0..(Ui - 1)
    BY <1>1, <2>1, CdrFacts DEF CoastSymbol
  <2>3. QED
    BY <1>1, <2>2 DEF CoastSymbol, CdrInv, CdrTypeOK, LockMeansHeld, detector
<1>2. CASE Switch
  BY <1>2 DEF Switch, CdrInv, CdrTypeOK, LockMeansHeld, detector
<1>3. ASSUME NEW d \in Drifts, PowerUp(d) PROVE CdrInv'
  BY <1>3 DEF PowerUp, CdrInv, CdrTypeOK, LockMeansHeld, detector
<1>4. CASE UNCHANGED cdrVars
  BY <1>4 DEF cdrVars, CdrInv, CdrTypeOK, LockMeansHeld, detector
<1>5. QED
  BY <1>1, <1>2, <1>3, <1>4, UpdateKeeps DEF CdrNext

\* The invariant of the loop holds throughout.
LEMMA CdrInvariance == CdrSpec => []CdrInv
<1>1. CdrInit => CdrInv
  <2> SUFFICES ASSUME CdrInit PROVE CdrInv
    OBVIOUS
  <2>1. Ui \div 2 \in 0..(Ui - 1) /\ Dwell \in Nat \ {0}
    BY CdrFacts
  <2>2. CdrTypeOK
    <3>1. 0 \in (-IntegMax)..IntegMax /\ 0 \in 0..(NoWrap + 1) /\ 0 \in Nat /\ 0 \in Drifts
      BY CdrFacts
    <3>2. phase = Ui \div 2 /\ integ = 0 /\ sinceWrap = 0 /\ lockCount = 0 /\ drift = 0
      BY DEF CdrInit
    <3>3. locked \in BOOLEAN /\ cdrOn \in BOOLEAN
      BY DEF CdrInit
    <3>4. QED
      BY <2>1, <3>1, <3>2, <3>3 DEF CdrTypeOK
  <2>3. lockCount <= Dwell /\ ~(lockCount >= Dwell) /\ ~locked
    BY <2>1 DEF CdrInit
  <2>4. QED
    BY <2>2, <2>3 DEF CdrInv, LockMeansHeld
<1>2. QED
  BY <1>1, CdrNextKeeps, PTL DEF CdrSpec

\* The loop stays of its type: the phase inside one interval, whatever the
\* drift, and the integrator inside its clamp (cdr_update).
THEOREM CdrStaysTyped == CdrSpec => []CdrTypeOK
<1>1. CdrInv => CdrTypeOK
  BY DEF CdrInv
<1>2. QED
  BY <1>1, CdrInvariance, PTL

\* The lock detector does not lie about what it counts, the wraps of cdr_update
\* and the rail, for any interval, gain, dwell and drift. A wrap by the drift
\* of hw_lane_rx alone is not counted (hw_lane.c:446).
THEOREM LockIsHonest == CdrSpec => []LockMeansHeld
<1>1. CdrInv => LockMeansHeld
  BY DEF CdrInv
<1>2. QED
  BY <1>1, CdrInvariance, PTL
-----------------------------------------------------------------------------
(* The taps.                                                               *)

AccRange == (-AccMax - 1)..AccMax
TapRange == (-ApplyMax - 1)..ApplyMax
Gears    == {GearNone, GearAcq, GearTrack}
TapContexts == [acc : [Taps -> AccRange], settled : 0..QuietBlocks, prev : [Taps -> TapRange]]
Controls == [mu : {0, 8, 10}, leak : {0, TrackLeak}, en : {{}, {"ffe", "dfe"}}]

AdaptTyped ==
    /\ ctx \in [AdaptLanes -> TapContexts]
    /\ tapReg \in [AdaptLanes -> [Taps -> TapRange]]
    /\ ctrl \in [AdaptLanes -> Controls]
    /\ \A l \in AdaptLanes : Gear(ctrl[l]) \in Gears
    /\ cached \in Gears /\ ln \in AdaptLanes

AdaptInv == AdaptTyped /\ SettledExpressible

\* The constants.
LEMMA AdaptFacts ==
  /\ AccMax \in Nat \ {0} /\ ApplyMax \in Nat \ {0} /\ TrackLeak \in Nat \ {0}
  /\ QuietBlocks \in Nat \ {0} /\ 2^ApplyShift \in 1..AccMax /\ 2^TrackLeak \in Nat \ {0}
  /\ FirstLane \in AdaptLanes /\ \A l \in AdaptLanes : Grads[l] \subseteq Int
<1>1. /\ AccMax \in Nat \ {0} /\ ApplyMax \in Nat \ {0} /\ TrackLeak \in Nat \ {0}
      /\ QuietBlocks \in Nat \ {0} /\ ApplyShift \in Nat
      /\ FirstLane \in AdaptLanes /\ \A l \in AdaptLanes : Grads[l] \subseteq Int
  BY AdaptAssumption
<1>2. 2^TrackLeak \in Nat \ {0}
  BY <1>1, PowerOfTwo
<1>3. PICK p \in Nat \ {0} : p = 2^ApplyShift
  BY <1>1, PowerOfTwo
<1>4. p <= AccMax
  BY <1>3, AdaptAssumption, Zenon
<1>5. p \in 1..AccMax
  BY <1>1, <1>4
<1>6. 2^ApplyShift \in 1..AccMax
  BY <1>3, <1>5, Zenon
<1>7. QED
  BY <1>1, <1>2, <1>6

\* Dividing by a power of two keeps the sign and never grows.
LEMMA Halved ==
  ASSUME NEW a \in Int, NEW d \in Nat \ {0}
  PROVE  /\ a \div d \in Int
         /\ a >= 0 => a \div d >= 0 /\ a \div d <= a
         /\ a < 0 => a \div d < 0 /\ a \div d >= a
  OBVIOUS

\* The gain of a gear never turns a gradient round.
LEMMA ScaledSign ==
  ASSUME NEW g \in Int, NEW mu \in {0, 8, 10}
  PROVE  /\ Scaled(g, mu) \in Int
         /\ Scaled(g, mu) < 0 => g < 0
         /\ Scaled(g, mu) > 0 => g > 0
<1>1. 2^8 = 256 /\ 2^2 = 4 /\ 2^0 = 1 /\ MuBias = 8
  BY DEF MuBias
<1>2. CASE mu = 0
  <2>1. Scaled(g, mu) = g \div 256
    BY <1>1, <1>2 DEF Scaled, Shr
  <2>2. QED
    BY <2>1
<1>3. CASE mu = 8
  <2>1. Scaled(g, mu) = g * 1
    BY <1>1, <1>3 DEF Scaled
  <2>2. QED
    BY <2>1
<1>4. CASE mu = 10
  <2>1. Scaled(g, mu) = g * 4
    BY <1>1, <1>4 DEF Scaled
  <2>2. QED
    BY <2>1
<1>5. QED
  BY <1>2, <1>3, <1>4

\* Neither the end of the accumulator nor the leak turns a tap round.
LEMMA AddAndLeak ==
  ASSUME NEW a \in AccRange, NEW push \in Int, NEW leak \in {0, TrackLeak}
  PROVE  LET new == Leaked(SatAdd32(a, push), leak)
         IN  /\ new \in AccRange
             /\ new < 0 => a + push < 0
             /\ new > 0 => a + push > 0
<1>1. AccMax \in Nat \ {0} /\ 2^TrackLeak \in Nat \ {0} /\ TrackLeak \in Nat \ {0}
  BY AdaptFacts
<1> DEFINE s == SatAdd32(a, push)
<1>2. /\ s \in AccRange /\ s \in Int
      /\ s < 0 => a + push < 0
      /\ s > 0 => a + push > 0
  BY <1>1 DEF SatAdd32, Sat, AccRange
<1> HIDE DEF s
<1> SUFFICES /\ Leaked(s, leak) \in AccRange
             /\ Leaked(s, leak) < 0 => s < 0
             /\ Leaked(s, leak) > 0 => s > 0
  BY <1>2 DEF s
<1>3. CASE leak = 0
  BY <1>2, <1>3 DEF Leaked
<1>4. CASE leak = TrackLeak
  <2> DEFINE h == s \div 2^TrackLeak
  <2>1. Leaked(s, leak) = s - h
    BY <1>1, <1>4 DEF Leaked, Shr
  <2>2. /\ h \in Int
        /\ s >= 0 => h >= 0 /\ h <= s
        /\ s < 0 => h < 0 /\ h >= s
    BY <1>1, <1>2, Halved
  <2> HIDE DEF h
  <2>3. /\ s - h \in AccRange
        /\ s - h < 0 => s < 0
        /\ s - h > 0 => s > 0
    BY <1>1, <1>2, <2>2 DEF AccRange
  <2>4. QED
    BY <1>2, <2>1, <2>3
<1>5. QED
  BY <1>3, <1>4

\* What is published fits the register, and is what was wanted if that fits.
LEMMA PublishedFits ==
  ASSUME NEW acc \in AccRange
  PROVE  /\ Wanted(acc) \in Int /\ Published(acc) \in TapRange
         /\ Wanted(acc) \in TapRange => Published(acc) = Wanted(acc)
<1>1. /\ acc \in Int /\ 2^ApplyShift \in Nat \ {0} /\ ApplyMax \in Nat \ {0}
  BY AdaptFacts DEF AccRange
<1>2. Wanted(acc) \in Int
  BY <1>1 DEF Wanted, Shr
<1>3. QED
  BY <1>1, <1>2 DEF Published, Sat, TapRange

\* The gears, and what a lane in service holds.
LEMMA GearFields ==
  /\ \A c \in Gears : c.mu \in {0, 8, 10} /\ c.leak \in {0, TrackLeak}
  /\ Gears \subseteq [mu : {0, 8, 10}, leak : {0, TrackLeak}]
  BY DEF Gears, GearNone, GearAcq, GearTrack

\* What a block makes of one accumulator.
LEMMA NewAccFits ==
  ASSUME AdaptTyped, NEW t \in Taps, NEW g \in Int
  PROVE  /\ NewAcc(t, g) \in AccRange
         /\ LET was == ctx[ln].acc[t]
                push == IF t = "dfe" THEN -g ELSE g
            IN  /\ was >= 0 /\ NewAcc(t, g) < 0 => push < 0
                /\ was <= 0 /\ NewAcc(t, g) > 0 => push > 0
<1> DEFINE was == ctx[ln].acc[t]
           step == IF t = "dfe" THEN -Scaled(g, cached.mu) ELSE Scaled(g, cached.mu)
<1>1. /\ was \in AccRange /\ was \in Int
      /\ cached.mu \in {0, 8, 10} /\ cached.leak \in {0, TrackLeak}
  <2>1. ctx[ln] \in TapContexts
    BY DEF AdaptTyped
  <2>2. was \in AccRange
    BY <2>1 DEF TapContexts
  <2>3. QED
    BY <2>2, GearFields DEF AdaptTyped, AccRange
<1>2. /\ Scaled(g, cached.mu) \in Int
      /\ Scaled(g, cached.mu) < 0 => g < 0
      /\ Scaled(g, cached.mu) > 0 => g > 0
  BY <1>1, ScaledSign
<1>3. CASE Enabled(t) /\ t # "cursor"
  <2>1. NewAcc(t, g) = Leaked(SatAdd32(was, step), cached.leak)
    BY <1>3 DEF NewAcc, Pushed, Taps, Ffe, Dfe
  <2>2. step \in Int
    BY <1>2
  <2> HIDE DEF step, was
  <2>3. /\ NewAcc(t, g) \in AccRange
        /\ NewAcc(t, g) < 0 => was + step < 0
        /\ NewAcc(t, g) > 0 => was + step > 0
    BY <1>1, <2>1, <2>2, AddAndLeak
  <2>4. /\ was >= 0 /\ NewAcc(t, g) < 0 => step < 0
        /\ was <= 0 /\ NewAcc(t, g) > 0 => step > 0
    BY <1>1, <2>2, <2>3
  <2>5. QED
    BY <1>2, <2>3, <2>4 DEF step, was
<1>4. CASE ~(Enabled(t) /\ t # "cursor")
  <2>1. NewAcc(t, g) = was
    BY <1>4 DEF NewAcc
  <2> HIDE DEF was
  <2>2. ~(was >= 0 /\ was < 0) /\ ~(was <= 0 /\ was > 0)
    BY <1>1
  <2>3. QED
    BY <1>1, <2>1, <2>2 DEF was
<1>5. QED
  BY <1>3, <1>4

\* Before the first reset.
LEMMA AdaptInitInv == AdaptInit => AdaptInv
<1> SUFFICES ASSUME AdaptInit PROVE AdaptInv
  OBVIOUS
<1>1. 0 \in AccRange /\ 0 \in TapRange /\ 0 \in 0..QuietBlocks
  BY AdaptFacts DEF AccRange, TapRange
<1> DEFINE c0 == [acc |-> [t \in Taps |-> 0], settled |-> 0, prev |-> [t \in Taps |-> 0]]
           k0 == [mu |-> 0, leak |-> 0, en |-> {}]
<1>2. c0 \in TapContexts /\ c0.settled = 0
  BY <1>1 DEF TapContexts
<1>3. k0 \in Controls /\ Gear(k0) \in Gears
  BY DEF Controls, Gear, Gears, GearNone
<1>4. /\ ctx = [l \in AdaptLanes |-> c0] /\ ctrl = [l \in AdaptLanes |-> k0]
      /\ tapReg = [l \in AdaptLanes |-> [t \in Taps |-> 0]]
      /\ cached = GearNone /\ ln = FirstLane
  BY DEF AdaptInit
<1> HIDE DEF c0, k0
<1>5. tapReg \in [AdaptLanes -> [Taps -> TapRange]]
  BY <1>1, <1>4
<1>6. AdaptTyped
  BY <1>2, <1>3, <1>4, <1>5, AdaptFacts DEF AdaptTyped, Gears
<1>7. SettledExpressible
  BY <1>2, <1>4 DEF SettledExpressible
<1>8. QED
  BY <1>6, <1>7 DEF AdaptInv

\* The reset of the lane in service.
LEMMA AdaptResetKeeps == AdaptInv /\ AdaptReset => AdaptInv'
<1> SUFFICES ASSUME AdaptInv, AdaptReset PROVE AdaptInv'
  OBVIOUS
<1> DEFINE c0 == [acc |-> SpikeAcc, settled |-> 0, prev |-> [t \in Taps |-> 0]]
           k0 == [mu |-> 0, leak |-> 0, en |-> {}]
           r0 == [t \in Taps |-> Published(SpikeAcc[t])]
<1>1. 0 \in AccRange /\ 0 \in TapRange /\ 0 \in 0..QuietBlocks /\ Spike \in AccRange
  BY AdaptFacts DEF AccRange, TapRange, Spike
<1>2. SpikeAcc \in [Taps -> AccRange]
  BY <1>1 DEF SpikeAcc
<1>3. c0 \in TapContexts /\ c0.settled = 0
  BY <1>1, <1>2 DEF TapContexts
<1>4. k0 \in Controls /\ Gear(k0) \in Gears
  BY DEF Controls, Gear, Gears, GearNone
<1>5. r0 \in [Taps -> TapRange]
  BY <1>2, PublishedFits
<1>6. /\ ctx' = [ctx EXCEPT ![ln] = c0] /\ ctrl' = [ctrl EXCEPT ![ln] = k0]
      /\ tapReg' = [tapReg EXCEPT ![ln] = r0] /\ cached' = cached /\ ln' = ln
  BY DEF AdaptReset
<1> HIDE DEF c0, k0, r0
<1>7. AdaptTyped
  BY DEF AdaptInv
<1>8. AdaptTyped'
  BY <1>3, <1>4, <1>5, <1>6, <1>7 DEF AdaptTyped
<1>9. SettledExpressible'
  BY <1>3, <1>6, <1>7 DEF AdaptInv, AdaptTyped, SettledExpressible
<1>10. QED
  BY <1>8, <1>9 DEF AdaptInv

\* The gear and the enabled loops, and the lane in service.
LEMMA GearKeeps ==
  AdaptInv /\ ((\E l \in AdaptLanes : SelectAdaptLane(l)) \/ Acquire \/ Track \/ Freeze)
     => AdaptInv'
<1> SUFFICES ASSUME AdaptInv,
                    (\E l \in AdaptLanes : SelectAdaptLane(l)) \/ Acquire \/ Track \/ Freeze
             PROVE  AdaptInv'
  OBVIOUS
<1>1. AdaptTyped /\ ctrl[ln] \in Controls
  BY DEF AdaptInv, AdaptTyped
<1>2. UNCHANGED <<ctx, tapReg>>
  BY DEF SelectAdaptLane, Acquire, Track, Freeze
<1>3. SettledExpressible'
  BY <1>2 DEF AdaptInv, SettledExpressible
<1>4. AdaptTyped'
  <2>1. CASE \E l \in AdaptLanes : SelectAdaptLane(l)
    BY <1>1, <2>1 DEF AdaptTyped, SelectAdaptLane, GearOf
  <2>2. ASSUME NEW k \in Controls, Gear(k) \in Gears, NEW g \in Gears,
               ctrl' = [ctrl EXCEPT ![ln] = k], cached' = g, ln' = ln
        PROVE  AdaptTyped'
    BY <1>1, <1>2, <2>2 DEF AdaptTyped
  <2>3. CASE Acquire
    <3> DEFINE k == [mu |-> GearAcq.mu, leak |-> GearAcq.leak, en |-> {"ffe", "dfe"}]
    <3>1. k \in Controls /\ Gear(k) \in Gears /\ GearAcq \in Gears
      BY DEF Controls, Gear, Gears, GearAcq
    <3>2. ctrl' = [ctrl EXCEPT ![ln] = k] /\ cached' = GearAcq /\ ln' = ln
      BY <2>3 DEF Acquire
    <3>3. QED
      BY <2>2, <3>1, <3>2
  <2>4. CASE Track
    <3> DEFINE k == [ctrl[ln] EXCEPT !.mu = 8, !.leak = TrackLeak]
    <3>1. k \in Controls /\ k.mu = 8 /\ k.leak = TrackLeak
      BY <1>1 DEF Controls
    <3>2. Gear(k) \in Gears /\ GearTrack \in Gears
      BY <3>1 DEF Gear, Gears, GearTrack
    <3>3. ctrl' = [ctrl EXCEPT ![ln] = k] /\ cached' = GearTrack /\ ln' = ln
      BY <1>1, <2>4 DEF Track, GearTrack, AdaptTyped, Controls
    <3> HIDE DEF k
    <3>4. QED
      BY <2>2, <3>1, <3>2, <3>3
  <2>5. CASE Freeze
    <3> DEFINE k == [mu |-> 0, leak |-> 0, en |-> {}]
    <3>1. k \in Controls /\ Gear(k) \in Gears
      BY DEF Controls, Gear, Gears, GearNone
    <3>2. ctrl' = [ctrl EXCEPT ![ln] = k] /\ cached' = cached /\ ln' = ln
      BY <2>5 DEF Freeze
    <3>3. cached \in Gears
      BY <1>1 DEF AdaptTyped
    <3>4. QED
      BY <2>2, <3>1, <3>2, <3>3
  <2>6. QED
    BY <2>1, <2>3, <2>4, <2>5
<1>5. QED
  BY <1>3, <1>4 DEF AdaptInv

\* A block: quiet is counted only while every tap holds what is asked for.
LEMMA BlockKeeps ==
  ASSUME AdaptInv, ctrl[ln].en # {}, NEW g \in Gradients, AdaptStep(g)
  PROVE  AdaptInv'
<1> DEFINE acc    == [t \in Taps |-> NewAcc(t, g[t])]
           newReg == [t \in Taps |-> IF Enabled(t) THEN Published(acc[t]) ELSE tapReg[ln][t]]
           By(t)  == Abs(newReg[t] - ctx[ln].prev[t])
           moved  == By("cursor") + By("ffe") + By("dfe")
           quiet  == moved <= QuietDelta /\ ~Railed(acc)
           set    == IF ~quiet THEN 0
                     ELSE IF ctx[ln].settled < QuietBlocks THEN ctx[ln].settled + 1
                     ELSE ctx[ln].settled
<1>1. /\ AdaptTyped /\ ln \in AdaptLanes /\ ctx[ln] \in TapContexts /\ ctrl[ln] \in Controls
      /\ ctx \in [AdaptLanes -> TapContexts]
      /\ tapReg \in [AdaptLanes -> [Taps -> TapRange]]
  BY DEF AdaptInv, AdaptTyped
<1>2. /\ tapReg' = [tapReg EXCEPT ![ln] = newReg]
      /\ ctx' = [ctx EXCEPT ![ln] = [acc |-> acc, prev |-> newReg, settled |-> set]]
      /\ UNCHANGED <<ctrl, cached, ln>>
  BY <1>1 DEF AdaptStep
<1>3. \A t \in Taps : g[t] \in Int
  BY <1>1, AdaptFacts DEF Gradients
<1>4. acc \in [Taps -> AccRange]
  BY <1>1, <1>3, NewAccFits
<1>5. \A t \in Taps : Enabled(t)
  <2>1. ctrl[ln].en = {"ffe", "dfe"}
    BY <1>1 DEF Controls
  <2>2. QED
    BY <2>1 DEF Enabled
<1> HIDE DEF acc
<1>6. newReg = [t \in Taps |-> Published(acc[t])]
  BY <1>5
<1>7. /\ newReg \in [Taps -> TapRange]
      /\ \A t \in Taps : Wanted(acc[t]) \in TapRange => newReg[t] = Wanted(acc[t])
  <2>1. \A t \in Taps : /\ Published(acc[t]) \in TapRange
                        /\ Wanted(acc[t]) \in TapRange => Published(acc[t]) = Wanted(acc[t])
    BY <1>4, PublishedFits
  <2>2. QED
    BY <1>6, <2>1
<1>8. set \in 0..QuietBlocks
  <2>1. ctx[ln].settled \in 0..QuietBlocks /\ QuietBlocks \in Nat
    BY <1>1, AdaptFacts DEF TapContexts
  <2>2. QED
    BY <2>1
<1>9. set > 0 => \A t \in Taps : Wanted(acc[t]) \in TapRange
  BY DEF Railed, TapRange
<1> HIDE DEF newReg, set
<1> DEFINE c == [acc |-> acc, prev |-> newReg, settled |-> set]
<1>10. c \in TapContexts
  BY <1>4, <1>7, <1>8 DEF TapContexts
<1>11. c.acc = acc /\ c.settled = set
  OBVIOUS
<1>12. ctx' = [ctx EXCEPT ![ln] = c]
  BY <1>2
<1> HIDE DEF c
<1>13. AdaptTyped'
  BY <1>1, <1>2, <1>7, <1>10, <1>12 DEF AdaptTyped
<1>14. ASSUME NEW l \in AdaptLanes, ctx'[l].settled > 0, NEW t \in Taps
       PROVE  tapReg'[l][t] = Wanted(ctx'[l].acc[t])
  <2>1. CASE l = ln
    <3>1. ctx'[l] = c /\ tapReg'[l] = newReg
      BY <1>1, <1>2, <1>12, <2>1
    <3>2. set > 0
      BY <1>11, <1>14, <3>1
    <3>3. QED
      BY <1>7, <1>9, <1>11, <3>1, <3>2
  <2>2. CASE l # ln
    <3>1. ctx'[l] = ctx[l] /\ tapReg'[l] = tapReg[l]
      BY <1>1, <1>2, <2>2
    <3>2. QED
      BY <1>14, <3>1 DEF AdaptInv, SettledExpressible
  <2>3. QED
    BY <2>1, <2>2
<1>15. QED
  BY <1>13, <1>14 DEF AdaptInv, SettledExpressible

\* Every block, reset and change of gear keeps the invariant.
LEMMA AdaptNextKeeps == AdaptInv /\ [AdaptNext]_adaptVars => AdaptInv'
<1> SUFFICES ASSUME AdaptInv, [AdaptNext]_adaptVars PROVE AdaptInv'
  OBVIOUS
<1>1. CASE AdaptBlock
  BY <1>1, BlockKeeps DEF AdaptBlock
<1>2. CASE UNCHANGED adaptVars
  BY <1>2 DEF adaptVars, AdaptInv, AdaptTyped, SettledExpressible
<1>3. QED
  BY <1>1, <1>2, AdaptResetKeeps, GearKeeps DEF AdaptNext

\* The invariant of the taps holds throughout.
LEMMA AdaptInvariance == AdaptSpec => []AdaptInv
  BY AdaptInitInv, AdaptNextKeeps, PTL DEF AdaptSpec

\* Accumulators, registers and gears stay inside their words (fw_adapt.c).
THEOREM AdaptStaysTyped == AdaptSpec => []AdaptTypeOK
<1>1. AdaptInv => AdaptTypeOK
  <2> SUFFICES ASSUME AdaptInv, NEW l \in AdaptLanes
               PROVE  /\ \A t \in Taps : ctx[l].acc[t] \in AccRange
                      /\ \A t \in Taps : {tapReg[l][t], ctx[l].prev[t]} \subseteq TapRange
                      /\ ctx[l].settled \in 0..QuietBlocks
                      /\ Gear(ctrl[l]) \in Gears /\ cached.mu \in 0..15
    BY DEF AdaptTypeOK, AccRange, TapRange, Gears
  <2>1. ctx[l] \in TapContexts /\ tapReg[l] \in [Taps -> TapRange]
    BY DEF AdaptInv, AdaptTyped
  <2>2. cached.mu \in {0, 8, 10}
    BY GearFields DEF AdaptInv, AdaptTyped
  <2>3. QED
    BY <2>1, <2>2 DEF AdaptInv, AdaptTyped, TapContexts
<1>2. QED
  BY <1>1, AdaptInvariance, PTL

\* A loop that counts quiet blocks is one whose registers hold what is asked
\* for, for any number of lanes, any gradients and any widths (fw_adapt_step).
THEOREM QuietIsExpressible == AdaptSpec => []SettledExpressible
<1>1. AdaptInv => SettledExpressible
  BY DEF AdaptInv
<1>2. QED
  BY <1>1, AdaptInvariance, PTL

\* A block turns a tap round only by pushing it there (fw_adapt_step).
THEOREM OnlyGradientTurns == AdaptSpec => TurnedOnlyByGradient
<1> DEFINE Pushes(t, g) == IF t = "dfe" THEN -g[t] ELSE g[t]
           By(g)        == ctrl[ln].en # {} /\ AdaptStep(g)
           Turns == \A t \in Taps :
             LET was == ctx[ln].acc[t]
                 is  == ctx'[ln].acc[t]
             IN  /\ was >= 0 /\ is < 0 => \A g \in Gradients : By(g) => Pushes(t, g) < 0
                 /\ was <= 0 /\ is > 0 => \A g \in Gradients : By(g) => Pushes(t, g) > 0
<1>1. AdaptInv => Turns
  <2> SUFFICES ASSUME AdaptInv, NEW t \in Taps, NEW g \in Gradients, AdaptStep(g)
               PROVE  LET was == ctx[ln].acc[t]
                          is  == ctx'[ln].acc[t]
                      IN  /\ was >= 0 /\ is < 0 => Pushes(t, g) < 0
                          /\ was <= 0 /\ is > 0 => Pushes(t, g) > 0
    OBVIOUS
  <2>1. AdaptTyped /\ ln \in AdaptLanes /\ ctx \in [AdaptLanes -> TapContexts]
    BY DEF AdaptInv, AdaptTyped
  <2>2. g[t] \in Int
    BY <2>1, AdaptFacts DEF Gradients
  <2>3. ctx'[ln].acc[t] = NewAcc(t, g[t])
    BY <2>1 DEF AdaptStep
  <2>4. QED
    BY <2>1, <2>2, <2>3, NewAccFits
<1>2. AdaptInv /\ [AdaptNext]_adaptVars => [Turns]_adaptVars
  BY <1>1
<1>3. QED
  BY <1>2, AdaptInvariance, PTL DEF AdaptSpec, TurnedOnlyByGradient
-----------------------------------------------------------------------------
(* The gain.                                                               *)

GainContexts == [target : Nat, bias : Nat, settled : 0..3, filt : Int]

AgcInv ==
    /\ vga \in 0..63 /\ tia \in 0..15
    /\ agc \in GainContexts
    /\ agcBlocks \in 0..AgcBudget
    /\ afe \in [level : Nat, mode : {"electrical", "optical"}]

\* The filter and the settle counter of a context.
Filling(c, f, n) == [c EXCEPT !.filt = f, !.settled = n]
LEMMA FillingFits ==
  ASSUME NEW c \in GainContexts, NEW f \in Int, NEW n \in 0..3
  PROVE  /\ Filling(c, f, n) \in GainContexts
         /\ Filling(c, f, n).settled = n
         /\ Filling(c, f, n).filt = f
         /\ Filling(c, f, n).target = c.target
<1> DEFINE e == [c EXCEPT !.filt = f]
<1>1. e \in GainContexts /\ e.filt = f /\ e.target = c.target
  BY DEF GainContexts
<1> HIDE DEF e
<1>2. Filling(c, f, n) = [e EXCEPT !.settled = n]
  BY DEF e, Filling
<1>3. QED
  BY <1>1, <1>2 DEF GainContexts

\* The error of a block is a number, whatever the curves of the two DACs.
LEMMA ErrorIsInt ==
  ASSUME AgcInv
  PROVE  Filtered(agc.filt, Mean) \in Int /\ agc.target - Filtered(agc.filt, Mean) \in Int
<1>1. /\ afe.level \in Nat /\ vga \in 0..63 /\ tia \in 0..15 /\ agc.filt \in Int
      /\ agc.target \in Nat
  BY DEF AgcInv, GainContexts
<1>2. VgaGain[vga] \in Nat /\ TiaGain[tia] \in Nat
  BY <1>1, AgcAssumption DEF VgaCodes, TiaCodes
<1> DEFINE a == (afe.level * VgaGain[vga]) \div 1000
           b == IF afe.mode = "optical" THEN TiaGain[tia] ELSE 1000
<1>3. a \in Int /\ b \in Int
  BY <1>1, <1>2
<1>4. Mean = (a * b) \div 1000
  BY DEF Mean
<1> HIDE DEF a, b
<1>5. Mean \in Int
  BY <1>3, <1>4
<1>6. QED
  BY <1>1, <1>5 DEF Filtered

\* Out of band the step points where the error does, and is never zero.
LEMMA StepSign ==
  ASSUME NEW err \in Int
  PROVE  /\ Step(err) \in -4..4
         /\ err > 0 => Step(err) > 0
         /\ err < 0 => Step(err) < 0
<1> DEFINE q == Quot(err, 520)
<1>1. q \in Int /\ (err > 0 => q >= 0) /\ (err < 0 => q <= 0)
  BY DEF Quot
<1>2. Step(err) = IF Clamp(q, -4, 4) # 0 THEN Clamp(q, -4, 4) ELSE IF err > 0 THEN 1 ELSE -1
  BY DEF Step, Deadband, MaxStep
<1> HIDE DEF q
<1>3. /\ Clamp(q, -4, 4) \in -4..4
      /\ err > 0 => Clamp(q, -4, 4) >= 0
      /\ err < 0 => Clamp(q, -4, 4) <= 0
  BY <1>1 DEF Clamp
<1>4. QED
  BY <1>2, <1>3

\* The trade keeps both codes in their fields, and the pair follows the step.
LEMMA TradeFollows ==
  ASSUME AgcInv, NEW n \in -4..4, n # 0
  PROVE  /\ Traded(vga + n)[1] \in 0..15 /\ Traded(vga + n)[2] \in 0..63
         /\ n > 0 => \/ Lower(<<tia, vga>>, Traded(vga + n))
                     \/ Traded(vga + n) = <<tia, vga>> /\ AtCorner
         /\ n < 0 => \/ Lower(Traded(vga + n), <<tia, vga>>)
                     \/ Traded(vga + n) = <<tia, vga>> /\ AtCorner
<1>1. vga \in 0..63 /\ tia \in 0..15 /\ VgaCodes = 64 /\ TiaCodes = 16 /\ vga + n \in Int
      /\ 64 \div 2 = 32
  BY DEF AgcInv, VgaCodes, TiaCodes
<1>2. CASE vga + n \in 0..63
  <2>1. Traded(vga + n) = <<tia, vga + n>>
    BY <1>1, <1>2 DEF Traded
  <2>2. QED
    BY <1>1, <1>2, <2>1 DEF Lower
<1>3. CASE vga + n >= 64 /\ tia < 15
  <2>1. Traded(vga + n) = <<tia + 1, 32>> /\ n > 0
    BY <1>1, <1>3 DEF Traded
  <2>2. QED
    BY <1>1, <1>3, <2>1 DEF Lower
<1>4. CASE vga + n >= 64 /\ ~(tia < 15)
  <2>1. Traded(vga + n) = <<tia, 63>> /\ n > 0
    BY <1>1, <1>4 DEF Traded
  <2>2. QED
    BY <1>1, <1>4, <2>1 DEF Lower, AtCorner
<1>5. CASE vga + n < 0 /\ tia > 0
  <2>1. Traded(vga + n) = <<tia - 1, 32>> /\ n < 0
    BY <1>1, <1>5 DEF Traded
  <2>2. QED
    BY <1>1, <1>5, <2>1 DEF Lower
<1>6. CASE vga + n < 0 /\ ~(tia > 0)
  <2>1. Traded(vga + n) = <<tia, 0>> /\ n < 0
    BY <1>1, <1>6 DEF Traded
  <2>2. QED
    BY <1>1, <1>6, <2>1 DEF Lower, AtCorner
<1>7. QED
  BY <1>1, <1>2, <1>3, <1>4, <1>5, <1>6

\* What a block does to the codes.
LEMMA BlockMoves ==
  ASSUME AgcInv, AgcBlock
  PROVE  /\ AgcInv'
         /\ LET was == <<tia, vga>>
                is  == <<tia', vga'>>
                err == agc'.target - agc'.filt
            IN  /\ agc'.settled > 0 => is = was
                /\ agc'.settled = 0 /\ err > 0 => Lower(was, is) \/ (is = was /\ AtCorner)
                /\ agc'.settled = 0 /\ err <= 0 => Lower(is, was) \/ (is = was /\ AtCorner)
<1> DEFINE filt == Filtered(agc.filt, Mean)
           err  == agc.target - filt
<1>1. filt \in Int /\ err \in Int
  BY ErrorIsInt
<1>2. /\ agc \in GainContexts
      /\ agc.settled \in 0..3 /\ agcBlocks \in 0..AgcBudget /\ AgcBudget \in Nat
      /\ vga \in 0..63 /\ tia \in 0..15
      /\ afe \in [level : Nat, mode : {"electrical", "optical"}]
  BY AgcAssumption DEF AgcInv, GainContexts
<1>3. /\ agcBlocks < AgcBudget /\ agcBlocks' = agcBlocks + 1 /\ afe' = afe
      /\ \/ /\ err > -260 /\ err < 260
            /\ agc' = [agc EXCEPT !.filt = filt, !.settled = IF @ < 3 THEN @ + 1 ELSE @]
            /\ vga' = vga /\ tia' = tia
         \/ /\ ~(err > -260 /\ err < 260)
            /\ agc' = [agc EXCEPT !.filt = filt, !.settled = 0]
            /\ tia' = Traded(vga + Step(err))[1] /\ vga' = Traded(vga + Step(err))[2]
  BY DEF AgcBlock, Deadband, SettleN
<1> HIDE DEF filt
<1>4. agcBlocks' \in 0..AgcBudget
  BY <1>2, <1>3
<1>5. CASE err > -260 /\ err < 260
  <2> DEFINE set == IF agc.settled < 3 THEN agc.settled + 1 ELSE agc.settled
  <2>1. set \in 1..3
    BY <1>2
  <2>2. agc' = [agc EXCEPT !.filt = filt, !.settled = set] /\ vga' = vga /\ tia' = tia
    BY <1>3, <1>5
  <2> HIDE DEF set
  <2>3. agc' \in GainContexts /\ agc'.settled > 0
    <3>1. set \in 0..3 /\ set > 0
      BY <2>1
    <3>2. agc' = Filling(agc, filt, set)
      BY <2>2 DEF Filling
    <3>3. agc \in GainContexts /\ filt \in Int /\ set \in 0..3
      BY <1>1, <1>2, <3>1
    <3>4. Filling(agc, filt, set) \in GainContexts /\ Filling(agc, filt, set).settled = set
      BY <3>3, FillingFits, ZenonT(60)
    <3>5. QED
      BY <3>1, <3>2, <3>4
  <2>4. AgcInv'
    BY <1>2, <1>3, <1>4, <2>2, <2>3 DEF AgcInv
  <2>5. <<tia', vga'>> = <<tia, vga>>
    BY <2>2
  <2>6. QED
    BY <2>3, <2>4, <2>5
<1>6. CASE ~(err > -260 /\ err < 260)
  <2>1. agc' = [agc EXCEPT !.filt = filt, !.settled = 0]
        /\ tia' = Traded(vga + Step(err))[1] /\ vga' = Traded(vga + Step(err))[2]
    BY <1>3, <1>6
  <2>2. /\ agc' \in GainContexts
        /\ agc'.settled = 0 /\ agc'.target = agc.target /\ agc'.filt = filt
    <3>1. 0 \in 0..3
      OBVIOUS
    <3>2. agc' = Filling(agc, filt, 0)
      BY <2>1 DEF Filling
    <3>3. agc \in GainContexts /\ filt \in Int
      BY <1>1, <1>2
    <3>4. Filling(agc, filt, 0) \in GainContexts /\ Filling(agc, filt, 0).settled = 0
      BY <3>1, <3>3, FillingFits, ZenonT(60)
    <3>5. Filling(agc, filt, 0).filt = filt
      BY <3>1, <3>3, FillingFits
    <3>6. Filling(agc, filt, 0).target = agc.target
      BY <3>1, <3>3, FillingFits
    <3>7. QED
      BY <3>2, <3>4, <3>5, <3>6
  <2>3. /\ Step(err) \in -4..4 /\ (err > 0 => Step(err) > 0) /\ (err < 0 => Step(err) < 0)
        /\ err > 0 \/ err < 0
    BY <1>1, <1>6, StepSign
  <2>4. Step(err) # 0
    BY <2>3
  <2>5. <<tia', vga'>> = Traded(vga + Step(err))
    BY <2>1 DEF Traded
  <2> DEFINE n == Step(err)
  <2> HIDE DEF n
  <2>6. /\ Traded(vga + n)[1] \in 0..15 /\ Traded(vga + n)[2] \in 0..63
        /\ n > 0 => \/ Lower(<<tia, vga>>, Traded(vga + n))
                    \/ Traded(vga + n) = <<tia, vga>> /\ AtCorner
        /\ n < 0 => \/ Lower(Traded(vga + n), <<tia, vga>>)
                    \/ Traded(vga + n) = <<tia, vga>> /\ AtCorner
    BY <2>3, <2>4, TradeFollows DEF n
  <2>7. AgcInv'
    BY <1>2, <1>3, <1>4, <2>1, <2>2, <2>6 DEF AgcInv, n
  <2>8. /\ err > 0 => Lower(<<tia, vga>>, <<tia', vga'>>)
                      \/ (<<tia', vga'>> = <<tia, vga>> /\ AtCorner)
        /\ err < 0 => Lower(<<tia', vga'>>, <<tia, vga>>)
                      \/ (<<tia', vga'>> = <<tia, vga>> /\ AtCorner)
    BY <2>3, <2>5, <2>6 DEF n
  <2>9. ~(agc'.settled > 0) /\ agc'.target - agc'.filt = err /\ (err <= 0 => err < 0)
    BY <1>1, <2>2, <2>3
  <2>10. QED
    BY <2>7, <2>8, <2>9
<1>7. QED
  BY <1>5, <1>6

\* An attempt begins.
LEMMA BeginKeeps ==
  ASSUME AgcInv, NEW a \in Attempts, NEW l \in Levels, NEW m \in {"electrical", "optical"},
         AgcBegin(a, l, m)
  PROVE  AgcInv'
<1>1. a \in Nat /\ l \in Nat /\ AgcBudget \in Nat
  BY AgcAssumption
<1>2. a % 5 \in 0..4 /\ a % 6 \in 0..5
  BY <1>1
<1>3. (a % 5) + 1 \in 1..5
  BY <1>2
<1>4. Ladder[(a % 5) + 1] \in Nat
  BY <1>3 DEF Ladder
<1> DEFINE bias == (a % 6) * 2
<1>5. bias \in 0..10
  BY <1>2
<1>6. /\ agc' = [target |-> Ladder[(a % 5) + 1], bias |-> bias, settled |-> 0, filt |-> 0]
      /\ vga' = Clamp(64 \div 2 + bias, 0, 63) /\ tia' = 8
      /\ afe' = [level |-> l, mode |-> m] /\ agcBlocks' = 0
  BY DEF AgcBegin, VgaCodes
<1> HIDE DEF bias
<1>7. vga' \in 0..63
  BY <1>5, <1>6 DEF Clamp
<1>8. agc' \in GainContexts
  BY <1>4, <1>5, <1>6 DEF GainContexts
<1>9. QED
  BY <1>1, <1>6, <1>7, <1>8 DEF AgcInv

\* The invariant of the gain holds throughout.
LEMMA AgcInvariance == AgcSpec => []AgcInv
<1>1. AgcInit => AgcInv
  BY AgcAssumption DEF AgcInit, AgcInv, GainContexts
<1>2. AgcInv /\ [AgcNext]_agcVars => AgcInv'
  <2> SUFFICES ASSUME AgcInv, [AgcNext]_agcVars PROVE AgcInv'
    OBVIOUS
  <2>1. CASE AgcNext
    BY <2>1, BeginKeeps, BlockMoves DEF AgcNext
  <2>2. CASE UNCHANGED agcVars
    BY <2>2 DEF agcVars, AgcInv
  <2>3. QED
    BY <2>1, <2>2
<1>3. QED
  BY <1>1, <1>2, PTL DEF AgcSpec

\* Both codes stay in their fields through every trade, for any curves of the
\* two DACs, any levels and attempts (fw_agc_step).
THEOREM AgcStaysTyped == AgcSpec => []AgcTypeOK
<1>1. AgcInv => AgcTypeOK
  BY DEF AgcInv, AgcTypeOK, GainContexts, VgaCodes, TiaCodes, SettleN
<1>2. QED
  BY <1>1, AgcInvariance, PTL

\* A block out of band always moves the pair of codes the way the error points.
THEOREM GainPointsRight == AgcSpec => GainFollowsError
<1> DEFINE Follow ==
      agcBlocks' > agcBlocks =>
        LET was == <<tia, vga>>
            is  == <<tia', vga'>>
            err == agc'.target - agc'.filt
        IN  /\ agc'.settled > 0 => is = was
            /\ agc'.settled = 0 /\ err > 0 => Lower(was, is) \/ (is = was /\ AtCorner)
            /\ agc'.settled = 0 /\ err <= 0 => Lower(is, was) \/ (is = was /\ AtCorner)
<1>1. AgcInv /\ [AgcNext]_agcVars => [Follow]_agcVars
  <2> SUFFICES ASSUME AgcInv, AgcNext, agcBlocks' > agcBlocks PROVE Follow
    OBVIOUS
  <2>1. ASSUME NEW a \in Attempts, NEW l \in Levels, NEW m \in {"electrical", "optical"},
               AgcBegin(a, l, m)
        PROVE  FALSE
    BY <2>1 DEF AgcBegin, AgcInv
  <2>2. AgcBlock
    BY <2>1 DEF AgcNext
  <2>3. QED
    BY <2>2, BlockMoves
<1>2. QED
  BY <1>1, AgcInvariance, PTL DEF AgcSpec, GainFollowsError

(* The datapath and the receiver behind it.                                *)

Sent   == {"none", "prbs", "payload"} \X Int
Decision == [of : Sent, right : BOOLEAN]
Blocks   == [num : Nat, at : 0..(BlockLen - 1), mode : {"TRAIN", "VERIFY", "DATA"},
             eye : {"open", "shut", "noisy"}, weak : BOOLEAN]
ReceiversTo(top) ==
    [state : {"aligning", "skipping", "running"}, buf : Seq(Decision),
     off : 0..AlignMax, skip : 0..(CwSyms - 1), idx : 0..top, ref : Nat,
     erased : SUBSET GfPos, nFlagged : 0..CwGf, hits : SUBSET GfPos,
     uncorrectable : BOOLEAN, postErrors : BOOLEAN, weakNow : SUBSET GfPos,
     overBudget : BOOLEAN]
Receivers == ReceiversTo(CwSyms - 1)

\* What every receiver is: its flags are those of the codeword it is in, its
\* place in the codeword is its reference's, and what it delivered wrong it
\* was entitled to.
RxOK(r) ==
    /\ r \in Receivers
    /\ r.erased = r.weakNow /\ r.nFlagged = Cardinality(r.erased)
    /\ (r.postErrors \/ r.uncorrectable) => r.overBudget
    /\ r.state # "running" => r.idx = 0 /\ r.erased = {} /\ r.ref % CwSyms = 0
    /\ r.state = "aligning" => Len(r.buf) < AlignSyms + AlignMax
    /\ r.state = "skipping" => r.skip > 0
    /\ r.state # "skipping" => r.skip = 0
    /\ r.state = "running" => r.idx = r.ref % CwSyms

\* The decisions a receiver was handed, and the delay it was handed them with.
Handed(r) == IF r.state = "aligning" THEN Len(r.buf) ELSE r.ref - r.skip + r.off
Delay     == IF pcsCalib THEN lag ELSE 0

\* Decisions that lag the payload by d, no more than one of them wrong.
Lagging(buf, d) ==
    \A i \in 1..Len(buf) : IF i > d THEN buf[i].of = Payload(i - 1 - d)
                                    ELSE buf[i].of[1] # "payload"
OneWrong(buf) == \A i, j \in 1..Len(buf) : ~buf[i].right /\ ~buf[j].right => i = j

\* The lane: types, and what the two tails hold.
DpTypes ==
    /\ lag \in {-1} \cup Lags /\ txLat \in 0..(LatMax - 1) /\ pcsLat \in 0..AlignMax
    /\ {latLocked, fecOn, pcsCalib} \subseteq BOOLEAN /\ pcsTx \in Nat
    /\ blk \in Blocks /\ (blk.at > 0 => blk.num > 0)
    /\ past \in Seq(Sent) /\ Len(past) = LatMax /\ prevSyms = past
    /\ syms \in Seq(Sent) /\ (blk.at > 0 => Len(syms) = BlockLen)
    /\ decs \in Seq(Decision)
    /\ (lag = -1 => blk.at = 0 /\ ~latLocked) /\ (blk.at = 0 => blk.eye # "shut")

\* Until the FEC is on, a block and the one before it hold different symbols;
\* the decisions kept for the search name those they are about.
Training ==
    /\ ~fecOn => \A k \in 1..LatMax, n \in 0..(BlockLen - 1) :
           past[k] # Pattern(IF blk.at = 0 THEN blk.num ELSE blk.num - 1, n)
    /\ ~fecOn \/ pcsCalib => \A k \in 1..LatMax : past[k][1] # "payload"
    /\ ~fecOn /\ blk.at > 0 =>
           \A i \in 1..BlockLen : syms[i] = Pattern(blk.num - 1, i - 1)
    /\ ~latLocked /\ blk.at > 0 /\ blk.mode # "DATA" =>
           /\ Len(decs) = blk.at - 1
           /\ \A n \in 1..Len(decs) : decs[n].of = Carried(n)

\* A locked latency is the delay the lane has.
LatencyTrue == (latLocked => txLat = lag) /\ (fecOn => latLocked)

\* The payload: what the window of a block carries, and how far the receiver is.
Traffic ==
    fecOn =>
    /\ blk.eye # "shut"
    /\ ~pcsCalib => pcsLat = lag
    /\ pcsCalib  => pcsLat = 0 /\ pcsTx = (IF blk.at = 0 THEN 0 ELSE TxHigh)
    /\ blk.at > 0 => /\ pcsTx >= TxHigh /\ syms[1][1] # "payload"
                     /\ \A n \in 1..TxHigh : syms[n + 1] = Payload(pcsTx - TxHigh + n - 1)
    /\ Handed(pcsRx) = IF blk.at = 0 THEN pcsTx
                       ELSE pcsTx - TxHigh + (IF blk.at > RxLow THEN blk.at - RxLow ELSE 0)
    /\ pcsRx.state = "aligning" => Lagging(pcsRx.buf, Delay) /\ OneWrong(pcsRx.buf)
    /\ pcsRx.state # "aligning" => pcsRx.off = Delay

DpInv == DpTypes /\ Training /\ LatencyTrue /\ RxOK(pcsRx) /\ Traffic /\ PayloadInStep
         /\ ReferenceFollows

(* Arithmetic of codewords.                                                *)

LEMMA CwFacts ==
  /\ CwSyms \in Nat /\ CwSyms > 0 /\ AlignSyms \in Nat /\ AlignSyms >= 2
  /\ AlignMax \in Nat /\ AlignMax > 0 /\ CwGf \in Nat /\ CwGf > 0
  /\ PerGf \in Nat /\ PerGf > 0 /\ CwParity \in Nat
<1>1. {AlignSyms, AlignMax, CwGf, MsgGf, PerGf} \subseteq Nat \ {0} /\ MsgGf < CwGf /\ AlignSyms >= 2
  BY PcsAssumption
<1>2. \A n, p \in Nat : n > 0 /\ p > 0 => n * p \in Nat /\ n * p > 0
  OBVIOUS
<1>3. CwGf \in Nat /\ PerGf \in Nat /\ CwGf > 0 /\ PerGf > 0
  BY <1>1
<1>4. CwSyms \in Nat /\ CwSyms > 0
  BY <1>2, <1>3 DEF CwSyms
<1>5. CwParity \in Nat
  BY <1>1 DEF CwParity
<1>6. QED
  BY <1>1, <1>4, <1>5

\* The next boundary is one, and less than a codeword away.
LEMMA BoundaryReached ==
  ASSUME NEW base \in Nat
  PROVE  ToBoundary(base) \in 0..(CwSyms - 1) /\ (base + ToBoundary(base)) % CwSyms = 0
<1> DEFINE C == CwSyms
           k == base \div C
           m == base % C
<1>1. base = C * k + m /\ m \in 0..(C - 1) /\ k \in Nat /\ C \in Nat /\ C > 0
  BY DivMod, CwFacts
<1>2. ToBoundary(base) = (C - m) % C
  BY DEF ToBoundary
<1> HIDE DEF C, k, m
<1>3. CASE m = 0
  <2>1. C - m = C * 1 + 0 /\ 0 \in 0..(C - 1)
    BY <1>1, <1>3
  <2>2. (C * 1 + 0) % C = 0
    BY <1>1, <2>1, ModIs
  <2>3. base + 0 = base
    OBVIOUS
  <2>4. base % C = 0
    BY <1>3 DEF m
  <2>5. QED
    BY <1>2, <2>1, <2>2, <2>3, <2>4 DEF C
<1>4. CASE m # 0
  <2>1. C - m \in 0..(C - 1) /\ C - m = C * 0 + (C - m)
    BY <1>1, <1>4
  <2>2. (C * 0 + (C - m)) % C = C - m
    BY <1>1, <2>1, ModIs
  <2>3. base + (C - m) = C * (k + 1) + 0 /\ k + 1 \in Nat /\ 0 \in 0..(C - 1)
    BY <1>1
  <2>4. (C * (k + 1) + 0) % C = 0
    BY <1>1, <2>3, ModIs
  <2>5. QED
    BY <1>2, <2>1, <2>2, <2>3, <2>4 DEF C
<1>5. QED
  BY <1>3, <1>4

\* A symbol of the codeword is in one of its field symbols.
LEMMA FieldSymbol ==
  ASSUME NEW i \in 0..(CwSyms - 1)
  PROVE  i \div PerGf \in GfPos
<1>1. \A a, n, p \in Nat : p > 0 /\ a < n * p => a \div p \in 0..(n - 1)
  OBVIOUS
<1>2. i \in Nat /\ i < CwGf * PerGf /\ CwGf \in Nat /\ PerGf \in Nat /\ PerGf > 0
  BY CwFacts DEF CwSyms
<1>3. QED
  BY <1>1, <1>2 DEF GfPos

\* Sets of field symbols have a size, and adding one counts one.
LEMMA FlagsCount ==
  ASSUME NEW S \in SUBSET GfPos
  PROVE  /\ IsFiniteSet(S) /\ Cardinality(S) \in 0..CwGf
         /\ (Cardinality(S) = 0 <=> S = {})
         /\ \A g : Cardinality(S \cup {g}) = IF g \in S THEN Cardinality(S) ELSE Cardinality(S) + 1
<1>1. IsFiniteSet(GfPos) /\ Cardinality(GfPos) = CwGf
  <2>1. CwGf \in Nat /\ CwGf > 0 /\ 0 \in Int /\ CwGf - 1 \in Int
    BY CwFacts
  <2>2. /\ IsFiniteSet(0..(CwGf - 1))
        /\ Cardinality(0..(CwGf - 1)) = IF 0 > CwGf - 1 THEN 0 ELSE (CwGf - 1) - 0 + 1
    BY <2>1, FS_Interval
  <2>3. QED
    BY <2>1, <2>2 DEF GfPos
<1>2. IsFiniteSet(S) /\ Cardinality(S) <= CwGf
  BY <1>1, FS_Subset
<1>3. Cardinality(S) \in Nat
  BY <1>2, FS_CardinalityType
<1>4. Cardinality(S) = 0 <=> S = {}
  BY <1>2, FS_EmptySet
<1>5. \A g : Cardinality(S \cup {g}) = IF g \in S THEN Cardinality(S) ELSE Cardinality(S) + 1
  BY <1>2, FS_AddElement
<1>6. QED
  BY <1>2, <1>3, <1>4, <1>5, CwFacts

LEMMA CostIsNat ==
  ASSUME NEW hits \in SUBSET GfPos, NEW flagged \in SUBSET GfPos
  PROVE  DecoderCost(hits, flagged) \in Nat
<1> DEFINE F == IF Cardinality(flagged) > CwParity THEN {} ELSE flagged
<1>1. F \in SUBSET GfPos
  OBVIOUS
<1>2. hits \ F \in SUBSET GfPos
  OBVIOUS
<1>3. Cardinality(hits \ F) \in Nat /\ Cardinality(F) \in Nat
  BY <1>1, <1>2, FlagsCount
<1>4. DecoderCost(hits, flagged) = 2 * Cardinality(hits \ F) + Cardinality(F)
  BY DEF DecoderCost
<1> HIDE DEF F
<1>5. QED
  BY <1>3, <1>4

\* The parts of RxOK a codeword's end relies on.
Accounted(r) ==
    /\ r.erased = r.weakNow /\ r.nFlagged = Cardinality(r.erased)
    /\ (r.postErrors \/ r.uncorrectable) => r.overBudget

\* The end of a codeword: the record set back, and the two outcomes of a
\* decoder that could not.
Cleared(r, over) ==
    [r EXCEPT !.idx = 0, !.nFlagged = 0, !.erased = {}, !.hits = {}, !.weakNow = {},
              !.overBudget = over]
Abandoned(r, post) == [r EXCEPT !.uncorrectable = TRUE, !.postErrors = post]
Landed(r) == [r EXCEPT !.postErrors = TRUE]

LEMMA ClearedFields ==
  ASSUME NEW top \in Nat, NEW r \in ReceiversTo(top), NEW over \in BOOLEAN
  PROVE  LET q == Cleared(r, over)
         IN  /\ q \in Receivers /\ q.idx = 0 /\ q.nFlagged = 0 /\ q.erased = {}
             /\ q.hits = {} /\ q.weakNow = {} /\ q.overBudget = over
             /\ q.state = r.state /\ q.skip = r.skip /\ q.off = r.off /\ q.ref = r.ref
             /\ q.postErrors = r.postErrors /\ q.uncorrectable = r.uncorrectable
             /\ q.buf = r.buf
<1>1. 0 \in 0..(CwSyms - 1) /\ 0 \in 0..CwGf
  BY CwFacts
<1>2. QED
  BY <1>1 DEF Cleared, Receivers, ReceiversTo

LEMMA OutcomeFields ==
  ASSUME NEW r \in Receivers, NEW post \in BOOLEAN, NEW q \in {Abandoned(r, post), Landed(r)}
  PROVE  /\ q \in Receivers /\ q.idx = r.idx /\ q.nFlagged = r.nFlagged
         /\ q.erased = r.erased /\ q.hits = r.hits /\ q.weakNow = r.weakNow
         /\ q.overBudget = r.overBudget /\ q.state = r.state /\ q.skip = r.skip
         /\ q.off = r.off /\ q.ref = r.ref /\ q.buf = r.buf
BY ZenonT(60) DEF Abandoned, Landed, Receivers, ReceiversTo

\* A codeword's end leaves a receiver that owes nothing to the next codeword,
\* and delivered wrong only what no decoder of this code could put right.
LEMMA FinishKeeps ==
  ASSUME NEW r \in ReceiversTo(CwSyms), Accounted(r), r.state = "running", r.skip = 0,
         r.ref % CwSyms = 0, NEW q \in FinishCodeword(r)
  PROVE  RxOK(q) /\ q.ref = r.ref /\ q.skip = 0 /\ q.off = r.off /\ q.state = "running"
<1> DEFINE flagged == IF r.nFlagged > 0 THEN r.erased ELSE {}
           over  == r.overBudget \/ DecoderCost(r.hits, r.weakNow) > CwParity
           next  == Cleared(r, over)
           post  == next.postErrors \/ MessageHit(r.hits)
<1>1. /\ r.hits \in SUBSET GfPos /\ r.weakNow \in SUBSET GfPos /\ r.erased \in SUBSET GfPos
      /\ r.overBudget \in BOOLEAN /\ r.postErrors \in BOOLEAN /\ r.uncorrectable \in BOOLEAN
  BY DEF ReceiversTo
<1>2. flagged = r.weakNow
  <2>1. Cardinality(r.erased) \in 0..CwGf /\ (Cardinality(r.erased) = 0 <=> r.erased = {})
    BY <1>1, FlagsCount
  <2>2. r.nFlagged = Cardinality(r.erased) /\ r.erased = r.weakNow
    BY DEF Accounted
  <2>3. CASE r.nFlagged > 0
    BY <2>2, <2>3
  <2>4. CASE ~(r.nFlagged > 0)
    <3>1. Cardinality(r.erased) = 0
      BY <2>1, <2>2, <2>4, CwFacts
    <3>2. r.erased = {}
      BY <2>1, <3>1, Zenon
    <3>3. QED
      BY <2>2, <2>4, <3>2
  <2>5. QED
    BY <2>3, <2>4
<1>3. over \in BOOLEAN
  BY <1>1
<1>4. q \in IF DecoderCost(r.hits, flagged) <= CwParity THEN {next}
            ELSE {Abandoned(next, post), Landed(next)}
  BY DEF FinishCodeword, ClearedFlags, Cleared, Abandoned, Landed
<1>5. DecoderCost(r.hits, flagged) \in Nat /\ CwParity \in Nat /\ CwSyms \in Nat
  BY <1>1, <1>2, CostIsNat, CwFacts
<1> HIDE DEF flagged
<1>6. DecoderCost(r.hits, flagged) <= CwParity \/ over
  BY <1>2, <1>5
<1> HIDE DEF over
<1>7. /\ next \in Receivers /\ next.idx = 0 /\ next.nFlagged = 0 /\ next.erased = {}
      /\ next.hits = {} /\ next.weakNow = {} /\ next.overBudget = over
      /\ next.state = "running" /\ next.skip = 0 /\ next.off = r.off /\ next.ref = r.ref
      /\ next.postErrors = r.postErrors /\ next.uncorrectable = r.uncorrectable
  BY <1>3, <1>5, ClearedFields
<1>8. (r.postErrors \/ r.uncorrectable) => over
  BY Zenon DEF Accounted, over
<1> HIDE DEF next
<1>9. /\ q \in Receivers /\ q.idx = 0 /\ q.nFlagged = 0 /\ q.erased = {} /\ q.weakNow = {}
      /\ q.overBudget = over /\ q.state = "running" /\ q.skip = 0 /\ q.off = r.off
      /\ q.ref = r.ref
  <2>1. CASE DecoderCost(r.hits, flagged) <= CwParity
    BY <1>4, <1>7, <2>1
  <2>2. CASE ~(DecoderCost(r.hits, flagged) <= CwParity)
    <3>1. post \in BOOLEAN
      BY <1>1, <1>7 DEF MessageHit
    <3>2. q \in {Abandoned(next, post), Landed(next)}
      BY <1>4, <2>2
    <3> HIDE DEF post
    <3>3. QED
      BY <1>7, <3>1, <3>2, OutcomeFields
  <2>3. QED
    BY <2>1, <2>2
<1>10. (q.postErrors \/ q.uncorrectable) => q.overBudget
  <2>1. CASE DecoderCost(r.hits, flagged) <= CwParity
    <3>1. q = next
      BY <1>4, <2>1
    <3>2. QED
      BY <1>7, <1>8, <3>1, Zenon
  <2>2. CASE over
    BY <1>9, <2>2, Zenon
  <2>3. QED
    BY <1>6, <2>1, <2>2
<1>11. Cardinality({}) = 0
  BY FS_EmptySet
<1>12. QED
  BY <1>9, <1>10, <1>11 DEF RxOK

\* A decision scored.
Scored(r, hit, weak, g) ==
    [r EXCEPT !.ref = @ + 1, !.idx = @ + 1,
              !.hits     = IF hit THEN @ \cup {g} ELSE @,
              !.nFlagged = IF weak /\ g \notin r.erased THEN @ + 1 ELSE @,
              !.erased   = IF weak THEN @ \cup {g} ELSE @,
              !.weakNow  = IF weak THEN @ \cup {g} ELSE @]

LEMMA ScoredFields ==
  ASSUME NEW r \in Receivers, NEW hit \in BOOLEAN, NEW weak \in BOOLEAN, NEW g \in GfPos,
         (weak /\ g \notin r.erased) => r.nFlagged < CwGf
  PROVE  LET q == Scored(r, hit, weak, g)
         IN  /\ q \in ReceiversTo(CwSyms) /\ q.ref = r.ref + 1 /\ q.idx = r.idx + 1
             /\ q.nFlagged = (IF weak /\ g \notin r.erased THEN r.nFlagged + 1 ELSE r.nFlagged)
             /\ q.erased = (IF weak THEN r.erased \cup {g} ELSE r.erased)
             /\ q.weakNow = (IF weak THEN r.weakNow \cup {g} ELSE r.weakNow)
             /\ q.state = r.state /\ q.skip = r.skip /\ q.off = r.off /\ q.buf = r.buf
             /\ q.postErrors = r.postErrors /\ q.uncorrectable = r.uncorrectable
             /\ q.overBudget = r.overBudget
<1>1. /\ r.idx \in 0..(CwSyms - 1) /\ r.ref \in Nat /\ r.nFlagged \in 0..CwGf
      /\ r.hits \in SUBSET GfPos /\ r.erased \in SUBSET GfPos /\ r.weakNow \in SUBSET GfPos
  BY DEF Receivers, ReceiversTo
<1>2. r.idx + 1 \in 0..CwSyms /\ r.ref + 1 \in Nat
  BY <1>1, CwFacts
<1>3. /\ (IF hit THEN r.hits \cup {g} ELSE r.hits) \in SUBSET GfPos
      /\ (IF weak THEN r.erased \cup {g} ELSE r.erased) \in SUBSET GfPos
      /\ (IF weak THEN r.weakNow \cup {g} ELSE r.weakNow) \in SUBSET GfPos
  BY <1>1
<1>4. (IF weak /\ g \notin r.erased THEN r.nFlagged + 1 ELSE r.nFlagged) \in 0..CwGf
  BY <1>1, CwFacts
<1>5. QED
  BY <1>2, <1>3, <1>4 DEF Scored, Receivers, ReceiversTo

\* A scored decision keeps the receiver right, and moves its reference by one.
LEMMA ScoreKeeps ==
  ASSUME NEW r, RxOK(r), r.state = "running", NEW dec \in Decision, NEW weak \in BOOLEAN,
         NEW q \in Score(r, dec, weak)
  PROVE  RxOK(q) /\ q.ref = r.ref + 1 /\ q.skip = 0 /\ q.off = r.off /\ q.state = "running"
<1> DEFINE g   == r.idx \div PerGf
           hit == ~Matches(dec, r.ref)
           now == Scored(r, hit, weak, g)
<1>1. /\ r \in Receivers /\ r.idx \in 0..(CwSyms - 1) /\ r.ref \in Nat
      /\ r.erased \in SUBSET GfPos /\ r.erased = r.weakNow
      /\ r.nFlagged = Cardinality(r.erased) /\ r.skip = 0 /\ r.idx = r.ref % CwSyms
  BY DEF RxOK, Receivers, ReceiversTo
<1>2. (r.postErrors \/ r.uncorrectable) => r.overBudget
  BY DEF RxOK
<1>3. g \in GfPos /\ hit \in BOOLEAN
  BY <1>1, FieldSymbol DEF Matches, Decision
<1>4. q \in IF now.idx >= CwSyms THEN FinishCodeword(now) ELSE {now}
  BY DEF Score, Scored
<1> HIDE DEF g, hit
<1>5. /\ Cardinality(r.erased) \in 0..CwGf
      /\ Cardinality(r.erased \cup {g}) = IF g \in r.erased THEN r.nFlagged ELSE r.nFlagged + 1
      /\ Cardinality(r.erased \cup {g}) \in 0..CwGf
  <2>1. r.erased \cup {g} \in SUBSET GfPos
    BY <1>1, <1>3
  <2>2. QED
    BY <1>1, <2>1, FlagsCount
<1>6. (weak /\ g \notin r.erased) => r.nFlagged < CwGf
  BY <1>1, <1>5, CwFacts
<1>7. /\ now \in ReceiversTo(CwSyms) /\ now.ref = r.ref + 1 /\ now.idx = r.idx + 1
      /\ now.nFlagged = (IF weak /\ g \notin r.erased THEN r.nFlagged + 1 ELSE r.nFlagged)
      /\ now.erased = (IF weak THEN r.erased \cup {g} ELSE r.erased)
      /\ now.weakNow = (IF weak THEN r.weakNow \cup {g} ELSE r.weakNow)
      /\ now.state = "running" /\ now.skip = 0 /\ now.off = r.off
      /\ now.postErrors = r.postErrors /\ now.uncorrectable = r.uncorrectable
      /\ now.overBudget = r.overBudget
  <2>1. r \in Receivers /\ g \in GfPos /\ hit \in BOOLEAN /\ weak \in BOOLEAN
    BY <1>1, <1>3
  <2>2. LET q0 == Scored(r, hit, weak, g)
         IN  /\ q0 \in ReceiversTo(CwSyms) /\ q0.ref = r.ref + 1 /\ q0.idx = r.idx + 1
             /\ q0.nFlagged = (IF weak /\ g \notin r.erased THEN r.nFlagged + 1 ELSE r.nFlagged)
             /\ q0.erased = (IF weak THEN r.erased \cup {g} ELSE r.erased)
             /\ q0.weakNow = (IF weak THEN r.weakNow \cup {g} ELSE r.weakNow)
             /\ q0.state = r.state /\ q0.skip = r.skip /\ q0.off = r.off /\ q0.buf = r.buf
             /\ q0.postErrors = r.postErrors /\ q0.uncorrectable = r.uncorrectable
             /\ q0.overBudget = r.overBudget
    BY <2>1, <1>6, ScoredFields
  <2>3. QED
    BY <1>1, <2>2, Zenon
<1> HIDE DEF now
<1>8. Accounted(now)
  <2>1. now.erased = now.weakNow
    BY <1>1, <1>7
  <2>2. now.nFlagged = Cardinality(now.erased)
    BY <1>1, <1>5, <1>7
  <2>3. (now.postErrors \/ now.uncorrectable) => now.overBudget
    BY <1>2, <1>7, Zenon
  <2>4. QED
    BY <2>1, <2>2, <2>3 DEF Accounted
<1>9. now.ref % CwSyms = IF now.idx = CwSyms THEN 0 ELSE now.idx
  <2>1. CwSyms \in Nat /\ CwSyms > 0
    BY CwFacts
  <2>2. (r.ref + 1) % CwSyms = IF (r.ref % CwSyms) + 1 = CwSyms THEN 0 ELSE (r.ref % CwSyms) + 1
    BY <1>1, <2>1, ModNext
  <2>3. now.ref = r.ref + 1 /\ now.idx = (r.ref % CwSyms) + 1
    BY <1>1, <1>7
  <2>4. QED
    BY <2>2, <2>3
<1>10. CASE now.idx >= CwSyms
  <2>1. now.idx = CwSyms
    BY <1>1, <1>7, <1>10, CwFacts
  <2>2. now.ref % CwSyms = 0 /\ q \in FinishCodeword(now)
    BY <1>4, <1>9, <1>10, <2>1
  <2>3. QED
    BY <1>7, <1>8, <2>2, FinishKeeps
<1>11. CASE ~(now.idx >= CwSyms)
  <2>1. q = now
    BY <1>4, <1>11
  <2>2. now.idx \in 0..(CwSyms - 1) /\ now.idx # CwSyms
    BY <1>1, <1>7, <1>11, CwFacts
  <2>3. now \in Receivers
    BY <1>7, <2>2 DEF ReceiversTo, Receivers
  <2>4. now.idx = now.ref % CwSyms
    BY <1>9, <2>2
  <2>5. QED
    BY <1>7, <1>8, <2>1, <2>3, <2>4 DEF RxOK, Accounted
<1>12. QED
  BY <1>10, <1>11

\* Decisions that lag by d, but one of them right, are lined up at d.
LEMMA OffsetFound ==
  ASSUME NEW buf, Len(buf) = AlignSyms + AlignMax, NEW d \in 0..AlignMax,
         Lagging(buf, d), OneWrong(buf), \A i \in 1..Len(buf) : buf[i].right \in BOOLEAN
  PROVE  BestOffset(buf) = d
<1> DEFINE Bad(s) == {i \in 1..AlignSyms : ~Matches(buf[i + s], i - 1)}
<1>1. AlignSyms \in Nat /\ AlignSyms >= 2 /\ AlignMax \in Nat
  BY CwFacts
<1>2. \A s \in 0..AlignMax, i \in 1..AlignSyms : i + s \in 1..Len(buf)
  BY <1>1
<1>3. ErrorsAt(buf, d) \in {0, 1}
  <2>1. \A i \in Bad(d) : ~buf[i + d].right /\ i + d \in 1..Len(buf) /\ i \in Int
    <3> SUFFICES ASSUME NEW i \in 1..AlignSyms, ~Matches(buf[i + d], i - 1)
                 PROVE  ~buf[i + d].right /\ i + d \in 1..Len(buf) /\ i \in Int
      OBVIOUS
    <3>1. i + d \in 1..Len(buf) /\ i + d > d /\ i + d - 1 - d = i - 1 /\ i \in Int
      BY <1>1, <1>2
    <3>2. buf[i + d].of = Payload(i - 1)
      BY <3>1 DEF Lagging
    <3>3. QED
      BY <3>1, <3>2 DEF Matches
  <2>2. \A i, j \in Bad(d) : i = j
    <3> SUFFICES ASSUME NEW i \in Bad(d), NEW j \in Bad(d) PROVE i = j
      OBVIOUS
    <3> HIDE DEF Bad
    <3>1. i + d = j + d /\ i \in Int /\ j \in Int
      BY <2>1 DEF OneWrong
    <3>2. QED
      BY <3>1
  <2> HIDE DEF Bad
  <2>3. CASE Bad(d) = {}
    <3>1. Cardinality(Bad(d)) = 0
      BY <2>3, FS_EmptySet
    <3>2. QED
      BY <3>1 DEF ErrorsAt, Bad
  <2>4. CASE Bad(d) # {}
    <3>1. PICK i : i \in Bad(d)
      BY <2>4
    <3>2. Bad(d) = {i}
      BY <2>2, <3>1
    <3>3. Cardinality(Bad(d)) = 1
      BY <3>2, FS_Singleton
    <3>4. QED
      BY <3>3 DEF ErrorsAt, Bad
  <2>5. QED
    BY <2>3, <2>4
<1>4. \A s \in 0..AlignMax : s # d => ErrorsAt(buf, s) = AlignSyms
  <2> SUFFICES ASSUME NEW s \in 0..AlignMax, s # d PROVE ErrorsAt(buf, s) = AlignSyms
    OBVIOUS
  <2>1. \A i \in 1..AlignSyms : ~Matches(buf[i + s], i - 1)
    <3> SUFFICES ASSUME NEW i \in 1..AlignSyms PROVE buf[i + s].of # Payload(i - 1)
      BY DEF Matches
    <3>1. i + s \in 1..Len(buf) /\ i \in Int /\ i + s - 1 - d # i - 1
      BY <1>1, <1>2
    <3>2. CASE i + s > d
      <4>1. buf[i + s].of = Payload(i + s - 1 - d)
        BY <3>1, <3>2 DEF Lagging
      <4>2. QED
        BY <3>1, <4>1 DEF Payload
    <3>3. CASE ~(i + s > d)
      <4>1. buf[i + s].of[1] # "payload"
        BY <3>1, <3>3 DEF Lagging
      <4>2. QED
        BY <4>1 DEF Payload
    <3>4. QED
      BY <3>2, <3>3
  <2>2. Bad(s) = 1..AlignSyms
    BY <2>1
  <2>3. Cardinality(1..AlignSyms) = AlignSyms
    <3>1. 1 \in Int /\ AlignSyms \in Int /\ ~(1 > AlignSyms)
      BY <1>1
    <3>2. Cardinality(1..AlignSyms) = IF 1 > AlignSyms THEN 0 ELSE AlignSyms - 1 + 1
      BY <3>1, FS_Interval, Zenon
    <3>3. QED
      BY <3>1, <3>2
  <2>4. QED
    BY <2>2, <2>3 DEF ErrorsAt
<1> HIDE DEF Bad
<1> DEFINE Best(s) == \A t \in 0..AlignMax :
              \/ ErrorsAt(buf, s) < ErrorsAt(buf, t)
              \/ ErrorsAt(buf, s) = ErrorsAt(buf, t) /\ s <= t
<1>5. Best(d)
  BY <1>1, <1>3, <1>4
<1>6. \A s \in 0..AlignMax : Best(s) => s = d
  BY <1>1, <1>3, <1>4
<1>7. BestOffset(buf) = CHOOSE s \in 0..AlignMax : Best(s)
  BY DEF BestOffset
<1> HIDE DEF Best
<1>8. QED
  BY <1>5, <1>6, <1>7

\* The receiver lined up.
Aligned(r, off, ref, skip) ==
    [r EXCEPT !.off = off, !.ref = ref, !.skip = skip,
              !.idx = 0, !.erased = {}, !.nFlagged = 0,
              !.state = IF skip > 0 THEN "skipping" ELSE "running"]

LEMMA AlignedFields ==
  ASSUME NEW r \in Receivers, NEW off \in 0..AlignMax, NEW ref \in Nat,
         NEW skip \in 0..(CwSyms - 1)
  PROVE  LET q == Aligned(r, off, ref, skip)
         IN  /\ q \in Receivers /\ q.off = off /\ q.ref = ref /\ q.skip = skip /\ q.idx = 0
             /\ q.erased = {} /\ q.nFlagged = 0 /\ q.weakNow = r.weakNow
             /\ q.state = (IF skip > 0 THEN "skipping" ELSE "running")
             /\ q.postErrors = r.postErrors /\ q.uncorrectable = r.uncorrectable
             /\ q.overBudget = r.overBudget
<1>1. 0 \in 0..(CwSyms - 1) /\ 0 \in 0..CwGf /\ {} \in SUBSET GfPos
  BY CwFacts
<1>2. QED
  BY <1>1 DEF Aligned, Receivers, ReceiversTo

\* Lining up leaves the receiver at a codeword boundary, or counting to it.
LEMMA AlignKeeps ==
  ASSUME NEW r \in Receivers, Len(r.buf) = AlignSyms + AlignMax, NEW d \in 0..AlignMax,
         Lagging(r.buf, d), OneWrong(r.buf), r.weakNow = {},
         (r.postErrors \/ r.uncorrectable) => r.overBudget
  PROVE  /\ RxOK(Align(r)) /\ Align(r).off = d /\ Align(r).state # "aligning"
         /\ Align(r).ref - Align(r).skip + d = Len(r.buf)
<1> DEFINE base == Len(r.buf) - d
           skip == ToBoundary(base)
           q    == Aligned(r, d, base + skip, skip)
<1>1. \A i \in 1..Len(r.buf) : r.buf[i].right \in BOOLEAN
  <2>1. r.buf \in Seq(Decision)
    BY DEF Receivers, ReceiversTo
  <2>2. \A i \in 1..Len(r.buf) : r.buf[i] \in Decision
    BY <2>1
  <2>3. QED
    BY <2>2 DEF Decision
<1>2. BestOffset(r.buf) = d
  BY <1>1, OffsetFound
<1>3. Align(r) = q
  BY <1>2 DEF Align, Aligned
<1>4. base \in Nat /\ Len(r.buf) \in Nat /\ d \in Int
  BY CwFacts
<1>5. skip \in 0..(CwSyms - 1) /\ (base + skip) % CwSyms = 0 /\ base + skip \in Nat
  <2>1. skip \in 0..(CwSyms - 1) /\ (base + skip) % CwSyms = 0
    BY <1>4, BoundaryReached
  <2> HIDE DEF base, skip
  <2>2. QED
    BY <1>4, <2>1, CwFacts
<1>6. base + d = Len(r.buf)
  BY <1>4
<1> HIDE DEF base, skip
<1>7. /\ q \in Receivers /\ q.off = d /\ q.ref = base + skip /\ q.skip = skip /\ q.idx = 0
      /\ q.erased = {} /\ q.nFlagged = 0 /\ q.weakNow = {}
      /\ q.state = (IF skip > 0 THEN "skipping" ELSE "running")
      /\ q.postErrors = r.postErrors /\ q.uncorrectable = r.uncorrectable
      /\ q.overBudget = r.overBudget
  BY <1>5, AlignedFields, SMTT(60)
<1> HIDE DEF q
<1>8. (q.postErrors \/ q.uncorrectable) => q.overBudget
  BY <1>7, Zenon
<1>9. Cardinality({}) = 0
  BY FS_EmptySet
<1>10. RxOK(q)
  <2>1. CASE skip > 0
    BY <1>5, <1>7, <1>8, <1>9, <2>1 DEF RxOK
  <2>2. CASE ~(skip > 0)
    <3>1. skip = 0
      BY <1>5, <2>2, CwFacts
    <3>2. base + skip = base /\ base % CwSyms = 0
      BY <1>4, <1>5, <3>1
    <3>3. QED
      BY <1>7, <1>8, <1>9, <3>1, <3>2 DEF RxOK
  <2>3. QED
    BY <2>1, <2>2
<1>11. q.ref - q.skip + d = Len(r.buf)
  BY <1>4, <1>5, <1>6, <1>7, CwFacts
<1>12. q.state # "aligning"
  BY <1>7
<1>13. QED
  BY <1>3, <1>7, <1>10, <1>11, <1>12

\* What the receiver is handed is counted; it finds the delay it was handed it
\* with and keeps it.
LEMMA PushKeeps ==
  ASSUME NEW r, RxOK(r), NEW dec \in Decision, NEW weak \in BOOLEAN, NEW d \in 0..AlignMax,
         r.state = "aligning" => /\ Lagging(Append(r.buf, dec), d)
                                 /\ OneWrong(Append(r.buf, dec)),
         NEW q \in Push(r, dec, weak)
  PROVE  /\ RxOK(q) /\ Handed(q) = Handed(r) + 1
         /\ q.state = "aligning" => r.state = "aligning" /\ q.buf = Append(r.buf, dec)
         /\ q.state # "aligning" => q.off = IF r.state = "aligning" THEN d ELSE r.off
<1>1. /\ r \in Receivers /\ r.buf \in Seq(Decision) /\ r.state \in {"aligning", "skipping", "running"}
      /\ r.skip \in 0..(CwSyms - 1) /\ r.ref \in Nat /\ r.off \in 0..AlignMax
      /\ r.idx \in 0..(CwSyms - 1)
  BY DEF RxOK, Receivers, ReceiversTo
<1>2. (r.postErrors \/ r.uncorrectable) => r.overBudget
  BY DEF RxOK
<1>3. CASE r.state = "aligning"
  <2> DEFINE b == [r EXCEPT !.buf = Append(@, dec)]
  <2>1. q = IF Len(b.buf) >= AlignSyms + AlignMax THEN Align(b) ELSE b
    BY <1>3 DEF Push
  <2>2. /\ b \in Receivers /\ b.buf = Append(r.buf, dec) /\ b.state = "aligning"
        /\ b.skip = r.skip /\ b.idx = r.idx /\ b.erased = r.erased /\ b.nFlagged = r.nFlagged
        /\ b.weakNow = r.weakNow /\ b.ref = r.ref
    <3>1. Append(r.buf, dec) \in Seq(Decision)
      BY <1>1
    <3>2. QED
      BY <1>1, <1>3, <3>1 DEF Receivers, ReceiversTo
  <2>3. /\ b.postErrors = r.postErrors /\ b.uncorrectable = r.uncorrectable
        /\ b.overBudget = r.overBudget
    BY <1>1 DEF Receivers, ReceiversTo
  <2> HIDE DEF b
  <2>4. (b.postErrors \/ b.uncorrectable) => b.overBudget
    BY <1>2, <2>3, Zenon
  <2>5. Len(b.buf) = Len(r.buf) + 1 /\ Len(r.buf) \in Nat
    BY <1>1, <2>2
  <2>6. Len(r.buf) < AlignSyms + AlignMax
    BY <1>3 DEF RxOK
  <2>7. r.erased = {} /\ r.weakNow = {} /\ r.skip = 0 /\ r.idx = 0
    BY <1>3 DEF RxOK
  <2>8. CASE Len(b.buf) >= AlignSyms + AlignMax
    <3>1. Len(b.buf) = AlignSyms + AlignMax
      BY <2>5, <2>6, <2>8, CwFacts
    <3>2. Lagging(b.buf, d) /\ OneWrong(b.buf) /\ b.weakNow = {}
      BY <1>3, <2>2, <2>7
    <3>3. /\ RxOK(q) /\ q.off = d /\ q.state # "aligning"
          /\ q.ref - q.skip + d = Len(b.buf)
      BY <2>1, <2>2, <2>4, <2>8, <3>1, <3>2, AlignKeeps
    <3>4. QED
      BY <1>3, <2>5, <3>3 DEF Handed
  <2>9. CASE ~(Len(b.buf) >= AlignSyms + AlignMax)
    <3>1. q = b
      BY <2>1, <2>9
    <3>2. Len(b.buf) < AlignSyms + AlignMax
      BY <2>5, <2>9, CwFacts
    <3>3. b.nFlagged = Cardinality(b.erased) /\ b.ref % CwSyms = 0
      BY <1>3, <2>2 DEF RxOK
    <3>4. RxOK(b)
      BY <2>2, <2>4, <2>7, <3>2, <3>3 DEF RxOK
    <3>5. QED
      BY <1>3, <2>2, <2>5, <3>1, <3>4 DEF Handed
  <2>10. QED
    BY <2>8, <2>9
<1>4. CASE r.state = "skipping"
  <2> DEFINE s == [r EXCEPT !.skip = @ - 1, !.state = IF r.skip = 1 THEN "running" ELSE @]
  <2>1. q = s
    BY <1>4 DEF Push
  <2>2. r.skip > 0 /\ r.idx = 0 /\ r.erased = {} /\ r.weakNow = {} /\ r.ref % CwSyms = 0
    BY <1>4 DEF RxOK
  <2>3. r.skip - 1 \in 0..(CwSyms - 1)
    BY <1>1, <2>2, CwFacts
  <2>4. /\ s \in Receivers /\ s.skip = r.skip - 1 /\ s.idx = 0 /\ s.erased = r.erased
        /\ s.weakNow = r.weakNow /\ s.ref = r.ref /\ s.off = r.off /\ s.nFlagged = r.nFlagged
        /\ s.state = (IF r.skip = 1 THEN "running" ELSE "skipping")
    BY <1>1, <1>4, <2>2, <2>3 DEF Receivers, ReceiversTo
  <2>5. /\ s.postErrors = r.postErrors /\ s.uncorrectable = r.uncorrectable
        /\ s.overBudget = r.overBudget
    BY <1>1 DEF Receivers, ReceiversTo
  <2> HIDE DEF s
  <2>6. (s.postErrors \/ s.uncorrectable) => s.overBudget
    BY <1>2, <2>5, Zenon
  <2>7. s.nFlagged = Cardinality(s.erased)
    BY <2>4 DEF RxOK
  <2>8. RxOK(s)
    <3>1. CASE r.skip = 1
      BY <2>2, <2>4, <2>6, <2>7, <3>1 DEF RxOK
    <3>2. CASE r.skip # 1
      <4>1. s.skip > 0
        BY <1>1, <2>2, <2>4, <3>2
      <4>2. QED
        BY <2>2, <2>4, <2>6, <2>7, <3>2, <4>1 DEF RxOK
    <3>3. QED
      BY <3>1, <3>2
  <2>9. s.state # "aligning"
    BY <2>4
  <2>10. s.ref - s.skip + s.off = r.ref - r.skip + r.off + 1
    BY <1>1, <2>4
  <2>11. QED
    BY <1>4, <2>1, <2>4, <2>8, <2>9, <2>10 DEF Handed
<1>5. CASE r.state = "running"
  <2>1. q \in Score(r, dec, weak)
    BY <1>5 DEF Push
  <2>2. RxOK(q) /\ q.ref = r.ref + 1 /\ q.skip = 0 /\ q.off = r.off /\ q.state = "running"
    BY <1>5, <2>1, ScoreKeeps
  <2>3. r.skip = 0
    BY <1>5 DEF RxOK
  <2>4. QED
    BY <1>1, <1>5, <2>2, <2>3 DEF Handed
<1>6. QED
  BY <1>1, <1>3, <1>4, <1>5

\* A receiver as pcs_rx_init makes it.
LEMMA FreshReceiver ==
  RxOK(RxInit) /\ Handed(RxInit) = 0 /\ RxInit.state = "aligning" /\ RxInit.buf = <<>>
<1>1. /\ RxInit.state = "aligning" /\ RxInit.buf = <<>> /\ RxInit.skip = 0 /\ RxInit.idx = 0
      /\ RxInit.erased = {} /\ RxInit.weakNow = {} /\ RxInit.nFlagged = 0 /\ RxInit.ref = 0
      /\ RxInit.postErrors = FALSE /\ RxInit.uncorrectable = FALSE
  BY DEF RxInit
<1>2. RxInit \in Receivers
  <2>1. 0 \in 0..(CwSyms - 1) /\ 0 \in 0..CwGf /\ 0 \in 0..AlignMax
    BY CwFacts
  <2>2. <<>> \in Seq(Decision)
    OBVIOUS
  <2>3. QED
    BY <2>1, <2>2 DEF RxInit, Receivers, ReceiversTo
<1>3. 0 % CwSyms = 0
  BY CwFacts
<1>4. Len(<<>>) = 0 /\ 0 < AlignSyms + AlignMax
  BY CwFacts
<1>5. Cardinality({}) = 0
  BY FS_EmptySet
<1>6. QED
  BY <1>1, <1>2, <1>3, <1>4, <1>5 DEF RxOK, Handed

(* The search for the latency, and what a decision is about.               *)

LEMMA DpFacts ==
  /\ BlockLen \in Nat /\ LatMax \in Nat /\ LatMax > 0 /\ LatCorr \in Nat /\ LatCorr > 0
  /\ AlignMax < LatMax /\ LatMax - 1 + LatCorr <= BlockLen - 2
  /\ AlignSyms + AlignMax <= BlockLen - 2
  /\ AlignSyms \in Nat /\ AlignSyms >= 2 /\ AlignMax \in Nat
  /\ \A d \in Lags : d \in 0..AlignMax
BY DatapathAssumption, CwFacts

LEMMA PatternApart ==
  ASSUME NEW b \in Nat
  PROVE  /\ \A m, n \in Int : Pattern(b, m) = Pattern(b, n) => m = n
         /\ \A m, n \in 0..(BlockLen - 1) : Pattern(b, m) # Pattern(b + 1, n)
         /\ \A n \in Int : Pattern(b, n) \in Sent /\ Pattern(b, n)[1] # "payload"
<1>1. b % 2 \in {0, 1} /\ (b + 1) % 2 \in {0, 1} /\ b % 2 # (b + 1) % 2
  OBVIOUS
<1>2. BlockLen \in Nat
  BY DpFacts
<1>3. (b % 2) * BlockLen \in {0, BlockLen} /\ ((b + 1) % 2) * BlockLen \in {0, BlockLen}
      /\ (b % 2) * BlockLen \in Int
  BY <1>1, <1>2
<1>4. /\ \A m, n \in Int : Pattern(b, m) = Pattern(b, n) => m = n
      /\ \A n \in Int : Pattern(b, n) \in Sent /\ Pattern(b, n)[1] # "payload"
  <2> DEFINE x == (b % 2) * BlockLen
  <2>1. x \in Int /\ \A n : Pattern(b, n) = <<"prbs", x + n>>
    BY <1>3 DEF Pattern
  <2> HIDE DEF x
  <2>2. \A m, n \in Int : <<"prbs", x + m>> = <<"prbs", x + n>> => m = n
    <3>1. \A y, m, n \in Int : y + m = y + n => m = n
      OBVIOUS
    <3>2. \A p, q : <<"prbs", p>> = <<"prbs", q>> => p = q
      OBVIOUS
    <3> SUFFICES ASSUME NEW m \in Int, NEW n \in Int, <<"prbs", x + m>> = <<"prbs", x + n>>
                 PROVE  m = n
      OBVIOUS
    <3>3. x + m = x + n
      BY <3>2
    <3>4. QED
      BY <2>1, <3>1, <3>3, Zenon
  <2>3. \A n \in Int : <<"prbs", x + n>> \in Sent /\ <<"prbs", x + n>>[1] # "payload"
    <3>1. \A n \in Int : x + n \in Int
      BY <2>1
    <3>2. \A p \in Int : <<"prbs", p>> \in Sent /\ <<"prbs", p>>[1] # "payload"
      BY DEF Sent
    <3>3. QED
      BY <3>1, <3>2
  <2>4. QED
    BY <2>1, <2>2, <2>3
<1>6. ASSUME NEW m \in 0..(BlockLen - 1), NEW n \in 0..(BlockLen - 1)
      PROVE  (b % 2) * BlockLen + m # ((b + 1) % 2) * BlockLen + n
  <2>1. CASE b % 2 = 0
    <3>1. (b % 2) * BlockLen = 0 /\ ((b + 1) % 2) * BlockLen = BlockLen
      BY <1>1, <1>2, <2>1
    <3>2. QED
      BY <1>2, <3>1
  <2>2. CASE b % 2 = 1
    <3>1. (b % 2) * BlockLen = BlockLen /\ ((b + 1) % 2) * BlockLen = 0
      BY <1>1, <1>2, <2>2
    <3>2. QED
      BY <1>2, <3>1
  <2>3. QED
    BY <1>1, <2>1, <2>2
<1>7. QED
  BY <1>4, <1>6 DEF Pattern

\* Where the symbol of a decision is.
LEMMA CarriedAt ==
  ASSUME DpTypes, blk.at > 0, NEW n \in 1..(BlockLen - 2)
  PROVE  /\ lag \in 0..AlignMax
         /\ n >= lag => /\ n - lag + 1 \in 1..BlockLen
                        /\ Carried(n) = syms[n - lag + 1]
         /\ n < lag => \E k \in 1..LatMax : Carried(n) = past[k]
         /\ Carried(n) \in Sent
<1>1. lag \in 0..AlignMax
  BY DpFacts DEF DpTypes
<1>2. n >= lag => n - lag + 1 \in 1..BlockLen /\ Carried(n) = syms[n - lag + 1]
  BY <1>1, DpFacts DEF Carried
<1>3. n < lag => \E k \in 1..LatMax : Carried(n) = past[k]
  <2> SUFFICES ASSUME n < lag PROVE \E k \in 1..LatMax : Carried(n) = past[k]
    OBVIOUS
  <2>1. LatMax - (lag - n) + 1 \in 1..LatMax
    BY <1>1, DpFacts
  <2>2. Carried(n) = past[LatMax - (lag - n) + 1]
    BY <1>1 DEF Carried
  <2>3. QED
    BY <2>1, <2>2
<1>4. /\ \A k \in 1..BlockLen : syms[k] \in Sent
      /\ \A k \in 1..LatMax : past[k] \in Sent
  BY DpFacts DEF DpTypes
<1>5. n >= lag \/ n < lag
  BY <1>1
<1>6. QED
  BY <1>1, <1>2, <1>3, <1>4, <1>5

\* The best of the offsets, when all but one match nowhere.
LEMMA LatencyFound ==
  ASSUME DpTypes, Training, ~latLocked, ~fecOn, blk.at = BlockLen - 1, blk.mode # "DATA"
  PROVE  /\ BestLatency \in 0..(LatMax - 1)
         /\ MismatchesAt(BestLatency) < LatCorr \div 2 => BestLatency = lag
<1> DEFINE Bad(off) == {i \in 1..LatCorr : LET d == decs[off + i]
                                           IN  ~(d.right /\ d.of = syms[1 + i])}
           Offs == 0..(LatMax - 1)
           Best(off) == \A o \in Offs : \/ MismatchesAt(off) < MismatchesAt(o)
                                        \/ MismatchesAt(off) = MismatchesAt(o) /\ off <= o
<1>1. /\ blk.at > 0 /\ blk.num - 1 \in Nat /\ lag \in Offs /\ lag \in 0..AlignMax
      /\ Len(decs) = BlockLen - 2
  <2>1. blk.at > 0 /\ blk.num \in Nat /\ blk.num > 0
    BY DpFacts DEF DpTypes, Blocks
  <2>2. lag \in Lags
    BY <2>1 DEF DpTypes
  <2>3. Len(decs) = blk.at - 1
    BY <2>1 DEF Training
  <2>4. QED
    BY <2>1, <2>2, <2>3, DpFacts
<1>2. \A off \in Offs : off # lag => Bad(off) = 1..LatCorr
  <2> SUFFICES ASSUME NEW off \in Offs, off # lag, NEW i \in 1..LatCorr
               PROVE  decs[off + i].of # syms[1 + i]
    OBVIOUS
  <2>1. off + i \in 1..(BlockLen - 2) /\ 1 + i \in 1..BlockLen /\ i \in 0..(BlockLen - 1)
        /\ off + i - lag # i /\ i \in Int /\ off + i - lag \in Int
    BY <1>1, DpFacts
  <2>2. decs[off + i].of = Carried(off + i)
    BY <1>1, <2>1 DEF Training
  <2>3. syms[1 + i] = Pattern(blk.num - 1, i)
    <3>1. syms[1 + i] = Pattern(blk.num - 1, 1 + i - 1)
      BY <1>1, <2>1 DEF Training
    <3>2. 1 + i - 1 = i
      BY <2>1
    <3>3. QED
      BY <3>1, <3>2
  <2>4. CASE off + i >= lag
    <3>1. /\ off + i - lag + 1 \in 1..BlockLen
          /\ Carried(off + i) = syms[off + i - lag + 1]
      BY <1>1, <2>1, <2>4, CarriedAt
    <3>2. syms[off + i - lag + 1] = Pattern(blk.num - 1, off + i - lag + 1 - 1)
      BY <1>1, <3>1 DEF Training
    <3>3. off + i - lag + 1 - 1 = off + i - lag
      BY <2>1
    <3>4. Pattern(blk.num - 1, off + i - lag) # Pattern(blk.num - 1, i)
      BY <1>1, <2>1, PatternApart
    <3>5. QED
      BY <2>2, <2>3, <3>1, <3>2, <3>3, <3>4
  <2>5. CASE off + i < lag
    <3>1. PICK k \in 1..LatMax : Carried(off + i) = past[k]
      BY <1>1, <2>1, <2>5, CarriedAt
    <3>2. blk.at # 0
      BY <1>1
    <3>3. past[k] # Pattern(blk.num - 1, i)
      BY <2>1, <3>2 DEF Training
    <3>4. QED
      BY <2>2, <2>3, <3>1, <3>3
  <2>6. QED
    BY <1>1, <2>1, <2>4, <2>5
<1>3. Cardinality(1..LatCorr) = LatCorr /\ IsFiniteSet(1..LatCorr)
  <2>1. /\ IsFiniteSet(1..LatCorr)
        /\ Cardinality(1..LatCorr) = IF 1 > LatCorr THEN 0 ELSE LatCorr - 1 + 1
    BY FS_Interval, DpFacts
  <2>2. QED
    BY <2>1, DpFacts
<1>4. \A off \in Offs : off # lag => MismatchesAt(off) = LatCorr
  BY <1>2, <1>3 DEF MismatchesAt
<1>5. MismatchesAt(lag) \in 0..LatCorr
  <2>1. Bad(lag) \in SUBSET (1..LatCorr)
    OBVIOUS
  <2> HIDE DEF Bad
  <2>2. IsFiniteSet(Bad(lag)) /\ Cardinality(Bad(lag)) <= LatCorr
    BY <1>3, <2>1, FS_Subset
  <2>3. Cardinality(Bad(lag)) \in Nat
    BY <2>2, FS_CardinalityType
  <2>4. QED
    BY <2>2, <2>3, DpFacts DEF MismatchesAt, Bad
<1>6. \E off \in Offs : Best(off)
  <2>1. CASE MismatchesAt(lag) < LatCorr
    <3>1. ASSUME NEW o \in Offs
          PROVE  \/ MismatchesAt(lag) < MismatchesAt(o)
                 \/ MismatchesAt(lag) = MismatchesAt(o) /\ lag <= o
      <4>1. CASE o = lag
        BY <1>1, <4>1
      <4>2. CASE o # lag
        BY <1>4, <2>1, <4>2
      <4>3. QED
        BY <4>1, <4>2
    <3>2. Best(lag)
      BY <3>1
    <3> HIDE DEF Best
    <3>3. QED
      BY <1>1, <3>2
  <2>2. CASE MismatchesAt(lag) = LatCorr
    <3>1. 0 \in Offs /\ \A o \in Offs : MismatchesAt(o) = LatCorr /\ 0 <= o
      BY <1>4, <2>2, DpFacts
    <3>2. QED
      BY <3>1
  <2>3. QED
    BY <1>5, <2>1, <2>2, DpFacts
<1>7. BestLatency = CHOOSE off \in Offs : Best(off)
  BY DEF BestLatency
<1> HIDE DEF Best
<1>8. BestLatency \in Offs
  BY <1>6, <1>7
<1>9. MismatchesAt(BestLatency) < LatCorr \div 2 => BestLatency = lag
  <2>1. ~(LatCorr < LatCorr \div 2)
    BY DpFacts
  <2>2. QED
    BY <1>4, <1>8, <2>1
<1>10. QED
  BY <1>8, <1>9

\* A decision the receiver is handed is about the payload symbol of its place
\* in the order they were handed in, the delay taken off.
LEMMA CarriedWhenTraffic ==
  ASSUME DpTypes, Training, LatencyTrue, Traffic, fecOn, blk.at >= RxLow,
         blk.at \in 1..(BlockLen - 2)
  PROVE  IF Handed(pcsRx) + 1 > Delay
         THEN Carried(blk.at) = Payload(Handed(pcsRx) - Delay)
         ELSE Carried(blk.at)[1] # "payload"
<1> DEFINE n == blk.at
<1>1. n > 0 /\ n # 0 /\ n \in 1..(BlockLen - 2) /\ n \in Nat
  BY DpFacts
<1>2. lag \in 0..AlignMax
  BY <1>1, CarriedAt
<1>3. /\ n >= lag => /\ n - lag + 1 \in 1..BlockLen
                     /\ Carried(n) = syms[n - lag + 1]
      /\ n < lag => \E k \in 1..LatMax : Carried(n) = past[k]
  BY <1>1, CarriedAt
<1>4. /\ pcsTx \in Nat /\ pcsTx >= TxHigh /\ syms[1][1] # "payload"
      /\ \A m \in 1..TxHigh : syms[m + 1] = Payload(pcsTx - TxHigh + m - 1)
      /\ Handed(pcsRx) = pcsTx - TxHigh + (IF n > RxLow THEN n - RxLow ELSE 0)
  BY <1>1 DEF Traffic, DpTypes
<1>5. CASE pcsCalib
  <2>1. Window = 0 /\ TxHigh = BlockLen - 2 /\ RxLow = 1 /\ pcsTx = TxHigh /\ Delay = lag
    <3>1. Window = 0
      BY <1>5 DEF Traffic, Window
    <3>2. QED
      BY <1>1, <1>5, <3>1, DpFacts DEF Traffic, TxHigh, RxLow, Delay
  <2>2. Handed(pcsRx) = n - 1
    BY <1>1, <1>4, <2>1, DpFacts
  <2>3. CASE n > lag
    <3>1. n - lag \in 1..TxHigh
      BY <1>1, <1>2, <2>1, <2>3, DpFacts
    <3>2. syms[n - lag + 1] = Payload(pcsTx - TxHigh + (n - lag) - 1)
      BY <1>4, <3>1
    <3>3. pcsTx - TxHigh + (n - lag) - 1 = n - 1 - lag
      BY <1>1, <1>2, <2>1, DpFacts
    <3>4. Carried(n) = syms[n - lag + 1]
      BY <1>1, <1>2, <1>3, <2>3
    <3>5. n - 1 + 1 > lag
      BY <1>1, <1>2, <2>3
    <3>6. QED
      BY <2>1, <2>2, <3>2, <3>3, <3>4, <3>5
  <2>4. CASE n = lag
    <3>1. n - lag + 1 = 1 /\ n >= lag /\ ~(n - 1 + 1 > lag)
      BY <1>1, <1>2, <2>4
    <3>2. Carried(n) = syms[1]
      BY <1>3, <3>1
    <3>3. QED
      BY <1>4, <2>1, <2>2, <3>1, <3>2
  <2>5. CASE n < lag
    <3>1. PICK k \in 1..LatMax : Carried(n) = past[k]
      BY <1>3, <2>5
    <3>2. past[k][1] # "payload"
      BY <1>5 DEF Training
    <3>3. ~(n - 1 + 1 > lag)
      BY <1>1, <1>2, <2>5
    <3>4. QED
      BY <2>1, <2>2, <3>1, <3>2, <3>3
  <2>6. QED
    BY <1>1, <1>2, <2>3, <2>4, <2>5
<1>6. CASE ~pcsCalib
  <2>1. /\ Window = lag /\ TxHigh = BlockLen - 2 - lag /\ RxLow = 1 + lag /\ Delay = 0
    <3>1. Window = lag
      BY <1>6 DEF Traffic, Window
    <3>2. QED
      BY <1>6, <3>1 DEF TxHigh, RxLow, Delay
  <2>2. Handed(pcsRx) = pcsTx - TxHigh + (n - lag - 1) /\ n >= 1 + lag
    BY <1>1, <1>2, <1>4, <2>1, DpFacts
  <2>3. n - lag \in 1..TxHigh /\ n >= lag
    BY <1>1, <1>2, <2>1, <2>2, DpFacts
  <2>4. syms[n - lag + 1] = Payload(pcsTx - TxHigh + (n - lag) - 1)
    BY <1>4, <2>3
  <2>5. /\ Handed(pcsRx) - 0 = pcsTx - TxHigh + (n - lag) - 1
        /\ Handed(pcsRx) + 1 > 0
    BY <1>1, <1>2, <1>4, <2>1, <2>2, DpFacts
  <2>6. QED
    BY <1>3, <2>1, <2>3, <2>4, <2>5
<1>7. QED
  BY <1>5, <1>6

(* The steps of the datapath.                                              *)

\* What a block's window is, and that a receiver fills in it.
LEMMA WindowFits ==
  ASSUME DpTypes, fecOn => lag # -1, fecOn /\ ~pcsCalib => pcsLat = lag,
         fecOn /\ pcsCalib => pcsLat = 0
  PROVE  /\ fecOn => TxHigh \in 1..(BlockLen - 2) /\ RxLow \in 1..(BlockLen - 2)
                     /\ BlockLen - 1 - RxLow = TxHigh
         /\ fecOn => (IF pcsCalib THEN Window = 0 ELSE Window = lag)
<1> SUFFICES ASSUME fecOn
             PROVE  /\ TxHigh \in 1..(BlockLen - 2) /\ RxLow \in 1..(BlockLen - 2)
                    /\ BlockLen - 1 - RxLow = TxHigh
                    /\ IF pcsCalib THEN Window = 0 ELSE Window = lag
  OBVIOUS
<1>1. lag \in 0..AlignMax
  BY DpFacts DEF DpTypes
<1>2. IF pcsCalib THEN Window = 0 ELSE Window = lag
  BY DEF Window
<1>3. Window \in 0..AlignMax
  BY <1>1, <1>2, DpFacts
<1>4. TxHigh = BlockLen - 2 - Window /\ RxLow = 1 + Window
  BY DEF TxHigh, RxLow
<1> HIDE DEF Window
<1>5. /\ TxHigh \in 1..(BlockLen - 2) /\ RxLow \in 1..(BlockLen - 2)
      /\ BlockLen - 1 - RxLow = TxHigh
  BY <1>3, <1>4, DpFacts
<1>6. QED
  BY <1>2, <1>5

\* Before the lane, and before the first block, there is only silence.
LEMMA SilenceApart ==
  /\ Nothing \in Sent /\ Nothing[1] # "payload"
  /\ \A b, n : Nothing # Pattern(b, n)
  /\ Zeros \in Seq(Sent) /\ Len(Zeros) = LatMax /\ \A k \in 1..LatMax : Zeros[k] = Nothing
<1>1. Nothing \in Sent /\ Nothing[1] # "payload" /\ \A b, n : Nothing # Pattern(b, n)
  BY DEF Nothing, Sent, Pattern
<1>2. LatMax \in Nat
  BY DpFacts
<1>3. Zeros \in [1..LatMax -> Sent] /\ \A k \in 1..LatMax : Zeros[k] = Nothing
  BY <1>1 DEF Zeros
<1>4. Zeros \in Seq(Sent) /\ Len(Zeros) = LatMax
  BY <1>2, <1>3
<1>5. QED
  BY <1>1, <1>3, <1>4

LEMMA DpInitInv == DpInit => DpInv
<1> SUFFICES ASSUME DpInit PROVE DpInv
  OBVIOUS
<1>1. DpTypes
  <2>1. blk \in Blocks /\ blk.at = 0 /\ blk.eye # "shut"
    BY DpFacts DEF DpInit, Blocks
  <2>2. 0 \in 0..(LatMax - 1) /\ 0 \in 0..AlignMax
    BY DpFacts
  <2>3. <<>> \in Seq(Sent) /\ <<>> \in Seq(Decision)
    OBVIOUS
  <2>4. Zeros \in Seq(Sent) /\ Len(Zeros) = LatMax
    BY SilenceApart
  <2>5. /\ lag = -1 /\ txLat = 0 /\ pcsLat = 0 /\ ~latLocked /\ ~fecOn /\ ~pcsCalib /\ pcsTx = 0
        /\ latLocked \in BOOLEAN /\ fecOn \in BOOLEAN /\ pcsCalib \in BOOLEAN
        /\ past = Zeros /\ prevSyms = Zeros /\ syms = <<>> /\ decs = <<>>
    BY DEF DpInit
  <2>6. QED
    BY <2>1, <2>2, <2>3, <2>4, <2>5 DEF DpTypes
<1>2. Training
  BY SilenceApart DEF DpInit, Training
<1>3. LatencyTrue /\ Traffic
  BY DEF DpInit, LatencyTrue, Traffic
<1>4. RxOK(pcsRx)
  BY FreshReceiver DEF DpInit
<1>5. pcsRx.state # "running"
  BY FreshReceiver DEF DpInit
<1>6. PayloadInStep /\ ReferenceFollows
  BY <1>5 DEF DpInit, PayloadInStep, ReferenceFollows, Same
<1>7. QED
  BY <1>1, <1>2, <1>3, <1>4, <1>6 DEF DpInv

LEMMA BuildKeeps ==
  ASSUME DpInv, NEW d \in Lags, NEW e \in 0..(LatMax - 1), Build(d, e)
  PROVE  DpInv'
<1> USE DEF Build, laneState, pcsState
<1>1. lag = -1 /\ blk.at = 0 /\ ~latLocked /\ ~fecOn
  BY DEF DpInv, DpTypes, LatencyTrue
<1>2. DpTypes'
  <2>1. d # -1
    BY DpFacts
  <2>2. QED
    BY <1>1, <2>1 DEF DpInv, DpTypes
<1>3. Training'
  BY <1>1 DEF DpInv, Training
<1>4. LatencyTrue' /\ Traffic'
  BY <1>1 DEF LatencyTrue, Traffic
<1>5. RxOK(pcsRx)' /\ PayloadInStep' /\ ReferenceFollows'
  <2>1. pcsRx' = pcsRx /\ pcsCalib' = pcsCalib /\ lastPush' = lastPush /\ lastRef' = lastRef
        /\ latLocked' = latLocked
    OBVIOUS
  <2>2. QED
    BY <2>1 DEF DpInv, PayloadInStep, ReferenceFollows
<1>6. QED
  BY <1>2, <1>3, <1>4, <1>5 DEF DpInv

LEMMA SetFecKeeps ==
  ASSUME DpInv, SetFec
  PROVE  DpInv'
<1> USE DEF SetFec, laneState, pcsState
<1>1. lag \in Lags /\ blk.at = 0 /\ latLocked /\ ~fecOn /\ blk \in Blocks /\ blk.eye # "shut"
  BY DEF DpInv, DpTypes
<1>2. blk' \in Blocks /\ blk'.at = 0 /\ blk'.eye = blk.eye
  BY <1>1 DEF Blocks
<1>3. DpTypes'
  <2>1. 0 \in 0..AlignMax
    BY DpFacts
  <2>2. QED
    BY <1>1, <1>2, <2>1 DEF DpInv, DpTypes
<1>4. Training'
  <2>1. \A k \in 1..LatMax : past[k][1] # "payload"
    BY <1>1 DEF DpInv, Training
  <2>2. QED
    BY <1>1, <1>2, <2>1 DEF Training
<1>5. LatencyTrue'
  BY <1>1 DEF DpInv, LatencyTrue
<1>6. RxOK(pcsRx)' /\ pcsRx'.state = "aligning" /\ pcsRx'.buf = <<>> /\ Handed(pcsRx)' = 0
  BY FreshReceiver
<1>7. Traffic'
  BY <1>1, <1>2, <1>6 DEF Traffic, Lagging, OneWrong
<1>8. PayloadInStep' /\ ReferenceFollows'
  BY <1>1, <1>6 DEF DpInv, PayloadInStep, ReferenceFollows
<1>9. QED
  BY <1>3, <1>4, <1>5, <1>6, <1>7, <1>8 DEF DpInv

\* The symbols of a block.
LEMMA BlockOfSymbols ==
  ASSUME NEW f \in [1..BlockLen -> Sent]
  PROVE  <<>> \o f = f /\ f \in Seq(Sent) /\ Len(f) = BlockLen
<1>1. f \in Seq(Sent) /\ Len(f) = BlockLen
  BY DpFacts
<1>2. <<>> \o f = f
  BY <1>1
<1>3. QED
  BY <1>1, <1>2

LEMMA TxKeeps ==
  ASSUME DpInv, NEW mode \in {"TRAIN", "VERIFY", "DATA"},
         NEW eye \in {"open", "shut", "noisy"}, NEW weak \in BOOLEAN,
         fecOn => eye # "shut", TxBlock(mode, eye, weak)
  PROVE  DpInv'
<1> DEFINE InPayload(n) == fecOn /\ n >= 1 /\ n <= TxHigh
           block == [i \in 1..BlockLen |->
                         IF InPayload(i - 1) THEN Payload(pcsTx + i - 2)
                                             ELSE Pattern(blk.num, i - 1)]
<1>1. /\ lag >= 0 /\ lag # -1 /\ blk.at = 0 /\ blk \in Blocks /\ blk.num \in Nat /\ pcsTx \in Nat
      /\ lag' = lag /\ txLat' = txLat /\ latLocked' = latLocked /\ prevSyms' = prevSyms
      /\ fecOn' = fecOn /\ pcsLat' = pcsLat /\ pcsCalib' = pcsCalib /\ pcsRx' = pcsRx
      /\ past' = past /\ lastRef' = lastRef /\ lastPush' = lastPush
  BY DEF DpInv, DpTypes, Blocks, TxBlock, laneState, pcsState
<1>2. syms' = <<>> \o block /\ decs' = <<>> /\ pcsTx' = (IF fecOn THEN pcsTx + TxHigh ELSE pcsTx)
  BY DEF TxBlock
<1>3. /\ blk' \in Blocks /\ blk'.num = blk.num + 1 /\ blk'.at = 1 /\ blk'.mode = mode
      /\ blk'.eye = eye
  <2>1. blk' = [num |-> blk.num + 1, at |-> 1, mode |-> mode, eye |-> eye, weak |-> weak]
    BY DEF TxBlock
  <2>2. blk.num + 1 \in Nat /\ 1 \in 0..(BlockLen - 1)
    BY <1>1, DpFacts
  <2>3. QED
    BY <2>1, <2>2 DEF Blocks
<1>4. block \in [1..BlockLen -> Sent]
  <2>1. \A i \in 1..BlockLen : Pattern(blk.num, i - 1) \in Sent
    BY <1>1, PatternApart, DpFacts
  <2>2. \A i \in 1..BlockLen : Payload(pcsTx + i - 2) \in Sent
    <3>1. \A i \in 1..BlockLen : pcsTx + i - 2 \in Int
      BY <1>1, DpFacts
    <3>2. \A p \in Int : Payload(p) \in Sent
      BY DEF Payload, Sent
    <3>3. QED
      BY <3>1, <3>2
  <2>3. QED
    BY <2>1, <2>2
<1>5. syms' = block /\ syms' \in Seq(Sent) /\ Len(syms') = BlockLen
  BY <1>2, <1>4, BlockOfSymbols
<1>6. fecOn => TxHigh \in 1..(BlockLen - 2) /\ RxLow \in 1..(BlockLen - 2)
  BY <1>1, WindowFits DEF DpInv, Traffic
<1>7. pcsTx' \in Nat
  BY <1>1, <1>2, <1>6
<1>8. DpTypes'
  <2>1. <<>> \in Seq(Decision)
    OBVIOUS
  <2>2. blk'.num > 0 /\ blk'.at # 0
    BY <1>1, <1>3
  <2>3. lag \in {-1} \cup Lags /\ txLat \in 0..(LatMax - 1) /\ pcsLat \in 0..AlignMax
        /\ {latLocked, fecOn, pcsCalib} \subseteq BOOLEAN
        /\ past \in Seq(Sent) /\ Len(past) = LatMax /\ prevSyms = past
    BY DEF DpInv, DpTypes
  <2>4. QED
    BY <1>1, <1>2, <1>3, <1>5, <1>7, <2>1, <2>2, <2>3 DEF DpTypes
<1>9. Training'
  <2>1. blk.num + 1 - 1 = blk.num /\ 1 - 1 = 0
    BY <1>1
  <2>2. ~fecOn => \A i \in 1..BlockLen : syms'[i] = Pattern(blk.num, i - 1)
    BY <1>5
  <2>3. Len(decs') = 0
    BY <1>2
  <2>4. ~fecOn => \A k \in 1..LatMax, n \in 0..(BlockLen - 1) : past[k] # Pattern(blk.num, n)
    BY <1>1 DEF DpInv, Training
  <2>5. ~fecOn \/ pcsCalib => \A k \in 1..LatMax : past[k][1] # "payload"
    BY DEF DpInv, Training
  <2>6. \A n \in 1..Len(decs') : FALSE
    BY <2>3
  <2>7. QED
    BY <1>1, <1>3, <2>1, <2>2, <2>3, <2>4, <2>5, <2>6 DEF Training
<1>10. LatencyTrue'
  BY <1>1 DEF DpInv, LatencyTrue
<1>11. RxOK(pcsRx)' /\ PayloadInStep' /\ ReferenceFollows'
  BY <1>1 DEF DpInv, PayloadInStep, ReferenceFollows
<1>12. Traffic'
  <2> SUFFICES ASSUME fecOn PROVE Traffic'
    BY <1>1 DEF Traffic
  <2>1. Window' = Window /\ TxHigh' = TxHigh /\ RxLow' = RxLow /\ Delay' = Delay
    BY <1>1 DEF Window, TxHigh, RxLow, Delay
  <2>2. pcsTx' = pcsTx + TxHigh /\ TxHigh \in 1..(BlockLen - 2) /\ RxLow \in 1..(BlockLen - 2)
    BY <1>2, <1>6
  <2>3. /\ ~pcsCalib => pcsLat = lag
        /\ pcsCalib  => pcsLat = 0 /\ pcsTx = 0
        /\ Handed(pcsRx) = pcsTx
        /\ pcsRx.state = "aligning" => Lagging(pcsRx.buf, Delay) /\ OneWrong(pcsRx.buf)
        /\ pcsRx.state # "aligning" => pcsRx.off = Delay
    BY <1>1 DEF DpInv, Traffic
  <2>4. pcsTx' >= TxHigh /\ pcsTx' - TxHigh = pcsTx /\ (pcsCalib => pcsTx' = TxHigh)
    BY <1>1, <2>2, <2>3, DpFacts
  <2>5. syms'[1][1] # "payload"
    <3>1. 1 \in 1..BlockLen /\ ~InPayload(1 - 1) /\ 1 - 1 \in Int
      BY DpFacts
    <3>2. syms'[1] = Pattern(blk.num, 1 - 1)
      BY <1>5, <3>1
    <3>3. QED
      BY <1>1, <3>1, <3>2, PatternApart
  <2>6. \A n \in 1..TxHigh : syms'[n + 1] = Payload(pcsTx' - TxHigh + n - 1)
    <3> SUFFICES ASSUME NEW n \in 1..TxHigh
                 PROVE  syms'[n + 1] = Payload(pcsTx' - TxHigh + n - 1)
      OBVIOUS
    <3>1. /\ n + 1 \in 1..BlockLen /\ n + 1 - 1 = n /\ n >= 1 /\ n <= TxHigh
          /\ pcsTx + (n + 1) - 2 = pcsTx' - TxHigh + n - 1
      BY <1>1, <2>2, DpFacts
    <3>2. InPayload(n + 1 - 1)
      BY <3>1
    <3>3. syms'[n + 1] = Payload(pcsTx + (n + 1) - 2)
      BY <1>5, <3>1, <3>2
    <3>4. QED
      BY <3>1, <3>3
  <2>7. ~(1 > RxLow) /\ pcsTx' - TxHigh + 0 = pcsTx
    BY <1>1, <2>2, DpFacts
  <2>8. Handed(pcsRx)' = Handed(pcsRx)
    BY <1>1 DEF Handed
  <2>9. Handed(pcsRx)' = pcsTx' - TxHigh' + (IF blk'.at > RxLow' THEN blk'.at - RxLow' ELSE 0)
    BY <1>3, <2>1, <2>3, <2>7, <2>8
  <2>10. blk'.at # 0 /\ blk'.eye # "shut"
    BY <1>3
  <2>11. /\ (~pcsCalib => pcsLat = lag)' /\ (pcsCalib => pcsLat = 0 /\ pcsTx = TxHigh)'
         /\ (pcsRx.state = "aligning" => Lagging(pcsRx.buf, Delay) /\ OneWrong(pcsRx.buf))'
         /\ (pcsRx.state # "aligning" => pcsRx.off = Delay)'
    BY <1>1, <2>1, <2>3, <2>4
  <2>12. (/\ pcsTx >= TxHigh /\ syms[1][1] # "payload"
          /\ \A n \in 1..TxHigh : syms[n + 1] = Payload(pcsTx - TxHigh + n - 1))'
    BY <2>1, <2>4, <2>5, <2>6
  <2>13. QED
    BY <2>9, <2>10, <2>11, <2>12 DEF Traffic
<1>13. QED
  BY <1>8, <1>9, <1>10, <1>11, <1>12 DEF DpInv

\* One more decision, at its place and delay.
LEMMA LaggingGrows ==
  ASSUME NEW buf \in Seq(Decision), NEW dec \in Decision, NEW d \in Nat, Lagging(buf, d),
         IF Len(buf) + 1 > d THEN dec.of = Payload(Len(buf) - d) ELSE dec.of[1] # "payload"
  PROVE  Lagging(Append(buf, dec), d)
<1>1. /\ Len(buf) \in Nat /\ Len(Append(buf, dec)) = Len(buf) + 1
      /\ \A i \in 1..Len(buf) : Append(buf, dec)[i] = buf[i]
      /\ Append(buf, dec)[Len(buf) + 1] = dec
  OBVIOUS
<1> SUFFICES ASSUME NEW i \in 1..(Len(buf) + 1)
             PROVE  IF i > d THEN Append(buf, dec)[i].of = Payload(i - 1 - d)
                             ELSE Append(buf, dec)[i].of[1] # "payload"
  BY <1>1 DEF Lagging
<1>2. CASE i \in 1..Len(buf)
  BY <1>1, <1>2 DEF Lagging
<1>3. CASE i = Len(buf) + 1
  <2>1. i - 1 - d = Len(buf) - d
    BY <1>1, <1>3
  <2>2. QED
    BY <1>1, <1>3, <2>1
<1>4. QED
  BY <1>1, <1>2, <1>3

\* A wrong decision after none but right ones.
LEMMA OneWrongGrows ==
  ASSUME NEW buf \in Seq(Decision), NEW dec \in Decision, OneWrong(buf),
         dec.right \/ \A i \in 1..Len(buf) : buf[i].right
  PROVE  OneWrong(Append(buf, dec))
<1>1. /\ Len(buf) \in Nat /\ Len(Append(buf, dec)) = Len(buf) + 1
      /\ \A i \in 1..Len(buf) : Append(buf, dec)[i] = buf[i]
      /\ Append(buf, dec)[Len(buf) + 1] = dec
  OBVIOUS
<1> SUFFICES ASSUME NEW i \in 1..(Len(buf) + 1), NEW j \in 1..(Len(buf) + 1),
                    ~Append(buf, dec)[i].right, ~Append(buf, dec)[j].right
             PROVE  i = j
  BY <1>1 DEF OneWrong
<1>2. (i \in 1..Len(buf) \/ i = Len(buf) + 1) /\ (j \in 1..Len(buf) \/ j = Len(buf) + 1)
  BY <1>1
<1>3. CASE i \in 1..Len(buf) /\ j \in 1..Len(buf)
  BY <1>1, <1>3 DEF OneWrong
<1>4. CASE i = Len(buf) + 1 /\ j = Len(buf) + 1
  BY <1>4
<1>5. CASE i = Len(buf) + 1 /\ j \in 1..Len(buf)
  BY <1>1, <1>5
<1>6. CASE j = Len(buf) + 1 /\ i \in 1..Len(buf)
  BY <1>1, <1>6
<1>7. QED
  BY <1>2, <1>3, <1>4, <1>5, <1>6

\* A block's turn: the lane's types, the search's decisions, the references.
LEMMA RxLaneKeeps ==
  ASSUME DpInv, NEW right \in BOOLEAN, RxSymbol(right)
  PROVE  DpTypes' /\ Training' /\ LatencyTrue' /\ ReferenceFollows'
<1> DEFINE n   == blk.at
           dec == [of |-> Carried(n), right |-> right]
<1>1. /\ n \in 1..(BlockLen - 2) /\ blk \in Blocks /\ n \in Nat /\ n > 0 /\ blk.num > 0
      /\ DpTypes /\ decs \in Seq(Decision)
  <2>1. DpTypes
    BY DEF DpInv
  <2>2. blk \in Blocks /\ decs \in Seq(Decision) /\ (blk.at > 0 => blk.num > 0)
    BY <2>1 DEF DpTypes
  <2>3. n \in 1..(BlockLen - 2) /\ n \in Nat /\ n > 0
    BY <2>2, DpFacts DEF RxSymbol, Blocks
  <2>4. QED
    BY <2>1, <2>2, <2>3
<1>2. /\ lag' = lag /\ txLat' = txLat /\ latLocked' = latLocked /\ prevSyms' = prevSyms
      /\ fecOn' = fecOn /\ pcsLat' = pcsLat /\ pcsCalib' = pcsCalib /\ pcsTx' = pcsTx
      /\ past' = past /\ syms' = syms
  BY DEF RxSymbol, laneState, pcsState
<1>3. blk' = [blk EXCEPT !.at = n + 1]
  BY DEF RxSymbol
<1>4. /\ blk' \in Blocks /\ blk'.at = n + 1 /\ blk'.num = blk.num /\ blk'.mode = blk.mode
      /\ blk'.eye = blk.eye
  <2>1. n + 1 \in 0..(BlockLen - 1)
    BY <1>1, DpFacts
  <2>2. QED
    BY <1>1, <1>3, <2>1 DEF Blocks
<1>5. dec \in Decision /\ dec.of = Carried(n)
  <2>1. Carried(n) \in Sent
    BY <1>1, CarriedAt
  <2>2. QED
    BY <2>1 DEF Decision
<1>6. decs' = IF blk.mode # "DATA" /\ ~latLocked THEN Append(decs, dec) ELSE decs
  BY DEF RxSymbol
<1>7. lastRef' = IF blk.mode # "DATA" THEN <<Reference(n), Carried(n)>> ELSE Same
  BY DEF RxSymbol
<1> HIDE DEF dec
<1>8. DpTypes'
  <2>1. decs' \in Seq(Decision)
    BY <1>1, <1>5, <1>6
  <2>2. n + 1 # 0 /\ n # 0
    BY <1>1
  <2>3. /\ lag \in {-1} \cup Lags /\ txLat \in 0..(LatMax - 1) /\ pcsLat \in 0..AlignMax
        /\ {latLocked, fecOn, pcsCalib} \subseteq BOOLEAN /\ pcsTx \in Nat
        /\ past \in Seq(Sent) /\ Len(past) = LatMax /\ prevSyms = past
        /\ syms \in Seq(Sent) /\ Len(syms) = BlockLen /\ lag # -1
    BY <1>1, <2>2 DEF DpTypes
  <2>4. QED
    BY <1>1, <1>2, <1>4, <2>1, <2>2, <2>3 DEF DpTypes
<1>9. Training'
  <2>1. n + 1 # 0 /\ n # 0
    BY <1>1
  <2>2. \A m : Carried(m)' = Carried(m)
    BY <1>2 DEF Carried
  <2>3. ~latLocked /\ blk.mode # "DATA" =>
           /\ Len(decs') = n
           /\ \A m \in 1..Len(decs') : decs'[m].of = Carried(m)
    <3> SUFFICES ASSUME ~latLocked, blk.mode # "DATA"
                 PROVE  /\ Len(decs') = n
                        /\ \A m \in 1..Len(decs') : decs'[m].of = Carried(m)
      OBVIOUS
    <3>1. Len(decs) = n - 1 /\ \A m \in 1..Len(decs) : decs[m].of = Carried(m)
      BY <1>1 DEF DpInv, Training
    <3>2. decs' = Append(decs, dec)
      BY <1>6
    <3>3. /\ Len(decs') = n /\ decs'[n] = dec
          /\ \A m \in 1..(n - 1) : decs'[m] = decs[m]
      BY <1>1, <1>5, <3>1, <3>2
    <3>4. \A m \in 1..n : m = n \/ m \in 1..(n - 1)
      BY <1>1
    <3>5. QED
      BY <1>5, <3>1, <3>3, <3>4
  <2>4. n + 1 - 1 = n
    BY <1>1
  <2>5. ~fecOn => \A k \in 1..LatMax, m \in 0..(BlockLen - 1) : past[k] # Pattern(blk.num - 1, m)
    BY <2>1 DEF DpInv, Training
  <2>6. ~fecOn \/ pcsCalib => \A k \in 1..LatMax : past[k][1] # "payload"
    BY DEF DpInv, Training
  <2>7. ~fecOn => \A i \in 1..BlockLen : syms[i] = Pattern(blk.num - 1, i - 1)
    BY <1>1 DEF DpInv, Training
  <2>8. QED
    BY <1>2, <1>4, <2>1, <2>2, <2>3, <2>4, <2>5, <2>6, <2>7 DEF Training
<1>10. LatencyTrue'
  BY <1>2 DEF DpInv, LatencyTrue
<1>11. ReferenceFollows'
  <2> SUFFICES ASSUME latLocked PROVE lastRef'[1] = lastRef'[2]
    BY <1>2 DEF ReferenceFollows
  <2>1. txLat = lag /\ prevSyms = past
    BY DEF DpInv, LatencyTrue, DpTypes
  <2>2. Reference(n) = Carried(n)
    BY <2>1 DEF Reference, Carried
  <2>3. QED
    BY <1>7, <2>2 DEF Same
<1>12. QED
  BY <1>8, <1>9, <1>10, <1>11

\* A block's turn: the receiver.
LEMMA RxReceiverKeeps ==
  ASSUME DpInv, NEW right \in BOOLEAN, RxSymbol(right)
  PROVE  RxOK(pcsRx)' /\ Traffic' /\ PayloadInStep'
<1> DEFINE n   == blk.at
           dec == [of |-> Carried(n), right |-> right]
           pushed == fecOn /\ n >= RxLow
<1>1. /\ n \in 1..(BlockLen - 2) /\ blk \in Blocks /\ n \in Nat /\ n > 0
      /\ DpTypes /\ Training /\ LatencyTrue /\ Traffic /\ RxOK(pcsRx) /\ blk.weak \in BOOLEAN
  BY DpFacts DEF RxSymbol, DpInv, DpTypes, Blocks
<1>2. /\ lag' = lag /\ pcsTx' = pcsTx /\ syms' = syms
      /\ fecOn' = fecOn /\ pcsLat' = pcsLat /\ pcsCalib' = pcsCalib
  BY DEF RxSymbol, laneState, pcsState
<1>3. blk'.at = n + 1 /\ blk'.eye = blk.eye
  <2>1. blk' = [blk EXCEPT !.at = n + 1]
    BY DEF RxSymbol
  <2>2. QED
    BY <1>1, <2>1 DEF Blocks
<1>4. dec \in Decision /\ dec.of = Carried(n) /\ dec.right = right
  <2>1. Carried(n) \in Sent
    BY <1>1, CarriedAt
  <2>2. QED
    BY <2>1 DEF Decision
<1>5. /\ pcsRx' \in IF pushed THEN Push(pcsRx, dec, blk.weak) ELSE {pcsRx}
      /\ lastPush' = IF pushed /\ pcsRx.state = "running"
                     THEN <<Payload(pcsRx.ref), Carried(n)>> ELSE Same
      /\ Plausible(right)
  BY DEF RxSymbol
<1> HIDE DEF dec
<1>6. Window' = Window /\ TxHigh' = TxHigh /\ RxLow' = RxLow /\ Delay' = Delay
  BY <1>2 DEF Window, TxHigh, RxLow, Delay
<1>7. CASE ~fecOn
  <2>1. pcsRx' = pcsRx /\ lastPush' = Same
    BY <1>5, <1>7
  <2>2. Traffic'
    BY <1>2, <1>7 DEF Traffic
  <2>3. PayloadInStep'
    BY <2>1 DEF DpInv, PayloadInStep, Same
  <2>4. QED
    BY <1>1, <2>1, <2>2, <2>3
<1>8. CASE fecOn
  <2>1. /\ blk.eye # "shut"
        /\ ~pcsCalib => pcsLat = lag
        /\ pcsCalib  => pcsLat = 0 /\ pcsTx = TxHigh
        /\ pcsTx >= TxHigh /\ syms[1][1] # "payload"
        /\ \A m \in 1..TxHigh : syms[m + 1] = Payload(pcsTx - TxHigh + m - 1)
        /\ Handed(pcsRx) = pcsTx - TxHigh + (IF n > RxLow THEN n - RxLow ELSE 0)
        /\ pcsRx.state = "aligning" => Lagging(pcsRx.buf, Delay) /\ OneWrong(pcsRx.buf)
        /\ pcsRx.state # "aligning" => pcsRx.off = Delay
    BY <1>1, <1>8 DEF Traffic
  <2>2. lag \in 0..AlignMax /\ pcsTx \in Nat /\ Delay \in 0..AlignMax /\ Delay \in Nat
    <3>1. lag \in 0..AlignMax /\ pcsTx \in Nat
      BY <1>1, CarriedAt DEF DpTypes
    <3>2. QED
      BY <3>1, DpFacts DEF Delay
  <2>3. RxLow \in 1..(BlockLen - 2) /\ TxHigh \in 1..(BlockLen - 2)
    <3>1. lag # -1
      BY <2>2
    <3>2. QED
      BY <1>1, <1>8, <2>1, <3>1, WindowFits
  <2>4. Handed(pcsRx) \in Int
    BY <1>1, <2>1, <2>2, <2>3, DpFacts
  <2>5. ASSUME RxOK(pcsRx'),
               Handed(pcsRx') = pcsTx - TxHigh + (IF n + 1 > RxLow THEN n + 1 - RxLow ELSE 0),
               pcsRx'.state = "aligning" => Lagging(pcsRx'.buf, Delay) /\ OneWrong(pcsRx'.buf),
               pcsRx'.state # "aligning" => pcsRx'.off = Delay
        PROVE  Traffic'
    <3>1. n + 1 # 0
      BY <1>1
    <3>2. Handed(pcsRx)' = Handed(pcsRx')
      BY DEF Handed
    <3>3. (/\ pcsTx >= TxHigh /\ syms[1][1] # "payload"
           /\ \A m \in 1..TxHigh : syms[m + 1] = Payload(pcsTx - TxHigh + m - 1))'
      BY <1>2, <1>6, <2>1
    <3>4. /\ blk'.eye # "shut" /\ (~pcsCalib => pcsLat = lag)'
          /\ (pcsCalib => pcsLat = 0 /\ pcsTx = TxHigh)'
      BY <1>2, <1>3, <1>6, <2>1
    <3>5. Handed(pcsRx)' = pcsTx' - TxHigh' + (IF blk'.at > RxLow' THEN blk'.at - RxLow' ELSE 0)
      BY <1>1, <1>2, <1>3, <1>6, <2>2, <2>3, <2>5, <3>2
    <3>6. /\ (pcsRx.state = "aligning" => Lagging(pcsRx.buf, Delay) /\ OneWrong(pcsRx.buf))'
          /\ (pcsRx.state # "aligning" => pcsRx.off = Delay)'
      BY <1>6, <2>5
    <3>7. QED
      BY <1>3, <3>1, <3>3, <3>4, <3>5, <3>6 DEF Traffic
  <2>6. CASE ~pushed
    <3>1. pcsRx' = pcsRx /\ lastPush' = Same /\ n < RxLow
      BY <1>1, <1>5, <1>8, <2>3, <2>6
    <3>2. ~(n > RxLow) /\ ~(n + 1 > RxLow)
      BY <1>1, <2>3, <3>1
    <3>3. Traffic'
      BY <1>1, <2>1, <2>5, <3>1, <3>2
    <3>4. PayloadInStep'
      BY <3>1 DEF DpInv, PayloadInStep, Same
    <3>5. QED
      BY <1>1, <3>1, <3>3, <3>4
  <2>7. CASE pushed
    <3>1. n >= RxLow /\ pcsRx' \in Push(pcsRx, dec, blk.weak)
      BY <1>5, <2>7
    <3>2. IF Handed(pcsRx) + 1 > Delay THEN Carried(n) = Payload(Handed(pcsRx) - Delay)
                                       ELSE Carried(n)[1] # "payload"
      BY <1>1, <1>8, <3>1, CarriedWhenTraffic
    <3>3. pcsRx.buf \in Seq(Decision) /\ pcsRx.state \in {"aligning", "skipping", "running"}
          /\ pcsRx.skip \in Int /\ pcsRx.ref \in Nat /\ pcsRx.off \in 0..AlignMax
      BY <1>1 DEF RxOK, Receivers, ReceiversTo
    <3>4. pcsRx.state = "aligning" => /\ Lagging(Append(pcsRx.buf, dec), Delay)
                                      /\ OneWrong(Append(pcsRx.buf, dec))
      <4> SUFFICES ASSUME pcsRx.state = "aligning"
                   PROVE  /\ Lagging(Append(pcsRx.buf, dec), Delay)
                          /\ OneWrong(Append(pcsRx.buf, dec))
        OBVIOUS
      <4>1. Handed(pcsRx) = Len(pcsRx.buf)
        BY DEF Handed
      <4>2. Lagging(Append(pcsRx.buf, dec), Delay)
        BY <1>4, <2>1, <2>2, <3>2, <3>3, <4>1, LaggingGrows
      <4>3. dec.right \/ \A i \in 1..Len(pcsRx.buf) : pcsRx.buf[i].right
        BY <1>4, <1>5, <2>1 DEF Plausible
      <4>4. OneWrong(Append(pcsRx.buf, dec))
        BY <1>4, <2>1, <3>3, <4>3, OneWrongGrows
      <4>5. QED
        BY <4>2, <4>4
    <3>5. /\ RxOK(pcsRx') /\ Handed(pcsRx') = Handed(pcsRx) + 1
          /\ pcsRx'.state = "aligning" =>
                 pcsRx.state = "aligning" /\ pcsRx'.buf = Append(pcsRx.buf, dec)
          /\ pcsRx'.state # "aligning" =>
                 pcsRx'.off = IF pcsRx.state = "aligning" THEN Delay ELSE pcsRx.off
      BY <1>1, <1>4, <2>2, <3>1, <3>4, PushKeeps
    <3>6. Handed(pcsRx') = pcsTx - TxHigh + (IF n + 1 > RxLow THEN n + 1 - RxLow ELSE 0)
      <4>1. n + 1 > RxLow /\ (n > RxLow \/ n = RxLow)
        BY <1>1, <2>3, <3>1
      <4>2. pcsTx - TxHigh \in Int
        BY <2>2, <2>3
      <4>3. CASE n > RxLow
        BY <1>1, <2>1, <2>2, <2>3, <3>5, <4>1, <4>3
      <4>4. CASE n = RxLow
        BY <1>1, <2>1, <2>2, <2>3, <3>5, <4>1, <4>4
      <4>5. QED
        BY <4>1, <4>3, <4>4
    <3>7. Traffic'
      BY <2>1, <2>5, <3>4, <3>5, <3>6
    <3>8. PayloadInStep'
      <4>1. pcsRx'.state = "running" => pcsRx'.idx = pcsRx'.ref % CwSyms
        BY <3>5 DEF RxOK
      <4>2. ~pcsCalib => lastPush'[1] = lastPush'[2]
        <5>1. CASE pcsRx.state # "running"
          BY <1>5, <5>1 DEF Same
        <5>2. ASSUME pcsRx.state = "running", ~pcsCalib PROVE lastPush'[1] = lastPush'[2]
          <6>1. pcsRx.skip = 0 /\ pcsRx.off = Delay /\ Delay = 0
            BY <1>1, <2>1, <5>2 DEF RxOK, Delay
          <6>2. Handed(pcsRx) = pcsRx.ref
            BY <3>3, <5>2, <6>1 DEF Handed
          <6>3. Carried(n) = Payload(pcsRx.ref)
            <7>1. Handed(pcsRx) + 1 > Delay /\ Handed(pcsRx) - Delay = pcsRx.ref
              BY <3>3, <6>1, <6>2
            <7>2. QED
              BY <3>2, <7>1
          <6>4. QED
            BY <1>5, <2>7, <5>2, <6>3
        <5>3. QED
          BY <5>1, <5>2
      <4>3. QED
        BY <1>2, <4>1, <4>2 DEF PayloadInStep
    <3>9. QED
      BY <3>5, <3>7, <3>8
  <2>8. QED
    BY <2>6, <2>7
<1>9. QED
  BY <1>7, <1>8

\* The tail of a block.
LEMMA TailFacts ==
  ASSUME NEW s \in Seq(Sent), Len(s) = BlockLen
  PROVE  /\ TailOf(s) \in Seq(Sent) /\ Len(TailOf(s)) = LatMax
         /\ \A k \in 1..LatMax : /\ BlockLen - LatMax + k \in 1..BlockLen
                                 /\ TailOf(s)[k] = s[BlockLen - LatMax + k]
<1>1. /\ BlockLen - LatMax + 1 \in 1..BlockLen /\ BlockLen \in Nat /\ LatMax \in Nat
      /\ BlockLen - (BlockLen - LatMax + 1) + 1 = LatMax
  BY DpFacts
<1>2. TailOf(s) = SubSeq(s, BlockLen - LatMax + 1, BlockLen)
  BY DEF TailOf
<1>3. TailOf(s) \in Seq(Sent) /\ Len(TailOf(s)) = LatMax
  BY <1>1, <1>2
<1>4. \A k \in 1..LatMax : /\ BlockLen - LatMax + k \in 1..BlockLen
                           /\ TailOf(s)[k] = s[BlockLen - LatMax + k]
  <2> SUFFICES ASSUME NEW k \in 1..LatMax
               PROVE  /\ BlockLen - LatMax + k \in 1..BlockLen
                      /\ TailOf(s)[k] = s[BlockLen - LatMax + k]
    OBVIOUS
  <2>1. /\ BlockLen - LatMax + k \in 1..BlockLen
        /\ BlockLen - LatMax + 1 + k - 1 = BlockLen - LatMax + k
    BY <1>1
  <2>2. TailOf(s)[k] = s[BlockLen - LatMax + 1 + k - 1]
    BY <1>1, <1>2, <1>3
  <2>3. QED
    BY <2>1, <2>2
<1>5. QED
  BY <1>3, <1>4

\* The end of a block.
LEMMA EndBlockKeeps ==
  ASSUME DpInv, EndBlock
  PROVE  DpInv'
<1>1. /\ blk.at = BlockLen - 1 /\ blk.at > 0 /\ blk.at # 0 /\ blk \in Blocks
      /\ blk.num \in Nat /\ blk.num > 0 /\ blk.num - 1 \in Nat
      /\ DpTypes /\ Training /\ LatencyTrue /\ Traffic /\ RxOK(pcsRx)
      /\ syms \in Seq(Sent) /\ Len(syms) = BlockLen /\ lag \in Lags /\ lag # -1
  <2>1. DpTypes /\ Training /\ LatencyTrue /\ Traffic /\ RxOK(pcsRx)
    BY DEF DpInv
  <2>2. blk.at = BlockLen - 1
    BY DEF EndBlock
  <2>3. blk.at > 0 /\ blk.at # 0
    BY <2>2, DpFacts
  <2>4. /\ blk \in Blocks /\ blk.num > 0 /\ syms \in Seq(Sent) /\ Len(syms) = BlockLen
        /\ lag \in Lags
    BY <2>1, <2>3 DEF DpTypes
  <2>5. lag # -1
    BY <2>4, DpFacts
  <2>6. blk.num \in Nat
    BY <2>4 DEF Blocks
  <2>7. QED
    BY <2>1, <2>2, <2>3, <2>4, <2>5, <2>6
<1>2. /\ prevSyms' = TailOf(syms) /\ past' = TailOf(syms) /\ decs' = <<>> /\ syms' = <<>>
      /\ lastRef' = Same /\ lastPush' = Same /\ lag' = lag /\ fecOn' = fecOn
  BY DEF EndBlock, CarriedTail
<1>3. /\ blk' \in Blocks /\ blk'.at = 0 /\ blk'.eye = "open" /\ blk'.num = blk.num
  <2>1. blk' = [blk EXCEPT !.at = 0, !.mode = "DATA", !.eye = "open", !.weak = FALSE]
    BY DEF EndBlock
  <2>2. 0 \in 0..(BlockLen - 1)
    BY DpFacts
  <2>3. QED
    BY <1>1, <2>1, <2>2 DEF Blocks
<1>4. /\ txLat' \in 0..(LatMax - 1) /\ latLocked' \in BOOLEAN
      /\ latLocked' => txLat' = lag
      /\ fecOn => latLocked'
  <2>1. CASE blk.mode # "DATA" /\ ~latLocked
    <3>1. ~fecOn
      BY <1>1, <2>1 DEF LatencyTrue
    <3>2. /\ txLat' = BestLatency
          /\ latLocked' = (MismatchesAt(BestLatency) < LatCorr \div 2)
      BY <2>1 DEF EndBlock
    <3>3. /\ BestLatency \in 0..(LatMax - 1)
          /\ MismatchesAt(BestLatency) < LatCorr \div 2 => BestLatency = lag
      BY <1>1, <2>1, <3>1, LatencyFound
    <3>4. latLocked' \in BOOLEAN
      BY <3>2
    <3>5. latLocked' => txLat' = lag
      BY <3>2, <3>3, Zenon
    <3>6. QED
      BY <3>1, <3>2, <3>3, <3>4, <3>5
  <2>2. CASE ~(blk.mode # "DATA" /\ ~latLocked)
    <3>1. txLat' = txLat /\ latLocked' = latLocked
      BY <2>2 DEF EndBlock
    <3>2. QED
      BY <1>1, <3>1 DEF DpTypes, LatencyTrue
  <2>3. QED
    BY <2>1, <2>2
<1>5. /\ TailOf(syms) \in Seq(Sent) /\ Len(TailOf(syms)) = LatMax
      /\ \A k \in 1..LatMax : /\ BlockLen - LatMax + k \in 1..BlockLen
                              /\ TailOf(syms)[k] = syms[BlockLen - LatMax + k]
  BY <1>1, TailFacts
<1>6. ~fecOn => \A k \in 1..LatMax :
             \E m \in 0..(BlockLen - 1) : TailOf(syms)[k] = Pattern(blk.num - 1, m)
  <2> SUFFICES ASSUME ~fecOn, NEW k \in 1..LatMax
               PROVE  \E m \in 0..(BlockLen - 1) : TailOf(syms)[k] = Pattern(blk.num - 1, m)
    OBVIOUS
  <2>1. \A i \in 1..BlockLen :
           i - 1 \in 0..(BlockLen - 1) /\ syms[i] = Pattern(blk.num - 1, i - 1)
    BY <1>1, DpFacts DEF Training
  <2>2. \E i \in 1..BlockLen : TailOf(syms)[k] = syms[i]
    BY <1>5
  <2>3. QED
    BY <2>1, <2>2
<1>7. /\ fecOn => TxHigh \in 1..(BlockLen - 2) /\ RxLow \in 1..(BlockLen - 2)
                  /\ BlockLen - 1 - RxLow = TxHigh
      /\ fecOn => (IF pcsCalib THEN Window = 0 ELSE Window = lag)
  <2>1. (fecOn /\ ~pcsCalib => pcsLat = lag) /\ (fecOn /\ pcsCalib => pcsLat = 0)
    BY <1>1 DEF Traffic
  <2>2. QED
    BY <1>1, <2>1, WindowFits
<1>8. /\ pcsTx \in Nat /\ pcsLat \in 0..AlignMax /\ pcsRx.off \in 0..AlignMax
      /\ {fecOn, pcsCalib} \subseteq BOOLEAN
  BY <1>1 DEF DpTypes, RxOK, Receivers, ReceiversTo
\* A block hands the receiver as many decisions as it sends payload symbols.
<1>9. fecOn => Handed(pcsRx) = pcsTx
  <2> SUFFICES ASSUME fecOn PROVE Handed(pcsRx) = pcsTx
    OBVIOUS
  <2>1. Handed(pcsRx) = pcsTx - TxHigh + (IF blk.at > RxLow THEN blk.at - RxLow ELSE 0)
    BY <1>1 DEF Traffic
  <2>2. RxLow \in Nat /\ TxHigh \in Nat /\ TxHigh >= 1 /\ BlockLen - 1 - RxLow = TxHigh
    BY <1>7, DpFacts
  <2>3. blk.at > RxLow /\ blk.at - RxLow = TxHigh
    BY <1>1, <2>2, DpFacts
  <2>4. QED
    BY <1>8, <2>1, <2>2, <2>3
\* One block is enough to line up on.
<1>10. fecOn /\ pcsCalib => pcsRx.state # "aligning"
  <2> SUFFICES ASSUME fecOn, pcsCalib, pcsRx.state = "aligning" PROVE FALSE
    OBVIOUS
  <2>1. pcsTx = TxHigh /\ TxHigh = BlockLen - 2
    BY <1>1, <1>7 DEF Traffic, TxHigh
  <2>2. Len(pcsRx.buf) = BlockLen - 2
    BY <1>9, <2>1 DEF Handed
  <2>3. Len(pcsRx.buf) < AlignSyms + AlignMax
    BY <1>1 DEF RxOK
  <2>4. QED
    BY <2>2, <2>3, DpFacts
<1>11. CASE fecOn /\ pcsCalib
  <2>1. pcsLat' = pcsRx.off /\ pcsCalib' = FALSE /\ pcsTx' = 0 /\ pcsRx' = RxInit
    BY <1>10, <1>11 DEF EndBlock
  <2>2. pcsRx.off = lag
    BY <1>1, <1>10, <1>11 DEF Traffic, Delay
  <2>3. DpTypes'
    <3>1. pcsLat' \in 0..AlignMax /\ {latLocked', fecOn', pcsCalib'} \subseteq BOOLEAN
          /\ pcsTx' \in Nat
      BY <1>2, <1>4, <1>8, <2>1
    <3>2. QED
      BY <1>1, <1>2, <1>3, <1>4, <1>5, <3>1 DEF DpTypes
  <2>4. Training' /\ LatencyTrue'
    BY <1>2, <1>3, <1>4, <1>11, <2>1 DEF Training, LatencyTrue
  <2>5. RxOK(pcsRx)' /\ pcsRx'.state = "aligning" /\ pcsRx'.buf = <<>> /\ Handed(pcsRx)' = 0
    BY <2>1, FreshReceiver
  <2>6. Traffic'
    BY <1>2, <1>3, <2>1, <2>2, <2>5 DEF Traffic, Lagging, OneWrong
  <2>7. PayloadInStep' /\ ReferenceFollows'
    BY <1>2, <2>5 DEF PayloadInStep, ReferenceFollows, Same
  <2>8. QED
    BY <2>3, <2>4, <2>5, <2>6, <2>7 DEF DpInv
<1>12. CASE ~(fecOn /\ pcsCalib)
  <2>1. pcsLat' = pcsLat /\ pcsCalib' = pcsCalib /\ pcsTx' = pcsTx /\ pcsRx' = pcsRx
    BY <1>12 DEF EndBlock
  <2>2. DpTypes'
    BY <1>1, <1>2, <1>3, <1>4, <1>5, <1>8, <2>1 DEF DpTypes
  <2>3. Training'
    <3>1. blk.num - 1 + 1 = blk.num
      BY <1>1
    <3>2. ~fecOn => \A k \in 1..LatMax, n \in 0..(BlockLen - 1) : past'[k] # Pattern(blk.num, n)
      <4>1. \A m, n \in 0..(BlockLen - 1) :
               Pattern(blk.num - 1, m) # Pattern(blk.num - 1 + 1, n)
        BY <1>1, PatternApart
      <4>2. \A m, n \in 0..(BlockLen - 1) : Pattern(blk.num - 1, m) # Pattern(blk.num, n)
        BY <3>1, <4>1
      <4>3. QED
        BY <1>2, <1>6, <4>2
    <3>3. ~fecOn => \A k \in 1..LatMax : past'[k][1] # "payload"
      <4>1. \A m \in Int : Pattern(blk.num - 1, m)[1] # "payload"
        BY <1>1, PatternApart
      <4>2. QED
        BY <1>2, <1>6, <4>1
    <3>4. QED
      BY <1>2, <1>3, <1>12, <2>1, <3>2, <3>3 DEF Training
  <2>4. LatencyTrue'
    BY <1>2, <1>4 DEF LatencyTrue
  <2>5. RxOK(pcsRx)' /\ Handed(pcsRx)' = Handed(pcsRx) /\ Delay' = Delay
    BY <1>1, <1>2, <2>1 DEF Handed, Delay
  <2>6. Traffic'
    <3> SUFFICES ASSUME fecOn PROVE Traffic'
      BY <1>2 DEF Traffic
    <3>1. /\ ~pcsCalib /\ pcsLat = lag
          /\ pcsRx.state = "aligning" => Lagging(pcsRx.buf, Delay) /\ OneWrong(pcsRx.buf)
          /\ pcsRx.state # "aligning" => pcsRx.off = Delay
      BY <1>1, <1>12 DEF Traffic
    <3>2. ~(0 > 0)
      OBVIOUS
    <3>3. QED
      BY <1>2, <1>3, <1>9, <2>1, <2>5, <3>1, <3>2 DEF Traffic
  <2>7. PayloadInStep' /\ ReferenceFollows'
    <3>1. pcsRx.state = "running" => pcsRx.idx = pcsRx.ref % CwSyms
      BY <1>1 DEF RxOK
    <3>2. QED
      BY <1>2, <2>1, <3>1 DEF PayloadInStep, ReferenceFollows, Same
  <2>8. QED
    BY <2>2, <2>3, <2>4, <2>5, <2>6, <2>7 DEF DpInv
<1>13. QED
  BY <1>11, <1>12

LEMMA DpNextKeeps == DpInv /\ [DpNext]_dpVars => DpInv'
<1> SUFFICES ASSUME DpInv, [DpNext]_dpVars PROVE DpInv'
  OBVIOUS
<1>1. ASSUME NEW d \in Lags, NEW e \in 0..(LatMax - 1), Build(d, e) PROVE DpInv'
  BY <1>1, BuildKeeps
<1>2. CASE SetFec
  BY <1>2, SetFecKeeps
<1>3. ASSUME NEW mode \in {"TRAIN", "VERIFY", "DATA"}, NEW eye \in {"open", "shut"},
             ~fecOn, TxBlock(mode, eye, FALSE)
      PROVE  DpInv'
  BY <1>3, TxKeeps
<1>4. ASSUME NEW mode \in {"VERIFY", "DATA"}, NEW eye \in {"open", "noisy"},
             NEW weak \in BOOLEAN, fecOn, TxBlock(mode, eye, weak)
      PROVE  DpInv'
  BY <1>4, TxKeeps
<1>5. ASSUME NEW right \in BOOLEAN, RxSymbol(right) PROVE DpInv'
  BY <1>5, RxLaneKeeps, RxReceiverKeeps DEF DpInv
<1>6. CASE EndBlock
  BY <1>6, EndBlockKeeps
<1>7. CASE UNCHANGED dpVars
  <2>1. /\ lag' = lag /\ txLat' = txLat /\ latLocked' = latLocked /\ prevSyms' = prevSyms
        /\ syms' = syms /\ decs' = decs /\ fecOn' = fecOn /\ pcsLat' = pcsLat
        /\ pcsCalib' = pcsCalib /\ pcsTx' = pcsTx /\ pcsRx' = pcsRx /\ blk' = blk
        /\ past' = past /\ lastRef' = lastRef /\ lastPush' = lastPush
    BY <1>7 DEF dpVars, laneState, pcsState
  <2>2. DpTypes' /\ LatencyTrue' /\ RxOK(pcsRx)' /\ PayloadInStep' /\ ReferenceFollows'
    BY <2>1 DEF DpInv, DpTypes, LatencyTrue, PayloadInStep, ReferenceFollows
  <2>3. Training'
    BY <2>1 DEF DpInv, Training, Carried
  <2>4. Traffic'
    BY <2>1 DEF DpInv, Traffic, TxHigh, RxLow, Window, Delay, Handed
  <2>5. QED
    BY <2>2, <2>3, <2>4 DEF DpInv
<1>8. QED
  BY <1>1, <1>2, <1>3, <1>4, <1>5, <1>6, <1>7 DEF DpNext

\* The invariant of the datapath holds throughout.
LEMMA DpInvariance == DpSpec => []DpInv
BY DpInitInv, DpNextKeeps, PTL DEF DpSpec

\* Indices, flags and windows stay in range, with any block, codeword and
\* window lengths (hw_lane_tx, hw_lane_rx, pcs_rx_push).
THEOREM DatapathStaysTyped == DpSpec => []DpTypeOK
<1>1. DpInv => DpTypeOK
  <2> SUFFICES ASSUME DpInv PROVE DpTypeOK
    OBVIOUS
  <2>1. /\ lag \in {-1} \cup Lags /\ txLat \in 0..(LatMax - 1) /\ pcsLat \in 0..AlignMax
        /\ Len(prevSyms) = LatMax /\ Len(past) = LatMax /\ blk.at \in 0..(BlockLen - 1)
    BY DEF DpInv, DpTypes, Blocks
  <2>2. /\ pcsRx.state \in {"aligning", "skipping", "running"}
        /\ pcsRx.idx \in 0..(CwSyms - 1) /\ pcsRx.nFlagged \in 0..CwGf
        /\ pcsRx.skip \in 0..(CwSyms - 1)
    BY DEF DpInv, RxOK, Receivers, ReceiversTo
  <2>3. pcsRx.idx \in 0..CwSyms /\ pcsRx.skip \in 0..CwSyms
    BY <2>2, CwFacts
  <2>4. QED
    BY <2>1, <2>2, <2>3 DEF DpTypeOK
<1>2. QED
  BY <1>1, DpInvariance, PTL

\* Every decision scored once the lag has been measured is about the symbol it
\* is scored against, and codewords are cut where they were sent, for every
\* lag, block, window and codeword length (hw_lane_rx, pcs_rx_push).
THEOREM StepIsKept == DpSpec => []PayloadInStep
<1>1. DpInv => PayloadInStep
  BY DEF DpInv
<1>2. QED
  BY <1>1, DpInvariance, PTL

\* A locked latency's references are the symbols the decisions are about,
\* across every seam (hw_lane_rx).
THEOREM ReferenceIsCarried == DpSpec => []ReferenceFollows
<1>1. DpInv => ReferenceFollows
  BY DEF DpInv
<1>2. QED
  BY <1>1, DpInvariance, PTL

\* What is delivered wrong, some codeword was past the code's reach for, with
\* any code and any flags (pcs_rx_push).
THEOREM ResidualIsExplained == DpSpec => []ResidualExplained
<1>1. DpInv => ResidualExplained
  BY DEF DpInv, RxOK, ResidualExplained
<1>2. QED
  BY <1>1, DpInvariance, PTL

-----------------------------------------------------------------------------
(* The parts side by side.                                                 *)

\* What is explored of each part is a behaviour of that part.
LEMMA PartsAreParts ==
  PartsSpec => /\ HalSpec /\ AgcSpec /\ AdaptSpec /\ FecSpec
               /\ DpSpec /\ CdrSpec /\ ChannelSpec /\ TsSpec
<1>1. PartsInit => /\ HalInit /\ AgcInit /\ AdaptInit /\ FecInit
                   /\ DpInit /\ CdrInit /\ ChannelInit /\ TsInit
  BY DEF PartsInit
<1>2. [PartsNext]_<<part, allVars>> =>
         /\ [HalNext]_hvars /\ [AgcNext]_agcVars /\ [AdaptNext]_adaptVars /\ [FecNext]_fecVars
         /\ [DpNext]_dpVars /\ [CdrNext]_cdrVars /\ [ChannelNext]_chVars /\ [TsNext]_tsVars
  BY DEF PartsNext, allVars
<1>3. QED
  BY <1>1, <1>2, PTL DEF PartsSpec, HalSpec, AgcSpec, AdaptSpec, FecSpec, DpSpec, CdrSpec,
                         ChannelSpec, TsSpec

\* Whichever part a behaviour is of, its state keeps its type.
THEOREM PartsStayTyped == PartsSpec => []PartsTypeOK
<1> DEFINE Named == part \in {"hal", "agc", "adapt", "fec", "datapath", "cdr",
                              "channel", "touchstone"}
<1>1. PartsInit => Named
  BY DEF PartsInit
<1>2. Named /\ [PartsNext]_<<part, allVars>> => Named'
  BY DEF PartsNext
<1>3. /\ HalSpec => []HalTypeOK
      /\ DpSpec => []DpTypeOK
  BY HalStaysTyped, DatapathStaysTyped, PTL
<1>4. /\ Named /\ HalTypeOK /\ AgcTypeOK /\ AdaptTypeOK /\ FecTypeOK
      /\ DpTypeOK /\ CdrTypeOK /\ ChannelTypeOK /\ TsTypeOK
      => PartsTypeOK
  BY Zenon DEF PartsTypeOK
<1>5. QED
  BY <1>1, <1>2, <1>3, <1>4, PartsAreParts, AgcStaysTyped, AdaptStaysTyped, FecStaysTyped,
     CdrStaysTyped, ChannelStaysTyped, LoaderStaysTyped, PTL DEF PartsSpec
=============================================================================
