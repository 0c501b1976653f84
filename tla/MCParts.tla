------------------------------- MODULE MCParts -------------------------------
(* The parts of a lane that share no state with one another, side by side in   *)
(* one exploration: a behaviour is of the part its initial state names.        *)
EXTENDS Hal, Agc, Adapt, Fec, Datapath, Cdr, Channel, Touchstone

VARIABLE part

allVars == <<hvars, agcVars, adaptVars, fecVars, dpVars, cdrVars, chVars, tsVars>>

\* Both DACs are dB-linear; gains in thousandths (vga_set_code: -6 to 24 dB
\* over 63 steps; tia_set_code: 200 to 8000 ohm over 15, at 0.8 A/W and 0.8 mW).
MCVgaGain[c \in 0..(VgaCodes - 1)] == IF c = 0 THEN 501 ELSE (MCVgaGain[c - 1] * 10564) \div 10000
MCTiaGain[c \in 0..(TiaCodes - 1)] == IF c = 0 THEN 128 ELSE (MCTiaGain[c - 1] * 12788) \div 10000

MCGrads == [l \in AdaptLanes |-> IF l = FirstLane THEN {-1, 0, 1} ELSE {0}]
MCMessages == {<<5, 11>>}
\* None, one, two neighbours; a full budget of them; one too many.
MCFlagSets == {{}} \cup {{i} : i \in 1..RsN} \cup {{i, i + 1} : i \in 1..(RsN - 1)}
              \cup {{1, 2, 5}, {1, 2, 3, 4}, {2, 4, 5, 6}, {1, 2, 3, 4, 5}, {1, 2, 3, 5, 6}}
MCDrifts == {-1, 0, 1}

MCOwn == <<1, 10, 100>>
MCCoupling == <<1000, 3000>>
\* Shorter than a block, a block, two and a bit.
MCInputs == {<<1>>, <<1, 2>>, <<2, 0, 1>>, <<0, 1, 0, 2, 1, 0, 2>>}

\* Numbers and comments in every order; options, keywords, words.
MCFileLines ==
    UNION {[1..n -> {"num", "bang"}] : n \in 0..4}
    \cup {<<"hash", "num">>, <<"hash", "num", "num">>, <<"hash", "num", "num", "bang", "num">>,
          <<"bracket", "num">>, <<"bracket", "num", "num">>, <<"word">>, <<"num", "word">>,
          <<"num", "word", "num">>, <<"num", "hash">>, <<"num", "num", "bracket">>, <<"nan">>}

PartsInit ==
    /\ part \in {"hal", "agc", "adapt", "fec", "datapath", "cdr",
                "channel", "touchstone"}
    /\ HalInit /\ AgcInit /\ AdaptInit /\ FecInit /\ DpInit /\ CdrInit
    /\ ChannelInit /\ TsInit
PartsNext ==
    /\ part' = part
    /\ \/ /\ part = "hal" /\ HalNext
          /\ UNCHANGED <<agcVars, adaptVars, fecVars, dpVars, cdrVars, chVars, tsVars>>
       \/ /\ part = "agc" /\ AgcNext
          /\ UNCHANGED <<hvars, adaptVars, fecVars, dpVars, cdrVars, chVars, tsVars>>
       \/ /\ part = "adapt" /\ AdaptNext
          /\ UNCHANGED <<hvars, agcVars, fecVars, dpVars, cdrVars, chVars, tsVars>>
       \/ /\ part = "fec" /\ FecNext
          /\ UNCHANGED <<hvars, agcVars, adaptVars, dpVars, cdrVars, chVars, tsVars>>
       \/ /\ part = "datapath" /\ DpNext
          /\ UNCHANGED <<hvars, agcVars, adaptVars, fecVars, cdrVars, chVars, tsVars>>
       \/ /\ part = "cdr" /\ CdrNext
          /\ UNCHANGED <<hvars, agcVars, adaptVars, fecVars, dpVars, chVars, tsVars>>
       \/ /\ part = "channel" /\ ChannelNext
          /\ UNCHANGED <<hvars, agcVars, adaptVars, fecVars, dpVars, cdrVars, tsVars>>
       \/ /\ part = "touchstone" /\ TsNext
          /\ UNCHANGED <<hvars, agcVars, adaptVars, fecVars, dpVars, cdrVars, chVars>>
PartsSpec == PartsInit /\ [][PartsNext]_<<part, allVars>>

\* The state of the part that is explored stays of its type.
PartsTypeOK ==
    CASE part = "hal"      -> HalTypeOK
    []   part = "agc"      -> AgcTypeOK
    []   part = "adapt"    -> AdaptTypeOK
    []   part = "fec"      -> FecTypeOK
    []   part = "datapath" -> DpTypeOK
    []   part = "cdr"      -> CdrTypeOK
    []   part = "channel"  -> ChannelTypeOK
    []   part = "touchstone" -> TsTypeOK
=============================================================================
