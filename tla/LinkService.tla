---------------------------- MODULE LinkService ----------------------------
(***************************************************************************)
(* What a user of one lane is promised, without the bring-up states: an    *)
(* attempt starts with every loop frozen, loops are only ever added while  *)
(* it lasts, the link is accepted only with all of them running and a      *)
(* passed error-rate judgement, comes up only once accepted, and can be    *)
(* lost at any time but never regained except through a new attempt.       *)
(***************************************************************************)
CONSTANT AllLoops
VARIABLES phase, running, judged

svars == <<phase, running, judged>>

SInit == phase = "down" /\ running = {} /\ judged = FALSE

\* Down: the loops are frozen (or still to be).
Freeze ==
    phase = "down" /\ running' = {} /\ UNCHANGED <<phase, judged>>

StartAttempt ==
    phase = "down" /\ phase' = "acquire" /\ running' = {} /\ UNCHANGED judged

Acquire ==
    /\ phase = "acquire"
    /\ running \subseteq running' /\ running' \subseteq AllLoops
    /\ judged' \in BOOLEAN
    /\ UNCHANGED phase

Accept ==
    /\ phase = "acquire" /\ phase' = "accepted"
    /\ running = AllLoops /\ judged'
    /\ UNCHANGED running

ComeUp ==
    phase = "accepted" /\ judged /\ phase' = "up" /\ UNCHANGED <<running, judged>>

Lose ==
    /\ phase # "down" /\ phase' = "down"
    /\ judged' \in BOOLEAN
    /\ UNCHANGED running

SNext == Freeze \/ StartAttempt \/ Acquire \/ Accept \/ ComeUp \/ Lose
SSpec == SInit /\ [][SNext]_svars
=============================================================================
