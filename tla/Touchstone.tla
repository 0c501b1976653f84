----------------------------- MODULE Touchstone -----------------------------
(***************************************************************************)
(* The loader of measured channels (ts_load).  A file has lines; fgets     *)
(* hands over at most Buf cells at a time, so that a long line arrives in  *)
(* chunks, and what the loader knows of the line must survive the cut.     *)
(*                                                                         *)
(* A cell is a number, known by its place in the file, or one of the       *)
(* tokens the loader treats differently: "!", "#", "[", a word, a number   *)
(* that is not finite, and the newline.  Blanks are not cells, and no      *)
(* number is cut in two.                                                   *)
(***************************************************************************)
EXTENDS Integers, Sequences, FiniteSets

CONSTANTS
    Buf,            \* sizeof(line) - 1, in cells
    PerPoint,       \* per_point
    MaxPoints,      \* TS_MAX_POINTS
    FileLines,      \* the lines a file may hold: sequences of kinds of cells
    MaxLines        \* bound of the model: lines of a file

ASSUME TouchstoneAssumption ==
    /\ {Buf, PerPoint, MaxPoints} \subseteq Nat \ {0} /\ MaxLines \in Nat
    /\ FileLines \subseteq Seq({"num", "bang", "hash", "bracket", "word", "nan"})

VARIABLES
    rest,           \* what fgets has not handed over of the physical line
    linesLeft,      \* how many more the file may have
    loader,         \* ts_load's locals; taken is the numbers it took for data
    wanted,         \* history: the data numbers of the lines so far
    misplaced,      \* history: a word stood inside a record
    oddCut          \* history: a line with a word or a keyword was cut

tsVars == <<rest, linesLeft, loader, wanted, misplaced, oddCut>>

NewLine == [kind |-> "nl", id |-> 0]
Kinds(cells) == {cells[i].kind : i \in DOMAIN cells}
Ids(cells)   == [i \in DOMAIN cells |-> cells[i].id]
Before(cells, kinds) ==      \* up to the first cell of one of the kinds
    SubSeq(cells, 1, Cardinality({i \in DOMAIN cells :
                                     \A j \in 1..i : cells[j].kind \notin kinds}))

\* While the physical line has not ended, a comment goes on.
Forgotten(isTail, inComment) == FALSE
StillComment(isTail, inComment) == isTail /\ inComment

\* A number taken; what nums and npt hold after it.
Gathered(s, have, npt, id) ==
    [s EXCEPT !.have = have, !.npt = npt, !.taken = Append(@, id)]
GivenUp(s) == [s EXCEPT !.result = "failed"]

\* The data loop at one cell: anything but a number ends the line's use, and
\* is a failure inside a record.
TakeCell(was, c) ==
    LET s == was.at
    IN  IF ~was.on THEN was
        ELSE IF c.kind # "num"
        THEN [at |-> IF c.kind = "nan" \/ s.have # 0 THEN GivenUp(s) ELSE s, on |-> FALSE]
        ELSE IF s.have + 1 < PerPoint
        THEN [at |-> Gathered(s, s.have + 1, s.npt, c.id), on |-> TRUE]
        ELSE IF s.npt >= MaxPoints THEN [at |-> GivenUp(s), on |-> FALSE]
        ELSE [at |-> Gathered(s, 0, s.npt + 1, c.id), on |-> TRUE]
Take(st, cells) ==
    LET run[i \in 0..Len(cells)] ==
          IF i = 0 THEN [at |-> st, on |-> TRUE] ELSE TakeCell(run[i - 1], cells[i])
    IN  run[Len(cells)].at

\* The option marker and the keyword are looked for at the chunk's start.
Classified(st, cells, isTail, ended) ==
    IF cells = <<>> THEN st
    ELSE IF isTail /\ st.inOption THEN [st EXCEPT !.inOption = ~ended]
    ELSE LET s == IF isTail THEN st ELSE [st EXCEPT !.inOption = FALSE]
         IN  IF cells[1].kind = "hash" /\ ~isTail THEN [s EXCEPT !.inOption = ~ended]
             ELSE IF cells[1].kind = "bracket" THEN s
             ELSE Take(s, cells)

\* One pass of the fgets loop.
Chunk(st, chunk, ended) ==
    LET isTail == st.continuing
        was    == [st EXCEPT !.continuing = ~ended]
        banged == "bang" \in Kinds(chunk)
    IN  IF StillComment(isTail, st.inComment) THEN [was EXCEPT !.inComment = ~ended]
        ELSE Classified([was EXCEPT !.inComment = IF banged \/ ended THEN banged /\ ~ended
                                                  ELSE @],
                        Before(chunk, {"bang", "nl"}), isTail, ended)
-----------------------------------------------------------------------------
\* What a line says, whatever the buffer: data up to a comment or a word.
DataOf(cells) ==
    IF cells = <<>> \/ cells[1].kind \in {"hash", "bracket"} THEN <<>>
    ELSE Before(cells, {"bang", "word", "hash", "bracket", "nl"})
SaysMore(cells) ==           \* a word, or a marker out of place
    /\ cells # <<>> /\ cells[1].kind \notin {"hash", "bracket"}
    /\ Before(cells, {"bang", "nl"}) # DataOf(cells)
Odd(cells) == cells # <<>> /\ (SaysMore(cells) \/ cells[1].kind = "bracket")

Labelled(kinds, from) ==
    [i \in DOMAIN kinds |-> [kind |-> kinds[i], id |-> from + i]]

\* fgets reads into a line, the last of which may lack its newline.  feof is
\* seen only by a read that ran into it.
Fgets(cells, lastOne) ==
    LET n     == IF Len(cells) < Buf THEN Len(cells) ELSE Buf
        chunk == SubSeq(cells, 1, n)
        ended == "nl" \in Kinds(chunk) \/ (lastOne /\ Len(cells) < Buf)
    IN  /\ loader' = Chunk(loader, chunk, ended)
        /\ rest' = [cells |-> SubSeq(cells, n + 1, Len(cells)), last |-> lastOne]

BeginLine ==
    /\ loader.result = "reading" /\ rest.cells = <<>> /\ ~rest.last /\ linesLeft > 0
    /\ linesLeft' = linesLeft - 1
    /\ \E kinds \in FileLines, lastOne \in BOOLEAN :
         LET cells == Labelled(kinds, linesLeft * 10)
             line  == IF lastOne THEN cells ELSE Append(cells, NewLine)
         IN  /\ lastOne => kinds # <<>>
             /\ Fgets(line, lastOne)
             /\ wanted' = wanted \o Ids(DataOf(line))
             /\ misplaced' = (misplaced \/ (SaysMore(line) /\ Len(wanted') % PerPoint # 0))
             /\ oddCut' = (oddCut \/ (Odd(line) /\ Len(cells) + 1 > Buf))

NextChunk ==
    /\ loader.result = "reading" /\ rest.cells # <<>> /\ Fgets(rest.cells, rest.last)
    /\ UNCHANGED <<linesLeft, wanted, misplaced, oddCut>>

\* The end of the file; whether the frequencies increase is the numbers' affair.
Finish ==
    /\ loader.result = "reading" /\ rest.cells = <<>>
    /\ \E sane \in BOOLEAN :
         loader' = [loader EXCEPT !.result =
                        IF @ = "reading" /\ loader.have = 0 /\ loader.npt >= 2 /\ sane
                        THEN "loaded" ELSE "failed"]
    /\ UNCHANGED <<rest, linesLeft, wanted, misplaced, oddCut>>

TsInit ==
    /\ rest = [cells |-> <<>>, last |-> FALSE] /\ linesLeft = MaxLines
    /\ loader = [inComment |-> FALSE, inOption |-> FALSE, continuing |-> FALSE,
                 have |-> 0, npt |-> 0, taken |-> <<>>, result |-> "reading"]
    /\ wanted = <<>> /\ misplaced = FALSE /\ oddCut = FALSE
TsNext == BeginLine \/ NextChunk \/ Finish
TsSpec == TsInit /\ [][TsNext]_tsVars
-----------------------------------------------------------------------------
Cells == [kind : {"num", "bang", "hash", "bracket", "word", "nan", "nl"}, id : Int]
Loaders ==
    [inComment : BOOLEAN, inOption : BOOLEAN, continuing : BOOLEAN,
     have : 0..(PerPoint - 1), npt : 0..MaxPoints, taken : Seq(Int),
     result : {"reading", "loaded", "failed"}]
TsTypeOK ==
    /\ rest.cells \in Seq(Cells) /\ rest.last \in BOOLEAN /\ linesLeft \in 0..MaxLines
    /\ loader \in Loaders /\ wanted \in Seq(Int)
    /\ misplaced \in BOOLEAN /\ oddCut \in BOOLEAN

\* Wherever the buffer cuts a line, a load that succeeds has taken the data
\* numbers of the file and nothing else, in order: no number of a comment or
\* of an option line however long, none of a data line left out; and no word
\* stood inside a record, which would have shifted every number after it
\* (touchstone.c:198).  A cut line with a word or a keyword in it is excepted:
\* the loader does not remember those.
LoadedAsWritten ==
    loader.result = "loaded" /\ ~oddCut => loader.taken = wanted /\ ~misplaced
=============================================================================
