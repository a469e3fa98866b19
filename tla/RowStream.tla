------------------------------ MODULE RowStream ------------------------------
(***************************************************************************)
(* How a source file becomes rows: streamMappedCsvRecords of packages/core *)
(* and the workbook readers of the Minnesota and California adapters, with *)
(* the loop of a resumable import that consumes the rows.                  *)
(*                                                                         *)
(* A line is blank, broken (its quotes do not parse), the header, short    *)
(* (fields that mapFields refuses) or a row.  Contents are abstracted.     *)
(***************************************************************************)
EXTENDS SourceAdapters

CONSTANTS
    SourceText(_), \* SourceText(format): the files that are read
    Limit          \* limit of a read that has one

Format == UNION {Formats(adapter.stream) : adapter \in Adapters}

ASSUME LimitAssumption == Limit \in Nat \ {0}
ASSUME TextAssumption ==
    \A f \in Format : SourceText(f) \subseteq Seq({"blank", "broken", "header", "short", "row"})

VARIABLES
    format,
    text,      \* the lines of the file
    strict,    \* an error ends the read: onError throws, or is absent
    limited,   \* the caller gave a limit
    read,      \* the read in progress, or how the last one ended
    taken,     \* how often the consumer took each line as a row
    reported   \* how often each line was reported as an error, counted to two

textVars == <<format, text, strict, limited>>
streamVars == <<textVars, read, taken, reported>>

\* last is lastProcessedRow of the consumer; yielded counts rows of this read.
NewRead(startAfterRow) ==
    [pc |-> "reading", position |-> 1, header |-> format = "headless", aborted |-> FALSE,
     startAfterRow |-> startAfterRow, last |-> startAfterRow, yielded |-> 0]

StreamInit ==
    /\ format \in Format
    /\ text \in SourceText(format)
    /\ strict \in BOOLEAN /\ limited \in BOOLEAN
    /\ ~(strict /\ limited)
    /\ read = NewRead(0)
    /\ taken = [i \in DOMAIN text |-> 0]
    /\ reported = [i \in DOMAIN text |-> 0]

Greater(m, n) == IF m >= n THEN m ELSE n

AbortRead ==
    /\ read.pc \in {"reading", "yielded"} /\ ~read.aborted
    /\ read' = [read EXCEPT !.aborted = TRUE]
    /\ UNCHANGED <<textVars, taken, reported>>

\* The reader examines the signal at every line, its consumer at every row.
Throw(how) ==
    /\ read' = [read EXCEPT !.pc = how]
    /\ UNCHANGED <<textVars, taken, reported>>

StopAtSignal ==
    /\ read.aborted
    /\ \/ read.pc = "reading" /\ read.position \in DOMAIN text
       \/ read.pc = "yielded"
    /\ Throw("stopped")

Pass ==
    /\ read' = [read EXCEPT !.position = @ + 1]
    /\ UNCHANGED <<textVars, taken, reported>>

Report ==
    IF strict THEN Throw("failed")
    ELSE /\ read' = [read EXCEPT !.position = @ + 1, !.last = Greater(@, read.position)]
         /\ reported' = [reported EXCEPT ![read.position] = IF @ < 2 THEN @ + 1 ELSE @]
         /\ UNCHANGED <<textVars, taken>>

At(kinds) ==
    /\ read.pc = "reading" /\ ~read.aborted
    /\ read.position \in DOMAIN text /\ text[read.position] \in kinds

Earlier == read.position <= read.startAfterRow

\* Blank lines of a text file are dropped first, those of a workbook only once
\* it has its header.
DropBlank ==
    /\ At({"blank"})
    /\ format = "workbook" => read.header
    /\ Pass

\* Reported wherever it is, before the header and below startAfterRow too.
ReportBroken ==
    /\ At({"broken"})
    /\ Report

\* The first line left is the header: one without the required columns ends the
\* read whatever onError says.
TakeHeader ==
    /\ ~read.header
    /\ \/ At({"header", "short", "row"})
       \/ format = "workbook" /\ At({"blank"})
    /\ IF text[read.position] = "header"
       THEN /\ read' = [read EXCEPT !.position = @ + 1, !.header = TRUE]
            /\ UNCHANGED <<textVars, taken, reported>>
       ELSE Throw("failed")

SkipEarlier ==
    /\ At({"header", "short", "row"}) /\ read.header /\ Earlier
    /\ Pass

ReportShort ==
    /\ At({"short"}) /\ read.header /\ ~Earlier
    /\ Report

\* A second header line maps like any other.
YieldRow ==
    /\ At({"header", "row"}) /\ read.header /\ ~Earlier
    /\ read' = [read EXCEPT !.pc = "yielded"]
    /\ UNCHANGED <<textVars, taken, reported>>

FaultyTakeYielded ==
    LET full == limited /\ read.yielded + 1 >= Limit IN
    /\ read.pc = "yielded"
    /\ read' = [read EXCEPT !.pc = IF read.aborted THEN "stopped" ELSE IF full THEN "finished"
                                   ELSE "reading",
                            !.position = @ + 1, !.last = Greater(@, read.position),
                            !.yielded = @ + 1]
    /\ taken' = IF read.aborted THEN taken ELSE [taken EXCEPT ![read.position] = @ + 1]
    /\ UNCHANGED <<textVars, reported>>

\* The consumer takes the row; asked for another, the reader first sees to the
\* limit.
TakeYielded ==
    LET full == limited /\ read.yielded + 1 >= Limit IN
    /\ read.pc = "yielded" /\ ~read.aborted
    /\ read' = [read EXCEPT !.pc = IF full THEN "finished" ELSE "reading",
                            !.position = @ + 1, !.last = Greater(@, read.position),
                            !.yielded = @ + 1]
    /\ taken' = [taken EXCEPT ![read.position] = @ + 1]
    /\ UNCHANGED <<textVars, reported>>

EndOfText ==
    /\ read.pc = "reading" /\ read.position \notin DOMAIN text
    /\ Throw("finished")

\* An interrupted read is resumed after the last line that was taken or
\* reported; resumed imports have no limit.
ResumeRead ==
    /\ read.pc = "stopped" /\ ~limited
    /\ read' = NewRead(read.last)
    /\ UNCHANGED <<textVars, taken, reported>>

StreamNext ==
    \/ AbortRead \/ StopAtSignal \/ DropBlank \/ ReportBroken \/ TakeHeader \/ SkipEarlier
    \/ ReportShort \/ YieldRow \/ TakeYielded \/ EndOfText \/ ResumeRead

StreamSpec == StreamInit /\ [][StreamNext]_streamVars

-----------------------------------------------------------------------------
(* Properties.                                                             *)

StreamTypeOK ==
    /\ format \in Format /\ {strict, limited} \subseteq BOOLEAN
    /\ read.pc \in {"reading", "yielded", "stopped", "failed", "finished"}
    /\ {taken, reported} \subseteq [DOMAIN text -> Nat]

\* The lines that come after the header line.
Body ==
    {i \in DOMAIN text :
        \/ format = "headless"
        \/ \E h \in 1..(i - 1) :
            /\ text[h] = "header"
            /\ \A j \in 1..(h - 1) : text[j] \in {"blank", "broken"}}

\* However often a read was interrupted and resumed, no line has been taken
\* twice and none but a row of the body at all; when it finishes, every row of
\* the body has been taken, and every other line that is not blank reported: a
\* short one once, a broken one once or, by resumed reads, again.
EveryLineIsAccounted ==
    /\ \A i \in DOMAIN text :
        /\ taken[i] <= IF i \in Body /\ text[i] \in {"row", "header"} THEN 1 ELSE 0
    /\ read.pc = "finished" /\ ~limited =>
        \A i \in DOMAIN text :
            CASE text[i] = "broken" -> reported[i] >= 1
              [] text[i] = "short" /\ i \in Body -> reported[i] = 1
              [] text[i] \in {"row", "header"} /\ i \in Body -> taken[i] = 1
              [] OTHER -> taken[i] = 0 /\ reported[i] = 0

=============================================================================
