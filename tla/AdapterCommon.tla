---------------------------- MODULE AdapterCommon ----------------------------
(***************************************************************************)
(* The vocabulary of the ten source adapters (packages/adapter-xx).  An    *)
(* adapter maps the fields of a row to a typed row, decides status, trade  *)
(* categories and warnings from it, and builds the canonical record.       *)
(*                                                                         *)
(* A text is the set of the keywords an adapter would find in it: a blank  *)
(* text is {}, and a text without any keyword is {"other"}.  "inactive"    *)
(* contains "active".  A date cell is the way it is written and the day it *)
(* names.  Names, addresses and phone numbers decide nothing: the record   *)
(* keeps, for each of its fields, the columns its value is taken from.     *)
(***************************************************************************)
EXTENDS Integers, Sequences

NoDate == -1

Blank == [form |-> "blank", day |-> NoDate]

\* The parse functions accept dates written in some forms; anything else is no
\* date.
Parsed(cell, forms) == IF cell.form \in forms THEN cell.day ELSE NoDate

\* isCurrent is true, false or null.
Current(status) == [normalized |-> status, isCurrent |-> "yes"]
NotCurrent(status) == [normalized |-> status, isCurrent |-> "no"]
Undecided(status) == [normalized |-> status, isCurrent |-> "unknown"]

\* Whole UTC days are compared: a license is good on the day it expires.
IsPast(day, today) == day # NoDate /\ day < today

\* "past" as one more word, for chains that test text and date in turn.
WithPast(text, day, today) == IF IsPast(day, today) THEN text \cup {"past"} ELSE text

Mentions(text, words) == text \cap words # {}

\* A chain of ifs: the result of the first entry <<words, result>> whose words
\* the text mentions.
FirstMatch(text, chain, otherwise) ==
    LET hits == {i \in DOMAIN chain : Mentions(text, chain[i][1])} IN
    IF hits = {} THEN otherwise
    ELSE chain[CHOOSE i \in hits : \A j \in hits : i <= j][2]

\* A list of ifs: the results of every entry <<words, result>> that applies.
AllMatches(text, table) ==
    {table[i][2] : i \in {j \in DOMAIN table : Mentions(text, table[j][1])}}

OrUnknown(categories) == IF categories = {} THEN {"unknown"} ELSE categories

\* Codes of the warnings whose condition holds.
WarningsWhere(conditions) == {code \in DOMAIN conditions : conditions[code]}

\* The row does not have the columns of the header.
Unmapped == [mapped |-> FALSE]

Rejected == [accepted |-> FALSE]

\* canonicalTradeLicenseRecordSchema.parse: a record needs a license number.
CanonicalRecord(number, status, categories, warnings, columns) ==
    IF number = "blank" THEN Rejected
    ELSE [accepted |-> TRUE, number |-> number, status |-> status,
          categories |-> categories, warnings |-> warnings, columns |-> columns]

=============================================================================
