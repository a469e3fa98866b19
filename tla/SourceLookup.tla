---------------------------- MODULE SourceLookup ----------------------------
(***************************************************************************)
(* Four ways to verify a license number: OpenTradeRegistry.verify and the  *)
(* verify command over a source file, OpenTradeSqliteCache.verify over     *)
(* what earlier syncs of the source left in the cache, and the             *)
(* verification route of the record API over what was promoted last.       *)
(*                                                                         *)
(* A row of the file is good, short (it cannot be mapped) or invalid (it   *)
(* cannot be normalized); rows that are equal have one fingerprint.  An    *)
(* import is one step here: ImportWorker and Promotion show that it may be.*)
(***************************************************************************)
EXTENDS Integers, Sequences, FiniteSets

CONSTANTS
    LicenseNumber,  \* normalized license numbers
    NoNumber,       \* a query that normalizes to nothing
    SourceFile      \* files the source may publish

SourceLine ==
    [parse : {"good", "short", "invalid"}, number : LicenseNumber,
     alternates : SUBSET LicenseNumber]

ASSUME SourceFileAssumption == SourceFile \subseteq Seq(SourceLine)
ASSUME NoNumberAssumption == NoNumber \notin LicenseNumber

\* Of the board inventory; "blocked" also for a source that is not in it.
AccessPath ==
    {"production_adapter", "network_opt_in", "local_file", "browser_lookup",
     "manual_handoff", "blocked", "deprecated"}

VARIABLES
    published,  \* the file of the source
    records,    \* rows behind the records of the cache
    current,    \* rows behind current_records of the source
    allowed,    \* publication_disposition = 'allowed', the same for them all
    fresh       \* history: whose rows are those of the file now published

lookupVars == <<published, records, current, allowed, fresh>>

LookupInit ==
    /\ published \in SourceFile
    /\ records = {} /\ current = {} /\ allowed = FALSE
    /\ fresh = {}

PublishFile ==
    /\ published' \in SourceFile
    /\ fresh' = IF published' = published THEN fresh ELSE {}
    /\ UNCHANGED <<records, current, allowed>>

\* A sync that is not strict; nothing is ever removed by one.
SyncFile ==
    /\ records' = records \cup {published[i] : i \in {j \in DOMAIN published :
                                                        published[j].parse = "good"}}
    /\ fresh' = fresh \cup {"cache"}
    /\ UNCHANGED <<published, current, allowed>>

\* defaultSourceRecordKey is the number: a row whose number the file had before
\* is a duplicate.
FirstOfNumber(i) == \A j \in 1..(i - 1) : published[j].number # published[i].number

\* An import whose manifest has no errors, with the publication of its payload;
\* it replaces what was promoted before.
ImportFile(disposition) ==
    /\ \A i \in DOMAIN published : published[i].parse = "good"
    /\ current' = {published[i] : i \in {j \in DOMAIN published : FirstOfNumber(j)}}
    /\ allowed' = disposition
    /\ fresh' = fresh \cup {"current"}
    /\ UNCHANGED <<published, records>>

LookupNext == PublishFile \/ SyncFile \/ \E disposition \in BOOLEAN : ImportFile(disposition)

LookupSpec == LookupInit /\ [][LookupNext]_lookupVars

-----------------------------------------------------------------------------
(* Answers: the result, and the lines of the file or rows of the cache that *)
(* match.                                                                   *)

Answer(result, found) == [result |-> result, found |-> found]

Rows(parse) == {i \in DOMAIN published : published[i].parse = parse}

\* Every line is a candidate of its own, under its number or an alternate one.
Candidates(query) ==
    {i \in Rows("good") : query \in {published[i].number} \cup published[i].alternates}

Judged(query, skipped) ==
    Answer(CASE Candidates(query) = {} -> "not_found"
             [] Cardinality(Candidates(query)) > 1 -> "ambiguous"
             [] OTHER -> IF skipped THEN "matched_with_warnings" ELSE "matched",
           Candidates(query))

\* Lines that cannot be mapped become warnings.
RegistryVerify(query) ==
    IF query = NoNumber THEN Answer("missing_required_input", {})
    ELSE Judged(query, Rows("invalid") # {})

FaultyCommandVerify(query) ==
    IF query = NoNumber THEN Answer("missing_required_input", {})
    ELSE IF Rows("short") # {} THEN Answer("failed", {})
    ELSE Judged(query, Rows("invalid") \cap Candidates(query) # {})

\* The command gives the reader no onError: such a line ends it.
CommandVerify(query) ==
    IF query = NoNumber THEN Answer("missing_required_input", {})
    ELSE IF Rows("short") # {} THEN Answer("failed", {})
    ELSE Judged(query, Rows("invalid") # {})

\* Records are found under their own number only, and kept once for each
\* fingerprint.
CacheVerify(query) ==
    LET found == {record \in records : record.number = query} IN
    Answer(CASE query = NoNumber -> "missing_required_input"
             [] query # NoNumber /\ found = {} -> "not_found"
             [] query # NoNumber /\ Cardinality(found) = 1 -> "matched"
             [] OTHER -> "ambiguous", found)

\* The verification route.  The job that "pending" stands for is inserted for a
\* consumer that is not part of the repository.
ApiVerify(query, accessPath) ==
    LET found == {record \in current : allowed /\ record.number = query} IN
    Answer(CASE query = NoNumber -> "invalid_request"
             [] query # NoNumber /\ Cardinality(found) = 1 -> "indexed_match"
             [] Cardinality(found) > 1 -> "ambiguous"
             [] OTHER -> CASE accessPath = "browser_lookup" -> "pending"
                           [] accessPath = "manual_handoff" -> "manual_required"
                           [] accessPath \in {"blocked", "deprecated"} -> "source_unavailable"
                           [] OTHER -> "not_found", found)

-----------------------------------------------------------------------------
(* Properties.                                                             *)

LookupTypeOK ==
    /\ published \in SourceFile /\ records \cup current \subseteq SourceLine
    /\ allowed \in BOOLEAN /\ fresh \subseteq {"cache", "current"}

\* The four ways do not contradict each other.  The command answers as the
\* registry does or fails.  After a sync of the file, the cache has every line
\* the file has under that number; so, unless the file has none, what it matches
\* is one of the candidates of the file.  After an import that may be published,
\* the API has a match for exactly the numbers the file has, and what it matches
\* the file has; it never calls a number ambiguous, even where the file is.
LookupsAgree ==
    \A query \in LicenseNumber \cup {NoNumber} :
        LET own == {published[i] : i \in {j \in Rows("good") : published[j].number = query}}
            file == RegistryVerify(query)
            cache == CacheVerify(query)
        IN
        /\ CommandVerify(query) \in {file, Answer("failed", {})}
        /\ "cache" \in fresh => own \subseteq cache.found
        /\ "cache" \in fresh /\ own # {} /\ cache.result = "matched" =>
            cache.found \subseteq {published[i] : i \in file.found}
        /\ \A accessPath \in AccessPath :
            LET api == ApiVerify(query, accessPath) IN
            /\ api.result # "ambiguous"
            /\ "current" \in fresh /\ allowed =>
                /\ api.result = "indexed_match" <=> own # {}
                /\ api.found \subseteq own
            /\ file.result = "missing_required_input" <=> api.result = "invalid_request"
        /\ file.result = "missing_required_input" <=> cache.result = "missing_required_input"

=============================================================================
