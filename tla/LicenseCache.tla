---------------------------- MODULE LicenseCache ----------------------------
(***************************************************************************)
(* What the local SQLite cache holds of one license while its source       *)
(* changes and days pass: import, redaction and retention of               *)
(* packages/storage-sqlite, over the records the source adapters build.    *)
(*                                                                         *)
(* Records are kept by fingerprint, which is the hash of the source row: a *)
(* row that changes leaves the record of its former version behind.        *)
(* Sessions, transactions and import runs are those of module CacheSync;   *)
(* here every operation is complete.                                       *)
(***************************************************************************)
EXTENDS SourceAdapters, FiniteSets

CONSTANTS
    SourceRow(_),   \* SourceRow(adapter): the rows the source may start with
    Revised(_, _),  \* Revised(adapter, row): what the row may change into
    Retention,      \* values of retainedUntil: days, or NoDate
    Redaction,      \* settings redact() is called with
    LastDay         \* bound of the calendar

Setting ==
    {"removePhone", "removeEmail", "removeWebsite", "removeAddressLines", "removePersonnel"}

ASSUME RetentionAssumption == NoDate \in Retention /\ Retention \subseteq Int
ASSUME RedactionAssumption == Redaction \subseteq SUBSET Setting
ASSUME LastDayAssumption == LastDay \in Nat

VARIABLES
    adapter,  \* the source that has the license
    row,      \* its row there
    today,
    cached    \* its rows of opentrade_license_records

licenseVars == <<adapter, row, today, cached>>

\* fields stands for the fingerprint, redacted for redacted_at and what was
\* redacted.  promised is history: the retention date of the last import.
Stored(fields, record, retainedUntil) ==
    [fields |-> fields, record |-> record, syncedOn |-> today,
     retainedUntil |-> retainedUntil, redacted |-> {}, promised |-> retainedUntil]

LicenseInit ==
    /\ adapter \in AdapterName
    /\ row \in SourceRow(adapter)
    /\ today = 0
    /\ cached = {}

SourceChanges ==
    /\ row' \in Revised(adapter, row)
    /\ UNCHANGED <<adapter, today, cached>>

NextDay ==
    /\ today < LastDay
    /\ today' = today + 1
    /\ UNCHANGED <<adapter, row, cached>>

\* insert ... on conflict(source_id, fingerprint) do update: every column is
\* overwritten, redacted_at and retained_until with the rest.
Upserted(entry) == {e \in cached : e.fields # entry.fields} \cup {entry}

\* A sync reads the row: one that cannot be mapped or normalized is reported
\* and leaves the cache as it is.
Import(retainedUntil) ==
    LET record == RecordOf(adapter, row, today) IN
    /\ record # Rejected
    /\ cached' = Upserted(Stored(row, record, retainedUntil))
    /\ UNCHANGED <<adapter, row, today>>

\* normalizeLicenseNumber of a query is never made of symbols only.
Findable(entry) == entry.record.number # "symbols"

FaultyCleared(settings) ==
    (IF "removePhone" \in settings THEN {"phone"} ELSE {})
    \cup (IF "removeEmail" \in settings THEN {"email"} ELSE {})
    \cup (IF "removeWebsite" \in settings THEN {"website"} ELSE {})
    \cup (IF "removeAddressLines" \in settings THEN {"line1", "line2", "addressRaw", "raw"} ELSE {})
    \cup (IF "removePersonnel" \in settings THEN {"personnel"} ELSE {})

\* What redactCanonicalRecord empties.  Whatever is removed, the source row is
\* not kept either; the third address line is.
Cleared(settings) ==
    (IF "removePhone" \in settings THEN {"phone"} ELSE {})
    \cup (IF "removeEmail" \in settings THEN {"email"} ELSE {})
    \cup (IF "removeWebsite" \in settings THEN {"website"} ELSE {})
    \cup (IF "removeAddressLines" \in settings THEN {"line1", "line2", "addressRaw"} ELSE {})
    \cup (IF "removePersonnel" \in settings THEN {"personnel"} ELSE {})
    \cup (IF settings # {} THEN {"raw"} ELSE {})

FaultyRedacted(entry, settings) ==
    [entry EXCEPT
        !.record.columns = [c \in DOMAIN @ |-> IF c \in Cleared(settings) THEN {} ELSE @[c]],
        !.retainedUntil = NoDate,
        !.redacted = @ \cup settings]

\* The record is written back under its own fingerprint and retention date.
Redacted(entry, settings) ==
    [entry EXCEPT
        !.record.columns = [c \in DOMAIN @ |-> IF c \in Cleared(settings) THEN {} ELSE @[c]],
        !.redacted = @ \cup settings]

\* redact(): every version found under the license number.
Redact(settings) ==
    /\ \E entry \in cached : Findable(entry)
    /\ cached' = {IF Findable(entry) THEN Redacted(entry, settings) ELSE entry : entry \in cached}
    /\ UNCHANGED <<adapter, row, today>>

Prune ==
    /\ cached' = {e \in cached : e.retainedUntil = NoDate \/ e.retainedUntil >= today}
    /\ UNCHANGED <<adapter, row, today>>

LicenseNext ==
    \/ SourceChanges \/ NextDay \/ Prune
    \/ \E retainedUntil \in Retention : Import(retainedUntil)
    \/ \E settings \in Redaction : Redact(settings)

LicenseSpec == LicenseInit /\ [][LicenseNext]_licenseVars

-----------------------------------------------------------------------------
(* Properties.                                                             *)

Day == 0..LastDay
Status == {"active", "inactive", "expired", "suspended", "revoked", "probation", "pending",
           "unknown"}

LicenseTypeOK ==
    /\ adapter \in AdapterName /\ today \in Day
    /\ \A e \in cached :
        /\ e.record.accepted /\ e.record.status.normalized \in Status
        /\ e.record.status.isCurrent \in {"yes", "no", "unknown"}
        /\ e.syncedOn \in Day /\ e.redacted \subseteq Setting
        /\ {e.retainedUntil, e.promised} \subseteq Retention

\* What the row of a source says of its license, in the words its adapter looks
\* for: Florida gives codes, Oregon and Texas say nothing.  The adapters of
\* Minnesota and Washington do not look for every word that ends a license: an
\* inactive one is active to both.
Said(source, fields) ==
    CASE source = "FL" ->
            {"suspend" : c \in {fields.primary} \cap {"S"}}
            \cup {"probation" : c \in {fields.primary} \cap {"P"}}
            \cup {"inactive" : c \in {fields.secondary} \cap {"I"}}
      [] source = "WA" ->
            {"suspend" : c \in (fields.status \cup {fields.code}) \cap {"S", "suspend"}}
      [] source = "MN" -> fields.status \ {"inactive"}
      [] source \in {"OR", "TX"} -> {}
      [] OTHER -> fields.status

\* Whether the row gives its license a status: Florida by two codes.
GivesStatus(source, fields) ==
    IF source = "FL" THEN "" \notin {fields.primary, fields.secondary} ELSE fields.status # {}

\* A record is not current if its source said, in words its adapter looks for,
\* that the license is suspended or revoked.  If the source said that it has
\* expired or is inactive, or if its expiration date was past on the day of the
\* sync, the record is current only when the source also said probation.  A
\* status the adapter cannot place is warned of unless Florida left a code
\* blank, but not by the adapters of Indiana and Minnesota; so is a category.
StatusFollowsSource ==
    \A e \in cached :
        LET status == e.record.status
            said == Said(adapter, e.fields)
            past == IsPast(e.fields.expiry.day, e.syncedOn) /\ e.fields.expiry.form = "padded"
        IN
        /\ status.isCurrent = "yes" =>
            /\ ~Mentions(said, {"suspend", "revok"})
            /\ past \/ Mentions(said, {"expired", "inactive"}) =>
                    status.normalized = "probation" /\ "probation" \in said
        /\ status.normalized = "unknown" =>
            \/ e.record.warnings # {}
            \/ adapter \in {"IN", "MN"}
            \/ adapter = "FL" /\ ~GivesStatus(adapter, e.fields)
        /\ "unknown" \in e.record.categories => e.record.warnings # {}

\* A status its adapter has no rule for leaves a warning, whether the record gets
\* the status unknown or, though the license is inactive, the status active.
UnusualStatusIsWarnedOf ==
    \A e \in cached :
        LET status == e.record.status.normalized IN
        (status = "unknown" /\ GivesStatus(adapter, e.fields))
            \/ (status = "active" /\ "inactive" \in e.fields.status)
        => e.record.warnings # {}

\* After redaction and until the next import of the row, nothing in a record
\* is taken from the columns that held the phone number or the first two
\* address lines, wherever else these columns went.
RedactedIsHidden ==
    \A e \in cached :
        LET full == RecordOf(adapter, e.fields, e.syncedOn).columns
            asked == Cleared(e.redacted) \cap {"phone", "line1", "line2"}
        IN \A c \in asked \cap DOMAIN full, d \in DOMAIN e.record.columns :
                full[c] \cap e.record.columns[d] = {}

\* A redaction with removeAddressLines leaves no address line.
RedactedLeavesNoAddressLine ==
    \A e \in cached : \A line \in {"line1", "line2", "line3"} \cap DOMAIN e.record.columns :
        "removeAddressLines" \in e.redacted => e.record.columns[line] = {}

\* Whatever happened to a record since a sync set its retention date, a prune
\* past that date removes it.
PruningKeepsPromises ==
    [][Prune => \A e \in cached' : e.promised = NoDate \/ e.promised >= today]_licenseVars

=============================================================================
