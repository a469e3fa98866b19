--------------------------- MODULE CaliforniaCslb ---------------------------
(* packages/adapter-ca-cslb: the California master license file.           *)
EXTENDS AdapterCommon

CaColumns ==
    {"LicenseNo", "LastUpdate", "BusinessName", "BUS-NAME-2", "FullBusinessName",
     "MailingAddress", "City", "State", "County", "ZIPCode", "country", "BusinessPhone",
     "BusinessType", "IssueDate", "ReissueDate", "ExpirationDate", "InactivationDate",
     "ReactivationDate", "PendingSuspension", "PendingClassRemoval", "PendingClassReplace",
     "PrimaryStatus", "SecondaryStatus", "Classifications(s)", "AsbestosReg",
     "WorkersCompCoverageType", "WCInsuranceCompany", "WCPolicyNumber", "WCEffectiveDate",
     "WCExpirationDate", "WCCancellationDate", "WCSuspendDate", "CBSuretyCompany",
     "CBNumber", "CBEffectiveDate", "CBCancellationDate", "CBAmount", "WBSuretyCompany",
     "WBNumber", "WBEffectiveDate", "WBCancellationDate", "WBAmount", "DBSuretyCompany",
     "DBNumber", "DBEffectiveDate", "DBCancellationDate", "DBAmount", "DateRequired",
     "DiscpCaseRegion", "DBBondReason", "DBCaseNo", "NAME-TP-2"}

CaDateForms == {"slash", "padded", "iso"}

\* status is the text of both statuses, kind that of all classifications.
CaRow(fields) ==
    IF fields.width = "short" THEN Unmapped
    ELSE [number |-> fields.number, status |-> fields.status, kind |-> fields.kind,
          expirationDate |-> Parsed(fields.expiry, CaDateForms)]

\* CLEAR counts only when it is the whole status.
CaStatus(row, today) ==
    LET clear == IF row.status = {"clear"} THEN {"clear"} ELSE {}
        valid == IF IsPast(row.expirationDate, today) THEN NotCurrent("expired")
                 ELSE Current("active")
    IN FirstMatch(row.status, <<
        <<{"suspend"}, NotCurrent("suspended")>>,
        <<{"revok"}, NotCurrent("revoked")>>,
        <<{"expired"}, NotCurrent("expired")>>,
        <<{"inactive"}, NotCurrent("inactive")>>,
        <<{"active"} \cup clear, valid>> >>, Undecided("unknown"))

CaCategories(row) == OrUnknown(AllMatches(row.kind, <<
    <<{"general building", "class b"}, "general_contracting">>,
    <<{"general engineering", "class a"}, "commercial_contracting">>,
    <<{"c39", "roof"}, "roofing">>,
    <<{"c20", "hvac", "warm-air", "air conditioning"}, "hvac">>,
    <<{"c36", "plumb"}, "plumbing">>,
    <<{"c10", "electr"}, "electrical">>,
    <<{"c46", "solar"}, "solar">> >>))

CaWarnings(row, today) == WarningsWhere(
    [missing_license_number |-> row.number = "blank",
     unknown_classification |-> "unknown" \in CaCategories(row),
     unknown_status |-> CaStatus(row, today).normalized = "unknown",
     missing_or_unparsed_expiration_date |-> row.expirationDate = NoDate])

\* The row holds no name of a person: personnel stays empty.
CaRecord(row, today) == CanonicalRecord(row.number,
    CaStatus(row, today), CaCategories(row), CaWarnings(row, today),
    [typeLabel |-> {"BusinessType"}, classifications |-> {"Classifications(s)"},
     businessName |-> {"BusinessName", "FullBusinessName"}, dbaName |-> {"BUS-NAME-2"},
     licenseeName |-> {"BusinessName", "FullBusinessName"},
     rawStatus |-> {"PrimaryStatus", "SecondaryStatus"},
     issueDate |-> {"IssueDate"}, expirationDate |-> {"ExpirationDate"},
     line1 |-> {"MailingAddress"}, locality |-> {"City", "State", "ZIPCode", "County"},
     addressRaw |-> {"MailingAddress", "City", "State", "ZIPCode", "County"},
     phone |-> {"BusinessPhone"}, raw |-> CaColumns])

\* The file may also be a workbook.
CaStream == [header |-> "first_row", required |-> CaColumns, workbook |-> TRUE]

CaAdapter == [sourceId |-> "us.ca.cslb.contractors", stream |-> CaStream]

=============================================================================
