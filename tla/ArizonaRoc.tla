----------------------------- MODULE ArizonaRoc -----------------------------
(* packages/adapter-az-roc: the Arizona contractor posting list.           *)
EXTENDS AdapterCommon

AzColumns ==
    {"License No", "Business Name", "Doing Business As", "Class", "Class Detail", "Class Type",
     "Address", "City", "State", "Zip", "Qualifying Party", "Issued Date", "Expiration Date",
     "Status"}

AzDateForms == {"slash", "padded", "iso"}

\* kind is the text of class, class detail and class type.
AzRow(fields) ==
    IF fields.width = "short" THEN Unmapped
    ELSE [number |-> fields.number, status |-> fields.status, kind |-> fields.kind,
          expirationDate |-> Parsed(fields.expiry, AzDateForms)]

AzStatus(row, today) == FirstMatch(WithPast(row.status, row.expirationDate, today), <<
    <<{"suspend"}, NotCurrent("suspended")>>,
    <<{"revok"}, NotCurrent("revoked")>>,
    <<{"probation"}, NotCurrent("probation")>>,
    <<{"inactive"}, NotCurrent("inactive")>>,
    <<{"expired", "past"}, NotCurrent("expired")>>,
    <<row.status, IF row.status = {"active"} THEN Current("active")
                  ELSE Undecided("unknown")>> >>, Undecided("unknown"))

AzCategories(row) == OrUnknown(AllMatches(row.kind, <<
    <<{"general", "class b"}, "general_contracting">>,
    <<{"residential"}, "residential_contracting">>,
    <<{"commercial"}, "commercial_contracting">>,
    <<{"roof"}, "roofing">>,
    <<{"air conditioning", "refrigeration", "hvac"}, "hvac">>,
    <<{"plumb"}, "plumbing">>,
    <<{"electric"}, "electrical">>,
    <<{"solar"}, "solar">>,
    <<{"pool"}, "pool_spa">> >>))

AzWarnings(row, today) == WarningsWhere(
    [missing_license_number |-> row.number = "blank",
     unknown_classification |-> "unknown" \in AzCategories(row),
     unknown_status |-> AzStatus(row, today).normalized = "unknown"])

AzRecord(row, today) == CanonicalRecord(row.number,
    AzStatus(row, today), AzCategories(row), AzWarnings(row, today),
    [typeCode |-> {"Class"}, typeLabel |-> {"Class Type"},
     classifications |-> {"Class", "Class Detail"},
     businessName |-> {"Business Name"}, dbaName |-> {"Doing Business As"},
     licenseeName |-> {"Qualifying Party"}, personnel |-> {"Qualifying Party"},
     rawStatus |-> {"Status"},
     issueDate |-> {"Issued Date"}, expirationDate |-> {"Expiration Date"},
     line1 |-> {"Address"}, locality |-> {"City", "State", "Zip"},
     addressRaw |-> {"Address", "City", "State", "Zip"}, raw |-> AzColumns])

AzStream == [header |-> "first_row", required |-> AzColumns, workbook |-> FALSE]

AzAdapter == [sourceId |-> "us.az.roc.contractors", stream |-> AzStream]

=============================================================================
