---------------------------- MODULE IllinoisIdfpr ----------------------------
(* packages/adapter-il-idfpr: Illinois roofing contractors.                *)
EXTENDS AdapterCommon

IlColumns ==
    {"LicenseNumber", "ProfessionName", "LicenseType", "Status", "IssueDate",
     "ExpirationDate", "BusinessName", "DBAName", "LicenseeName", "AddressLine1",
     "AddressLine2", "City", "State", "Zip", "Phone", "County", "Discipline", "Board"}

IlDateForms == {"slash", "padded"}

\* kind is the text of profession, license type and board.
IlRow(fields) ==
    IF fields.width # "exact" THEN Unmapped
    ELSE [number |-> fields.number, status |-> fields.status, kind |-> fields.kind,
          expirationDate |-> Parsed(fields.expiry, IlDateForms)]

IlActive(row, today) ==
    IF row.expirationDate = NoDate THEN Undecided("active")
    ELSE IF IsPast(row.expirationDate, today) THEN NotCurrent("expired")
    ELSE Current("active")

IlStatus(row, today) == FirstMatch(row.status, <<
    <<{"suspend"}, NotCurrent("suspended")>>,
    <<{"revok"}, NotCurrent("revoked")>>,
    <<{"probation"}, Current("probation")>>,
    <<{"pending", "review"}, Undecided("pending")>>,
    <<{"inactive"}, NotCurrent("inactive")>>,
    <<{"expired"}, NotCurrent("expired")>>,
    <<{"active"}, IlActive(row, today)>> >>, Undecided("unknown"))

IlCategory(row) == FirstMatch(row.kind, << <<{"roof"}, "roofing">> >>, "unknown")

\* "cosmetology" stands for the four trades outside the scope.
IlRelevance(row) == FirstMatch(row.kind, <<
    <<{"roof"}, "trade_relevant">>,
    <<{"cosmetology"}, "not_trade_relevant">> >>, "unknown")

IlWarnings(row, today) == WarningsWhere(
    [missing_license_number |-> row.number = "blank",
     unknown_license_type |-> IlCategory(row) = "unknown",
     unknown_status |-> IlStatus(row, today).normalized = "unknown",
     non_trade_license_type |-> IlRelevance(row) = "not_trade_relevant",
     missing_or_unparsed_expiration_date |-> row.expirationDate = NoDate])

IlRecord(row, today) == CanonicalRecord(row.number,
    IlStatus(row, today), {IlCategory(row)}, IlWarnings(row, today),
    [typeLabel |-> {"LicenseType"},
     classifications |-> {"ProfessionName", "LicenseType", "Board"},
     businessName |-> {"BusinessName"}, dbaName |-> {"DBAName"},
     licenseeName |-> {"LicenseeName"}, rawStatus |-> {"Status"},
     issueDate |-> {"IssueDate"}, expirationDate |-> {"ExpirationDate"},
     line1 |-> {"AddressLine1"}, line2 |-> {"AddressLine2"},
     locality |-> {"City", "State", "Zip", "County"},
     addressRaw |-> {"AddressLine1", "AddressLine2", "City", "State", "Zip", "County"},
     phone |-> {"Phone"}, compliance |-> {"Discipline"}, raw |-> IlColumns])

IlStream == [header |-> "first_row", required |-> IlColumns, workbook |-> FALSE]

IlAdapter == [sourceId |-> "us.il.idfpr.roofing_contractors", stream |-> IlStream]

=============================================================================
