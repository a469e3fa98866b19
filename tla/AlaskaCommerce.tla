--------------------------- MODULE AlaskaCommerce ---------------------------
(* packages/adapter-ak-commerce: Alaska professional licenses.             *)
EXTENDS AdapterCommon

AkColumns ==
    {"LicenseNumber", "LicenseType", "Program", "Status", "IssueDate", "ExpirationDate",
     "BusinessName", "DBAName", "LicenseeName", "AddressLine1", "AddressLine2", "City",
     "State", "Zip", "Phone", "Endorsement", "Classification", "Discipline", "Board"}

AkDateForms == {"slash", "padded"}

\* kind is the text of type, program, endorsement, classification and board.
AkRow(fields) ==
    IF fields.width # "exact" THEN Unmapped
    ELSE [number |-> fields.number, status |-> fields.status, kind |-> fields.kind,
          expirationDate |-> Parsed(fields.expiry, AkDateForms)]

AkActive(row, today) ==
    IF row.expirationDate = NoDate THEN Undecided("active")
    ELSE IF IsPast(row.expirationDate, today) THEN NotCurrent("expired")
    ELSE Current("active")

AkStatus(row, today) == FirstMatch(row.status, <<
    <<{"suspend"}, NotCurrent("suspended")>>,
    <<{"revok"}, NotCurrent("revoked")>>,
    <<{"probation"}, Current("probation")>>,
    <<{"pending"}, Undecided("pending")>>,
    <<{"inactive"}, NotCurrent("inactive")>>,
    <<{"expired"}, NotCurrent("expired")>>,
    <<{"active"}, AkActive(row, today)>> >>, Undecided("unknown"))

AkCategories(row) ==
    LET found == AllMatches(row.kind, <<
            <<{"residential"}, "residential_contracting">>,
            <<{"general"}, "general_contracting">>,
            <<{"roof"}, "roofing">>,
            <<{"plumb"}, "plumbing">>,
            <<{"electrical"}, "electrical">> >>)
    IN IF found = {} /\ "contractor" \in row.kind THEN {"other"} ELSE OrUnknown(found)

\* "cosmetology" stands for the five trades outside the scope.
AkRelevance(row) == FirstMatch(row.kind, <<
    <<{"contractor", "construction", "roof", "plumb", "electrical"}, "trade_relevant">>,
    <<{"installer", "repair", "mechanic"}, "possibly_trade_relevant">>,
    <<{"cosmetology"}, "not_trade_relevant">> >>, "unknown")

AkWarnings(row, today) == WarningsWhere(
    [missing_license_number |-> row.number = "blank",
     unknown_license_type |-> "unknown" \in AkCategories(row),
     unknown_status |-> AkStatus(row, today).normalized = "unknown",
     non_trade_license_type |-> AkRelevance(row) = "not_trade_relevant",
     missing_or_unparsed_expiration_date |-> row.expirationDate = NoDate])

AkRecord(row, today) == CanonicalRecord(row.number,
    AkStatus(row, today), AkCategories(row), AkWarnings(row, today),
    [typeCode |-> {"Program"}, typeLabel |-> {"LicenseType"},
     classifications |-> {"Endorsement", "Classification"},
     businessName |-> {"BusinessName"}, dbaName |-> {"DBAName"},
     licenseeName |-> {"LicenseeName"}, rawStatus |-> {"Status"},
     issueDate |-> {"IssueDate"}, expirationDate |-> {"ExpirationDate"},
     line1 |-> {"AddressLine1"}, line2 |-> {"AddressLine2"},
     locality |-> {"City", "State", "Zip"},
     addressRaw |-> {"AddressLine1", "AddressLine2", "City", "State", "Zip"},
     phone |-> {"Phone"}, compliance |-> {"Discipline"}, raw |-> AkColumns])

AkStream == [header |-> "first_row", required |-> AkColumns, workbook |-> FALSE]

AkAdapter == [sourceId |-> "us.ak.commerce.construction_contractors", stream |-> AkStream]

=============================================================================
