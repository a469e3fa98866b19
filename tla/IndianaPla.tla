----------------------------- MODULE IndianaPla -----------------------------
(* packages/adapter-in-pla: Indiana professional licenses.                 *)
EXTENDS AdapterCommon

InColumns ==
    {"License Number", "License Type", "License Status", "Name", "DBA Name",
     "Address Line 1", "Address Line 2", "City", "State", "Zip", "County", "Phone",
     "Issue Date", "Expiration Date", "Board"}

InDateForms == {"slash", "padded"}

\* kind is the text of license type and board.
InRow(fields) ==
    IF fields.width # "exact" THEN Unmapped
    ELSE [number |-> fields.number, status |-> fields.status, kind |-> fields.kind,
          expirationDate |-> Parsed(fields.expiry, InDateForms)]

InActive(row, today) ==
    IF row.expirationDate = NoDate THEN Undecided("active")
    ELSE IF IsPast(row.expirationDate, today) THEN NotCurrent("expired")
    ELSE Current("active")

InStatus(row, today) == FirstMatch(row.status, <<
    <<{"suspend"}, NotCurrent("suspended")>>,
    <<{"revok"}, NotCurrent("revoked")>>,
    <<{"probation"}, Current("probation")>>,
    <<{"pending"}, Undecided("pending")>>,
    <<{"inactive"}, NotCurrent("inactive")>>,
    <<{"expired"}, NotCurrent("expired")>>,
    <<{"active"}, InActive(row, today)>> >>, Undecided("unknown"))

\* "electric" stands for electrical and electrician.
InCategory(row) == FirstMatch(row.kind, <<
    <<{"plumb"}, "plumbing">>,
    <<{"electric"}, "electrical">>,
    <<{"home improvement", "remodel"}, "home_improvement">>,
    <<{"manufactured home"}, "other">> >>, "unknown")

\* "cosmetology" stands for the four trades outside the scope.
InRelevance(row) == FirstMatch(row.kind, <<
    <<{"plumb", "electric", "home improvement", "manufactured home", "contractor",
       "installer"}, "trade_relevant">>,
    <<{"technician", "repair"}, "possibly_trade_relevant">>,
    <<{"cosmetology"}, "not_trade_relevant">> >>, "unknown")

\* An unusual status is not warned of, only a blank one.
InWarnings(row) == WarningsWhere(
    [missing_license_number |-> row.number = "blank",
     unknown_license_type |-> InCategory(row) = "unknown",
     non_trade_license_type |-> InRelevance(row) = "not_trade_relevant",
     missing_status |-> row.status = {},
     missing_or_unparsed_expiration_date |-> row.expirationDate = NoDate])

InRecord(row, today) == CanonicalRecord(row.number,
    InStatus(row, today), {InCategory(row)}, InWarnings(row),
    [typeCode |-> {"Board"}, typeLabel |-> {"License Type"},
     classifications |-> {"Board", "License Type"},
     businessName |-> {"Name"}, dbaName |-> {"DBA Name"},
     rawStatus |-> {"License Status"},
     issueDate |-> {"Issue Date"}, expirationDate |-> {"Expiration Date"},
     line1 |-> {"Address Line 1"}, line2 |-> {"Address Line 2"},
     locality |-> {"City", "State", "Zip", "County"},
     addressRaw |-> {"Address Line 1", "Address Line 2", "City", "State", "Zip", "County"},
     phone |-> {"Phone"}, raw |-> InColumns])

InStream == [header |-> "first_row", required |-> InColumns, workbook |-> FALSE]

InAdapter == [sourceId |-> "us.in.pla.professional_licenses", stream |-> InStream]

=============================================================================
