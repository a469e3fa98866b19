------------------------------ MODULE TexasTdlr ------------------------------
(* packages/adapter-tx-tdlr: all licenses of the Texas TDLR.               *)
EXTENDS AdapterCommon

TxColumns ==
    {"LICENSE TYPE", "LICENSE NUMBER", "BUSINESS COUNTY", "BUSINESS NAME",
     "BUSINESS ADDRESS-LINE1", "BUSINESS ADDRESS-LINE2", "BUSINESS CITY, STATE ZIP",
     "BUSINESS TELEPHONE", "LICENSE EXPIRATION DATE (MMDDCCYY)", "OWNER NAME",
     "MAILING ADDRESS LINE1", "MAILING ADDRESS LINE2", "MAILING ADDRESS CITY, STATE ZIP",
     "MAILING ADDRESS COUNTY", "OWNER TELEPHONE", "LICENSE SUBTYPE",
     "CONTINUING EDUCATION FLAG"}

TxDateForms == {"compact", "padded"}

\* kind is the text of the license type.
TxRow(fields) ==
    IF fields.width # "exact" THEN Unmapped
    ELSE [number |-> fields.number, kind |-> fields.kind,
          expirationDate |-> Parsed(fields.expiry, TxDateForms)]

TxStatus(row, today) ==
    IF row.expirationDate = NoDate THEN Undecided("unknown")
    ELSE IF IsPast(row.expirationDate, today) THEN NotCurrent("expired")
    ELSE Current("active")

\* "electric" stands for electrical and electrician.
TxCategory(row) == FirstMatch(row.kind, <<
    <<{"air conditioning", "refrigeration"}, "hvac">>,
    <<{"electric"}, "electrical">>,
    <<{"water well"}, "other">> >>, "unknown")

\* "cosmetology" stands for the five trades outside the scope.
TxRelevance(row) == FirstMatch(row.kind, <<
    <<{"air conditioning", "refrigeration", "electric", "water well"}, "trade_relevant">>,
    <<{"contractor", "technician", "installer"}, "possibly_trade_relevant">>,
    <<{"cosmetology"}, "not_trade_relevant">> >>, "unknown")

TxWarnings(row) == WarningsWhere(
    [missing_license_number |-> row.number = "blank",
     unknown_license_type |-> TxCategory(row) = "unknown",
     non_trade_license_type |-> TxRelevance(row) = "not_trade_relevant",
     missing_or_unparsed_expiration_date |-> row.expirationDate = NoDate])

\* A business and a mailing address.  The raw status is the education flag.
TxRecord(row, today) == CanonicalRecord(row.number,
    TxStatus(row, today), {TxCategory(row)}, TxWarnings(row),
    [typeCode |-> {"LICENSE SUBTYPE"}, typeLabel |-> {"LICENSE TYPE"},
     classifications |-> {"LICENSE SUBTYPE", "LICENSE TYPE"},
     businessName |-> {"BUSINESS NAME"}, licenseeName |-> {"OWNER NAME"},
     personnel |-> {"OWNER NAME"}, rawStatus |-> {"CONTINUING EDUCATION FLAG"},
     expirationDate |-> {"LICENSE EXPIRATION DATE (MMDDCCYY)"},
     line1 |-> {"BUSINESS ADDRESS-LINE1", "MAILING ADDRESS LINE1"},
     line2 |-> {"BUSINESS ADDRESS-LINE2", "MAILING ADDRESS LINE2"},
     line3 |-> {"BUSINESS CITY, STATE ZIP", "MAILING ADDRESS CITY, STATE ZIP"},
     locality |-> {"BUSINESS COUNTY", "MAILING ADDRESS COUNTY"},
     addressRaw |-> {"BUSINESS ADDRESS-LINE1", "BUSINESS ADDRESS-LINE2",
                     "BUSINESS CITY, STATE ZIP", "BUSINESS COUNTY", "MAILING ADDRESS LINE1",
                     "MAILING ADDRESS LINE2", "MAILING ADDRESS CITY, STATE ZIP",
                     "MAILING ADDRESS COUNTY"},
     phone |-> {"BUSINESS TELEPHONE"}, raw |-> TxColumns])

TxStream == [header |-> "first_row", required |-> TxColumns, workbook |-> FALSE]

TxAdapter == [sourceId |-> "us.tx.tdlr.all_licenses", stream |-> TxStream]

=============================================================================
