---------------------------- MODULE MinnesotaDli ----------------------------
(* packages/adapter-mn-dli: the nightly Minnesota license export.          *)
EXTENDS AdapterCommon

MnColumns ==
    {"Bus_Pers", "License_Type", "License_Subtype", "Name", "DBA_Name", "Addr1", "Addr2",
     "City", "St", "Zip", "Phone_No", "Email_Address", "Lic_Number", "Status", "Orig_Date",
     "Exp_Date", "Enforcement_Action", "Renewal_in_Progress"}

MnDateForms == {"slash", "padded", "iso"}

MnEnforcement(text) == IF text = {"0"} THEN {} ELSE text

\* kind is the text of the subtype or, when it is blank, of the type.
MnRow(fields) ==
    IF fields.width = "short" THEN Unmapped
    ELSE [number |-> fields.number, status |-> fields.status, kind |-> fields.kind,
          expirationDate |-> Parsed(fields.expiry, MnDateForms),
          disciplineIndicator |-> MnEnforcement(fields.enforcement)]

FaultyMnStatus(row, today) == FirstMatch(row.status, <<
    <<{"issued", "active"}, IF IsPast(row.expirationDate, today) THEN NotCurrent("expired")
                            ELSE Current("active")>>,
    <<{"suspend"}, NotCurrent("suspended")>>,
    <<{"revok"}, NotCurrent("revoked")>>,
    <<{"expired"}, NotCurrent("expired")>>,
    <<{"pending"}, Undecided("pending")>> >>, Undecided("unknown"))

\* There is no inactive status: an inactive license mentions "active".
MnStatus(row, today) == FirstMatch(row.status, <<
    <<{"suspend"}, NotCurrent("suspended")>>,
    <<{"revok"}, NotCurrent("revoked")>>,
    <<{"expired"}, NotCurrent("expired")>>,
    <<{"issued", "active"}, IF IsPast(row.expirationDate, today) THEN NotCurrent("expired")
                            ELSE Current("active")>>,
    <<{"pending"}, Undecided("pending")>> >>, Undecided("unknown"))

\* "electric" stands for electrical and electrician.
MnCategory(row) == FirstMatch(row.kind, <<
    <<{"residential building contractor"}, "residential_contracting">>,
    <<{"residential remodeler"}, "home_improvement">>,
    <<{"plumb"}, "plumbing">>,
    <<{"electric"}, "electrical">>,
    <<{"contractor registration"}, "other">>,
    <<{"contractor"}, "general_contracting">> >>, "unknown")

\* A status that is not recognized is not warned of.
MnWarnings(row) == WarningsWhere(
    [missing_license_number |-> row.number = "blank",
     unknown_license_type |-> MnCategory(row) = "unknown",
     missing_or_unparsed_expiration_date |-> row.expirationDate = NoDate,
     discipline_indicator_present |-> row.disciplineIndicator \notin {{}, {"no"}}])

MnRecord(row, today) == CanonicalRecord(row.number,
    MnStatus(row, today), {MnCategory(row)}, MnWarnings(row),
    [typeCode |-> {"License_Subtype", "License_Type"},
     typeLabel |-> {"License_Subtype", "License_Type"},
     classifications |-> {"License_Subtype", "License_Type"},
     businessName |-> {"Name"}, dbaName |-> {"DBA_Name"}, licenseeName |-> {"Name"},
     personnel |-> {"Name"}, rawStatus |-> {"Status"}, secondaryStatus |-> {"Enforcement_Action"},
     issueDate |-> {"Orig_Date"}, expirationDate |-> {"Exp_Date"},
     line1 |-> {"Addr1"}, line2 |-> {"Addr2"}, locality |-> {"City", "St", "Zip"},
     addressRaw |-> {"Addr1", "Addr2", "City", "St", "Zip"},
     phone |-> {"Phone_No"}, compliance |-> {"Enforcement_Action"}, raw |-> MnColumns])

\* The file may also be a workbook.
MnStream == [header |-> "first_row", required |-> MnColumns, workbook |-> TRUE]

MnAdapter == [sourceId |-> "us.mn.dli.licenses_registrations", stream |-> MnStream]

=============================================================================
