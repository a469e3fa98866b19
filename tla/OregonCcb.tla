------------------------------ MODULE OregonCcb ------------------------------
(* packages/adapter-or-ccb: active licenses of the Oregon CCB.             *)
EXTENDS AdapterCommon

OrColumns ==
    {"license_number", "license_type", "related_key", "related_type", "county_code",
     "county_name", "lic_exp_date", "orig_regis_date", "bond_company", "bond_amount",
     "bond_exp_date", "ins_company", "ins_amount", "ins_exp_date", "full_name", "address",
     "city", "state", "zip_code", "phone_number", "fax_number", "rmi_name", "exempt_text",
     "endorsement_text"}

OrDateForms == {"slash", "padded", "iso"}

\* kind is the text of license type and endorsement.
OrRow(fields) ==
    IF fields.width = "short" THEN Unmapped
    ELSE [number |-> fields.number, kind |-> fields.kind,
          expirationDate |-> Parsed(fields.expiry, OrDateForms)]

\* The source lists active licenses only, and has no status.
OrStatus(row, today) ==
    IF row.expirationDate = NoDate THEN Undecided("unknown")
    ELSE IF IsPast(row.expirationDate, today) THEN NotCurrent("expired")
    ELSE Current("active")

OrCategories(row) == OrUnknown(AllMatches(row.kind, <<
    <<{"residential"}, "residential_contracting">>,
    <<{"commercial"}, "commercial_contracting">>,
    <<{"general"}, "general_contracting">>,
    <<{"home improvement"}, "home_improvement">> >>))

OrWarnings(row) == WarningsWhere(
    [missing_license_number |-> row.number = "blank",
     unknown_license_type |-> "unknown" \in OrCategories(row),
     missing_or_unparsed_expiration_date |-> row.expirationDate = NoDate])

\* The raw status is a constant of the adapter, not a column.
OrRecord(row, today) == CanonicalRecord(row.number,
    OrStatus(row, today), OrCategories(row), OrWarnings(row),
    [typeLabel |-> {"license_type"}, classifications |-> {"license_type", "endorsement_text"},
     businessName |-> {"full_name"}, licenseeName |-> {"rmi_name"}, personnel |-> {"rmi_name"},
     originalDate |-> {"orig_regis_date"}, expirationDate |-> {"lic_exp_date"},
     line1 |-> {"address"}, locality |-> {"city", "state", "zip_code", "county_name"},
     addressRaw |-> {"address", "city", "state", "zip_code", "county_name"},
     phone |-> {"phone_number"},
     compliance |-> {"bond_company", "bond_amount", "bond_exp_date",
                     "ins_company", "ins_amount", "ins_exp_date"},
     raw |-> OrColumns])

OrStream == [header |-> "first_row", required |-> OrColumns, workbook |-> FALSE]

OrAdapter == [sourceId |-> "us.or.ccb.active_licenses", stream |-> OrStream]

=============================================================================
