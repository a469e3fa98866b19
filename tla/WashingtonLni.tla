---------------------------- MODULE WashingtonLni ----------------------------
(* packages/adapter-wa-lni: Washington contractor licenses.                *)
EXTENDS AdapterCommon

WaColumns ==
    {"BusinessName", "ContractorLicenseNumber", "ContractorLicenseTypeCode",
     "ContractorLicenseTypeCodeDesc", "Address1", "Address2", "City", "State", "Zip",
     "PhoneNumber", "LicenseEffectiveDate", "LicenseExpirationDate", "BusinessTypeCode",
     "BusinessTypeCodeDesc", "SpecialtyCode1", "SpecialtyCode1Desc", "SpecialtyCode2",
     "SpecialtyCode2Desc", "UBI", "PrimaryPrincipalName", "StatusCode",
     "ContractorLicenseStatus", "ContractorLicenseSuspendDate"}

WaDateForms == {"slash", "padded", "iso"}

\* status is the text of the label, kind that of both specialties.
WaRow(fields) ==
    IF fields.width = "short" THEN Unmapped
    ELSE [number |-> fields.number, statusCode |-> fields.code, status |-> fields.status,
          kind |-> fields.kind, expirationDate |-> Parsed(fields.expiry, WaDateForms)]

\* Only the code "S" and the label decide between active and suspended: an
\* inactive label mentions "active".
WaStatus(row, today) ==
    FirstMatch(WithPast(row.status \cup {row.statusCode}, row.expirationDate, today), <<
        <<{"S", "suspend"}, NotCurrent("suspended")>>,
        <<{"past"}, NotCurrent("expired")>>,
        <<{"A", "active"}, Current("active")>> >>, Undecided("unknown"))

WaCategories(row) == OrUnknown(AllMatches(row.kind, <<
    <<{"general"}, "general_contracting">>,
    <<{"roof"}, "roofing">>,
    <<{"heating", "ventilation", "air conditioning", "hvac"}, "hvac">>,
    <<{"electrical"}, "electrical">>,
    <<{"plumb"}, "plumbing">> >>))

WaWarnings(row, today) == WarningsWhere(
    [missing_license_number |-> row.number = "blank",
     unknown_specialty |-> "unknown" \in WaCategories(row),
     unknown_status |-> WaStatus(row, today).normalized = "unknown"])

WaRecord(row, today) == CanonicalRecord(row.number,
    WaStatus(row, today), WaCategories(row), WaWarnings(row, today),
    [typeCode |-> {"ContractorLicenseTypeCode"}, typeLabel |-> {"ContractorLicenseTypeCodeDesc"},
     classifications |-> {"SpecialtyCode1", "SpecialtyCode1Desc", "SpecialtyCode2",
                          "SpecialtyCode2Desc"},
     businessName |-> {"BusinessName"}, licenseeName |-> {"PrimaryPrincipalName"},
     personnel |-> {"PrimaryPrincipalName"},
     rawStatus |-> {"StatusCode", "ContractorLicenseStatus"},
     effectiveDate |-> {"LicenseEffectiveDate"}, expirationDate |-> {"LicenseExpirationDate"},
     line1 |-> {"Address1"}, line2 |-> {"Address2"}, locality |-> {"City", "State", "Zip"},
     addressRaw |-> {"Address1", "Address2", "City", "State", "Zip"},
     phone |-> {"PhoneNumber"}, compliance |-> {"UBI"}, raw |-> WaColumns])

WaStream == [header |-> "first_row", required |-> WaColumns, workbook |-> FALSE]

WaAdapter == [sourceId |-> "us.wa.lni.contractors", stream |-> WaStream]

=============================================================================
