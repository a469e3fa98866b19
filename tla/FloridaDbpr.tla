----------------------------- MODULE FloridaDbpr -----------------------------
(* packages/adapter-fl-dbpr: three files of the Florida DBPR.  They have no *)
(* header, and statuses and occupations are codes ("" is a blank one).      *)
EXTENDS AdapterCommon

FlColumns ==
    {"boardNumber", "occupationCode", "licenseeName", "doingBusinessAsName", "classCode",
     "addressLine1", "addressLine2", "addressLine3", "city", "state", "zipCode",
     "countyCode", "licenseNumber", "primaryStatusCode", "secondaryStatusCode",
     "originalLicensureDate", "effectiveDate", "expirationDate", "unusedReserved",
     "renewalPeriod", "alternateLicenseNumber", "unusedTrailing"}

FlDateForms == {"padded"}

\* A row may lack the last, unused field ("unpadded").  The alternate number,
\* if it normalizes, is the license number.
FlRow(fields) ==
    IF fields.width \notin {"exact", "unpadded"} THEN Unmapped
    ELSE [number |-> fields.number,
          alternate |-> IF fields.alternate = "plain" THEN "alternate" ELSE fields.number,
          primary |-> fields.primary, secondary |-> fields.secondary,
          occupation |-> fields.occupation,
          expirationDate |-> Parsed(fields.expiry, FlDateForms)]

FlStatus(row, today) ==
    CASE row.primary = "S" -> NotCurrent("suspended")
      [] row.primary = "P" -> Current("probation")
      [] row.primary = "C" /\ row.secondary = "I" -> NotCurrent("inactive")
      [] row.primary = "C" /\ row.secondary # "I" /\ IsPast(row.expirationDate, today) ->
            NotCurrent("expired")
      [] row.primary = "C" /\ row.secondary = "A" /\ ~IsPast(row.expirationDate, today) ->
            Current("active")
      [] OTHER -> Undecided("unknown")

FlCategory(row) == FirstMatch({row.occupation}, <<
    <<{"CJC"}, "asbestos">>, <<{"EC", "ER"}, "electrical">>,
    <<{"CGC", "RG"}, "general_contracting">>, <<{"CBC", "RB"}, "commercial_contracting">>,
    <<{"CRC", "RR"}, "residential_contracting">>, <<{"CCC", "RC"}, "roofing">>,
    <<{"CAC", "RA"}, "hvac">>, <<{"CFC", "RF"}, "plumbing">>,
    <<{"CMC", "RM"}, "mechanical">>, <<{"CVC", "RV"}, "solar">>,
    <<{"CPC", "RP"}, "pool_spa">>, <<{"CUC", "RU"}, "underground_utility">>,
    <<{"CSC", "RS"}, "sheet_metal">>, <<{"SCC", "RX"}, "other">> >>, "unknown")

FlOccupations ==
    {"CJC", "EC", "ER", "CAC", "CBC", "CCC", "CFC", "CGC", "CMC", "CPC", "CRC", "CSC", "CUC",
     "CVC", "RA", "RB", "RC", "RF", "RG", "RM", "RP", "RR", "RS", "RU", "RV", "SCC", "RX"}

FlWarnings(row) == WarningsWhere(
    [unknown_occupation_code |-> row.occupation \notin FlOccupations,
     unknown_primary_status_code |-> row.primary \notin {"", "C", "P", "S"},
     unknown_secondary_status_code |-> row.secondary \notin {"", "A", "I"}])

\* The number that is not the license number is an alternate, and must not be
\* blank either.
FlRecord(row, today) ==
    IF row.alternate # row.number /\ row.number = "blank" THEN Rejected
    ELSE CanonicalRecord(row.alternate, FlStatus(row, today), {FlCategory(row)}, FlWarnings(row),
        [typeCode |-> {"occupationCode", "classCode"}, typeLabel |-> {"occupationCode"},
         classifications |-> {"occupationCode", "classCode"},
         alternateNumbers |-> {"licenseNumber"},
         businessName |-> {"doingBusinessAsName"}, dbaName |-> {"doingBusinessAsName"},
         licenseeName |-> {"licenseeName"}, personnel |-> {"licenseeName"},
         rawStatus |-> {"primaryStatusCode"}, secondaryStatus |-> {"secondaryStatusCode"},
         originalDate |-> {"originalLicensureDate"}, effectiveDate |-> {"effectiveDate"},
         expirationDate |-> {"expirationDate"}, renewalPeriod |-> {"renewalPeriod"},
         line1 |-> {"addressLine1"}, line2 |-> {"addressLine2"}, line3 |-> {"addressLine3"},
         locality |-> {"city", "state", "zipCode", "countyCode"},
         addressRaw |-> {"addressLine1", "addressLine2", "addressLine3", "city", "state",
                         "zipCode", "countyCode"},
         raw |-> FlColumns])

FlStream == [header |-> "none", required |-> {}, workbook |-> FALSE]

FlAdapters ==
    {[sourceId |-> id, stream |-> FlStream] :
        id \in {"us.fl.dbpr.construction", "us.fl.dbpr.electrical_contractors",
                "us.fl.dbpr.asbestos_contractors"}}

=============================================================================
