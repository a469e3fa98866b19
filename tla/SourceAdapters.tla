--------------------------- MODULE SourceAdapters ---------------------------
(* The adapters behind the interface they share, TradeLicenseSourceAdapter. *)
(* The fields of a row are given as the cells the adapters decide from:     *)
(*   width                  short, unpadded, exact or long                  *)
(*   number, alternate      blank, symbols (nothing normalizes) or plain    *)
(*   status, kind, enforcement   texts                                      *)
(*   code, primary, secondary, occupation   codes                           *)
(*   expiry                 a date cell                                     *)
EXTENDS AlaskaCommerce, ArizonaRoc, CaliforniaCslb, FloridaDbpr, IllinoisIdfpr,
        IndianaPla, MinnesotaDli, OregonCcb, TexasTdlr, WashingtonLni

\* The adapters, which are twelve: Florida has one for each of its files.
Adapters ==
    {AkAdapter, AzAdapter, CaAdapter, IlAdapter, InAdapter, MnAdapter, OrAdapter, TxAdapter,
     WaAdapter} \cup FlAdapters

\* The formats of the files an adapter streams.
Formats(stream) ==
    {IF stream.header = "none" THEN "headless" ELSE "csv"}
    \cup (IF stream.workbook THEN {"workbook"} ELSE {})

AdapterName == {"AK", "AZ", "CA", "FL", "IL", "IN", "MN", "OR", "TX", "WA"}

\* mapFields of each adapter.
MappedRow(adapter, fields) ==
    CASE adapter = "AK" -> AkRow(fields) [] adapter = "AZ" -> AzRow(fields)
      [] adapter = "CA" -> CaRow(fields) [] adapter = "FL" -> FlRow(fields)
      [] adapter = "IL" -> IlRow(fields) [] adapter = "IN" -> InRow(fields)
      [] adapter = "MN" -> MnRow(fields) [] adapter = "OR" -> OrRow(fields)
      [] adapter = "TX" -> TxRow(fields) [] adapter = "WA" -> WaRow(fields)

\* normalize of each adapter, on a mapped row.
Normalized(adapter, row, today) ==
    CASE adapter = "AK" -> AkRecord(row, today) [] adapter = "AZ" -> AzRecord(row, today)
      [] adapter = "CA" -> CaRecord(row, today) [] adapter = "FL" -> FlRecord(row, today)
      [] adapter = "IL" -> IlRecord(row, today) [] adapter = "IN" -> InRecord(row, today)
      [] adapter = "MN" -> MnRecord(row, today) [] adapter = "OR" -> OrRecord(row, today)
      [] adapter = "TX" -> TxRecord(row, today) [] adapter = "WA" -> WaRecord(row, today)

\* The canonical record of a row, or Rejected if the row cannot be mapped or
\* its record does not pass the schema.
RecordOf(adapter, fields, today) ==
    LET row == MappedRow(adapter, fields) IN
    IF row = Unmapped THEN Rejected ELSE Normalized(adapter, row, today)

=============================================================================
