----------------------------- MODULE MCRegistry -----------------------------
(***************************************************************************)
(* The parts of the registry keep no state in common: each behaviour of    *)
(* this model exercises one of them while the others rest.                 *)
(*                                                                         *)
(* sync: two sessions over a file of two records, whose syncs need not be  *)
(* strict since every row is good.  A longer file, with every kind of row, *)
(* is synced by one session at a time.  MCBound says both.                 *)
(***************************************************************************)
EXTENDS CacheSync, LicenseCache, RowStream, SourceDownload, SourceLookup, TLC

CONSTANTS s1, s2, r1, f1, f2, f3, n1, n2, declared, other, loopback

-----------------------------------------------------------------------------
(* CacheSync.                                                              *)

MCSession == {s1, s2}
MCRun == {r1}
MCFingerprint == {f1, f2, f3}
MCInterval == {2}

Cell(kind, fingerprint) == [kind |-> kind, fingerprint |-> fingerprint]

MCShort == <<Cell("good", f1), Cell("good", f2)>>
MCLong == <<Cell("good", f1), Cell("malformed", f1), Cell("good", f2),
            Cell("invalid", f3), Cell("good", f1)>>

MCContent == {MCShort, MCLong}

MCSymmetry == Permutations(MCSession)

MCBound ==
    /\ \A s \in Session : Active(s) /\ sync[s].content = MCShort => ~sync[s].strict
    /\ (\E image \in Images \ {Nothing} :
            image.runs[r1] # Nothing /\ image.runs[r1].content = MCLong)
       => \E s \in Session : database[s] = Nothing

-----------------------------------------------------------------------------
(* LicenseCache: rows of each adapter with every status and date, and with  *)
(* every kind and number.  A row may be renewed.                            *)

MCFields(number, status, kind, primary, secondary, code, expiry) ==
    [width |-> "exact", number |-> number, alternate |-> "blank", status |-> status,
     kind |-> kind, enforcement |-> {}, primary |-> primary, secondary |-> secondary,
     code |-> code, occupation |-> IF kind = {"other"} THEN "ZZ" ELSE "CGC", expiry |-> expiry]

MCOn(day) == [form |-> "padded", day |-> day]

MCExpiry == {Blank, MCOn(0), [form |-> "other", day |-> 0]}

MCStatus == {{}, {"other"}, {"active"}, {"inactive", "active"}, {"expired"}, {"suspend", "active"},
             {"revok"}, {"probation"}, {"probation", "expired"}, {"pending"}, {"clear"}, {"issued"}}

MCKind == {{}, {"other"}, {"roof"}, {"electric", "electrical"}, {"contractor"}, {"cosmetology"}}

\* Washington: the code of a status agrees with its label.
MCCode(a, label) ==
    IF a = "WA" /\ "suspend" \in label THEN "S"
    ELSE IF a = "WA" /\ label = {"active"} THEN "A" ELSE ""

\* Oregon and Texas publish no status, Florida codes.
MCSourceRow(a) ==
    IF a = "FL"
    THEN {MCFields("plain", {}, {"roof"}, p, s, "", expiry) :
            p \in {"", "C", "P", "S", "Z"}, s \in {"", "A", "I", "Z"}, expiry \in MCExpiry}
    ELSE {MCFields("plain", label, {"roof"}, "", "", MCCode(a, label), expiry) :
            label \in IF a \in {"OR", "TX"} THEN {{}} ELSE MCStatus, expiry \in MCExpiry}
         \cup {MCFields(number, {}, kind, "", "", "", MCOn(0)) :
                number \in {"blank", "symbols", "plain"}, kind \in MCKind}

MCRevised(a, r) == {[r EXCEPT !.expiry = MCOn(1)]}

MCRetention == {NoDate, 0}
MCRedaction == {{"removePhone", "removeEmail", "removeAddressLines"}, {"removePhone"}}

-----------------------------------------------------------------------------
(* RowStream: every file of three lines, with and without a header before.  *)

MCLine(f) ==
    {"blank", "short", "row"} \cup (IF f = "workbook" THEN {} ELSE {"broken"})
                              \cup (IF f = "headless" THEN {} ELSE {"header"})

MCText(f) == {<<>>} \cup UNION {{lines, <<"header">> \o lines} : lines \in [1..3 -> MCLine(f)]}

-----------------------------------------------------------------------------
(* SourceDownload and SourceLookup.                                        *)

MCHost == {declared, other, loopback}
MCDeclared == {declared}

MCNumber == {n1, n2}

MCSourceFile ==
    LET line == [parse : {"good"}, number : MCNumber, alternates : {{}, {n2}}]
                \cup [parse : {"short", "invalid"}, number : {n1}, alternates : {{}}]
    IN {<<>>} \cup [1..1 -> line] \cup [1..2 -> line]

-----------------------------------------------------------------------------

VARIABLE part

LicenseRests == adapter = "OR" /\ row = Unmapped /\ today = 0 /\ cached = {}

StreamRests ==
    /\ format = "csv" /\ text = <<>> /\ strict = FALSE /\ limited = FALSE
    /\ read = NewRead(0) /\ taken = <<>> /\ reported = <<>>

LookupRests ==
    published = <<>> /\ records = {} /\ current = {} /\ allowed = FALSE /\ fresh = {}

Init ==
    /\ part \in {"sync", "license", "stream", "download", "lookup"}
    /\ SyncInit /\ DownloadInit
    /\ IF part = "license" THEN LicenseInit ELSE LicenseRests
    /\ IF part = "stream" THEN StreamInit ELSE StreamRests
    /\ IF part = "lookup" THEN LookupInit ELSE LookupRests

Next ==
    /\ UNCHANGED part
    /\ \/ /\ part = "sync" /\ SyncNext
          /\ UNCHANGED <<licenseVars, streamVars, downloadVars, lookupVars>>
       \/ /\ part = "license" /\ LicenseNext
          /\ UNCHANGED <<syncVars, streamVars, downloadVars, lookupVars>>
       \/ /\ part = "stream" /\ StreamNext
          /\ UNCHANGED <<syncVars, licenseVars, downloadVars, lookupVars>>
       \/ /\ part = "download" /\ DownloadNext
          /\ UNCHANGED <<syncVars, licenseVars, streamVars, lookupVars>>
       \/ /\ part = "lookup" /\ LookupNext
          /\ UNCHANGED <<syncVars, licenseVars, streamVars, downloadVars>>

\* The state of each part has its types, and a download its limits.
TypeOK == SyncTypeOK /\ LicenseTypeOK /\ StreamTypeOK /\ DownloadTypeOK /\ LookupTypeOK

Spec == Init /\ [][Next]_<<part, syncVars, licenseVars, streamVars, downloadVars, lookupVars>>

=============================================================================
