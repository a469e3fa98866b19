----------------------------- MODULE RegistryProofs -----------------------------
(***************************************************************************)
(* Proofs about the download of a source file, the reading of its rows,     *)
(* the lookups over it and the cached license, for any servers, limits,    *)
(* files, rows, retention dates and settings; and about the registry that  *)
(* is made of them and of the syncs of CacheSyncProofs.                    *)
(***************************************************************************)
EXTENDS MCRegistry, CacheSyncProofs, FiniteSetTheorems, WellFoundedInduction, TLAPS

-----------------------------------------------------------------------------
(* The download.                                                           *)

Caller == {"registry", "cli"}

RemoteCall ==
    [pc : {"requesting", "receiving", "inspecting", "extracting", "consuming", "exporting",
           "exported", "failed", "closed", "rejected"},
     caller : Caller, requested : Url, url : Url, hosts : SUBSET Host,
     redirects : Nat, zip : BOOLEAN, bytes : Nat]

LocalCall ==
    [pc : {"consuming", "exporting", "exported", "failed", "closed", "rejected"},
     caller : {"cli"}, zip : {FALSE}]

\* The directories while a call is at pc, if it has those in base until cleanup().
DirectoriesAt(pc, base) ==
    CASE pc \in {"requesting", "receiving", "inspecting"} -> {"download"}
      [] pc = "extracting" -> {"download", "extracted"}
      [] pc \in {"consuming", "exported", "failed"} -> base
      [] pc = "exporting" -> base \cup {"export"}
      [] OTHER -> {}

OutputAt(pc) ==
    CASE pc = "exported" -> {"records"}
      [] pc = "closed" -> {"previous", "records"}
      [] OTHER -> {"previous"}

\* A call that downloads: every URL it has contacted passed the test for the
\* hosts it may contact.
Downloading ==
    /\ download \in RemoteCall
    /\ download.hosts = AllowedHosts(download.caller, download.requested)
    /\ contacted \subseteq Url /\ \A url \in contacted : ValidUrl(url, download.hosts)
    /\ download.pc # "rejected" => contacted # {}
    /\ download.redirects <= MaxRedirects /\ download.bytes <= MaxBytes
    /\ download.pc \in {"inspecting", "extracting"} => download.zip /\ download.caller = "cli"
    /\ directories = DirectoriesAt(download.pc,
            IF download.zip /\ download.caller = "cli" THEN {"download", "extracted"}
            ELSE {"download"})
    /\ output \in OutputAt(download.pc)

\* A call that reads a file of the user's.
ReadingLocally ==
    /\ download \in LocalCall /\ contacted = {}
    /\ directories = DirectoriesAt(download.pc, {})
    /\ output \in OutputAt(download.pc)

\* No call yet, or one that could not resolve its source.
NotDownloading ==
    /\ download \in [pc : {"idle", "rejected"}]
    /\ contacted \subseteq Url /\ \A url \in contacted : ValidUrl(url, Declared)
    /\ directories = {} /\ output = "previous"

\* The inductive invariant of the download.
CallInv == Downloading \/ ReadingLocally \/ NotDownloading

LEMMA DownloadNumbers == MaxRedirects \in Nat /\ MaxBytes \in Nat /\ Loopback \in Host \ Declared
BY HostAssumption, LimitsAssumption

LEMMA HostsAreKnown ==
    ASSUME NEW caller \in Caller, NEW requested \in Url
    PROVE  AllowedHosts(caller, requested) \in SUBSET Host
BY HostAssumption DEF AllowedHosts

LEMMA StartIsGood ==
    ASSUME NEW caller \in Caller, NEW requested \in Url, NEW discovered \in SUBSET Url,
           \A url \in discovered : ValidUrl(url, AllowedHosts(caller, requested)),
           StartDownload(caller, requested, discovered)
    PROVE  CallInv'
<1> DEFINE hosts == AllowedHosts(caller, requested)
           valid == ValidUrl(requested, hosts)
           pc == IF valid THEN "requesting" ELSE "rejected"
           call == [pc |-> pc, caller |-> caller, requested |-> requested, url |-> requested,
                    hosts |-> hosts, redirects |-> 0, zip |-> FALSE, bytes |-> 0]
<1>1. /\ download' = call
      /\ directories' = IF valid THEN {"download"} ELSE {}
      /\ contacted' = IF valid THEN discovered \cup {requested} ELSE discovered
      /\ output' = "previous"
  BY DEF StartDownload
<1>2. hosts \in SUBSET Host /\ MaxRedirects \in Nat /\ MaxBytes \in Nat
  BY HostsAreKnown, DownloadNumbers
<1>3. pc \in {"requesting", "rejected"} /\ (valid <=> pc = "requesting")
  OBVIOUS
<1>4. call \in RemoteCall
  <2> HIDE DEF hosts, pc
  <2>1. QED
    BY <1>2, <1>3 DEF RemoteCall
<1>5. /\ contacted' \subseteq Url /\ \A url \in contacted' : ValidUrl(url, hosts)
      /\ pc # "rejected" => contacted' # {}
  BY <1>1
<1>6. /\ directories' = DirectoriesAt(pc, {"download"})
      /\ output' \in OutputAt(pc)
  <2> HIDE DEF pc, valid
  <2>1. QED
    BY <1>1, <1>3 DEF DirectoriesAt, OutputAt
<1>7. /\ call.pc = pc /\ call.hosts = hosts /\ call.caller = caller
      /\ call.requested = requested /\ call.redirects = 0 /\ call.bytes = 0
      /\ call.zip = FALSE
  <2> HIDE DEF pc, hosts, valid
  <2>1. QED
    OBVIOUS
<1> HIDE DEF call, pc, hosts, valid
<1>8. /\ download' \in RemoteCall /\ download'.pc = pc /\ download'.caller = caller
      /\ download'.requested = requested /\ download'.hosts = hosts
      /\ download'.redirects <= MaxRedirects /\ download'.bytes <= MaxBytes
      /\ download'.zip = FALSE
  BY <1>1, <1>2, <1>4, <1>7
<1>9. hosts = AllowedHosts(caller, requested)
  BY DEF hosts
<1>10. Downloading'
  BY <1>3, <1>5, <1>6, <1>8, <1>9 DEF Downloading
<1>11. QED
  BY <1>10 DEF CallInv

LEMMA ResolutionIsGood ==
    ASSUME NEW caller \in Caller, NEW host \in Declared, NEW resolver \in Resolver,
           ResolveDownload(caller, host, resolver) \/ ResolutionFails(caller, host, resolver)
    PROVE  CallInv'
<1> DEFINE url == OfficialUrl(host)
<1>1. /\ url \in Url /\ url.host = host /\ url.scheme = "https" /\ ~url.credentials
      /\ host # Loopback
  BY HostAssumption DEF OfficialUrl, Url
<1>2. ValidUrl(url, Declared) /\ AllowedHosts(caller, url) = Declared
  BY <1>1 DEF ValidUrl, AllowedHosts
<1> HIDE DEF url
<1>3. CASE ResolveDownload(caller, host, resolver)
  <2> DEFINE discovered == IF resolver = "page" THEN {url} ELSE {}
  <2>1. StartDownload(caller, url, discovered)
    BY <1>3 DEF ResolveDownload, url
  <2>2. discovered \in SUBSET Url /\ \A u \in discovered : ValidUrl(u, AllowedHosts(caller, url))
    BY <1>1, <1>2
  <2> HIDE DEF discovered
  <2>3. QED
    BY <1>1, <2>1, <2>2, StartIsGood
<1>4. CASE ResolutionFails(caller, host, resolver)
  <2>1. /\ download' = [pc |-> "rejected"] /\ directories' = {} /\ output' = "previous"
        /\ contacted' = IF resolver = "page" THEN {url} ELSE {}
    BY <1>4 DEF ResolutionFails, url
  <2>2. NotDownloading'
    BY <1>1, <1>2, <2>1 DEF NotDownloading
  <2>3. QED
    BY <2>2 DEF CallInv
<1>5. QED
  BY <1>3, <1>4

LEMMA LocalFileIsGood == ASSUME ReadLocalFile PROVE CallInv'
<1> DEFINE call == [pc |-> "consuming", caller |-> "cli", zip |-> FALSE]
<1>1. download' = call /\ directories' = {} /\ contacted' = {} /\ output' = "previous"
  BY DEF ReadLocalFile
<1>2. call \in LocalCall /\ call.pc = "consuming"
  BY DEF LocalCall
<1> HIDE DEF call
<1>3. ReadingLocally'
  BY <1>1, <1>2 DEF ReadingLocally, DirectoriesAt, OutputAt
<1>4. QED
  BY <1>3 DEF CallInv

\* A call that moves on to another pc, and nothing else about it.
LEMMA DownloadMoves ==
    ASSUME Downloading, NEW pc,
           pc \in {"requesting", "receiving", "inspecting", "extracting", "consuming",
                   "exporting", "exported", "failed", "closed", "rejected"},
           download' = [download EXCEPT !.pc = pc], contacted' = contacted,
           download.pc # "rejected" \/ pc = "rejected",
           pc \in {"inspecting", "extracting"} => download.zip /\ download.caller = "cli",
           directories' = DirectoriesAt(pc,
                IF download.zip /\ download.caller = "cli" THEN {"download", "extracted"}
                ELSE {"download"}),
           output' \in OutputAt(pc)
    PROVE  CallInv'
<1>1. /\ download' \in RemoteCall /\ download'.pc = pc /\ download'.caller = download.caller
      /\ download'.requested = download.requested /\ download'.hosts = download.hosts
      /\ download'.redirects = download.redirects /\ download'.bytes = download.bytes
      /\ download'.zip = download.zip
  BY DEF Downloading, RemoteCall
<1>2. Downloading'
  BY <1>1 DEF Downloading
<1>3. QED
  BY <1>2 DEF CallInv

LEMMA LocalMoves ==
    ASSUME ReadingLocally, NEW pc,
           pc \in {"consuming", "exporting", "exported", "failed", "closed", "rejected"},
           download' = [download EXCEPT !.pc = pc], contacted' = contacted,
           directories' = DirectoriesAt(pc, {}), output' \in OutputAt(pc)
    PROVE  CallInv'
<1>1. download' \in LocalCall /\ download'.pc = pc
  BY DEF ReadingLocally, LocalCall
<1>2. ReadingLocally'
  BY <1>1 DEF ReadingLocally
<1>3. QED
  BY <1>2 DEF CallInv

\* Only a call that downloads is at one of these.
LEMMA AtNetwork ==
    ASSUME CallInv,
           download.pc \in {"requesting", "receiving", "inspecting", "extracting"}
    PROVE  Downloading
<1>1. ~ReadingLocally
  BY DEF ReadingLocally, LocalCall
<1>2. ~NotDownloading
  BY DEF NotDownloading
<1>3. QED
  BY <1>1, <1>2 DEF CallInv

LEMMA WithFile ==
    ASSUME CallInv, download.pc \in {"consuming", "exporting", "exported", "failed"}
    PROVE  Downloading \/ ReadingLocally
BY DEF CallInv, NotDownloading

LEMMA RejectIsGood ==
    ASSUME CallInv, download.pc \in {"requesting", "receiving", "inspecting", "extracting"},
           NEW kept, Reject(kept), kept = {}
    PROVE  CallInv'
<1>1. Downloading
  BY AtNetwork
<1>2. output = "previous"
  BY <1>1 DEF Downloading, OutputAt
<1>3. /\ download' = [download EXCEPT !.pc = "rejected"] /\ contacted' = contacted
      /\ directories' = {} /\ output' = output
  BY DEF Reject
<1>4. QED
  BY <1>1, <1>2, <1>3, DownloadMoves DEF DirectoriesAt, OutputAt

LEMMA FollowIsGood ==
    ASSUME CallInv, NEW url \in Url, FollowRedirect(url)
    PROVE  CallInv'
<1>1. download.pc = "requesting" /\ download.redirects < MaxRedirects
  BY DEF FollowRedirect, InStep
<1>2. Downloading /\ download \in RemoteCall
  BY <1>1, AtNetwork DEF Downloading
<1>3. CASE ValidUrl(url, download.hosts)
  <2> DEFINE redirects == download.redirects + 1
  <2>1. /\ download' = [download EXCEPT !.url = url, !.redirects = redirects]
        /\ contacted' = contacted \cup {url} /\ UNCHANGED <<directories, output>>
    BY <1>3 DEF FollowRedirect
  <2>2. redirects \in Nat /\ redirects <= MaxRedirects
    BY <1>1, <1>2, DownloadNumbers DEF RemoteCall
  <2> HIDE DEF redirects
  <2>3. /\ download' \in RemoteCall /\ download'.pc = download.pc
        /\ download'.caller = download.caller /\ download'.requested = download.requested
        /\ download'.hosts = download.hosts /\ download'.redirects = redirects
        /\ download'.bytes = download.bytes /\ download'.zip = download.zip
    BY <1>2, <2>1, <2>2 DEF RemoteCall
  <2>4. Downloading'
    BY <1>2, <1>3, <2>1, <2>2, <2>3 DEF Downloading
  <2>5. QED
    BY <2>4 DEF CallInv
<1>4. CASE Reject({})
  BY <1>1, <1>4, RejectIsGood
<1>5. QED
  BY <1>3, <1>4 DEF FollowRedirect

LEMMA AcceptIsGood ==
    ASSUME CallInv, NEW zip \in BOOLEAN, AcceptAnswer(zip)
    PROVE  CallInv'
<1>1. /\ download.pc = "requesting" /\ download' = [download EXCEPT !.pc = "receiving", !.zip = zip]
      /\ UNCHANGED <<directories, contacted, output>>
  BY DEF AcceptAnswer, InStep
<1>2. Downloading /\ download \in RemoteCall
  BY <1>1, AtNetwork DEF Downloading
<1>3. /\ download' \in RemoteCall /\ download'.pc = "receiving"
      /\ download'.caller = download.caller /\ download'.requested = download.requested
      /\ download'.hosts = download.hosts /\ download'.redirects = download.redirects
      /\ download'.bytes = download.bytes
  BY <1>1, <1>2 DEF RemoteCall
<1>4. directories = {"download"} /\ output = "previous"
  BY <1>1, <1>2 DEF Downloading, DirectoriesAt, OutputAt
<1>5. Downloading'
  BY <1>1, <1>2, <1>3, <1>4 DEF Downloading, DirectoriesAt, OutputAt
<1>6. QED
  BY <1>5 DEF CallInv

LEMMA ChunkIsGood == ASSUME CallInv, ReceiveChunk PROVE CallInv'
<1>1. download.pc = "receiving"
  BY DEF ReceiveChunk, InStep
<1>2. Downloading /\ download \in RemoteCall
  BY <1>1, AtNetwork DEF Downloading
<1>3. CASE Reject({})
  BY <1>1, <1>3, RejectIsGood
<1>4. CASE ~Reject({})
  <2> DEFINE bytes == download.bytes + 1
  <2>1. /\ ~(bytes > MaxBytes) /\ download' = [download EXCEPT !.bytes = bytes]
        /\ UNCHANGED <<directories, contacted, output>>
    BY <1>4 DEF ReceiveChunk
  <2>2. bytes \in Nat /\ bytes <= MaxBytes
    BY <1>2, <2>1, DownloadNumbers DEF RemoteCall
  <2> HIDE DEF bytes
  <2>3. /\ download' \in RemoteCall /\ download'.pc = download.pc
        /\ download'.caller = download.caller /\ download'.requested = download.requested
        /\ download'.hosts = download.hosts /\ download'.redirects = download.redirects
        /\ download'.bytes = bytes /\ download'.zip = download.zip
    BY <1>2, <2>1, <2>2 DEF RemoteCall
  <2>4. Downloading'
    BY <1>2, <2>1, <2>2, <2>3 DEF Downloading
  <2>5. QED
    BY <2>4 DEF CallInv
<1>5. QED
  BY <1>3, <1>4

LEMMA BodyIsGood == ASSUME CallInv, EndOfBody PROVE CallInv'
<1> DEFINE opens == download.zip /\ download.caller = "cli"
           pc == IF opens THEN "inspecting" ELSE "consuming"
<1>1. /\ download.pc = "receiving" /\ download' = [download EXCEPT !.pc = pc]
      /\ UNCHANGED <<directories, contacted, output>>
  BY DEF EndOfBody, InStep
<1>2. Downloading
  BY <1>1, AtNetwork
<1>3. directories = {"download"} /\ output = "previous"
  BY <1>1, <1>2 DEF Downloading, DirectoriesAt, OutputAt
<1>4. CASE opens
  <2>1. download' = [download EXCEPT !.pc = "inspecting"]
    BY <1>1, <1>4
  <2>2. QED
    BY <1>1, <1>2, <1>3, <1>4, <2>1, DownloadMoves DEF DirectoriesAt, OutputAt
<1>5. CASE ~opens
  <2>1. download' = [download EXCEPT !.pc = "consuming"]
    BY <1>1, <1>5
  <2>2. QED
    BY <1>1, <1>2, <1>3, <1>5, <2>1, DownloadMoves DEF DirectoriesAt, OutputAt
<1>6. QED
  BY <1>4, <1>5

LEMMA ArchiveIsGood == ASSUME CallInv, InspectArchive \/ ExtractEntry \/ ArchiveFails PROVE CallInv'
<1>1. download.pc \in {"inspecting", "extracting"}
  BY DEF InspectArchive, ExtractEntry, ArchiveFails, InStep
<1>2. /\ Downloading /\ download.zip /\ download.caller = "cli" /\ output = "previous"
      /\ directories = (IF download.pc = "inspecting" THEN {"download"}
                        ELSE {"download", "extracted"})
  BY <1>1, AtNetwork DEF Downloading, DirectoriesAt, OutputAt
<1>3. CASE InspectArchive
  <2>1. /\ download.pc = "inspecting" /\ download' = [download EXCEPT !.pc = "extracting"]
        /\ directories' = {"download", "extracted"} /\ UNCHANGED <<contacted, output>>
    BY <1>2, <1>3 DEF InspectArchive, InStep
  <2>2. QED
    BY <1>2, <2>1, DownloadMoves DEF DirectoriesAt, OutputAt
<1>4. CASE ExtractEntry
  <2>1. /\ download.pc = "extracting" /\ download' = [download EXCEPT !.pc = "consuming"]
        /\ UNCHANGED <<directories, contacted, output>>
    BY <1>4 DEF ExtractEntry, InStep
  <2>2. QED
    BY <1>2, <2>1, DownloadMoves DEF DirectoriesAt, OutputAt
<1>5. CASE ArchiveFails
  <2>1. Reject({})
    BY <1>1, <1>2, <1>5 DEF ArchiveFails
  <2>2. QED
    BY <1>1, <2>1, RejectIsGood
<1>6. QED
  BY <1>3, <1>4, <1>5

\* What the caller does with the file, which is there if it was downloaded.
LEMMA UseIsGood ==
    ASSUME CallInv,
           WriteExport \/ RenameExport \/ ExportFails \/ ConsumptionFails \/ CloseDownload
    PROVE  CallInv'
<1> DEFINE base == IF download.zip /\ download.caller = "cli" THEN {"download", "extracted"}
                   ELSE {"download"}
<1>1. download.pc \in {"consuming", "exporting", "exported", "failed"}
  BY DEF WriteExport, RenameExport, ExportFails, ConsumptionFails, CloseDownload, InStep
<1>2. ASSUME NEW kept \in {base, {}}, directories = DirectoriesAt(download.pc, kept),
             output \in OutputAt(download.pc)
      PROVE  \E next \in {"exporting", "exported", "failed", "closed", "rejected"} :
                /\ download' = [download EXCEPT !.pc = next] /\ contacted' = contacted
                /\ directories' = DirectoriesAt(next, kept)
                /\ output' \in OutputAt(next)
  <2>1. kept \subseteq {"download", "extracted"}
    BY <1>2
  <2> HIDE DEF base
  <2>2. CASE WriteExport
    <3>1. /\ download' = [download EXCEPT !.pc = "exporting"]
          /\ directories' = kept \cup {"export"} /\ contacted' = contacted
          /\ output' = "previous"
      BY <1>2, <2>2 DEF WriteExport, InStep, DirectoriesAt, OutputAt
    <3>2. QED
      BY <3>1 DEF DirectoriesAt, OutputAt
  <2>3. CASE RenameExport
    <3>1. /\ download' = [download EXCEPT !.pc = "exported"]
          /\ directories' = kept /\ contacted' = contacted /\ output' = "records"
      BY <1>2, <2>1, <2>3 DEF RenameExport, InStep, DirectoriesAt, OutputAt
    <3>2. QED
      BY <3>1 DEF DirectoriesAt, OutputAt
  <2>4. CASE ExportFails \/ ConsumptionFails
    <3>1. /\ download' = [download EXCEPT !.pc = "failed"]
          /\ directories' = kept /\ contacted' = contacted /\ output' = "previous"
      BY <1>2, <2>1, <2>4 DEF ExportFails, ConsumptionFails, InStep, DirectoriesAt, OutputAt
    <3>2. QED
      BY <3>1 DEF DirectoriesAt, OutputAt
  <2>5. CASE CloseDownload
    <3>1. directories' = {} /\ contacted' = contacted /\ output' = output
      BY <1>2, <2>1, <2>5 DEF CloseDownload, DirectoriesAt
    <3>2. CASE download.pc = "failed"
      BY <1>2, <2>5, <3>1, <3>2 DEF CloseDownload, InStep, DirectoriesAt, OutputAt
    <3>3. CASE download.pc # "failed"
      BY <1>2, <2>5, <3>1, <3>3 DEF CloseDownload, InStep, DirectoriesAt, OutputAt
    <3>4. QED
      BY <3>2, <3>3
  <2>6. QED
    BY <2>2, <2>3, <2>4, <2>5
<1>3. CASE Downloading
  <2>1. directories = DirectoriesAt(download.pc, base) /\ output \in OutputAt(download.pc)
    BY <1>3 DEF Downloading
  <2>2. PICK next \in {"exporting", "exported", "failed", "closed", "rejected"} :
            /\ download' = [download EXCEPT !.pc = next] /\ contacted' = contacted
            /\ directories' = DirectoriesAt(next, base)
            /\ output' \in OutputAt(next)
    BY <1>2, <2>1
  <2>3. QED
    BY <1>1, <1>3, <2>2, DownloadMoves
<1>4. CASE ReadingLocally
  <2>1. directories = DirectoriesAt(download.pc, {}) /\ output \in OutputAt(download.pc)
    BY <1>4 DEF ReadingLocally
  <2>2. PICK next \in {"exporting", "exported", "failed", "closed", "rejected"} :
            /\ download' = [download EXCEPT !.pc = next] /\ contacted' = contacted
            /\ directories' = DirectoriesAt(next, {})
            /\ output' \in OutputAt(next)
    BY <1>2, <2>1
  <2>3. QED
    BY <1>4, <2>2, LocalMoves
<1>5. QED
  BY <1>1, <1>3, <1>4, WithFile

LEMMA CallInvNext == CallInv /\ [DownloadNext]_downloadVars => CallInv'
<1> SUFFICES ASSUME CallInv, [DownloadNext]_downloadVars PROVE CallInv'
  OBVIOUS
<1>1. ASSUME NEW caller \in Caller, NEW url \in Url, StartDownload(caller, url, {})
      PROVE  CallInv'
  BY <1>1, StartIsGood
<1>2. ASSUME NEW caller \in Caller, NEW host \in Declared, NEW resolver \in Resolver,
             ResolveDownload(caller, host, resolver) \/ ResolutionFails(caller, host, resolver)
      PROVE  CallInv'
  BY <1>2, ResolutionIsGood
<1>3. CASE DownloadFails
  BY <1>3, RejectIsGood DEF DownloadFails
<1>4. CASE UNCHANGED downloadVars
  BY <1>4 DEF downloadVars, CallInv, Downloading, ReadingLocally, NotDownloading
<1>5. QED
  BY <1>1, <1>2, <1>3, <1>4, FollowIsGood, AcceptIsGood, ChunkIsGood, BodyIsGood,
     ArchiveIsGood, UseIsGood, LocalFileIsGood DEF DownloadNext, Caller

\* Whatever the servers answer and wherever a call ends, the invariant holds.
THEOREM CallIsInductive == DownloadSpec => []CallInv
<1>1. DownloadInit => CallInv
  BY DEF DownloadInit, CallInv, NotDownloading, NoDownload
<1>2. QED
  BY <1>1, CallInvNext, PTL DEF DownloadSpec

\* The state of a download has its types, and stays within its limits.
THEOREM DownloadTypes == DownloadSpec => []DownloadTypeOK
<1>1. CallInv => DownloadTypeOK
  <2>1. Downloading => DownloadTypeOK
    BY DEF Downloading, RemoteCall, DownloadTypeOK, DirectoriesAt, OutputAt
  <2>2. ReadingLocally => DownloadTypeOK
    BY DEF ReadingLocally, LocalCall, DownloadTypeOK, DirectoriesAt, OutputAt
  <2>3. NotDownloading => DownloadTypeOK
    BY DEF NotDownloading, DownloadTypeOK
  <2>4. QED
    BY <2>1, <2>2, <2>3 DEF CallInv
<1>2. QED
  BY <1>1, CallIsInductive, PTL

\* Nothing is fetched from a host that is neither declared nor the loopback
\* host the caller asked for, nor without https from elsewhere than there.
THEOREM DownloadsStayOnDeclaredHosts == DownloadSpec => []OnlyDeclaredHosts
<1>1. CallInv => OnlyDeclaredHosts
  <2>1. Downloading => OnlyDeclaredHosts
    BY DEF Downloading, OnlyDeclaredHosts, AllowedHosts, ValidUrl
  <2>2. ReadingLocally => OnlyDeclaredHosts
    BY DEF ReadingLocally, OnlyDeclaredHosts
  <2>3. NotDownloading => OnlyDeclaredHosts
    BY DEF NotDownloading, OnlyDeclaredHosts, ValidUrl
  <2>4. QED
    BY <2>1, <2>2, <2>3 DEF CallInv
<1>2. QED
  BY <1>1, CallIsInductive, PTL

\* The file is there while it is read; a call that has ended leaves no directory
\* and no partial export, and one that throws the output file as it was.
THEOREM DownloadsCleanUp == DownloadSpec => []NothingIsLeftBehind
<1>1. CallInv => NothingIsLeftBehind
  <2>1. Downloading => NothingIsLeftBehind
    BY DEF Downloading, NothingIsLeftBehind, InStep, DirectoriesAt, OutputAt
  <2>2. ReadingLocally => NothingIsLeftBehind
    BY DEF ReadingLocally, NothingIsLeftBehind, InStep, DirectoriesAt, OutputAt
  <2>3. NotDownloading => NothingIsLeftBehind
    BY DEF NotDownloading, NothingIsLeftBehind, InStep
  <2>4. QED
    BY <2>1, <2>2, <2>3 DEF CallInv
<1>2. QED
  BY <1>1, CallIsInductive, PTL

-----------------------------------------------------------------------------
(* The lookups.                                                            *)

GoodRows == {published[i] : i \in Rows("good")}

\* What is promoted has one row of each number; rows that are fresh are those of
\* the file.
LookupInv ==
    /\ LookupTypeOK
    /\ IsFiniteSet(records)
    /\ "cache" \in fresh => GoodRows \subseteq records
    /\ \A a, b \in current : a.number = b.number => a = b
    /\ "current" \in fresh =>
        /\ Rows("good") = DOMAIN published
        /\ current \subseteq GoodRows
        /\ \A i \in DOMAIN published : \E r \in current : r.number = published[i].number

LEMMA LeastIndex ==
    ASSUME NEW S, S \subseteq Nat, S # {}
    PROVE  \E x \in S : \A y \in S : x <= y
<1>1. PICK R : R = OpToRel(<, Nat)
  OBVIOUS
<1>2. IsWellFoundedOn(R, Nat)
  BY <1>1, NatLessThanWellFounded
<1>3. R = {pair \in Nat \X Nat : pair[1] < pair[2]}
  BY <1>1 DEF OpToRel
<1>4. PICK x \in S : \A y \in S : ~ (<<y, x>> \in R)
  BY <1>2, WFMin
<1>5. ASSUME NEW y \in S PROVE x <= y
  <2>1. x \in Nat /\ y \in Nat
    OBVIOUS
  <2>2. <<y, x>> \in Nat \X Nat /\ ~ (<<y, x>> \in R)
    BY <1>4, <2>1
  <2>3. ~ (y < x)
    BY <1>3, <2>2
  <2>4. QED
    BY <2>1, <2>3
<1>6. QED
  BY <1>4, <1>5

LEMMA LinesOfFile ==
    ASSUME published \in SourceFile
    PROVE  /\ published \in Seq(SourceLine)
           /\ DOMAIN published = 1..Len(published) /\ Len(published) \in Nat
           /\ \A i \in DOMAIN published : published[i] \in SourceLine
BY SourceFileAssumption

LEMMA GoodRowsAreFinite ==
    ASSUME published \in SourceFile
    PROVE  GoodRows \subseteq SourceLine /\ IsFiniteSet(GoodRows)
<1> DEFINE line == [i \in Rows("good") |-> published[i]]
<1>1. GoodRows \subseteq SourceLine
  BY LinesOfFile DEF GoodRows, Rows
<1>2. IsFiniteSet(Rows("good"))
  <2>1. IsFiniteSet(1..Len(published))
    BY LinesOfFile, FS_Interval
  <2>2. Rows("good") \in SUBSET (1..Len(published))
    BY LinesOfFile DEF Rows
  <2>3. QED
    BY <2>1, <2>2, FS_Subset
<1>3. line \in Surjection(Rows("good"), GoodRows)
  BY DEF Surjection, GoodRows
<1>4. QED
  BY <1>1, <1>2, <1>3, FS_Surjection

\* Of the lines with one number, the first is the one that is promoted.
LEMMA EveryNumberHasAFirst ==
    ASSUME published \in SourceFile, NEW i \in DOMAIN published
    PROVE  \E k \in DOMAIN published : FirstOfNumber(k) /\ published[k].number = published[i].number
<1> DEFINE Same == {j \in DOMAIN published : published[j].number = published[i].number}
<1>1. Same \subseteq Nat /\ Same # {}
  BY LinesOfFile
<1>2. PICK k \in Same : \A j \in Same : k <= j
  <2> HIDE DEF Same
  <2>1. QED
    BY <1>1, LeastIndex
<1>3. ASSUME NEW j \in 1..(k - 1) PROVE published[j].number # published[k].number
  <2>1. j \in DOMAIN published /\ j \in Nat /\ k \in Nat /\ ~ (k <= j)
    BY LinesOfFile
  <2>2. j \notin Same
    BY <1>2, <2>1
  <2>3. QED
    BY <2>1, <2>2
<1>4. QED
  BY <1>3 DEF FirstOfNumber

LEMMA FirstsAreApart ==
    ASSUME published \in SourceFile, NEW i \in DOMAIN published, NEW j \in DOMAIN published,
           FirstOfNumber(i), FirstOfNumber(j), published[i].number = published[j].number
    PROVE  i = j
<1>1. i \in Nat /\ j \in Nat /\ 1 <= i /\ 1 <= j
  BY LinesOfFile
<1>2. CASE i < j
  <2>1. i \in 1..(j - 1)
    BY <1>1, <1>2
  <2>2. QED
    BY <2>1 DEF FirstOfNumber
<1>3. CASE j < i
  <2>1. j \in 1..(i - 1)
    BY <1>1, <1>3
  <2>2. QED
    BY <2>1 DEF FirstOfNumber
<1>4. QED
  BY <1>1, <1>2, <1>3

LEMMA ImportFileIsGood ==
    ASSUME LookupInv, NEW disposition \in BOOLEAN, ImportFile(disposition)
    PROVE  LookupInv'
<1> DEFINE First == {j \in DOMAIN published : FirstOfNumber(j)}
<1>1. published \in SourceFile
  BY DEF LookupInv, LookupTypeOK
<1>2. /\ current' = {published[i] : i \in First} /\ allowed' = disposition
      /\ fresh' = fresh \cup {"current"} /\ published' = published /\ records' = records
      /\ Rows("good") = DOMAIN published
  BY DEF ImportFile, Rows
<1>3. current' \subseteq GoodRows
  BY <1>2 DEF GoodRows
<1>4. \A a, b \in current' : a.number = b.number => a = b
  <2>1. SUFFICES ASSUME NEW i \in First, NEW j \in First, published[i].number = published[j].number
                 PROVE  i = j
    BY <1>2
  <2>2. QED
    BY <1>1, <2>1, FirstsAreApart
<1>5. \A i \in DOMAIN published : \E r \in current' : r.number = published[i].number
  BY <1>1, <1>2, EveryNumberHasAFirst
<1>6. GoodRows' = GoodRows /\ Rows("good")' = Rows("good")
  BY <1>2 DEF GoodRows, Rows
<1>7. LookupTypeOK'
  BY <1>1, <1>2, <1>3, GoodRowsAreFinite DEF LookupInv, LookupTypeOK
<1> HIDE DEF First
<1>8. QED
  BY <1>2, <1>3, <1>4, <1>5, <1>6, <1>7 DEF LookupInv

LEMMA SyncFileIsGood == LookupInv /\ SyncFile => LookupInv'
<1> SUFFICES ASSUME LookupInv, SyncFile PROVE LookupInv'
  OBVIOUS
<1>1. published \in SourceFile
  BY DEF LookupInv, LookupTypeOK
<1>2. /\ records' = records \cup GoodRows /\ fresh' = fresh \cup {"cache"}
      /\ published' = published /\ current' = current /\ allowed' = allowed
  BY DEF SyncFile, GoodRows, Rows
<1>3. IsFiniteSet(records')
  BY <1>1, <1>2, GoodRowsAreFinite, FS_Union DEF LookupInv
<1>4. GoodRows' = GoodRows /\ Rows("good")' = Rows("good")
  BY <1>2 DEF GoodRows, Rows
<1>5. LookupTypeOK'
  BY <1>1, <1>2, GoodRowsAreFinite DEF LookupInv, LookupTypeOK
<1>6. QED
  BY <1>2, <1>3, <1>4, <1>5 DEF LookupInv

LEMMA PublishFileIsGood == LookupInv /\ PublishFile => LookupInv'
<1> SUFFICES ASSUME LookupInv, PublishFile PROVE LookupInv'
  OBVIOUS
<1>1. /\ published' \in SourceFile /\ records' = records /\ current' = current
      /\ allowed' = allowed /\ fresh' = IF published' = published THEN fresh ELSE {}
  BY DEF PublishFile
<1>2. LookupTypeOK'
  BY <1>1 DEF LookupInv, LookupTypeOK
<1>3. CASE published' = published
  <2>1. GoodRows' = GoodRows /\ Rows("good")' = Rows("good")
    BY <1>3 DEF GoodRows, Rows
  <2>2. QED
    BY <1>1, <1>2, <1>3, <2>1 DEF LookupInv
<1>4. CASE published' # published
  BY <1>1, <1>2, <1>4 DEF LookupInv
<1>5. QED
  BY <1>3, <1>4

\* Files, syncs and imports in any order keep what the lookups read consistent.
THEOREM LookupIsInductive == LookupSpec => []LookupInv
<1>1. LookupInit => LookupInv
  BY FS_EmptySet DEF LookupInit, LookupInv, LookupTypeOK
<1>2. LookupInv /\ [LookupNext]_lookupVars => LookupInv'
  <2>1. LookupInv /\ UNCHANGED lookupVars => LookupInv'
    BY DEF lookupVars, LookupInv, LookupTypeOK, GoodRows, Rows
  <2>2. QED
    BY <2>1, PublishFileIsGood, SyncFileIsGood, ImportFileIsGood DEF LookupNext
<1>3. QED
  BY <1>1, <1>2, PTL DEF LookupSpec

\* What the lookups read has its types.
THEOREM LookupTypes == LookupSpec => []LookupTypeOK
<1>1. LookupInv => LookupTypeOK
  BY DEF LookupInv
<1>2. QED
  BY <1>1, LookupIsInductive, PTL

Own(query) == {published[i] : i \in {j \in Rows("good") : published[j].number = query}}

LEMMA CommandAgrees ==
    ASSUME NEW query
    PROVE  CommandVerify(query) \in {RegistryVerify(query), Answer("failed", {})}
BY DEF CommandVerify, RegistryVerify

LEMMA MissingAgrees ==
    ASSUME NEW query
    PROVE  /\ RegistryVerify(query).result = "missing_required_input" <=> query = NoNumber
           /\ CacheVerify(query).result = "missing_required_input" <=> query = NoNumber
<1>1. RegistryVerify(query).result = "missing_required_input" <=> query = NoNumber
  <2> DEFINE found == Candidates(query)
             many == Cardinality(Candidates(query)) > 1
  <2> HIDE DEF found, many
  <2>1. Judged(query, Rows("invalid") # {}).result
            \in {"not_found", "ambiguous", "matched", "matched_with_warnings"}
    BY DEF Judged, Answer
  <2>2. QED
    BY <2>1 DEF RegistryVerify, Answer
<1>2. CacheVerify(query).result = "missing_required_input" <=> query = NoNumber
  BY DEF CacheVerify, Answer
<1>3. QED
  BY <1>1, <1>2

LEMMA CacheAgrees ==
    ASSUME LookupInv, "cache" \in fresh, NEW query
    PROVE  /\ Own(query) \subseteq CacheVerify(query).found
           /\ Own(query) # {} /\ CacheVerify(query).result = "matched" =>
                CacheVerify(query).found
                    \subseteq {published[i] : i \in RegistryVerify(query).found}
<1> DEFINE found == {record \in records : record.number = query}
<1>1. CacheVerify(query).found = found
  BY DEF CacheVerify, Answer
<1>2. Own(query) \subseteq found
  BY DEF LookupInv, GoodRows, Own
<1>3. IsFiniteSet(found)
  BY FS_Subset DEF LookupInv
<1>4. ASSUME Own(query) # {}, CacheVerify(query).result = "matched"
      PROVE  found \subseteq {published[i] : i \in RegistryVerify(query).found}
  <2>1. query # NoNumber /\ Cardinality(found) = 1
    BY <1>4 DEF CacheVerify, Answer
  <2>2. PICK record : found = {record}
    <3> HIDE DEF found
    <3>1. QED
      BY <1>3, <2>1, FS_Singleton
  <2>3. Own(query) = {record}
    BY <1>2, <1>4, <2>2
  <2>4. RegistryVerify(query).found = Candidates(query)
    BY <2>1 DEF RegistryVerify, Judged, Answer
  <2>5. Own(query) \subseteq {published[i] : i \in Candidates(query)}
    BY DEF Own, Candidates
  <2>6. QED
    BY <2>2, <2>3, <2>4, <2>5
<1>5. QED
  BY <1>1, <1>2, <1>4

LEMMA ApiAgrees ==
    ASSUME LookupInv, NEW query, NEW accessPath
    PROVE  LET api == ApiVerify(query, accessPath) IN
           /\ api.result # "ambiguous"
           /\ "current" \in fresh /\ allowed =>
                /\ api.result = "indexed_match" <=> Own(query) # {}
                /\ api.found \subseteq Own(query)
           /\ api.result = "invalid_request" <=> query = NoNumber
<1> DEFINE found == {record \in current : allowed /\ record.number = query}
           api == ApiVerify(query, accessPath)
<1>1. found = {} \/ \E record : found = {record}
  BY DEF LookupInv
<1>2. /\ found # {} <=> Cardinality(found) = 1
      /\ ~ (Cardinality(found) > 1)
  <2> HIDE DEF found
  <2>1. CASE found = {}
    <3>1. Cardinality(found) = 0
      BY <2>1, FS_EmptySet
    <3>2. QED
      BY <2>1, <3>1
  <2>2. CASE \E record : found = {record}
    <3>1. PICK record : found = {record}
      BY <2>2
    <3>2. Cardinality(found) = 1
      BY <3>1, FS_Singleton
    <3>3. QED
      BY <3>1, <3>2
  <2>3. QED
    BY <1>1, <2>1, <2>2
<1>3. api.found = found
  BY DEF ApiVerify, Answer
<1>4. /\ api.result # "ambiguous"
      /\ api.result = "indexed_match" <=> query # NoNumber /\ found # {}
      /\ api.result = "invalid_request" <=> query = NoNumber
  <2>1. api.result =
            CASE query = NoNumber -> "invalid_request"
              [] query # NoNumber /\ Cardinality(found) = 1 -> "indexed_match"
              [] Cardinality(found) > 1 -> "ambiguous"
              [] OTHER -> CASE accessPath = "browser_lookup" -> "pending"
                            [] accessPath = "manual_handoff" -> "manual_required"
                            [] accessPath \in {"blocked", "deprecated"} -> "source_unavailable"
                            [] OTHER -> "not_found"
    BY DEF ApiVerify, Answer
  <2> HIDE DEF api, found
  <2>2. CASE query = NoNumber
    BY <1>2, <2>1, <2>2
  <2>3. CASE query # NoNumber /\ found # {}
    BY <1>2, <2>1, <2>3
  <2>4. CASE query # NoNumber /\ found = {}
    BY <1>2, <2>1, <2>4
  <2>5. QED
    BY <2>2, <2>3, <2>4
<1>5. ASSUME "current" \in fresh, allowed
      PROVE  found \subseteq Own(query) /\ (Own(query) # {} => query # NoNumber /\ found # {})
  <2>1. current \subseteq GoodRows /\ Rows("good") = DOMAIN published
    BY <1>5 DEF LookupInv
  <2>2. found \subseteq Own(query)
    BY <2>1 DEF GoodRows, Own
  <2>3. ASSUME Own(query) # {} PROVE query # NoNumber /\ found # {}
    <3>1. PICK i \in DOMAIN published : published[i].number = query
      BY <2>1, <2>3 DEF Own
    <3>2. query \in LicenseNumber
      <4>1. published[i] \in SourceLine
        BY LinesOfFile DEF LookupInv, LookupTypeOK
      <4>2. QED
        BY <3>1, <4>1 DEF SourceLine
    <3>3. \E r \in current : r.number = published[i].number
      BY <1>5 DEF LookupInv
    <3>4. QED
      BY <1>5, <3>1, <3>2, <3>3, NoNumberAssumption
  <2>4. QED
    BY <2>2, <2>3
<1>6. QED
  <2> HIDE DEF api, found
  <2>1. ASSUME "current" \in fresh, allowed
        PROVE  /\ api.result = "indexed_match" <=> Own(query) # {}
               /\ api.found \subseteq Own(query)
    BY <1>3, <1>4, <1>5, <2>1
  <2>2. QED
    BY <1>4, <2>1 DEF api

\* The registry, the command, the cache and the API do not contradict each other
\* over one file, however the file, the cache and what is promoted came to be.
THEOREM VerificationsAgree == LookupSpec => []LookupsAgree
<1>1. ASSUME LookupInv, NEW query \in LicenseNumber \cup {NoNumber}
      PROVE  /\ CommandVerify(query) \in {RegistryVerify(query), Answer("failed", {})}
             /\ "cache" \in fresh => Own(query) \subseteq CacheVerify(query).found
             /\ "cache" \in fresh /\ Own(query) # {} /\ CacheVerify(query).result = "matched" =>
                 CacheVerify(query).found
                    \subseteq {published[i] : i \in RegistryVerify(query).found}
             /\ RegistryVerify(query).result = "missing_required_input"
                    <=> CacheVerify(query).result = "missing_required_input"
  <2>1. CommandVerify(query) \in {RegistryVerify(query), Answer("failed", {})}
    BY CommandAgrees
  <2>2. "cache" \in fresh =>
            /\ Own(query) \subseteq CacheVerify(query).found
            /\ Own(query) # {} /\ CacheVerify(query).result = "matched" =>
                CacheVerify(query).found
                    \subseteq {published[i] : i \in RegistryVerify(query).found}
    BY <1>1, CacheAgrees
  <2>3. RegistryVerify(query).result = "missing_required_input"
            <=> CacheVerify(query).result = "missing_required_input"
    BY MissingAgrees
  <2>4. QED
    BY <2>1, <2>2, <2>3
<1>2. ASSUME LookupInv, NEW query \in LicenseNumber \cup {NoNumber}, NEW accessPath \in AccessPath
      PROVE  /\ ApiVerify(query, accessPath).result # "ambiguous"
             /\ "current" \in fresh /\ allowed =>
                 /\ ApiVerify(query, accessPath).result = "indexed_match" <=> Own(query) # {}
                 /\ ApiVerify(query, accessPath).found \subseteq Own(query)
             /\ RegistryVerify(query).result = "missing_required_input"
                    <=> ApiVerify(query, accessPath).result = "invalid_request"
  BY <1>2, MissingAgrees, ApiAgrees
<1>3. LookupInv => LookupsAgree
  BY <1>1, <1>2 DEF LookupsAgree, Own
<1>4. QED
  BY <1>3, LookupIsInductive, PTL

-----------------------------------------------------------------------------
(* The reading of rows.                                                    *)

LineKind == {"blank", "broken", "header", "short", "row"}

ReadState ==
    [pc : {"reading", "yielded", "stopped", "failed", "finished"},
     position : Nat \ {0}, header : BOOLEAN, aborted : BOOLEAN,
     startAfterRow : Nat, last : Nat, yielded : Nat]

\* Whether a read that has come to line p has its header.
HeaderBefore(p) ==
    \/ format = "headless"
    \/ \E h \in 1..(p - 1) :
        /\ text[h] = "header"
        /\ \A j \in 1..(h - 1) : text[j] \in {"blank", "broken"}

\* What a read has done with a line once it has passed it.
Accounted(i, takes, reports) ==
    CASE text[i] = "broken" -> takes = 0 /\ reports >= 1
      [] text[i] = "short" /\ HeaderBefore(i) -> takes = 0 /\ reports = 1
      [] text[i] \in {"row", "header"} /\ HeaderBefore(i) -> takes = 1 /\ reports = 0
      [] OTHER -> takes = 0 /\ reports = 0

\* The lines up to r.last are accounted for, by this read or by one it resumes,
\* and so are those that it has passed; no line after r.last has been counted.
Counts(r, takes, reports) ==
    \A i \in DOMAIN text :
        /\ i <= r.last \/ i < r.position => Accounted(i, takes[i], reports[i])
        /\ i > r.last => takes[i] = 0 /\ reports[i] = 0

\* Where a read stands: it is past whatever it counted itself.
Standing(r) ==
    /\ r.position <= Len(text) + 1
    /\ r.header <=> HeaderBefore(r.position)
    /\ ~r.header => \A j \in 1..(r.position - 1) : text[j] \in {"blank", "broken"}
    /\ r.startAfterRow <= r.last
    /\ r.last < r.position \/ r.last = r.startAfterRow
    /\ r.pc = "yielded" =>
        /\ r.position \in DOMAIN text /\ text[r.position] \in {"header", "row"}
        /\ r.header /\ r.startAfterRow < r.position
    /\ r.pc = "finished" => limited \/ r.position \notin DOMAIN text

StreamInv ==
    /\ format \in Format /\ text \in Seq(LineKind)
    /\ strict \in BOOLEAN /\ limited \in BOOLEAN
    /\ taken \in [DOMAIN text -> Nat] /\ reported \in [DOMAIN text -> Nat]
    /\ read \in ReadState
    /\ Standing(read)
    /\ Counts(read, taken, reported)

LEMMA LinesOfText ==
    ASSUME StreamInv
    PROVE  /\ DOMAIN text = 1..Len(text) /\ Len(text) \in Nat
           /\ \A i \in DOMAIN text : text[i] \in LineKind
BY DEF StreamInv

LEMMA HeaderAt ==
    ASSUME NEW p \in Nat \ {0}
    PROVE  HeaderBefore(p + 1) <=>
               \/ HeaderBefore(p)
               \/ text[p] = "header" /\ \A j \in 1..(p - 1) : text[j] \in {"blank", "broken"}
<1>1. \A h : h \in 1..p <=> h \in 1..(p - 1) \/ h = p
  OBVIOUS
<1>2. (p + 1) - 1 = p
  OBVIOUS
<1>3. QED
  BY <1>1, <1>2 DEF HeaderBefore

\* A step keeps the invariant if it does so for the read and the counts.
LEMMA StreamMoves ==
    ASSUME StreamInv, UNCHANGED textVars, NEW r \in ReadState, NEW takes, NEW reports,
           read' = r, taken' = takes, reported' = reports,
           takes \in [DOMAIN text -> Nat], reports \in [DOMAIN text -> Nat],
           Standing(r), Counts(r, takes, reports)
    PROVE  StreamInv'
<1>1. format' = format /\ text' = text /\ strict' = strict /\ limited' = limited
  BY DEF textVars
<1>2. Standing(read)'
  BY <1>1 DEF Standing, HeaderBefore
<1>3. Counts(read, taken, reported)'
  BY <1>1 DEF Counts, Accounted, HeaderBefore
<1>4. QED
  BY <1>1, <1>2, <1>3 DEF StreamInv

\* A line that the read passes without counting it.
LEMMA PassCounts ==
    ASSUME StreamInv, NEW r \in ReadState, read.position \in DOMAIN text,
           Accounted(read.position, taken[read.position], reported[read.position]),
           r.position = read.position + 1, r.last = read.last
    PROVE  Counts(r, taken, reported)
<1>1. read.position \in Nat /\ read.last \in Nat
  BY DEF StreamInv, ReadState
<1>2. ASSUME NEW i \in DOMAIN text
      PROVE  /\ i <= r.last \/ i < r.position => Accounted(i, taken[i], reported[i])
             /\ i > r.last => taken[i] = 0 /\ reported[i] = 0
  <2>1. i \in Nat
    BY LinesOfText
  <2>2. i < r.position <=> i < read.position \/ i = read.position
    BY <1>1, <2>1
  <2>3. QED
    BY <2>2 DEF StreamInv, Counts
<1>3. QED
  BY <1>2 DEF Counts

\* A line that it counts.
LEMMA CountCounts ==
    ASSUME StreamInv, NEW r \in ReadState, read.position \in DOMAIN text, NEW takes, NEW reports,
           Accounted(read.position, takes[read.position], reports[read.position]),
           \A i \in DOMAIN text : i # read.position =>
                takes[i] = taken[i] /\ reports[i] = reported[i],
           r.position = read.position + 1, r.last = Greater(read.last, read.position)
    PROVE  Counts(r, takes, reports)
<1>1. read.position \in Nat /\ read.last \in Nat
  BY DEF StreamInv, ReadState
<1>2. ASSUME NEW i \in DOMAIN text
      PROVE  /\ i <= r.last \/ i < r.position => Accounted(i, takes[i], reports[i])
             /\ i > r.last => takes[i] = 0 /\ reports[i] = 0
  <2>1. i \in Nat
    BY LinesOfText
  <2>2. CASE i = read.position
    <3>1. ~ (i > r.last)
      BY <1>1, <2>1, <2>2 DEF Greater
    <3>2. QED
      BY <2>2, <3>1
  <2>3. CASE i # read.position
    <3>1. i <= r.last \/ i < r.position => i <= read.last \/ i < read.position
      BY <1>1, <2>1, <2>3 DEF Greater
    <3>2. i > r.last => i > read.last
      BY <1>1, <2>1 DEF Greater
    <3>3. QED
      BY <2>3, <3>1, <3>2 DEF StreamInv, Counts
  <2>4. QED
    BY <2>2, <2>3
<1>3. QED
  BY <1>2 DEF Counts

\* Where the read stands after line read.position.
LEMMA NextStanding ==
    ASSUME StreamInv, NEW r \in ReadState, read.position \in DOMAIN text,
           r.position = read.position + 1, r.startAfterRow = read.startAfterRow,
           r.last \in {read.last, Greater(read.last, read.position)},
           r.pc = "reading" \/ (r.pc = "finished" /\ limited),
           r.header <=> HeaderBefore(r.position),
           ~r.header => text[read.position] \in {"blank", "broken"},
           read.header => r.header
    PROVE  Standing(r)
<1>1. read.position \in Nat /\ read.last \in Nat /\ read.startAfterRow \in Nat
  BY DEF StreamInv, ReadState
<1>2. r.position <= Len(text) + 1
  BY <1>1, LinesOfText
<1>3. ~r.header => \A j \in 1..(r.position - 1) : text[j] \in {"blank", "broken"}
  <2>1. \A j \in 1..(r.position - 1) : j \in 1..(read.position - 1) \/ j = read.position
    BY <1>1
  <2>2. QED
    BY <2>1 DEF StreamInv, Standing
<1>4. /\ r.startAfterRow <= r.last
      /\ r.last < r.position \/ r.last = r.startAfterRow
  BY <1>1 DEF StreamInv, Standing, Greater
<1>5. QED
  BY <1>2, <1>3, <1>4 DEF Standing

\* A read that ends where it stands, or is aborted there.
LEMMA ThrowIsGood ==
    ASSUME StreamInv, NEW how \in {"stopped", "failed", "finished"}, Throw(how),
           how = "finished" => read.position \notin DOMAIN text
    PROVE  StreamInv'
<1> DEFINE r == [read EXCEPT !.pc = how]
<1>1. /\ r \in ReadState /\ r.pc = how /\ r.position = read.position /\ r.header = read.header
      /\ r.startAfterRow = read.startAfterRow /\ r.last = read.last
  BY DEF StreamInv, ReadState
<1>2. read' = r /\ UNCHANGED textVars /\ taken' = taken /\ reported' = reported
  BY DEF Throw
<1> HIDE DEF r
<1>3. Standing(r)
  BY <1>1 DEF StreamInv, Standing
<1>4. Counts(r, taken, reported)
  BY <1>1 DEF StreamInv, Counts
<1>5. QED
  BY <1>1, <1>2, <1>3, <1>4, StreamMoves DEF StreamInv

LEMMA AbortReadIsGood == StreamInv /\ AbortRead => StreamInv'
<1> SUFFICES ASSUME StreamInv, AbortRead PROVE StreamInv'
  OBVIOUS
<1> DEFINE r == [read EXCEPT !.aborted = TRUE]
<1>1. /\ r \in ReadState /\ r.pc = read.pc /\ r.position = read.position /\ r.header = read.header
      /\ r.startAfterRow = read.startAfterRow /\ r.last = read.last
  BY DEF StreamInv, ReadState
<1>2. read' = r /\ UNCHANGED textVars /\ taken' = taken /\ reported' = reported
  BY DEF AbortRead
<1> HIDE DEF r
<1>3. Standing(r)
  BY <1>1 DEF StreamInv, Standing
<1>4. Counts(r, taken, reported)
  BY <1>1 DEF StreamInv, Counts
<1>5. QED
  BY <1>1, <1>2, <1>3, <1>4, StreamMoves DEF StreamInv

\* Whether the read has its header does not change with a line after the header,
\* nor with one that is not a header.
LEMMA SameHeader ==
    ASSUME StreamInv, read.header \/ text[read.position] # "header"
    PROVE  read.header <=> HeaderBefore(read.position + 1)
<1>1. read.position \in Nat \ {0} /\ (read.header <=> HeaderBefore(read.position))
  BY DEF StreamInv, ReadState, Standing
<1>2. QED
  BY <1>1, HeaderAt

LEMMA PassIsGood ==
    ASSUME StreamInv, At(LineKind), Pass,
           Accounted(read.position, taken[read.position], reported[read.position]),
           read.header \/ text[read.position] \in {"blank", "broken"}
    PROVE  StreamInv'
<1> DEFINE next == read.position + 1
           r == [read EXCEPT !.position = next]
<1>1. read.position \in DOMAIN text /\ read.pc = "reading"
  BY DEF At
<1>2. next \in Nat \ {0}
  BY DEF StreamInv, ReadState
<1>3. read' = r /\ UNCHANGED textVars /\ taken' = taken /\ reported' = reported
  BY DEF Pass
<1> HIDE DEF next
<1>4. /\ r \in ReadState /\ r.pc = "reading" /\ r.position = next
      /\ r.header = read.header /\ r.startAfterRow = read.startAfterRow /\ r.last = read.last
  BY <1>1, <1>2 DEF StreamInv, ReadState
<1> HIDE DEF r
<1> USE DEF next
<1>5. r.header <=> HeaderBefore(r.position)
  BY <1>4, SameHeader
<1>6. Standing(r)
  BY <1>1, <1>4, <1>5, NextStanding
<1>7. Counts(r, taken, reported)
  BY <1>1, <1>4, PassCounts
<1>8. QED
  BY <1>3, <1>4, <1>6, <1>7, StreamMoves DEF StreamInv

LEMMA DropBlankIsGood == StreamInv /\ DropBlank => StreamInv'
<1> SUFFICES ASSUME StreamInv, DropBlank PROVE StreamInv'
  OBVIOUS
<1>1. At(LineKind) /\ Pass /\ read.position \in DOMAIN text /\ text[read.position] = "blank"
  BY DEF DropBlank, At, LineKind
<1>2. taken[read.position] = 0 /\ reported[read.position] = 0
  BY <1>1 DEF StreamInv, Counts, Accounted, ReadState
<1>3. Accounted(read.position, taken[read.position], reported[read.position])
  BY <1>1, <1>2 DEF Accounted
<1>4. QED
  BY <1>1, <1>3, PassIsGood

LEMMA SkipEarlierIsGood == StreamInv /\ SkipEarlier => StreamInv'
<1> SUFFICES ASSUME StreamInv, SkipEarlier PROVE StreamInv'
  OBVIOUS
<1>1. At(LineKind) /\ Pass /\ read.position \in DOMAIN text /\ read.header
  BY DEF SkipEarlier, At, LineKind
<1>2. read.position <= read.last
  BY DEF SkipEarlier, Earlier, StreamInv, Standing, ReadState
<1>3. Accounted(read.position, taken[read.position], reported[read.position])
  BY <1>1, <1>2 DEF StreamInv, Counts
<1>4. QED
  BY <1>1, <1>3, PassIsGood

LEMMA ReportIsGood ==
    ASSUME StreamInv, At({"broken", "short"}), Report,
           text[read.position] = "short" => read.header /\ ~Earlier
    PROVE  StreamInv'
<1> DEFINE p == read.position
           reports == [reported EXCEPT ![p] = IF @ < 2 THEN @ + 1 ELSE @]
           next == p + 1
           last == Greater(read.last, p)
           r == [read EXCEPT !.position = next, !.last = last]
<1>1. p \in DOMAIN text /\ read.pc = "reading" /\ text[p] \in {"broken", "short"}
  BY DEF At
<1>2. CASE strict
  BY <1>2, ThrowIsGood DEF Report
<1>3. CASE ~strict
  <2>1. read' = r /\ reported' = reports /\ taken' = taken /\ UNCHANGED textVars
    BY <1>3 DEF Report
  <2>2. last \in Nat /\ p \in Nat /\ next \in Nat \ {0} /\ read.last \in Nat
    BY DEF Greater, StreamInv, ReadState
  <2>3. reports \in [DOMAIN text -> Nat]
    BY <1>1 DEF StreamInv
  <2>4. Accounted(p, taken[p], reports[p])
    <3>1. /\ reported[p] \in Nat /\ reports[p] = IF reported[p] < 2 THEN reported[p] + 1
                                                   ELSE reported[p]
      BY <1>1 DEF StreamInv
    <3>2. CASE text[p] = "broken"
      <4>1. CASE p <= read.last
        <5>1. Accounted(p, taken[p], reported[p])
          BY <1>1, <4>1 DEF StreamInv, Counts
        <5>2. QED
          BY <3>1, <3>2, <5>1 DEF Accounted
      <4>2. CASE p > read.last
        <5>1. taken[p] = 0 /\ reported[p] = 0
          BY <1>1, <4>2 DEF StreamInv, Counts
        <5>2. QED
          BY <3>1, <3>2, <5>1 DEF Accounted
      <4>3. QED
        BY <2>2, <4>1, <4>2
    <3>3. CASE text[p] = "short"
      <4>1. read.header /\ p > read.startAfterRow
        BY <2>2, <3>3 DEF Earlier, StreamInv, ReadState
      <4>2. p > read.last
        BY <2>2, <4>1 DEF StreamInv, Standing, ReadState
      <4>3. taken[p] = 0 /\ reported[p] = 0
        BY <1>1, <4>2 DEF StreamInv, Counts
      <4>4. HeaderBefore(p)
        BY <4>1 DEF StreamInv, Standing
      <4>5. QED
        BY <3>1, <3>3, <4>3, <4>4 DEF Accounted
    <3>4. QED
      BY <1>1, <3>2, <3>3
  <2>5. \A i \in DOMAIN text : i # p => reports[i] = reported[i]
    BY <1>1 DEF StreamInv
  <2> HIDE DEF last, next
  <2>6. /\ r \in ReadState /\ r.pc = "reading" /\ r.position = next /\ r.last = last
        /\ r.header = read.header /\ r.startAfterRow = read.startAfterRow
    BY <1>1, <2>2 DEF StreamInv, ReadState
  <2> HIDE DEF r, reports
  <2> USE DEF next
  <2>7. r.header <=> HeaderBefore(r.position)
    BY <1>1, <2>6, SameHeader
  <2>8. ~r.header => text[p] \in {"blank", "broken"}
    BY <1>1, <2>6
  <2>9. Standing(r)
    BY <1>1, <2>6, <2>7, <2>8, NextStanding DEF last
  <2>10. Counts(r, taken, reports)
    BY <1>1, <2>4, <2>5, <2>6, CountCounts DEF last
  <2>11. QED
    BY <2>1, <2>3, <2>6, <2>9, <2>10, StreamMoves DEF StreamInv
<1>4. QED
  BY <1>2, <1>3 DEF StreamInv

LEMMA TakeHeaderIsGood == StreamInv /\ TakeHeader => StreamInv'
<1> SUFFICES ASSUME StreamInv, TakeHeader PROVE StreamInv'
  OBVIOUS
<1> DEFINE next == read.position + 1
           r == [read EXCEPT !.position = next, !.header = TRUE]
<1>1. read.position \in DOMAIN text /\ read.pc = "reading" /\ ~read.header
  BY DEF TakeHeader, At
<1>2. CASE text[read.position] # "header"
  BY <1>2, ThrowIsGood DEF TakeHeader
<1>3. CASE text[read.position] = "header"
  <2>1. read' = r /\ UNCHANGED textVars /\ taken' = taken /\ reported' = reported
    BY <1>3 DEF TakeHeader
  <2>2. /\ r \in ReadState /\ r.pc = "reading" /\ r.position = next /\ r.header
        /\ r.startAfterRow = read.startAfterRow /\ r.last = read.last
    <3>1. next \in Nat \ {0}
      BY DEF StreamInv, ReadState
    <3> HIDE DEF next
    <3>2. QED
      BY <1>1, <3>1 DEF StreamInv, ReadState
  <2> HIDE DEF r
  <2>3. HeaderBefore(r.position) /\ ~HeaderBefore(read.position)
    BY <1>1, <1>3, <2>2, HeaderAt DEF StreamInv, Standing, ReadState
  <2>4. Standing(r)
    BY <1>1, <2>2, <2>3, NextStanding
  <2>5. taken[read.position] = 0 /\ reported[read.position] = 0
    BY <1>1, <1>3, <2>3 DEF StreamInv, Counts, Accounted, ReadState
  <2>6. Accounted(read.position, taken[read.position], reported[read.position])
    BY <1>3, <2>3, <2>5 DEF Accounted
  <2>7. Counts(r, taken, reported)
    BY <1>1, <2>2, <2>6, PassCounts
  <2>8. QED
    BY <2>1, <2>2, <2>4, <2>7, StreamMoves DEF StreamInv
<1>4. QED
  BY <1>2, <1>3

LEMMA YieldRowIsGood == StreamInv /\ YieldRow => StreamInv'
<1> SUFFICES ASSUME StreamInv, YieldRow PROVE StreamInv'
  OBVIOUS
<1> DEFINE r == [read EXCEPT !.pc = "yielded"]
<1>1. /\ r \in ReadState /\ r.pc = "yielded" /\ r.position = read.position
      /\ r.header = read.header /\ r.startAfterRow = read.startAfterRow /\ r.last = read.last
  BY DEF StreamInv, ReadState
<1>2. read' = r /\ UNCHANGED textVars /\ taken' = taken /\ reported' = reported
  BY DEF YieldRow
<1> HIDE DEF r
<1>3. /\ read.position \in DOMAIN text /\ text[read.position] \in {"header", "row"}
      /\ read.header /\ read.startAfterRow < read.position
  BY DEF YieldRow, At, Earlier, StreamInv, ReadState
<1>4. Standing(r)
  BY <1>1, <1>3 DEF StreamInv, Standing
<1>5. Counts(r, taken, reported)
  BY <1>1 DEF StreamInv, Counts
<1>6. QED
  BY <1>1, <1>2, <1>4, <1>5, StreamMoves DEF StreamInv

LEMMA TakeYieldedIsGood == StreamInv /\ TakeYielded => StreamInv'
<1> SUFFICES ASSUME StreamInv, TakeYielded PROVE StreamInv'
  OBVIOUS
<1> DEFINE p == read.position
           full == limited /\ read.yielded + 1 >= Limit
           pc == IF full THEN "finished" ELSE "reading"
           next == p + 1
           last == Greater(read.last, p)
           yielded == read.yielded + 1
           takes == [taken EXCEPT ![p] = @ + 1]
           r == [read EXCEPT !.pc = pc, !.position = next, !.last = last, !.yielded = yielded]
<1>1. read' = r /\ taken' = takes /\ reported' = reported /\ UNCHANGED textVars
  BY DEF TakeYielded
<1>2. /\ p \in DOMAIN text /\ text[p] \in {"header", "row"}
      /\ read.header /\ read.startAfterRow < p
  BY DEF TakeYielded, StreamInv, Standing
<1>3. p \in Nat /\ next \in Nat \ {0} /\ last \in Nat /\ yielded \in Nat /\ read.last \in Nat
  BY DEF StreamInv, ReadState, Greater
<1>4. pc = "reading" \/ (pc = "finished" /\ limited)
  OBVIOUS
<1>5. takes \in [DOMAIN text -> Nat] /\ \A i \in DOMAIN text : i # p => takes[i] = taken[i]
  BY <1>2 DEF StreamInv
<1>6. Accounted(p, takes[p], reported[p])
  <2>1. p > read.last
    BY <1>2, <1>3 DEF StreamInv, Standing, ReadState
  <2>2. taken[p] = 0 /\ reported[p] = 0
    BY <1>2, <2>1 DEF StreamInv, Counts
  <2>3. takes[p] = 1
    BY <1>2, <2>2 DEF StreamInv
  <2>4. HeaderBefore(p)
    BY <1>2 DEF StreamInv, Standing
  <2>5. QED
    BY <1>2, <2>2, <2>3, <2>4 DEF Accounted
<1> HIDE DEF pc, next, last, yielded, takes
<1>7. /\ r \in ReadState /\ r.pc = pc /\ r.position = next /\ r.last = last
      /\ r.header = read.header /\ r.startAfterRow = read.startAfterRow
  BY <1>3, <1>4 DEF StreamInv, ReadState
<1> HIDE DEF r
<1> USE DEF next
<1>8. r.header <=> HeaderBefore(r.position)
  BY <1>2, <1>7, SameHeader
<1>9. Standing(r)
  BY <1>2, <1>4, <1>7, <1>8, NextStanding DEF last
<1>10. Counts(r, takes, reported)
  BY <1>2, <1>5, <1>6, <1>7, CountCounts DEF last
<1>11. QED
  BY <1>1, <1>5, <1>7, <1>9, <1>10, StreamMoves DEF StreamInv

LEMMA NewReads ==
    ASSUME NEW startAfterRow \in Nat
    PROVE  LET r == NewRead(startAfterRow) IN
           /\ r \in ReadState /\ r.pc = "reading" /\ r.position = 1
           /\ r.last = startAfterRow /\ r.startAfterRow = startAfterRow
           /\ r.header <=> format = "headless"
<1> DEFINE headless == format = "headless"
<1>1. headless \in BOOLEAN /\ 1 \in Nat \ {0} /\ 0 \in Nat
  OBVIOUS
<1>2. NewRead(startAfterRow) =
        [pc |-> "reading", position |-> 1, header |-> headless, aborted |-> FALSE,
         startAfterRow |-> startAfterRow, last |-> startAfterRow, yielded |-> 0]
  BY DEF NewRead
<1> HIDE DEF headless
<1>3. NewRead(startAfterRow) \in ReadState
  BY <1>1, <1>2 DEF ReadState
<1>4. NewRead(startAfterRow).header <=> headless
  BY <1>2
<1>5. QED
  BY <1>2, <1>3, <1>4 DEF headless

LEMMA ResumeReadIsGood == StreamInv /\ ResumeRead => StreamInv'
<1> SUFFICES ASSUME StreamInv, ResumeRead PROVE StreamInv'
  OBVIOUS
<1> DEFINE r == NewRead(read.last)
<1>1. read' = r /\ UNCHANGED textVars /\ taken' = taken /\ reported' = reported
  BY DEF ResumeRead
<1>2. /\ r \in ReadState /\ r.pc = "reading" /\ r.position = 1 /\ r.last = read.last
      /\ r.startAfterRow = read.last /\ (r.header <=> format = "headless")
  <2>1. read.last \in Nat
    BY DEF StreamInv, ReadState
  <2>2. QED
    BY <2>1, NewReads
<1> HIDE DEF r
<1>3. Standing(r)
  BY <1>2, LinesOfText DEF Standing, HeaderBefore, ReadState
<1>4. Counts(r, taken, reported)
  <2>1. \A i \in DOMAIN text : ~ (i < r.position)
    BY <1>2, LinesOfText
  <2>2. QED
    BY <1>2, <2>1 DEF StreamInv, Counts
<1>5. QED
  BY <1>1, <1>2, <1>3, <1>4, StreamMoves DEF StreamInv

LEMMA StreamInitInv == StreamInit => StreamInv
<1> SUFFICES ASSUME StreamInit PROVE StreamInv
  OBVIOUS
<1>1. /\ format \in Format /\ strict \in BOOLEAN /\ limited \in BOOLEAN /\ text \in Seq(LineKind)
  BY TextAssumption DEF StreamInit, LineKind
<1>2. DOMAIN text = 1..Len(text) /\ Len(text) \in Nat
  BY <1>1
<1>3. /\ taken \in [DOMAIN text -> Nat] /\ reported \in [DOMAIN text -> Nat]
      /\ \A i \in DOMAIN text : taken[i] = 0 /\ reported[i] = 0
  BY DEF StreamInit
<1>4. /\ read \in ReadState /\ read.pc = "reading" /\ read.position = 1 /\ read.last = 0
      /\ read.startAfterRow = 0 /\ (read.header <=> format = "headless")
  BY NewReads DEF StreamInit
<1>5. Standing(read)
  BY <1>2, <1>4 DEF Standing, HeaderBefore
<1>6. Counts(read, taken, reported)
  <2>1. \A i \in DOMAIN text : ~ (i <= read.last) /\ ~ (i < read.position)
    BY <1>2, <1>4
  <2>2. QED
    BY <1>3, <2>1 DEF Counts
<1>7. QED
  BY <1>1, <1>3, <1>4, <1>5, <1>6 DEF StreamInv

\* However a read ends and however often it is resumed, its counts are right.
THEOREM StreamIsInductive == StreamSpec => []StreamInv
<1>1. StreamInv /\ StopAtSignal => StreamInv'
  BY ThrowIsGood DEF StopAtSignal
<1>2. StreamInv /\ EndOfText => StreamInv'
  BY ThrowIsGood DEF EndOfText
<1>3. StreamInv /\ ReportBroken => StreamInv'
  BY ReportIsGood DEF ReportBroken, At
<1>4. StreamInv /\ ReportShort => StreamInv'
  BY ReportIsGood DEF ReportShort, At
<1>5. StreamInv /\ UNCHANGED streamVars => StreamInv'
  BY DEF streamVars, textVars, StreamInv, Standing, Counts, Accounted, HeaderBefore
<1>6. StreamInv /\ [StreamNext]_streamVars => StreamInv'
  BY <1>1, <1>2, <1>3, <1>4, <1>5, AbortReadIsGood, DropBlankIsGood, TakeHeaderIsGood,
     SkipEarlierIsGood, YieldRowIsGood, TakeYieldedIsGood, ResumeReadIsGood DEF StreamNext
<1>7. QED
  BY <1>6, StreamInitInv, PTL DEF StreamSpec

\* The state of a read has its types.
THEOREM StreamTypes == StreamSpec => []StreamTypeOK
<1>1. StreamInv => StreamTypeOK
  BY DEF StreamInv, StreamTypeOK, ReadState
<1>2. QED
  BY <1>1, StreamIsInductive, PTL

\* No line is taken twice, and a read that finishes has taken every row of the
\* body and reported every line that cannot be read, however often it was
\* interrupted and resumed before.
THEOREM LinesAreAccounted == StreamSpec => []EveryLineIsAccounted
<1>1. ASSUME StreamInv PROVE EveryLineIsAccounted
  <2>1. \A i \in DOMAIN text : i \in Body <=> HeaderBefore(i)
    BY DEF Body, HeaderBefore
  <2>2. ASSUME NEW i \in DOMAIN text
        PROVE  taken[i] <= IF i \in Body /\ text[i] \in {"row", "header"} THEN 1 ELSE 0
    <3>1. i \in Nat /\ read.last \in Nat
      BY <1>1, LinesOfText DEF StreamInv, ReadState
    <3>2. CASE i <= read.last
      <4>1. Accounted(i, taken[i], reported[i])
        BY <1>1, <3>2 DEF StreamInv, Counts
      <4>2. QED
        BY <2>1, <4>1 DEF Accounted
    <3>3. CASE i > read.last
      <4>1. taken[i] = 0
        BY <1>1, <3>3 DEF StreamInv, Counts
      <4>2. QED
        BY <4>1
    <3>4. QED
      BY <3>1, <3>2, <3>3
  <2>3. ASSUME read.pc = "finished" /\ ~limited, NEW i \in DOMAIN text
        PROVE  Accounted(i, taken[i], reported[i])
    <3>1. read.position \notin DOMAIN text /\ read.position <= Len(text) + 1
      BY <1>1, <2>3 DEF StreamInv, Standing
    <3>2. i < read.position
      BY <1>1, <3>1, LinesOfText DEF StreamInv, ReadState
    <3>3. QED
      BY <1>1, <3>2 DEF StreamInv, Counts
  <2>4. QED
    BY <2>1, <2>2, <2>3 DEF EveryLineIsAccounted, Accounted
<1>2. QED
  BY <1>1, StreamIsInductive, PTL

-----------------------------------------------------------------------------
(* Chains of ifs, as the adapters decide a status by.                      *)

LEMMA FirstHit ==
    ASSUME NEW phrase, NEW chain, NEW otherwise, DOMAIN chain \subseteq Int,
           NEW i \in DOMAIN chain, Mentions(phrase, chain[i][1]),
           \A j \in DOMAIN chain : j < i => ~Mentions(phrase, chain[j][1])
    PROVE  FirstMatch(phrase, chain, otherwise) = chain[i][2]
<1> DEFINE hits == {j \in DOMAIN chain : Mentions(phrase, chain[j][1])}
           least == CHOOSE j \in hits : \A k \in hits : j <= k
<1>1. i \in hits /\ hits \subseteq Int
  OBVIOUS
<1>2. \A j \in hits : i <= j
  OBVIOUS
<1>3. least \in hits /\ \A k \in hits : least <= k
  <2> HIDE DEF hits
  <2>1. QED
    BY <1>1, <1>2
<1>4. least = i
  <2>1. least \in Int /\ least <= i /\ i <= least
    BY <1>1, <1>2, <1>3
  <2> HIDE DEF least
  <2>2. QED
    BY <2>1
<1>5. FirstMatch(phrase, chain, otherwise) = chain[least][2]
  BY <1>1 DEF FirstMatch
<1>6. QED
  BY <1>4, <1>5

LEMMA NoHit ==
    ASSUME NEW phrase, NEW chain, NEW otherwise,
           \A j \in DOMAIN chain : ~Mentions(phrase, chain[j][1])
    PROVE  FirstMatch(phrase, chain, otherwise) = otherwise
BY DEF FirstMatch

LEMMA ChainOf3 ==
    ASSUME NEW phrase, NEW chain, NEW otherwise, DOMAIN chain = 1..3
    PROVE  FirstMatch(phrase, chain, otherwise) =
           IF Mentions(phrase, chain[1][1]) THEN chain[1][2]
           ELSE IF Mentions(phrase, chain[2][1]) THEN chain[2][2]
           ELSE IF Mentions(phrase, chain[3][1]) THEN chain[3][2]
           ELSE otherwise
<1> DEFINE Hit(i) == Mentions(phrase, chain[i][1])
<1>1. DOMAIN chain \subseteq Int /\ \A j \in DOMAIN chain : j = 1 \/ j = 2 \/ j = 3
  OBVIOUS
<1>2. ASSUME Hit(1)
      PROVE  FirstMatch(phrase, chain, otherwise) = chain[1][2]
  <2>1. 1 \in DOMAIN chain /\ \A j \in DOMAIN chain : j < 1 => ~Hit(j)
    BY <1>1, <1>2
  <2>2. QED
    BY <1>1, <1>2, <2>1, FirstHit
<1>3. ASSUME ~Hit(1), Hit(2)
      PROVE  FirstMatch(phrase, chain, otherwise) = chain[2][2]
  <2>1. 2 \in DOMAIN chain /\ \A j \in DOMAIN chain : j < 2 => ~Hit(j)
    BY <1>1, <1>3
  <2>2. QED
    BY <1>1, <1>3, <2>1, FirstHit
<1>4. ASSUME ~Hit(1), ~Hit(2), Hit(3)
      PROVE  FirstMatch(phrase, chain, otherwise) = chain[3][2]
  <2>1. 3 \in DOMAIN chain /\ \A j \in DOMAIN chain : j < 3 => ~Hit(j)
    BY <1>1, <1>4
  <2>2. QED
    BY <1>1, <1>4, <2>1, FirstHit
<1>5. ASSUME ~Hit(1), ~Hit(2), ~Hit(3)
      PROVE  FirstMatch(phrase, chain, otherwise) = otherwise
  <2>1. \A j \in DOMAIN chain : ~Hit(j)
    BY <1>1, <1>5
  <2>2. QED
    BY <2>1, NoHit
<1>6. QED
  BY <1>2, <1>3, <1>4, <1>5

LEMMA ChainOf5 ==
    ASSUME NEW phrase, NEW chain, NEW otherwise, DOMAIN chain = 1..5
    PROVE  FirstMatch(phrase, chain, otherwise) =
           IF Mentions(phrase, chain[1][1]) THEN chain[1][2]
           ELSE IF Mentions(phrase, chain[2][1]) THEN chain[2][2]
           ELSE IF Mentions(phrase, chain[3][1]) THEN chain[3][2]
           ELSE IF Mentions(phrase, chain[4][1]) THEN chain[4][2]
           ELSE IF Mentions(phrase, chain[5][1]) THEN chain[5][2]
           ELSE otherwise
<1> DEFINE Hit(i) == Mentions(phrase, chain[i][1])
<1>1. DOMAIN chain \subseteq Int /\ \A j \in DOMAIN chain :
        j = 1 \/ j = 2 \/ j = 3 \/ j = 4 \/ j = 5
  OBVIOUS
<1>2. ASSUME Hit(1)
      PROVE  FirstMatch(phrase, chain, otherwise) = chain[1][2]
  <2>1. 1 \in DOMAIN chain /\ \A j \in DOMAIN chain : j < 1 => ~Hit(j)
    BY <1>1, <1>2
  <2>2. QED
    BY <1>1, <1>2, <2>1, FirstHit
<1>3. ASSUME ~Hit(1), Hit(2)
      PROVE  FirstMatch(phrase, chain, otherwise) = chain[2][2]
  <2>1. 2 \in DOMAIN chain /\ \A j \in DOMAIN chain : j < 2 => ~Hit(j)
    BY <1>1, <1>3
  <2>2. QED
    BY <1>1, <1>3, <2>1, FirstHit
<1>4. ASSUME ~Hit(1), ~Hit(2), Hit(3)
      PROVE  FirstMatch(phrase, chain, otherwise) = chain[3][2]
  <2>1. 3 \in DOMAIN chain /\ \A j \in DOMAIN chain : j < 3 => ~Hit(j)
    BY <1>1, <1>4
  <2>2. QED
    BY <1>1, <1>4, <2>1, FirstHit
<1>5. ASSUME ~Hit(1), ~Hit(2), ~Hit(3), Hit(4)
      PROVE  FirstMatch(phrase, chain, otherwise) = chain[4][2]
  <2>1. 4 \in DOMAIN chain /\ \A j \in DOMAIN chain : j < 4 => ~Hit(j)
    BY <1>1, <1>5
  <2>2. QED
    BY <1>1, <1>5, <2>1, FirstHit
<1>6. ASSUME ~Hit(1), ~Hit(2), ~Hit(3), ~Hit(4), Hit(5)
      PROVE  FirstMatch(phrase, chain, otherwise) = chain[5][2]
  <2>1. 5 \in DOMAIN chain /\ \A j \in DOMAIN chain : j < 5 => ~Hit(j)
    BY <1>1, <1>6
  <2>2. QED
    BY <1>1, <1>6, <2>1, FirstHit
<1>7. ASSUME ~Hit(1), ~Hit(2), ~Hit(3), ~Hit(4), ~Hit(5)
      PROVE  FirstMatch(phrase, chain, otherwise) = otherwise
  <2>1. \A j \in DOMAIN chain : ~Hit(j)
    BY <1>1, <1>7
  <2>2. QED
    BY <2>1, NoHit
<1>8. QED
  BY <1>2, <1>3, <1>4, <1>5, <1>6, <1>7

LEMMA ChainOf6 ==
    ASSUME NEW phrase, NEW chain, NEW otherwise, DOMAIN chain = 1..6
    PROVE  FirstMatch(phrase, chain, otherwise) =
           IF Mentions(phrase, chain[1][1]) THEN chain[1][2]
           ELSE IF Mentions(phrase, chain[2][1]) THEN chain[2][2]
           ELSE IF Mentions(phrase, chain[3][1]) THEN chain[3][2]
           ELSE IF Mentions(phrase, chain[4][1]) THEN chain[4][2]
           ELSE IF Mentions(phrase, chain[5][1]) THEN chain[5][2]
           ELSE IF Mentions(phrase, chain[6][1]) THEN chain[6][2]
           ELSE otherwise
<1> DEFINE Hit(i) == Mentions(phrase, chain[i][1])
<1>1. DOMAIN chain \subseteq Int /\ \A j \in DOMAIN chain :
        j = 1 \/ j = 2 \/ j = 3 \/ j = 4 \/ j = 5 \/ j = 6
  OBVIOUS
<1>2. ASSUME Hit(1)
      PROVE  FirstMatch(phrase, chain, otherwise) = chain[1][2]
  <2>1. 1 \in DOMAIN chain /\ \A j \in DOMAIN chain : j < 1 => ~Hit(j)
    BY <1>1, <1>2
  <2>2. QED
    BY <1>1, <1>2, <2>1, FirstHit
<1>3. ASSUME ~Hit(1), Hit(2)
      PROVE  FirstMatch(phrase, chain, otherwise) = chain[2][2]
  <2>1. 2 \in DOMAIN chain /\ \A j \in DOMAIN chain : j < 2 => ~Hit(j)
    BY <1>1, <1>3
  <2>2. QED
    BY <1>1, <1>3, <2>1, FirstHit
<1>4. ASSUME ~Hit(1), ~Hit(2), Hit(3)
      PROVE  FirstMatch(phrase, chain, otherwise) = chain[3][2]
  <2>1. 3 \in DOMAIN chain /\ \A j \in DOMAIN chain : j < 3 => ~Hit(j)
    BY <1>1, <1>4
  <2>2. QED
    BY <1>1, <1>4, <2>1, FirstHit
<1>5. ASSUME ~Hit(1), ~Hit(2), ~Hit(3), Hit(4)
      PROVE  FirstMatch(phrase, chain, otherwise) = chain[4][2]
  <2>1. 4 \in DOMAIN chain /\ \A j \in DOMAIN chain : j < 4 => ~Hit(j)
    BY <1>1, <1>5
  <2>2. QED
    BY <1>1, <1>5, <2>1, FirstHit
<1>6. ASSUME ~Hit(1), ~Hit(2), ~Hit(3), ~Hit(4), Hit(5)
      PROVE  FirstMatch(phrase, chain, otherwise) = chain[5][2]
  <2>1. 5 \in DOMAIN chain /\ \A j \in DOMAIN chain : j < 5 => ~Hit(j)
    BY <1>1, <1>6
  <2>2. QED
    BY <1>1, <1>6, <2>1, FirstHit
<1>7. ASSUME ~Hit(1), ~Hit(2), ~Hit(3), ~Hit(4), ~Hit(5), Hit(6)
      PROVE  FirstMatch(phrase, chain, otherwise) = chain[6][2]
  <2>1. 6 \in DOMAIN chain /\ \A j \in DOMAIN chain : j < 6 => ~Hit(j)
    BY <1>1, <1>7
  <2>2. QED
    BY <1>1, <1>7, <2>1, FirstHit
<1>8. ASSUME ~Hit(1), ~Hit(2), ~Hit(3), ~Hit(4), ~Hit(5), ~Hit(6)
      PROVE  FirstMatch(phrase, chain, otherwise) = otherwise
  <2>1. \A j \in DOMAIN chain : ~Hit(j)
    BY <1>1, <1>8
  <2>2. QED
    BY <2>1, NoHit
<1>9. QED
  BY <1>2, <1>3, <1>4, <1>5, <1>6, <1>7, <1>8

LEMMA ChainOf7 ==
    ASSUME NEW phrase, NEW chain, NEW otherwise, DOMAIN chain = 1..7
    PROVE  FirstMatch(phrase, chain, otherwise) =
           IF Mentions(phrase, chain[1][1]) THEN chain[1][2]
           ELSE IF Mentions(phrase, chain[2][1]) THEN chain[2][2]
           ELSE IF Mentions(phrase, chain[3][1]) THEN chain[3][2]
           ELSE IF Mentions(phrase, chain[4][1]) THEN chain[4][2]
           ELSE IF Mentions(phrase, chain[5][1]) THEN chain[5][2]
           ELSE IF Mentions(phrase, chain[6][1]) THEN chain[6][2]
           ELSE IF Mentions(phrase, chain[7][1]) THEN chain[7][2]
           ELSE otherwise
<1> DEFINE Hit(i) == Mentions(phrase, chain[i][1])
<1>1. DOMAIN chain \subseteq Int /\ \A j \in DOMAIN chain :
        j = 1 \/ j = 2 \/ j = 3 \/ j = 4 \/ j = 5 \/ j = 6 \/ j = 7
  OBVIOUS
<1>2. ASSUME Hit(1)
      PROVE  FirstMatch(phrase, chain, otherwise) = chain[1][2]
  <2>1. 1 \in DOMAIN chain /\ \A j \in DOMAIN chain : j < 1 => ~Hit(j)
    BY <1>1, <1>2
  <2>2. QED
    BY <1>1, <1>2, <2>1, FirstHit
<1>3. ASSUME ~Hit(1), Hit(2)
      PROVE  FirstMatch(phrase, chain, otherwise) = chain[2][2]
  <2>1. 2 \in DOMAIN chain /\ \A j \in DOMAIN chain : j < 2 => ~Hit(j)
    BY <1>1, <1>3
  <2>2. QED
    BY <1>1, <1>3, <2>1, FirstHit
<1>4. ASSUME ~Hit(1), ~Hit(2), Hit(3)
      PROVE  FirstMatch(phrase, chain, otherwise) = chain[3][2]
  <2>1. 3 \in DOMAIN chain /\ \A j \in DOMAIN chain : j < 3 => ~Hit(j)
    BY <1>1, <1>4
  <2>2. QED
    BY <1>1, <1>4, <2>1, FirstHit
<1>5. ASSUME ~Hit(1), ~Hit(2), ~Hit(3), Hit(4)
      PROVE  FirstMatch(phrase, chain, otherwise) = chain[4][2]
  <2>1. 4 \in DOMAIN chain /\ \A j \in DOMAIN chain : j < 4 => ~Hit(j)
    BY <1>1, <1>5
  <2>2. QED
    BY <1>1, <1>5, <2>1, FirstHit
<1>6. ASSUME ~Hit(1), ~Hit(2), ~Hit(3), ~Hit(4), Hit(5)
      PROVE  FirstMatch(phrase, chain, otherwise) = chain[5][2]
  <2>1. 5 \in DOMAIN chain /\ \A j \in DOMAIN chain : j < 5 => ~Hit(j)
    BY <1>1, <1>6
  <2>2. QED
    BY <1>1, <1>6, <2>1, FirstHit
<1>7. ASSUME ~Hit(1), ~Hit(2), ~Hit(3), ~Hit(4), ~Hit(5), Hit(6)
      PROVE  FirstMatch(phrase, chain, otherwise) = chain[6][2]
  <2>1. 6 \in DOMAIN chain /\ \A j \in DOMAIN chain : j < 6 => ~Hit(j)
    BY <1>1, <1>7
  <2>2. QED
    BY <1>1, <1>7, <2>1, FirstHit
<1>8. ASSUME ~Hit(1), ~Hit(2), ~Hit(3), ~Hit(4), ~Hit(5), ~Hit(6), Hit(7)
      PROVE  FirstMatch(phrase, chain, otherwise) = chain[7][2]
  <2>1. 7 \in DOMAIN chain /\ \A j \in DOMAIN chain : j < 7 => ~Hit(j)
    BY <1>1, <1>8
  <2>2. QED
    BY <1>1, <1>8, <2>1, FirstHit
<1>9. ASSUME ~Hit(1), ~Hit(2), ~Hit(3), ~Hit(4), ~Hit(5), ~Hit(6), ~Hit(7)
      PROVE  FirstMatch(phrase, chain, otherwise) = otherwise
  <2>1. \A j \in DOMAIN chain : ~Hit(j)
    BY <1>1, <1>9
  <2>2. QED
    BY <2>1, NoHit
<1>10. QED
  BY <1>2, <1>3, <1>4, <1>5, <1>6, <1>7, <1>8, <1>9

-----------------------------------------------------------------------------
(* The records the adapters build, of whatever a row says.                 *)

StatusRecord == [normalized : Status, isCurrent : {"yes", "no", "unknown"}]

\* A license whose date has passed is current only on probation.
SoundStatus(status, date, day) ==
    /\ status \in StatusRecord
    /\ status.isCurrent = "yes" /\ IsPast(date, day) => status.normalized = "probation"

\* What a row does not say of a license that is current.
NotEnded(source, fields, status) ==
    /\ ~Mentions(Said(source, fields), {"suspend", "revok"})
    /\ Mentions(Said(source, fields), {"expired", "inactive"}) => status.normalized = "probation"
    /\ status.normalized = "probation" => "probation" \in Said(source, fields)

WarnsOfUnknown(source, fields, record) ==
    /\ record.status.normalized = "unknown" =>
        \/ record.warnings # {}
        \/ source \in {"IN", "MN"}
        \/ source = "FL" /\ ~GivesStatus(source, fields)
    /\ "unknown" \in record.categories => record.warnings # {}

\* No field keeps a column of the phone number or of an address line unless
\* redaction empties it as well.
PrivateColumns(columns) ==
    /\ \A c \in {"phone"} \cap DOMAIN columns, d \in DOMAIN columns \ {"phone", "raw"} :
            columns[c] \cap columns[d] = {}
    /\ \A c \in {"line1", "line2"} \cap DOMAIN columns,
          d \in DOMAIN columns \ {"line1", "line2", "addressRaw", "raw"} :
            columns[c] \cap columns[d] = {}

GoodRecord(source, fields, day, record) ==
    /\ record = [accepted |-> TRUE, number |-> record.number, status |-> record.status,
                 categories |-> record.categories, warnings |-> record.warnings,
                 columns |-> record.columns]
    /\ record.status \in StatusRecord
    /\ record.status.isCurrent = "yes" =>
        /\ IsPast(fields.expiry.day, day) /\ fields.expiry.form = "padded" =>
                record.status.normalized = "probation"
        /\ NotEnded(source, fields, record.status)
    /\ WarnsOfUnknown(source, fields, record)
    /\ PrivateColumns(record.columns)

LEMMA ProbationChain ==
    ASSUME NEW phrase, NEW date, NEW day, NEW chain, NEW pending,
           DOMAIN chain = 1..7,
           chain[1] = <<{"suspend"}, NotCurrent("suspended")>>,
           chain[2] = <<{"revok"}, NotCurrent("revoked")>>,
           chain[3] = <<{"probation"}, Current("probation")>>,
           chain[4] = <<pending, Undecided("pending")>>,
           chain[5] = <<{"inactive"}, NotCurrent("inactive")>>,
           chain[6] = <<{"expired"}, NotCurrent("expired")>>,
           chain[7] = <<{"active"},
                        IF date = NoDate THEN Undecided("active")
                        ELSE IF IsPast(date, day) THEN NotCurrent("expired")
                        ELSE Current("active")>>
    PROVE  LET status == FirstMatch(phrase, chain, Undecided("unknown")) IN
           /\ SoundStatus(status, date, day)
           /\ status.isCurrent = "yes" =>
                /\ ~Mentions(phrase, {"suspend", "revok"})
                /\ Mentions(phrase, {"expired", "inactive"}) => status.normalized = "probation"
                /\ status.normalized = "probation" => "probation" \in phrase
<1> DEFINE status == FirstMatch(phrase, chain, Undecided("unknown"))
<1>1. status =
          IF Mentions(phrase, chain[1][1]) THEN chain[1][2]
          ELSE IF Mentions(phrase, chain[2][1]) THEN chain[2][2]
          ELSE IF Mentions(phrase, chain[3][1]) THEN chain[3][2]
          ELSE IF Mentions(phrase, chain[4][1]) THEN chain[4][2]
          ELSE IF Mentions(phrase, chain[5][1]) THEN chain[5][2]
          ELSE IF Mentions(phrase, chain[6][1]) THEN chain[6][2]
          ELSE IF Mentions(phrase, chain[7][1]) THEN chain[7][2]
          ELSE Undecided("unknown")
  BY ChainOf7
<1> HIDE DEF status
<1>2. /\ Mentions(phrase, {"suspend", "revok"}) =>
            Mentions(phrase, {"suspend"}) \/ Mentions(phrase, {"revok"})
      /\ Mentions(phrase, {"expired", "inactive"}) =>
            Mentions(phrase, {"expired"}) \/ Mentions(phrase, {"inactive"})
      /\ Mentions(phrase, {"probation"}) => "probation" \in phrase
  BY DEF Mentions
<1>3. QED
  BY <1>1, <1>2 DEF SoundStatus, StatusRecord, Status, NotCurrent, Current, Undecided, status

LEMMA AkIsGood ==
    ASSUME NEW fields, NEW day
    PROVE  LET record == RecordOf("AK", fields, day) IN
           record = Rejected \/ GoodRecord("AK", fields, day, record)
<1> DEFINE r == [number |-> fields.number, status |-> fields.status, kind |-> fields.kind,
                 expirationDate |-> Parsed(fields.expiry, AkDateForms)]
           date == Parsed(fields.expiry, AkDateForms)
           record == AkRecord(r, day)
<1>1. RecordOf("AK", fields, day) \in {Rejected, record}
  BY DEF RecordOf, MappedRow, Normalized, AkRow
<1>2. CASE fields.number = "blank"
  BY <1>1, <1>2 DEF AkRecord, CanonicalRecord
<1>3. CASE fields.number # "blank"
  <2>1. /\ record = [accepted |-> TRUE, number |-> record.number, status |-> record.status,
                    categories |-> record.categories, warnings |-> record.warnings,
                    columns |-> record.columns]
        /\ record.status = AkStatus(r, day) /\ record.warnings = AkWarnings(r, day)
        /\ record.categories = AkCategories(r)
    BY <1>3 DEF AkRecord, CanonicalRecord
  <2>2. PrivateColumns(record.columns)
    BY <1>3 DEF AkRecord, CanonicalRecord, PrivateColumns
  <2>3. /\ SoundStatus(record.status, date, day)
        /\ record.status.isCurrent = "yes" => NotEnded("AK", fields, record.status)
    <3> DEFINE chain == <<
            <<{"suspend"}, NotCurrent("suspended")>>,
            <<{"revok"}, NotCurrent("revoked")>>,
            <<{"probation"}, Current("probation")>>,
            <<{"pending"}, Undecided("pending")>>,
            <<{"inactive"}, NotCurrent("inactive")>>,
            <<{"expired"}, NotCurrent("expired")>>,
            <<{"active"}, AkActive(r, day)>> >>
    <3>1. /\ record.status = FirstMatch(fields.status, chain, Undecided("unknown"))
          /\ DOMAIN chain = 1..7
      BY <2>1 DEF AkStatus
    <3>2. /\ chain[1] = <<{"suspend"}, NotCurrent("suspended")>>
          /\ chain[2] = <<{"revok"}, NotCurrent("revoked")>>
          /\ chain[3] = <<{"probation"}, Current("probation")>>
          /\ chain[4] = <<{"pending"}, Undecided("pending")>>
          /\ chain[5] = <<{"inactive"}, NotCurrent("inactive")>>
          /\ chain[6] = <<{"expired"}, NotCurrent("expired")>>
          /\ chain[7] = <<{"active"},
                          IF date = NoDate THEN Undecided("active")
                          ELSE IF IsPast(date, day) THEN NotCurrent("expired")
                          ELSE Current("active")>>
      BY DEF AkActive
    <3> HIDE DEF chain, date, r, record
    <3>3. /\ SoundStatus(record.status, date, day)
          /\ record.status.isCurrent = "yes" =>
                /\ ~Mentions(fields.status, {"suspend", "revok"})
                /\ Mentions(fields.status, {"expired", "inactive"}) =>
                        record.status.normalized = "probation"
                /\ record.status.normalized = "probation" => "probation" \in fields.status
      BY <3>1, <3>2, ProbationChain
    <3>4. Said("AK", fields) = fields.status
      BY DEF Said
    <3>5. QED
      BY <3>3, <3>4 DEF NotEnded
  <2>4. /\ record.status.normalized = "unknown" =>
                "unknown_status" \in record.warnings
        /\ "unknown" \in record.categories => "unknown_license_type" \in record.warnings
    BY <2>1 DEF AkWarnings, WarningsWhere
  <2>5. fields.expiry.form = "padded" => date = fields.expiry.day
    BY DEF Parsed, AkDateForms
  <2> HIDE DEF r, date, record
  <2>6. QED
    BY <1>1, <2>1, <2>2, <2>3, <2>4, <2>5 DEF GoodRecord, SoundStatus, WarnsOfUnknown
<1>4. QED
  BY <1>2, <1>3

LEMMA IlIsGood ==
    ASSUME NEW fields, NEW day
    PROVE  LET record == RecordOf("IL", fields, day) IN
           record = Rejected \/ GoodRecord("IL", fields, day, record)
<1> DEFINE r == [number |-> fields.number, status |-> fields.status, kind |-> fields.kind,
                 expirationDate |-> Parsed(fields.expiry, IlDateForms)]
           date == Parsed(fields.expiry, IlDateForms)
           record == IlRecord(r, day)
<1>1. RecordOf("IL", fields, day) \in {Rejected, record}
  BY DEF RecordOf, MappedRow, Normalized, IlRow
<1>2. CASE fields.number = "blank"
  BY <1>1, <1>2 DEF IlRecord, CanonicalRecord
<1>3. CASE fields.number # "blank"
  <2>1. /\ record = [accepted |-> TRUE, number |-> record.number, status |-> record.status,
                    categories |-> record.categories, warnings |-> record.warnings,
                    columns |-> record.columns]
        /\ record.status = IlStatus(r, day) /\ record.warnings = IlWarnings(r, day)
        /\ record.categories = {IlCategory(r)}
    BY <1>3 DEF IlRecord, CanonicalRecord
  <2>2. PrivateColumns(record.columns)
    BY <1>3 DEF IlRecord, CanonicalRecord, PrivateColumns
  <2>3. /\ SoundStatus(record.status, date, day)
        /\ record.status.isCurrent = "yes" => NotEnded("IL", fields, record.status)
    <3> DEFINE chain == <<
            <<{"suspend"}, NotCurrent("suspended")>>,
            <<{"revok"}, NotCurrent("revoked")>>,
            <<{"probation"}, Current("probation")>>,
            <<{"pending", "review"}, Undecided("pending")>>,
            <<{"inactive"}, NotCurrent("inactive")>>,
            <<{"expired"}, NotCurrent("expired")>>,
            <<{"active"}, IlActive(r, day)>> >>
    <3>1. /\ record.status = FirstMatch(fields.status, chain, Undecided("unknown"))
          /\ DOMAIN chain = 1..7
      BY <2>1 DEF IlStatus
    <3>2. /\ chain[1] = <<{"suspend"}, NotCurrent("suspended")>>
          /\ chain[2] = <<{"revok"}, NotCurrent("revoked")>>
          /\ chain[3] = <<{"probation"}, Current("probation")>>
          /\ chain[4] = <<{"pending", "review"}, Undecided("pending")>>
          /\ chain[5] = <<{"inactive"}, NotCurrent("inactive")>>
          /\ chain[6] = <<{"expired"}, NotCurrent("expired")>>
          /\ chain[7] = <<{"active"},
                          IF date = NoDate THEN Undecided("active")
                          ELSE IF IsPast(date, day) THEN NotCurrent("expired")
                          ELSE Current("active")>>
      BY DEF IlActive
    <3> HIDE DEF chain, date, r, record
    <3>3. /\ SoundStatus(record.status, date, day)
          /\ record.status.isCurrent = "yes" =>
                /\ ~Mentions(fields.status, {"suspend", "revok"})
                /\ Mentions(fields.status, {"expired", "inactive"}) =>
                        record.status.normalized = "probation"
                /\ record.status.normalized = "probation" => "probation" \in fields.status
      BY <3>1, <3>2, ProbationChain
    <3>4. Said("IL", fields) = fields.status
      BY DEF Said
    <3>5. QED
      BY <3>3, <3>4 DEF NotEnded
  <2>4. /\ record.status.normalized = "unknown" =>
                "unknown_status" \in record.warnings
        /\ "unknown" \in record.categories => "unknown_license_type" \in record.warnings
    BY <2>1 DEF IlWarnings, WarningsWhere
  <2>5. fields.expiry.form = "padded" => date = fields.expiry.day
    BY DEF Parsed, IlDateForms
  <2> HIDE DEF r, date, record
  <2>6. QED
    BY <1>1, <2>1, <2>2, <2>3, <2>4, <2>5 DEF GoodRecord, SoundStatus, WarnsOfUnknown
<1>4. QED
  BY <1>2, <1>3

LEMMA InIsGood ==
    ASSUME NEW fields, NEW day
    PROVE  LET record == RecordOf("IN", fields, day) IN
           record = Rejected \/ GoodRecord("IN", fields, day, record)
<1> DEFINE r == [number |-> fields.number, status |-> fields.status, kind |-> fields.kind,
                 expirationDate |-> Parsed(fields.expiry, InDateForms)]
           date == Parsed(fields.expiry, InDateForms)
           record == InRecord(r, day)
<1>1. RecordOf("IN", fields, day) \in {Rejected, record}
  BY DEF RecordOf, MappedRow, Normalized, InRow
<1>2. CASE fields.number = "blank"
  BY <1>1, <1>2 DEF InRecord, CanonicalRecord
<1>3. CASE fields.number # "blank"
  <2>1. /\ record = [accepted |-> TRUE, number |-> record.number, status |-> record.status,
                    categories |-> record.categories, warnings |-> record.warnings,
                    columns |-> record.columns]
        /\ record.status = InStatus(r, day) /\ record.warnings = InWarnings(r)
        /\ record.categories = {InCategory(r)}
    BY <1>3 DEF InRecord, CanonicalRecord
  <2>2. PrivateColumns(record.columns)
    <3> DEFINE typeCode == {"Board"}
               typeLabel == {"License Type"}
               classifications == {"Board", "License Type"}
               businessName == {"Name"}
               dbaName == {"DBA Name"}
               rawStatus == {"License Status"}
               issueDate == {"Issue Date"}
               expirationDate == {"Expiration Date"}
               line1 == {"Address Line 1"}
               line2 == {"Address Line 2"}
               locality == {"City", "State", "Zip", "County"}
               addressRaw == {"Address Line 1", "Address Line 2", "City", "State", "Zip", "County"}
               phone == {"Phone"}
    <3>1. record = CanonicalRecord(r.number, InStatus(r, day), {InCategory(r)}, InWarnings(r),
                [typeCode |-> typeCode, typeLabel |-> typeLabel,
                 classifications |-> classifications, businessName |-> businessName,
                 dbaName |-> dbaName, rawStatus |-> rawStatus, issueDate |-> issueDate,
                 expirationDate |-> expirationDate, line1 |-> line1, line2 |-> line2,
                 locality |-> locality, addressRaw |-> addressRaw, phone |-> phone,
                 raw |-> InColumns])
      BY DEF InRecord, Zenon
    <3>2. /\ phone \cap typeCode = {} /\ phone \cap typeLabel = {}
          /\ phone \cap classifications = {} /\ phone \cap businessName = {}
          /\ phone \cap dbaName = {} /\ phone \cap rawStatus = {} /\ phone \cap issueDate = {}
          /\ phone \cap expirationDate = {} /\ phone \cap line1 = {} /\ phone \cap line2 = {}
          /\ phone \cap locality = {} /\ phone \cap addressRaw = {} /\ line1 \cap typeCode = {}
          /\ line1 \cap typeLabel = {} /\ line1 \cap classifications = {}
          /\ line1 \cap businessName = {} /\ line1 \cap dbaName = {}
          /\ line1 \cap rawStatus = {} /\ line1 \cap issueDate = {}
          /\ line1 \cap expirationDate = {} /\ line1 \cap locality = {}
          /\ line2 \cap typeCode = {} /\ line2 \cap typeLabel = {}
          /\ line2 \cap classifications = {} /\ line2 \cap businessName = {}
          /\ line2 \cap dbaName = {} /\ line2 \cap rawStatus = {} /\ line2 \cap issueDate = {}
          /\ line2 \cap expirationDate = {} /\ line2 \cap locality = {}
      BY Zenon
    <3> HIDE DEF typeCode, typeLabel, classifications, businessName, dbaName, rawStatus,
                 issueDate, expirationDate, line1, line2, locality, addressRaw, phone
    <3>3. record.columns =
                [typeCode |-> typeCode, typeLabel |-> typeLabel,
                 classifications |-> classifications, businessName |-> businessName,
                 dbaName |-> dbaName, rawStatus |-> rawStatus, issueDate |-> issueDate,
                 expirationDate |-> expirationDate, line1 |-> line1, line2 |-> line2,
                 locality |-> locality, addressRaw |-> addressRaw, phone |-> phone,
                 raw |-> InColumns]
      BY <1>3, <3>1 DEF CanonicalRecord
    <3> HIDE DEF record, r
    <3>4. QED
      BY <3>2, <3>3 DEF PrivateColumns
  <2>3. /\ SoundStatus(record.status, date, day)
        /\ record.status.isCurrent = "yes" => NotEnded("IN", fields, record.status)
    <3> DEFINE chain == <<
            <<{"suspend"}, NotCurrent("suspended")>>,
            <<{"revok"}, NotCurrent("revoked")>>,
            <<{"probation"}, Current("probation")>>,
            <<{"pending"}, Undecided("pending")>>,
            <<{"inactive"}, NotCurrent("inactive")>>,
            <<{"expired"}, NotCurrent("expired")>>,
            <<{"active"}, InActive(r, day)>> >>
    <3>1. /\ record.status = FirstMatch(fields.status, chain, Undecided("unknown"))
          /\ DOMAIN chain = 1..7
      BY <2>1 DEF InStatus
    <3>2. /\ chain[1] = <<{"suspend"}, NotCurrent("suspended")>>
          /\ chain[2] = <<{"revok"}, NotCurrent("revoked")>>
          /\ chain[3] = <<{"probation"}, Current("probation")>>
          /\ chain[4] = <<{"pending"}, Undecided("pending")>>
          /\ chain[5] = <<{"inactive"}, NotCurrent("inactive")>>
          /\ chain[6] = <<{"expired"}, NotCurrent("expired")>>
          /\ chain[7] = <<{"active"},
                          IF date = NoDate THEN Undecided("active")
                          ELSE IF IsPast(date, day) THEN NotCurrent("expired")
                          ELSE Current("active")>>
      BY DEF InActive
    <3> HIDE DEF chain, date, r, record
    <3>3. /\ SoundStatus(record.status, date, day)
          /\ record.status.isCurrent = "yes" =>
                /\ ~Mentions(fields.status, {"suspend", "revok"})
                /\ Mentions(fields.status, {"expired", "inactive"}) =>
                        record.status.normalized = "probation"
                /\ record.status.normalized = "probation" => "probation" \in fields.status
      BY <3>1, <3>2, ProbationChain
    <3>4. Said("IN", fields) = fields.status
      BY DEF Said
    <3>5. QED
      BY <3>3, <3>4 DEF NotEnded
  <2>4. /\ "unknown" \in record.categories => "unknown_license_type" \in record.warnings
    BY <2>1 DEF InWarnings, WarningsWhere
  <2>5. fields.expiry.form = "padded" => date = fields.expiry.day
    BY DEF Parsed, InDateForms
  <2> HIDE DEF r, date, record
  <2>6. QED
    BY <1>1, <2>1, <2>2, <2>3, <2>4, <2>5 DEF GoodRecord, SoundStatus, WarnsOfUnknown
<1>4. QED
  BY <1>2, <1>3

LEMMA OrIsGood ==
    ASSUME NEW fields, NEW day
    PROVE  LET record == RecordOf("OR", fields, day) IN
           record = Rejected \/ GoodRecord("OR", fields, day, record)
<1> DEFINE r == [number |-> fields.number, kind |-> fields.kind,
                 expirationDate |-> Parsed(fields.expiry, OrDateForms)]
           date == Parsed(fields.expiry, OrDateForms)
           record == OrRecord(r, day)
<1>1. RecordOf("OR", fields, day) \in {Rejected, record}
  BY DEF RecordOf, MappedRow, Normalized, OrRow
<1>2. CASE fields.number = "blank"
  BY <1>1, <1>2 DEF OrRecord, CanonicalRecord
<1>3. CASE fields.number # "blank"
  <2>1. /\ record = [accepted |-> TRUE, number |-> record.number, status |-> record.status,
                    categories |-> record.categories, warnings |-> record.warnings,
                    columns |-> record.columns]
        /\ record.status = OrStatus(r, day) /\ record.warnings = OrWarnings(r)
        /\ record.categories = OrCategories(r)
    BY <1>3 DEF OrRecord, CanonicalRecord
  <2>2. PrivateColumns(record.columns)
    BY <1>3 DEF OrRecord, CanonicalRecord, PrivateColumns
  <2>3. /\ SoundStatus(record.status, date, day)
        /\ record.status.isCurrent = "yes" => NotEnded("OR", fields, record.status)
    <3>1. Said("OR", fields) = {}
      BY DEF Said
    <3>2. QED
      BY <2>1, <3>1 DEF OrStatus, SoundStatus, NotEnded, Mentions, StatusRecord, Status,
         NotCurrent, Current, Undecided
  <2>4. /\ record.status.normalized = "unknown" =>
                "missing_or_unparsed_expiration_date" \in record.warnings
        /\ "unknown" \in record.categories => "unknown_license_type" \in record.warnings
    <3>1. record.status.normalized = "unknown" => r.expirationDate = NoDate
      BY <2>1 DEF OrStatus, NotCurrent, Current, Undecided
    <3> HIDE DEF r
    <3>2. QED
      BY <2>1, <3>1 DEF OrWarnings, WarningsWhere
  <2>5. fields.expiry.form = "padded" => date = fields.expiry.day
    BY DEF Parsed, OrDateForms
  <2> HIDE DEF r, date, record
  <2>6. QED
    BY <1>1, <2>1, <2>2, <2>3, <2>4, <2>5 DEF GoodRecord, SoundStatus, WarnsOfUnknown
<1>4. QED
  BY <1>2, <1>3

LEMMA TxIsGood ==
    ASSUME NEW fields, NEW day
    PROVE  LET record == RecordOf("TX", fields, day) IN
           record = Rejected \/ GoodRecord("TX", fields, day, record)
<1> DEFINE r == [number |-> fields.number, kind |-> fields.kind,
                 expirationDate |-> Parsed(fields.expiry, TxDateForms)]
           date == Parsed(fields.expiry, TxDateForms)
           record == TxRecord(r, day)
<1>1. RecordOf("TX", fields, day) \in {Rejected, record}
  BY DEF RecordOf, MappedRow, Normalized, TxRow
<1>2. CASE fields.number = "blank"
  BY <1>1, <1>2 DEF TxRecord, CanonicalRecord
<1>3. CASE fields.number # "blank"
  <2>1. /\ record = [accepted |-> TRUE, number |-> record.number, status |-> record.status,
                    categories |-> record.categories, warnings |-> record.warnings,
                    columns |-> record.columns]
        /\ record.status = TxStatus(r, day) /\ record.warnings = TxWarnings(r)
        /\ record.categories = {TxCategory(r)}
    BY <1>3 DEF TxRecord, CanonicalRecord
  <2>2. PrivateColumns(record.columns)
    <3> DEFINE typeCode == {"LICENSE SUBTYPE"}
               typeLabel == {"LICENSE TYPE"}
               classifications == {"LICENSE SUBTYPE", "LICENSE TYPE"}
               businessName == {"BUSINESS NAME"}
               licenseeName == {"OWNER NAME"}
               personnel == {"OWNER NAME"}
               rawStatus == {"CONTINUING EDUCATION FLAG"}
               expirationDate == {"LICENSE EXPIRATION DATE (MMDDCCYY)"}
               line1 == {"BUSINESS ADDRESS-LINE1", "MAILING ADDRESS LINE1"}
               line2 == {"BUSINESS ADDRESS-LINE2", "MAILING ADDRESS LINE2"}
               line3 == {"BUSINESS CITY, STATE ZIP", "MAILING ADDRESS CITY, STATE ZIP"}
               locality == {"BUSINESS COUNTY", "MAILING ADDRESS COUNTY"}
               addressRaw == {"BUSINESS ADDRESS-LINE1", "BUSINESS ADDRESS-LINE2",
                              "BUSINESS CITY, STATE ZIP", "BUSINESS COUNTY",
                              "MAILING ADDRESS LINE1", "MAILING ADDRESS LINE2",
                              "MAILING ADDRESS CITY, STATE ZIP", "MAILING ADDRESS COUNTY"}
               phone == {"BUSINESS TELEPHONE"}
    <3>1. record = CanonicalRecord(r.number, TxStatus(r, day), {TxCategory(r)}, TxWarnings(r),
                [typeCode |-> typeCode, typeLabel |-> typeLabel,
                 classifications |-> classifications, businessName |-> businessName,
                 licenseeName |-> licenseeName, personnel |-> personnel,
                 rawStatus |-> rawStatus, expirationDate |-> expirationDate, line1 |-> line1,
                 line2 |-> line2, line3 |-> line3, locality |-> locality,
                 addressRaw |-> addressRaw, phone |-> phone, raw |-> TxColumns])
      BY DEF TxRecord, Zenon
    <3>2. /\ phone \cap typeCode = {} /\ phone \cap typeLabel = {}
          /\ phone \cap classifications = {} /\ phone \cap businessName = {}
          /\ phone \cap licenseeName = {} /\ phone \cap personnel = {}
          /\ phone \cap rawStatus = {} /\ phone \cap expirationDate = {}
          /\ phone \cap line1 = {} /\ phone \cap line2 = {} /\ phone \cap line3 = {}
          /\ phone \cap locality = {} /\ phone \cap addressRaw = {} /\ line1 \cap typeCode = {}
          /\ line1 \cap typeLabel = {} /\ line1 \cap classifications = {}
          /\ line1 \cap businessName = {} /\ line1 \cap licenseeName = {}
          /\ line1 \cap personnel = {} /\ line1 \cap rawStatus = {}
          /\ line1 \cap expirationDate = {} /\ line1 \cap line3 = {} /\ line1 \cap locality = {}
          /\ line2 \cap typeCode = {} /\ line2 \cap typeLabel = {}
          /\ line2 \cap classifications = {} /\ line2 \cap businessName = {}
          /\ line2 \cap licenseeName = {} /\ line2 \cap personnel = {}
          /\ line2 \cap rawStatus = {} /\ line2 \cap expirationDate = {}
          /\ line2 \cap line3 = {} /\ line2 \cap locality = {}
      BY Zenon
    <3> HIDE DEF typeCode, typeLabel, classifications, businessName, licenseeName, personnel,
                 rawStatus, expirationDate, line1, line2, line3, locality, addressRaw, phone
    <3>3. record.columns =
                [typeCode |-> typeCode, typeLabel |-> typeLabel,
                 classifications |-> classifications, businessName |-> businessName,
                 licenseeName |-> licenseeName, personnel |-> personnel,
                 rawStatus |-> rawStatus, expirationDate |-> expirationDate, line1 |-> line1,
                 line2 |-> line2, line3 |-> line3, locality |-> locality,
                 addressRaw |-> addressRaw, phone |-> phone, raw |-> TxColumns]
      BY <1>3, <3>1 DEF CanonicalRecord
    <3> HIDE DEF record, r
    <3>4. QED
      BY <3>2, <3>3 DEF PrivateColumns
  <2>3. /\ SoundStatus(record.status, date, day)
        /\ record.status.isCurrent = "yes" => NotEnded("TX", fields, record.status)
    <3>1. Said("TX", fields) = {}
      BY DEF Said
    <3>2. QED
      BY <2>1, <3>1 DEF TxStatus, SoundStatus, NotEnded, Mentions, StatusRecord, Status,
         NotCurrent, Current, Undecided
  <2>4. /\ record.status.normalized = "unknown" =>
                "missing_or_unparsed_expiration_date" \in record.warnings
        /\ "unknown" \in record.categories => "unknown_license_type" \in record.warnings
    <3>1. record.status.normalized = "unknown" => r.expirationDate = NoDate
      BY <2>1 DEF TxStatus, NotCurrent, Current, Undecided
    <3> HIDE DEF r
    <3>2. QED
      BY <2>1, <3>1 DEF TxWarnings, WarningsWhere
  <2>5. fields.expiry.form = "padded" => date = fields.expiry.day
    BY DEF Parsed, TxDateForms
  <2> HIDE DEF r, date, record
  <2>6. QED
    BY <1>1, <2>1, <2>2, <2>3, <2>4, <2>5 DEF GoodRecord, SoundStatus, WarnsOfUnknown
<1>4. QED
  BY <1>2, <1>3

LEMMA AzIsGood ==
    ASSUME NEW fields, NEW day
    PROVE  LET record == RecordOf("AZ", fields, day) IN
           record = Rejected \/ GoodRecord("AZ", fields, day, record)
<1> DEFINE r == [number |-> fields.number, status |-> fields.status, kind |-> fields.kind,
                 expirationDate |-> Parsed(fields.expiry, AzDateForms)]
           date == Parsed(fields.expiry, AzDateForms)
           record == AzRecord(r, day)
<1>1. RecordOf("AZ", fields, day) \in {Rejected, record}
  BY DEF RecordOf, MappedRow, Normalized, AzRow
<1>2. CASE fields.number = "blank"
  BY <1>1, <1>2 DEF AzRecord, CanonicalRecord
<1>3. CASE fields.number # "blank"
  <2>1. /\ record = [accepted |-> TRUE, number |-> record.number, status |-> record.status,
                    categories |-> record.categories, warnings |-> record.warnings,
                    columns |-> record.columns]
        /\ record.status = AzStatus(r, day) /\ record.warnings = AzWarnings(r, day)
        /\ record.categories = AzCategories(r)
    BY <1>3 DEF AzRecord, CanonicalRecord
  <2>2. PrivateColumns(record.columns)
    <3> DEFINE typeCode == {"Class"}
               typeLabel == {"Class Type"}
               classifications == {"Class", "Class Detail"}
               businessName == {"Business Name"}
               dbaName == {"Doing Business As"}
               licenseeName == {"Qualifying Party"}
               personnel == {"Qualifying Party"}
               rawStatus == {"Status"}
               issueDate == {"Issued Date"}
               expirationDate == {"Expiration Date"}
               line1 == {"Address"}
               locality == {"City", "State", "Zip"}
               addressRaw == {"Address", "City", "State", "Zip"}
    <3>1. record = CanonicalRecord(r.number, AzStatus(r, day), AzCategories(r), AzWarnings(r, day),
                [typeCode |-> typeCode, typeLabel |-> typeLabel,
                 classifications |-> classifications, businessName |-> businessName,
                 dbaName |-> dbaName, licenseeName |-> licenseeName, personnel |-> personnel,
                 rawStatus |-> rawStatus, issueDate |-> issueDate,
                 expirationDate |-> expirationDate, line1 |-> line1, locality |-> locality,
                 addressRaw |-> addressRaw, raw |-> AzColumns])
      BY DEF AzRecord, Zenon
    <3>2. /\ line1 \cap typeCode = {} /\ line1 \cap typeLabel = {}
          /\ line1 \cap classifications = {} /\ line1 \cap businessName = {}
          /\ line1 \cap dbaName = {} /\ line1 \cap licenseeName = {}
          /\ line1 \cap personnel = {} /\ line1 \cap rawStatus = {} /\ line1 \cap issueDate = {}
          /\ line1 \cap expirationDate = {} /\ line1 \cap locality = {}
      BY Zenon
    <3> HIDE DEF typeCode, typeLabel, classifications, businessName, dbaName, licenseeName,
                 personnel, rawStatus, issueDate, expirationDate, line1, locality, addressRaw
    <3>3. record.columns =
                [typeCode |-> typeCode, typeLabel |-> typeLabel,
                 classifications |-> classifications, businessName |-> businessName,
                 dbaName |-> dbaName, licenseeName |-> licenseeName, personnel |-> personnel,
                 rawStatus |-> rawStatus, issueDate |-> issueDate,
                 expirationDate |-> expirationDate, line1 |-> line1, locality |-> locality,
                 addressRaw |-> addressRaw, raw |-> AzColumns]
      BY <1>3, <3>1 DEF CanonicalRecord
    <3> HIDE DEF record, r
    <3>4. QED
      BY <3>2, <3>3 DEF PrivateColumns
  <2>3. /\ SoundStatus(record.status, date, day)
        /\ record.status.isCurrent = "yes" => NotEnded("AZ", fields, record.status)
    <3> DEFINE phrase == WithPast(fields.status, date, day)
               chain == <<
            <<{"suspend"}, NotCurrent("suspended")>>,
            <<{"revok"}, NotCurrent("revoked")>>,
            <<{"probation"}, NotCurrent("probation")>>,
            <<{"inactive"}, NotCurrent("inactive")>>,
            <<{"expired", "past"}, NotCurrent("expired")>>,
            <<fields.status, IF fields.status = {"active"} THEN Current("active")
                               ELSE Undecided("unknown")>> >>
    <3>1. /\ record.status = FirstMatch(phrase, chain, Undecided("unknown"))
          /\ DOMAIN chain = 1..6
      BY <2>1 DEF AzStatus
    <3>2. /\ chain[1] = <<{"suspend"}, NotCurrent("suspended")>>
          /\ chain[2] = <<{"revok"}, NotCurrent("revoked")>>
          /\ chain[3] = <<{"probation"}, NotCurrent("probation")>>
          /\ chain[4] = <<{"inactive"}, NotCurrent("inactive")>>
          /\ chain[5] = <<{"expired", "past"}, NotCurrent("expired")>>
          /\ chain[6] = <<fields.status, IF fields.status = {"active"} THEN Current("active")
                               ELSE Undecided("unknown")>>
      OBVIOUS
    <3>3. IsPast(date, day) => Mentions(phrase, {"expired", "past"})
      BY DEF WithPast, Mentions
    <3>4. /\ Mentions(Said("AZ", fields), {"suspend", "revok"}) =>
                Mentions(phrase, {"suspend"}) \/ Mentions(phrase, {"revok"})
          /\ Mentions(Said("AZ", fields), {"expired", "inactive"}) =>
                Mentions(phrase, {"inactive"}) \/ Mentions(phrase, {"expired", "past"})
      BY DEF Said, WithPast, Mentions
    <3> HIDE DEF phrase, chain, date, r, record
    <3>5. record.status =
            IF Mentions(phrase, chain[1][1]) THEN chain[1][2]
            ELSE IF Mentions(phrase, chain[2][1]) THEN chain[2][2]
            ELSE IF Mentions(phrase, chain[3][1]) THEN chain[3][2]
            ELSE IF Mentions(phrase, chain[4][1]) THEN chain[4][2]
            ELSE IF Mentions(phrase, chain[5][1]) THEN chain[5][2]
            ELSE IF Mentions(phrase, chain[6][1]) THEN chain[6][2]
            ELSE Undecided("unknown")
      BY <3>1, ChainOf6
    <3>6. QED
      BY <3>2, <3>3, <3>4, <3>5
         DEF SoundStatus, NotEnded, StatusRecord, Status, NotCurrent, Current, Undecided
  <2>4. /\ record.status.normalized = "unknown" =>
                "unknown_status" \in record.warnings
        /\ "unknown" \in record.categories => "unknown_classification" \in record.warnings
    BY <2>1 DEF AzWarnings, WarningsWhere
  <2>5. fields.expiry.form = "padded" => date = fields.expiry.day
    BY DEF Parsed, AzDateForms
  <2> HIDE DEF r, date, record
  <2>6. QED
    BY <1>1, <2>1, <2>2, <2>3, <2>4, <2>5 DEF GoodRecord, SoundStatus, WarnsOfUnknown
<1>4. QED
  BY <1>2, <1>3

LEMMA CaIsGood ==
    ASSUME NEW fields, NEW day
    PROVE  LET record == RecordOf("CA", fields, day) IN
           record = Rejected \/ GoodRecord("CA", fields, day, record)
<1> DEFINE r == [number |-> fields.number, status |-> fields.status, kind |-> fields.kind,
                 expirationDate |-> Parsed(fields.expiry, CaDateForms)]
           date == Parsed(fields.expiry, CaDateForms)
           record == CaRecord(r, day)
<1>1. RecordOf("CA", fields, day) \in {Rejected, record}
  BY DEF RecordOf, MappedRow, Normalized, CaRow
<1>2. CASE fields.number = "blank"
  BY <1>1, <1>2 DEF CaRecord, CanonicalRecord
<1>3. CASE fields.number # "blank"
  <2>1. /\ record = [accepted |-> TRUE, number |-> record.number, status |-> record.status,
                    categories |-> record.categories, warnings |-> record.warnings,
                    columns |-> record.columns]
        /\ record.status = CaStatus(r, day) /\ record.warnings = CaWarnings(r, day)
        /\ record.categories = CaCategories(r)
    BY <1>3 DEF CaRecord, CanonicalRecord
  <2>2. PrivateColumns(record.columns)
    BY <1>3 DEF CaRecord, CanonicalRecord, PrivateColumns
  <2>3. /\ SoundStatus(record.status, date, day)
        /\ record.status.isCurrent = "yes" => NotEnded("CA", fields, record.status)
    <3> DEFINE phrase == fields.status
               chain == <<
            <<{"suspend"}, NotCurrent("suspended")>>,
            <<{"revok"}, NotCurrent("revoked")>>,
            <<{"expired"}, NotCurrent("expired")>>,
            <<{"inactive"}, NotCurrent("inactive")>>,
            <<{"active"} \cup (IF fields.status = {"clear"} THEN {"clear"} ELSE {}),
              IF IsPast(date, day) THEN NotCurrent("expired") ELSE Current("active")>> >>
    <3>1. /\ record.status = FirstMatch(phrase, chain, Undecided("unknown"))
          /\ DOMAIN chain = 1..5
      BY <2>1 DEF CaStatus
    <3>2. /\ chain[1] = <<{"suspend"}, NotCurrent("suspended")>>
          /\ chain[2] = <<{"revok"}, NotCurrent("revoked")>>
          /\ chain[3] = <<{"expired"}, NotCurrent("expired")>>
          /\ chain[4] = <<{"inactive"}, NotCurrent("inactive")>>
          /\ chain[5] = <<{"active"} \cup (IF fields.status = {"clear"} THEN {"clear"} ELSE {}),
              IF IsPast(date, day) THEN NotCurrent("expired") ELSE Current("active")>>
      OBVIOUS
    <3>3. /\ Mentions(Said("CA", fields), {"suspend", "revok"}) =>
                Mentions(phrase, {"suspend"}) \/ Mentions(phrase, {"revok"})
          /\ Mentions(Said("CA", fields), {"expired", "inactive"}) =>
                Mentions(phrase, {"inactive"}) \/ Mentions(phrase, {"expired"})
      BY DEF Said, Mentions
    <3> HIDE DEF phrase, chain, date, r, record
    <3>4. record.status =
            IF Mentions(phrase, chain[1][1]) THEN chain[1][2]
            ELSE IF Mentions(phrase, chain[2][1]) THEN chain[2][2]
            ELSE IF Mentions(phrase, chain[3][1]) THEN chain[3][2]
            ELSE IF Mentions(phrase, chain[4][1]) THEN chain[4][2]
            ELSE IF Mentions(phrase, chain[5][1]) THEN chain[5][2]
            ELSE Undecided("unknown")
      BY <3>1, ChainOf5
    <3>5. QED
      BY <3>2, <3>3, <3>4
         DEF SoundStatus, NotEnded, StatusRecord, Status, NotCurrent, Current, Undecided
  <2>4. /\ record.status.normalized = "unknown" =>
                "unknown_status" \in record.warnings
        /\ "unknown" \in record.categories => "unknown_classification" \in record.warnings
    BY <2>1 DEF CaWarnings, WarningsWhere
  <2>5. fields.expiry.form = "padded" => date = fields.expiry.day
    BY DEF Parsed, CaDateForms
  <2> HIDE DEF r, date, record
  <2>6. QED
    BY <1>1, <2>1, <2>2, <2>3, <2>4, <2>5 DEF GoodRecord, SoundStatus, WarnsOfUnknown
<1>4. QED
  BY <1>2, <1>3

LEMMA MnIsGood ==
    ASSUME NEW fields, NEW day
    PROVE  LET record == RecordOf("MN", fields, day) IN
           record = Rejected \/ GoodRecord("MN", fields, day, record)
<1> DEFINE r == [number |-> fields.number, status |-> fields.status, kind |-> fields.kind,
                 expirationDate |-> Parsed(fields.expiry, MnDateForms),
                 disciplineIndicator |-> MnEnforcement(fields.enforcement)]
           date == Parsed(fields.expiry, MnDateForms)
           record == MnRecord(r, day)
<1>1. RecordOf("MN", fields, day) \in {Rejected, record}
  BY DEF RecordOf, MappedRow, Normalized, MnRow
<1>2. CASE fields.number = "blank"
  BY <1>1, <1>2 DEF MnRecord, CanonicalRecord
<1>3. CASE fields.number # "blank"
  <2>1. /\ record = [accepted |-> TRUE, number |-> record.number, status |-> record.status,
                    categories |-> record.categories, warnings |-> record.warnings,
                    columns |-> record.columns]
        /\ record.status = MnStatus(r, day) /\ record.warnings = MnWarnings(r)
        /\ record.categories = {MnCategory(r)}
    BY <1>3 DEF MnRecord, CanonicalRecord
  <2>2. PrivateColumns(record.columns)
    BY <1>3 DEF MnRecord, CanonicalRecord, PrivateColumns
  <2>3. /\ SoundStatus(record.status, date, day)
        /\ record.status.isCurrent = "yes" => NotEnded("MN", fields, record.status)
    <3> DEFINE phrase == fields.status
               chain == <<
            <<{"suspend"}, NotCurrent("suspended")>>,
            <<{"revok"}, NotCurrent("revoked")>>,
            <<{"expired"}, NotCurrent("expired")>>,
            <<{"issued", "active"}, IF IsPast(date, day) THEN NotCurrent("expired")
                                        ELSE Current("active")>>,
            <<{"pending"}, Undecided("pending")>> >>
    <3>1. /\ record.status = FirstMatch(phrase, chain, Undecided("unknown"))
          /\ DOMAIN chain = 1..5
      BY <2>1 DEF MnStatus
    <3>2. /\ chain[1] = <<{"suspend"}, NotCurrent("suspended")>>
          /\ chain[2] = <<{"revok"}, NotCurrent("revoked")>>
          /\ chain[3] = <<{"expired"}, NotCurrent("expired")>>
          /\ chain[4] = <<{"issued", "active"}, IF IsPast(date, day) THEN NotCurrent("expired")
                                        ELSE Current("active")>>
          /\ chain[5] = <<{"pending"}, Undecided("pending")>>
      OBVIOUS
    <3>3. /\ Mentions(Said("MN", fields), {"suspend", "revok"}) =>
                Mentions(phrase, {"suspend"}) \/ Mentions(phrase, {"revok"})
          /\ Mentions(Said("MN", fields), {"expired", "inactive"}) => Mentions(phrase, {"expired"})
      BY DEF Said, Mentions
    <3> HIDE DEF phrase, chain, date, r, record
    <3>4. record.status =
            IF Mentions(phrase, chain[1][1]) THEN chain[1][2]
            ELSE IF Mentions(phrase, chain[2][1]) THEN chain[2][2]
            ELSE IF Mentions(phrase, chain[3][1]) THEN chain[3][2]
            ELSE IF Mentions(phrase, chain[4][1]) THEN chain[4][2]
            ELSE IF Mentions(phrase, chain[5][1]) THEN chain[5][2]
            ELSE Undecided("unknown")
      BY <3>1, ChainOf5
    <3>5. QED
      BY <3>2, <3>3, <3>4
         DEF SoundStatus, NotEnded, StatusRecord, Status, NotCurrent, Current, Undecided
  <2>4. /\ "unknown" \in record.categories => "unknown_license_type" \in record.warnings
    BY <2>1 DEF MnWarnings, WarningsWhere
  <2>5. fields.expiry.form = "padded" => date = fields.expiry.day
    BY DEF Parsed, MnDateForms
  <2> HIDE DEF r, date, record
  <2>6. QED
    BY <1>1, <2>1, <2>2, <2>3, <2>4, <2>5 DEF GoodRecord, SoundStatus, WarnsOfUnknown
<1>4. QED
  BY <1>2, <1>3

LEMMA WaIsGood ==
    ASSUME NEW fields, NEW day
    PROVE  LET record == RecordOf("WA", fields, day) IN
           record = Rejected \/ GoodRecord("WA", fields, day, record)
<1> DEFINE r == [number |-> fields.number, statusCode |-> fields.code, status |-> fields.status,
                 kind |-> fields.kind, expirationDate |-> Parsed(fields.expiry, WaDateForms)]
           date == Parsed(fields.expiry, WaDateForms)
           record == WaRecord(r, day)
<1>1. RecordOf("WA", fields, day) \in {Rejected, record}
  BY DEF RecordOf, MappedRow, Normalized, WaRow
<1>2. CASE fields.number = "blank"
  BY <1>1, <1>2 DEF WaRecord, CanonicalRecord
<1>3. CASE fields.number # "blank"
  <2>1. /\ record = [accepted |-> TRUE, number |-> record.number, status |-> record.status,
                    categories |-> record.categories, warnings |-> record.warnings,
                    columns |-> record.columns]
        /\ record.status = WaStatus(r, day) /\ record.warnings = WaWarnings(r, day)
        /\ record.categories = WaCategories(r)
    BY <1>3 DEF WaRecord, CanonicalRecord
  <2>2. PrivateColumns(record.columns)
    BY <1>3 DEF WaRecord, CanonicalRecord, PrivateColumns
  <2>3. /\ SoundStatus(record.status, date, day)
        /\ record.status.isCurrent = "yes" => NotEnded("WA", fields, record.status)
    <3> DEFINE phrase == WithPast(fields.status \cup {fields.code}, date, day)
               chain == <<
            <<{"S", "suspend"}, NotCurrent("suspended")>>,
            <<{"past"}, NotCurrent("expired")>>,
            <<{"A", "active"}, Current("active")>> >>
    <3>1. /\ record.status = FirstMatch(phrase, chain, Undecided("unknown"))
          /\ DOMAIN chain = 1..3
      BY <2>1 DEF WaStatus
    <3>2. /\ chain[1] = <<{"S", "suspend"}, NotCurrent("suspended")>>
          /\ chain[2] = <<{"past"}, NotCurrent("expired")>>
          /\ chain[3] = <<{"A", "active"}, Current("active")>>
      OBVIOUS
    <3>3. /\ IsPast(date, day) => Mentions(phrase, {"past"})
          /\ Mentions(Said("WA", fields), {"suspend", "revok"}) => Mentions(phrase, {"S", "suspend"})
          /\ ~Mentions(Said("WA", fields), {"expired", "inactive"})
      BY DEF Said, WithPast, Mentions
    <3> HIDE DEF phrase, chain, date, r, record
    <3>4. record.status =
            IF Mentions(phrase, chain[1][1]) THEN chain[1][2]
            ELSE IF Mentions(phrase, chain[2][1]) THEN chain[2][2]
            ELSE IF Mentions(phrase, chain[3][1]) THEN chain[3][2]
            ELSE Undecided("unknown")
      BY <3>1, ChainOf3
    <3>5. QED
      BY <3>2, <3>3, <3>4
         DEF SoundStatus, NotEnded, StatusRecord, Status, NotCurrent, Current, Undecided
  <2>4. /\ record.status.normalized = "unknown" =>
                "unknown_status" \in record.warnings
        /\ "unknown" \in record.categories => "unknown_specialty" \in record.warnings
    BY <2>1 DEF WaWarnings, WarningsWhere
  <2>5. fields.expiry.form = "padded" => date = fields.expiry.day
    BY DEF Parsed, WaDateForms
  <2> HIDE DEF r, date, record
  <2>6. QED
    BY <1>1, <2>1, <2>2, <2>3, <2>4, <2>5 DEF GoodRecord, SoundStatus, WarnsOfUnknown
<1>4. QED
  BY <1>2, <1>3

LEMMA FlCategoryIsKnown ==
    ASSUME NEW r, r.occupation \in FlOccupations
    PROVE  FlCategory(r) # "unknown"
<1> DEFINE chain == <<
        <<{"CJC"}, "asbestos">>, <<{"EC", "ER"}, "electrical">>,
        <<{"CGC", "RG"}, "general_contracting">>, <<{"CBC", "RB"}, "commercial_contracting">>,
        <<{"CRC", "RR"}, "residential_contracting">>, <<{"CCC", "RC"}, "roofing">>,
        <<{"CAC", "RA"}, "hvac">>, <<{"CFC", "RF"}, "plumbing">>,
        <<{"CMC", "RM"}, "mechanical">>, <<{"CVC", "RV"}, "solar">>,
        <<{"CPC", "RP"}, "pool_spa">>, <<{"CUC", "RU"}, "underground_utility">>,
        <<{"CSC", "RS"}, "sheet_metal">>, <<{"SCC", "RX"}, "other">> >>
           hits == {i \in DOMAIN chain : Mentions({r.occupation}, chain[i][1])}
           least == CHOOSE i \in hits : \A j \in hits : i <= j
<1>1. DOMAIN chain = 1..14
  OBVIOUS
<1>2. \A i \in DOMAIN chain : chain[i][2] # "unknown"
  OBVIOUS
<1>3. \E i \in DOMAIN chain : r.occupation \in chain[i][1]
  BY DEF FlOccupations
<1>4. FlCategory(r) = IF hits = {} THEN "unknown" ELSE chain[least][2]
  BY DEF FlCategory, FirstMatch
<1> HIDE DEF chain
<1>5. hits # {} /\ hits \subseteq Nat
  BY <1>1, <1>3 DEF Mentions
<1>6. least \in hits
  <2>1. \E i \in hits : \A j \in hits : i <= j
    <3> HIDE DEF hits
    <3>1. QED
      BY <1>5, LeastIndex
  <2> HIDE DEF hits
  <2>2. QED
    BY <2>1
<1>7. QED
  BY <1>2, <1>4, <1>5, <1>6

LEMMA FlIsGood ==
    ASSUME NEW fields, NEW day
    PROVE  LET record == RecordOf("FL", fields, day) IN
           record = Rejected \/ GoodRecord("FL", fields, day, record)
<1> DEFINE r == [number |-> fields.number,
                 alternate |-> IF fields.alternate = "plain" THEN "alternate" ELSE fields.number,
                 primary |-> fields.primary, secondary |-> fields.secondary,
                 occupation |-> fields.occupation,
                 expirationDate |-> Parsed(fields.expiry, FlDateForms)]
           date == Parsed(fields.expiry, FlDateForms)
           record == FlRecord(r, day)
<1>1. RecordOf("FL", fields, day) \in {Rejected, record}
  BY DEF RecordOf, MappedRow, Normalized, FlRow
<1>2. CASE (r.alternate # r.number /\ r.number = "blank") \/ r.alternate = "blank"
  <2> HIDE DEF r
  <2>1. QED
    BY <1>1, <1>2 DEF FlRecord, CanonicalRecord
<1>3. CASE ~ (r.alternate # r.number /\ r.number = "blank") /\ r.alternate # "blank"
  <2> HIDE DEF r
  <2>1. /\ record = [accepted |-> TRUE, number |-> record.number, status |-> record.status,
                    categories |-> record.categories, warnings |-> record.warnings,
                    columns |-> record.columns]
        /\ record.status = FlStatus(r, day) /\ record.warnings = FlWarnings(r)
        /\ record.categories = {FlCategory(r)}
    BY <1>3 DEF FlRecord, CanonicalRecord
  <2>2. PrivateColumns(record.columns)
    BY <1>3 DEF FlRecord, CanonicalRecord, PrivateColumns
  <2>3. r.expirationDate = date /\ r.primary = fields.primary /\ r.secondary = fields.secondary
    BY DEF r
  <2> HIDE DEF date, record
  <2>4. /\ SoundStatus(record.status, date, day)
        /\ record.status.isCurrent = "yes" => NotEnded("FL", fields, record.status)
    <3>1. /\ Mentions(Said("FL", fields), {"suspend", "revok"}) => fields.primary = "S"
          /\ Mentions(Said("FL", fields), {"expired", "inactive"}) => fields.secondary = "I"
          /\ fields.primary = "P" => "probation" \in Said("FL", fields)
      BY DEF Said, Mentions
    <3>2. QED
      BY <2>1, <2>3, <3>1 DEF FlStatus, SoundStatus, NotEnded, StatusRecord, Status, NotCurrent,
         Current, Undecided
  <2>5. record.status.normalized = "unknown" =>
            ~GivesStatus("FL", fields) \/ record.warnings # {}
    <3>1. ASSUME FlStatus(r, day).normalized = "unknown", r.primary # "", r.secondary # ""
          PROVE  r.primary \notin {"", "C", "P", "S"} \/ r.secondary \notin {"", "A", "I"}
      BY <3>1 DEF FlStatus, NotCurrent, Current, Undecided
    <3>2. /\ r.primary \notin {"", "C", "P", "S"} =>
                "unknown_primary_status_code" \in FlWarnings(r)
          /\ r.secondary \notin {"", "A", "I"} =>
                "unknown_secondary_status_code" \in FlWarnings(r)
      BY DEF FlWarnings, WarningsWhere
    <3>3. QED
      BY <2>1, <2>3, <3>1, <3>2 DEF GivesStatus
  <2>6. "unknown" \in record.categories => record.warnings # {}
    <3>1. r.occupation \notin FlOccupations => "unknown_occupation_code" \in FlWarnings(r)
      BY DEF FlWarnings, WarningsWhere
    <3>2. QED
      BY <2>1, <3>1, FlCategoryIsKnown
  <2>7. fields.expiry.form = "padded" => date = fields.expiry.day
    BY DEF Parsed, FlDateForms, date
  <2>8. QED
    BY <1>1, <2>1, <2>2, <2>4, <2>5, <2>6, <2>7 DEF GoodRecord, SoundStatus, WarnsOfUnknown
<1>4. QED
  BY <1>2, <1>3

LEMMA RecordsAreGood ==
    ASSUME NEW source \in AdapterName, NEW fields, NEW day
    PROVE  LET record == RecordOf(source, fields, day) IN
           record = Rejected \/ GoodRecord(source, fields, day, record)
<1>1. source \in {"AK", "AZ", "CA", "FL", "IL", "IN", "MN", "OR", "TX", "WA"}
  BY DEF AdapterName
<1>2. QED
  BY <1>1, AkIsGood, AzIsGood, CaIsGood, FlIsGood, IlIsGood, InIsGood, MnIsGood, OrIsGood,
     TxIsGood, WaIsGood

-----------------------------------------------------------------------------
(* The cached license.                                                     *)

\* An entry is what its import made of the row, but for what redactions have
\* emptied since, and it keeps the retention date of the import.
GoodEntry(e) ==
    LET full == RecordOf(adapter, e.fields, e.syncedOn) IN
    /\ e = [fields |-> e.fields, record |-> e.record, syncedOn |-> e.syncedOn,
            retainedUntil |-> e.retainedUntil, redacted |-> e.redacted, promised |-> e.promised]
    /\ full # Rejected
    /\ e.record = [accepted |-> TRUE, number |-> e.record.number, status |-> full.status,
                   categories |-> full.categories, warnings |-> full.warnings,
                   columns |-> e.record.columns]
    /\ DOMAIN e.record.columns = DOMAIN full.columns
    /\ \A c \in DOMAIN full.columns :
            e.record.columns[c] = IF c \in Cleared(e.redacted) THEN {} ELSE full.columns[c]
    /\ e.syncedOn \in Day /\ e.redacted \subseteq Setting
    /\ e.retainedUntil \in Retention /\ e.promised = e.retainedUntil

LicenseInv ==
    /\ adapter \in AdapterName /\ today \in Day
    /\ \A e \in cached : GoodEntry(e)

LEMMA ImportIsGood ==
    ASSUME LicenseInv, NEW retainedUntil \in Retention, Import(retainedUntil)
    PROVE  LicenseInv'
<1> DEFINE record == RecordOf(adapter, row, today)
           e == Stored(row, record, retainedUntil)
<1>1. /\ record # Rejected /\ adapter' = adapter /\ today' = today
      /\ cached' \subseteq cached \cup {e}
  BY DEF Import, Upserted
<1>2. GoodRecord(adapter, row, today, record)
  BY <1>1, RecordsAreGood DEF LicenseInv
<1>3. record = [accepted |-> TRUE, number |-> record.number, status |-> record.status,
                categories |-> record.categories, warnings |-> record.warnings,
                columns |-> record.columns]
  BY <1>2 DEF GoodRecord
<1>4. e = [fields |-> row, record |-> record, syncedOn |-> today, retainedUntil |-> retainedUntil,
           redacted |-> {}, promised |-> retainedUntil]
  BY DEF Stored
<1>5. Cleared({}) = {}
  BY DEF Cleared
<1> HIDE DEF e
<1>6. /\ e = [fields |-> e.fields, record |-> e.record, syncedOn |-> e.syncedOn,
              retainedUntil |-> e.retainedUntil, redacted |-> e.redacted,
              promised |-> e.promised]
      /\ e.fields = row /\ e.record = record /\ e.syncedOn = today /\ e.redacted = {}
      /\ e.retainedUntil = retainedUntil /\ e.promised = retainedUntil
  BY <1>4
<1>7. RecordOf(adapter, e.fields, e.syncedOn) = record
  BY <1>6
<1> HIDE DEF record
<1>8. GoodEntry(e)
  BY <1>1, <1>3, <1>5, <1>6, <1>7 DEF GoodEntry, LicenseInv
<1>9. \A d : GoodEntry(d) => GoodEntry(d)'
  BY <1>1 DEF GoodEntry
<1> HIDE DEF GoodEntry
<1>10. QED
  BY <1>1, <1>8, <1>9 DEF LicenseInv

LEMMA ClearedTwice ==
    ASSUME NEW A, NEW B
    PROVE  Cleared(A \cup B) = Cleared(A) \cup Cleared(B)
BY DEF Cleared

LEMMA RedactedIsGood ==
    ASSUME NEW e, GoodEntry(e), NEW settings \in SUBSET Setting
    PROVE  GoodEntry(Redacted(e, settings)) /\ Redacted(e, settings).fields = e.fields
<1> DEFINE old == e.record.columns
           columns == [c \in DOMAIN old |-> IF c \in Cleared(settings) THEN {} ELSE old[c]]
           redacted == e.redacted \cup settings
           record == [e.record EXCEPT !.columns = columns]
           d == [e EXCEPT !.record = record, !.redacted = redacted]
           full == RecordOf(adapter, e.fields, e.syncedOn)
<1>1. Redacted(e, settings) = d
  BY DEF Redacted
<1>2. /\ DOMAIN columns = DOMAIN full.columns
      /\ \A c \in DOMAIN full.columns :
            columns[c] = IF c \in Cleared(redacted) THEN {} ELSE full.columns[c]
  <2>1. Cleared(redacted) = Cleared(e.redacted) \cup Cleared(settings)
    BY ClearedTwice
  <2> HIDE DEF redacted
  <2>2. QED
    BY <2>1 DEF GoodEntry
<1>3. redacted \subseteq Setting
  BY DEF GoodEntry
<1> HIDE DEF columns, redacted
<1>4. record = [accepted |-> TRUE, number |-> record.number, status |-> full.status,
                categories |-> full.categories, warnings |-> full.warnings,
                columns |-> columns]
  <2> DEFINE written == e.record
             number == e.record.number
             status == full.status
             categories == full.categories
             warnings == full.warnings
             new == [written EXCEPT !.columns = columns]
  <2>1. written = [accepted |-> TRUE, number |-> number, status |-> status,
                   categories |-> categories, warnings |-> warnings, columns |-> old]
    BY DEF GoodEntry
  <2> HIDE DEF written, number, status, categories, warnings, old
  <2>2. written \in [accepted : {TRUE}, number : {number}, status : {status},
                     categories : {categories}, warnings : {warnings}, columns : {old}]
    BY <2>1
  <2>3. new \in [accepted : {TRUE}, number : {number}, status : {status},
                 categories : {categories}, warnings : {warnings}, columns : {columns}]
    BY <2>2
  <2> HIDE DEF new
  <2>4. /\ new = [accepted |-> TRUE, number |-> number, status |-> status,
                  categories |-> categories, warnings |-> warnings, columns |-> columns]
        /\ new.number = number
    BY <2>3
  <2>5. new = record
    BY Zenon DEF new, written
  <2> HIDE DEF record
  <2>6. QED
    BY <2>4, <2>5, Zenon DEF status, categories, warnings
<1> HIDE DEF record
<1>5. /\ d = [fields |-> d.fields, record |-> d.record, syncedOn |-> d.syncedOn,
              retainedUntil |-> d.retainedUntil, redacted |-> d.redacted,
              promised |-> d.promised]
      /\ d.fields = e.fields /\ d.record = record /\ d.syncedOn = e.syncedOn
      /\ d.retainedUntil = e.retainedUntil /\ d.redacted = redacted /\ d.promised = e.promised
  <2> DEFINE fields == e.fields
             syncedOn == e.syncedOn
             retainedUntil == e.retainedUntil
             before == [record |-> e.record, redacted |-> e.redacted]
             promised == e.promised
  <2>1. e = [fields |-> fields, record |-> before.record, syncedOn |-> syncedOn,
             retainedUntil |-> retainedUntil, redacted |-> before.redacted,
             promised |-> promised]
    BY DEF GoodEntry
  <2> HIDE DEF fields, syncedOn, retainedUntil, before, promised
  <2>2. e \in [fields : {fields}, record : {before.record}, syncedOn : {syncedOn},
               retainedUntil : {retainedUntil}, redacted : {before.redacted},
               promised : {promised}]
    BY <2>1
  <2>3. d \in [fields : {fields}, record : {record}, syncedOn : {syncedOn},
               retainedUntil : {retainedUntil}, redacted : {redacted}, promised : {promised}]
    BY <2>2
  <2> HIDE DEF d
  <2>4. QED
    BY <2>3 DEF fields, syncedOn, retainedUntil, promised
<1> HIDE DEF d
<1>6. RecordOf(adapter, d.fields, d.syncedOn) = full
  BY <1>5
<1> HIDE DEF full
<1>7. record.columns = columns
  BY <1>4
<1>8. full # Rejected /\ e.syncedOn \in Day /\ e.retainedUntil \in Retention
      /\ e.promised = e.retainedUntil
  BY DEF GoodEntry, full
<1>9. GoodEntry(d)
  BY <1>2, <1>3, <1>4, <1>5, <1>6, <1>7, <1>8 DEF GoodEntry
<1>10. QED
  BY <1>1, <1>5, <1>9

LEMMA RedactIsGood ==
    ASSUME LicenseInv, NEW settings \in Redaction, Redact(settings)
    PROVE  LicenseInv'
<1>1. /\ adapter' = adapter /\ today' = today /\ settings \in SUBSET Setting
      /\ \A d \in cached' : \E e \in cached : d \in {e, Redacted(e, settings)}
  BY RedactionAssumption DEF Redact
<1>2. \A d \in cached' : GoodEntry(d)
  BY <1>1, RedactedIsGood DEF LicenseInv
<1>3. QED
  BY <1>1, <1>2 DEF LicenseInv, GoodEntry

\* Whatever the rows say and whatever is imported, redacted and pruned, every
\* entry of the cache stays true to its import.
THEOREM LicenseIsInductive == LicenseSpec => []LicenseInv
<1>1. LicenseInit => LicenseInv
  BY LastDayAssumption DEF LicenseInit, LicenseInv, Day
<1>2. LicenseInv /\ [LicenseNext]_licenseVars => LicenseInv'
  <2> SUFFICES ASSUME LicenseInv, [LicenseNext]_licenseVars PROVE LicenseInv'
    OBVIOUS
  <2>1. CASE SourceChanges
    BY <2>1 DEF SourceChanges, LicenseInv, GoodEntry
  <2>2. CASE NextDay
    BY <2>2, LastDayAssumption DEF NextDay, LicenseInv, GoodEntry, Day
  <2>3. CASE Prune
    BY <2>3 DEF Prune, LicenseInv, GoodEntry
  <2>4. CASE UNCHANGED licenseVars
    BY <2>4 DEF licenseVars, LicenseInv, GoodEntry
  <2>5. QED
    BY <2>1, <2>2, <2>3, <2>4, ImportIsGood, RedactIsGood DEF LicenseNext
<1>3. QED
  BY <1>1, <1>2, PTL DEF LicenseSpec

\* What the cache holds of a license has its types.
THEOREM LicenseTypes == LicenseSpec => []LicenseTypeOK
<1>1. ASSUME LicenseInv, NEW e \in cached
      PROVE  /\ e.record.accepted /\ e.record.status.normalized \in Status
             /\ e.record.status.isCurrent \in {"yes", "no", "unknown"}
             /\ e.syncedOn \in Day /\ e.redacted \subseteq Setting
             /\ {e.retainedUntil, e.promised} \subseteq Retention
  <2> DEFINE full == RecordOf(adapter, e.fields, e.syncedOn)
  <2>1. GoodEntry(e) /\ full # Rejected
    BY <1>1 DEF LicenseInv, GoodEntry
  <2>2. full.status \in StatusRecord
    BY <1>1, <2>1, RecordsAreGood DEF LicenseInv, GoodRecord
  <2>3. e.record.accepted /\ e.record.status = full.status
    BY <2>1 DEF GoodEntry
  <2>4. QED
    BY <2>1, <2>2, <2>3 DEF GoodEntry, StatusRecord
<1>2. LicenseInv => LicenseTypeOK
  BY <1>1 DEF LicenseInv, LicenseTypeOK
<1>3. QED
  BY <1>2, LicenseIsInductive, PTL

\* What was redacted stays hidden until the next import of the row, in whatever
\* fields of the record its columns went.
THEOREM RedactionHides == LicenseSpec => []RedactedIsHidden
<1>1. ASSUME LicenseInv, NEW e \in cached
      PROVE  LET full == RecordOf(adapter, e.fields, e.syncedOn).columns
                 asked == Cleared(e.redacted) \cap {"phone", "line1", "line2"}
             IN  \A c \in asked \cap DOMAIN full, d \in DOMAIN e.record.columns :
                    full[c] \cap e.record.columns[d] = {}
  <2> DEFINE full == RecordOf(adapter, e.fields, e.syncedOn).columns
  <2>1. PrivateColumns(full)
    BY <1>1, RecordsAreGood DEF LicenseInv, GoodEntry, GoodRecord
  <2>2. /\ DOMAIN e.record.columns = DOMAIN full
        /\ \A c \in DOMAIN full :
              e.record.columns[c] = IF c \in Cleared(e.redacted) THEN {} ELSE full[c]
    BY <1>1 DEF LicenseInv, GoodEntry
  <2>3. /\ "phone" \in Cleared(e.redacted) => "raw" \in Cleared(e.redacted)
        /\ "line1" \in Cleared(e.redacted) \/ "line2" \in Cleared(e.redacted) =>
                {"line1", "line2", "addressRaw", "raw"} \subseteq Cleared(e.redacted)
    BY DEF Cleared
  <2> HIDE DEF full
  <2>4. ASSUME NEW c \in Cleared(e.redacted) \cap {"phone", "line1", "line2"}, c \in DOMAIN full,
               NEW d \in DOMAIN full, d \notin Cleared(e.redacted)
        PROVE  full[c] \cap full[d] = {}
    <3>1. CASE c = "phone"
      BY <2>1, <2>3, <2>4, <3>1 DEF PrivateColumns
    <3>2. CASE c \in {"line1", "line2"}
      BY <2>1, <2>3, <2>4, <3>2 DEF PrivateColumns
    <3>3. QED
      BY <2>4, <3>1, <3>2
  <2>5. ASSUME NEW c \in Cleared(e.redacted) \cap {"phone", "line1", "line2"}, c \in DOMAIN full,
               NEW d \in DOMAIN e.record.columns
        PROVE  full[c] \cap e.record.columns[d] = {}
    BY <2>2, <2>4, <2>5
  <2>6. QED
    BY <2>5 DEF full
<1>2. LicenseInv => RedactedIsHidden
  BY <1>1 DEF RedactedIsHidden
<1>3. QED
  BY <1>2, LicenseIsInductive, PTL

\* No import, redaction or other version of the row delays what retention
\* promised: a prune past the date of the last import removes the record.
THEOREM PrunesKeepPromises == LicenseSpec => PruningKeepsPromises
<1>1. LicenseInv /\ Prune => \A e \in cached' : e.promised = NoDate \/ e.promised >= today
  BY DEF LicenseInv, GoodEntry, Prune
<1>2. QED
  BY <1>1, LicenseIsInductive, PTL DEF PruningKeepsPromises

\* Whatever its row says and whenever it was synced: a record is current only
\* if the row, read for the words its adapter looks for, and its expiration
\* date do not say otherwise, or say probation as well; and what the adapter
\* cannot place is warned of, statuses of Indiana and Minnesota and blank codes
\* of Florida excepted.
THEOREM StatusesFollowSource == LicenseSpec => []StatusFollowsSource
<1>1. ASSUME LicenseInv, NEW e \in cached
      PROVE  LET status == e.record.status
                 said == Said(adapter, e.fields)
                 past == IsPast(e.fields.expiry.day, e.syncedOn) /\ e.fields.expiry.form = "padded"
             IN
             /\ status.isCurrent = "yes" =>
                /\ ~Mentions(said, {"suspend", "revok"})
                /\ past \/ Mentions(said, {"expired", "inactive"}) =>
                        status.normalized = "probation" /\ "probation" \in said
             /\ status.normalized = "unknown" =>
                \/ e.record.warnings # {}
                \/ adapter \in {"IN", "MN"}
                \/ adapter = "FL" /\ ~GivesStatus(adapter, e.fields)
             /\ "unknown" \in e.record.categories => e.record.warnings # {}
  <2> DEFINE full == RecordOf(adapter, e.fields, e.syncedOn)
  <2>1. GoodRecord(adapter, e.fields, e.syncedOn, full)
    BY <1>1, RecordsAreGood DEF LicenseInv, GoodEntry
  <2>2. /\ e.record.status = full.status /\ e.record.categories = full.categories
        /\ e.record.warnings = full.warnings
    <3>1. e.record = [accepted |-> TRUE, number |-> e.record.number, status |-> full.status,
                      categories |-> full.categories, warnings |-> full.warnings,
                      columns |-> e.record.columns]
      BY <1>1 DEF LicenseInv, GoodEntry
    <3> HIDE DEF full
    <3>2. QED
      BY <3>1
  <2> HIDE DEF full
  <2>3. QED
    BY <2>1, <2>2 DEF GoodRecord, NotEnded, WarnsOfUnknown
<1>2. LicenseInv => StatusFollowsSource
  BY <1>1 DEF StatusFollowsSource
<1>3. QED
  BY <1>2, LicenseIsInductive, PTL

-----------------------------------------------------------------------------
(* The registry.                                                           *)

\* Its parts keep no state in common: whatever happens is a behaviour of
\* syncs and of downloads, and of one more part if it is that part's turn.
THEOREM RegistryImplementsItsParts ==
    Spec => /\ SyncSpec /\ DownloadSpec
            /\ part = "license" => LicenseSpec
            /\ part = "stream" => StreamSpec
            /\ part = "lookup" => LookupSpec
<1> DEFINE vars == <<part, syncVars, licenseVars, streamVars, downloadVars, lookupVars>>
<1>1. Init => /\ SyncInit /\ DownloadInit
              /\ part = "license" => LicenseInit
              /\ part = "stream" => StreamInit
              /\ part = "lookup" => LookupInit
  BY DEF Init
<1>2. [Next]_vars => /\ [SyncNext]_syncVars /\ [DownloadNext]_downloadVars
                     /\ [LicenseNext]_licenseVars /\ [StreamNext]_streamVars
                     /\ [LookupNext]_lookupVars
  BY DEF Next
<1>3. QED
  BY <1>1, <1>2, PTL DEF Spec, SyncSpec, DownloadSpec, LicenseSpec, StreamSpec, LookupSpec

LEMMA RestingHasTypes ==
    /\ LicenseRests => LicenseTypeOK
    /\ StreamRests => StreamTypeOK
    /\ LookupRests /\ <<>> \in SourceFile => LookupTypeOK
<1>1. LicenseRests => LicenseTypeOK
  BY LastDayAssumption DEF LicenseRests, LicenseTypeOK, AdapterName, Day
<1>2. "csv" \in Format
  <2>1. AzAdapter \in Adapters /\ AzAdapter.stream.header # "none"
    BY DEF Adapters, AzAdapter, AzStream
  <2>2. "csv" \in Formats(AzAdapter.stream)
    BY <2>1 DEF Formats
  <2>3. QED
    BY <2>1, <2>2 DEF Format
<1>3. StreamRests => StreamTypeOK
  <2> SUFFICES ASSUME StreamRests PROVE StreamTypeOK
    OBVIOUS
  <2>1. /\ text = <<>> /\ taken = <<>> /\ reported = <<>>
        /\ format = "csv" /\ {strict, limited} \subseteq BOOLEAN /\ read.pc = "reading"
    BY DEF StreamRests, NewRead
  <2>2. <<>> \in Seq(Nat) /\ Len(<<>>) = 0
    OBVIOUS
  <2>3. \A seq \in Seq(Nat) : seq \in [DOMAIN seq -> Nat]
    OBVIOUS
  <2>4. {taken, reported} \subseteq [DOMAIN text -> Nat]
    BY <2>1, <2>2, <2>3, Zenon
  <2>5. QED
    BY <1>2, <2>1, <2>4 DEF StreamTypeOK
<1>4. LookupRests /\ <<>> \in SourceFile => LookupTypeOK
  BY DEF LookupRests, LookupTypeOK
<1>5. QED
  BY <1>1, <1>3, <1>4

\* Whichever part moves, the state of each has its types, if a published file
\* may have no lines.
THEOREM RegistryTypeCorrect ==
    ASSUME <<>> \in SourceFile
    PROVE  Spec => []TypeOK
<1> DEFINE vars == <<part, syncVars, licenseVars, streamVars, downloadVars, lookupVars>>
           AtRest == /\ part # "license" => LicenseRests
                     /\ part # "stream" => StreamRests
                     /\ part # "lookup" => LookupRests
<1>1. Init => AtRest
  BY DEF Init
<1>2. AtRest /\ [Next]_vars => AtRest'
  <2> SUFFICES ASSUME AtRest, [Next]_vars PROVE AtRest'
    OBVIOUS
  <2>1. part' = part
    BY DEF Next
  <2>2. part # "license" => UNCHANGED licenseVars
    BY DEF Next
  <2>3. part # "stream" => UNCHANGED streamVars
    BY DEF Next
  <2>4. part # "lookup" => UNCHANGED lookupVars
    BY DEF Next
  <2>5. part # "license" => LicenseRests'
    BY <2>2 DEF LicenseRests, licenseVars
  <2>6. part # "stream" => StreamRests'
    <3> SUFFICES ASSUME part # "stream" PROVE StreamRests'
      OBVIOUS
    <3>1. StreamRests /\ format' = format /\ text' = text /\ strict' = strict /\ limited' = limited
          /\ read' = read /\ taken' = taken /\ reported' = reported
      BY <2>3 DEF streamVars, textVars
    <3>2. NewRead(0)' = NewRead(0)
      BY <3>1 DEF NewRead
    <3>3. QED
      BY <3>1, <3>2 DEF StreamRests
  <2>7. part # "lookup" => LookupRests'
    BY <2>4 DEF LookupRests, lookupVars
  <2>8. QED
    BY <2>1, <2>5, <2>6, <2>7
<1>3. ASSUME SyncTypeOK, DownloadTypeOK, AtRest,
             part = "license" => LicenseTypeOK,
             part = "stream" => StreamTypeOK,
             part = "lookup" => LookupTypeOK
      PROVE  TypeOK
  BY <1>3, RestingHasTypes DEF TypeOK
<1>4. [Next]_vars => /\ (part = "license")' <=> part = "license"
                     /\ (part = "stream")' <=> part = "stream"
                     /\ (part = "lookup")' <=> part = "lookup"
  BY DEF Next
<1>5. Spec => Init /\ [][Next]_vars
  BY DEF Spec
<1> HIDE DEF AtRest, vars
<1>6. QED
  BY <1>1, <1>2, <1>3, <1>4, <1>5, RegistryImplementsItsParts, SyncTypes, DownloadTypes,
     LicenseTypes, StreamTypes, LookupTypes, PTL

=============================================================================
