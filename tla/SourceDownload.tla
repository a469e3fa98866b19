--------------------------- MODULE SourceDownload ---------------------------
(***************************************************************************)
(* The download of an official source file to a temporary directory, by    *)
(* the registry or by the command line, until the caller is done with the  *)
(* file: downloadOfficialSource, the archive and the snapshot resolvers of *)
(* packages/registry, and import/network.ts of packages/cli.  The command  *)
(* line also reads a file of the user's, and what its sync does with the   *)
(* file may end in an output file (import/export.ts).                      *)
(*                                                                         *)
(* Servers answer anything at any time; the caller's signal or the timeout *)
(* may end a download at any await.  A process that is killed leaves its   *)
(* directories behind and is left out.                                     *)
(***************************************************************************)
EXTENDS Integers, Sequences

CONSTANTS
    Host,          \* names of servers, with Loopback
    Declared,      \* hosts of the URLs in the metadata of the source
    Loopback,
    MaxRedirects,
    MaxBytes

ASSUME HostAssumption == Declared \subseteq Host /\ Loopback \in Host \ Declared
ASSUME LimitsAssumption == MaxRedirects \in Nat /\ MaxBytes \in Nat

Url == [scheme : {"https", "http"}, host : Host, credentials : BOOLEAN]
Resolver == {"direct", "page", "none"}

VARIABLES
    download,     \* the call in progress, with its local variables
    directories,  \* temporary directories on disk, "export" the temporary file
    contacted,    \* history: the URLs requested in this call
    output        \* the output file: as before this call, or its records

downloadVars == <<download, directories, contacted, output>>

NoDownload == [pc |-> "idle"]

DownloadInit ==
    /\ download = NoDownload
    /\ directories = {}
    /\ contacted = {}
    /\ output = "previous"

InStep(pc) == download.pc = pc

\* Rejected, after what the catch blocks and finally clauses remove.
Reject(kept) ==
    /\ download' = [download EXCEPT !.pc = "rejected"]
    /\ directories' = kept
    /\ UNCHANGED <<contacted, output>>

\* The command line allows a loopback host nothing but itself, and refuses
\* other hosts before it downloads.
AllowedHosts(caller, requested) ==
    IF requested.host # Loopback THEN Declared
    ELSE IF caller = "cli" THEN {Loopback} ELSE Declared \cup {Loopback}

ValidUrl(url, hosts) ==
    /\ url.scheme = "https" \/ url.host = Loopback
    /\ url.host \in hosts
    /\ ~url.credentials

\* A call whose first URL is refused creates no directory.
StartDownload(caller, requested, discovered) ==
    LET hosts == AllowedHosts(caller, requested)
        valid == ValidUrl(requested, hosts)
    IN
    /\ download.pc \in {"idle", "closed", "rejected"}
    /\ download' = [pc |-> IF valid THEN "requesting" ELSE "rejected", caller |-> caller,
                    requested |-> requested, url |-> requested, hosts |-> hosts,
                    redirects |-> 0, zip |-> FALSE, bytes |-> 0]
    /\ directories' = IF valid THEN {"download"} ELSE {}
    /\ contacted' = IF valid THEN discovered \cup {requested} ELSE discovered
    /\ output' = "previous"

\* Sources resolve to their own host: to their URL, to an export of it, or to a
\* link on that page with the same host, which is fetched first.
OfficialUrl(host) == [scheme |-> "https", host |-> host, credentials |-> FALSE]

ResolveDownload(caller, host, resolver) ==
    LET url == OfficialUrl(host) IN
    /\ resolver # "none"
    /\ StartDownload(caller, url, IF resolver = "page" THEN {url} ELSE {})

\* The page cannot be fetched, is too large or has no link, or the source has no
\* resolver.
ResolutionFails(caller, host, resolver) ==
    /\ resolver \in {"page", "none"}
    /\ download.pc \in {"idle", "closed", "rejected"}
    /\ download' = [pc |-> "rejected"]
    /\ directories' = {}
    /\ contacted' = IF resolver = "page" THEN {OfficialUrl(host)} ELSE {}
    /\ output' = "previous"

\* The command line is given a file.
ReadLocalFile ==
    /\ download.pc \in {"idle", "closed", "rejected"}
    /\ download' = [pc |-> "consuming", caller |-> "cli", zip |-> FALSE]
    /\ directories' = {} /\ contacted' = {} /\ output' = "previous"

\* At any await: the timeout, the signal or the network; a status other than
\* success, a redirect too many or without location, a declared length over the
\* limit.
DownloadFails ==
    /\ download.pc \in {"requesting", "receiving"}
    /\ Reject({})

FaultyFollowRedirect(url) ==
    /\ InStep("requesting") /\ download.redirects < MaxRedirects
    /\ IF url.scheme = "https" \/ url.host = Loopback
       THEN /\ download' = [download EXCEPT !.url = url, !.redirects = @ + 1]
            /\ contacted' = contacted \cup {url}
            /\ UNCHANGED <<directories, output>>
       ELSE Reject({})

\* Every location is validated before it is requested.
FollowRedirect(url) ==
    /\ InStep("requesting") /\ download.redirects < MaxRedirects
    /\ IF ValidUrl(url, download.hosts)
       THEN /\ download' = [download EXCEPT !.url = url, !.redirects = @ + 1]
            /\ contacted' = contacted \cup {url}
            /\ UNCHANGED <<directories, output>>
       ELSE Reject({})

\* A body whose declared length, if any, is not over the limit.
AcceptAnswer(zip) ==
    /\ InStep("requesting")
    /\ download' = [download EXCEPT !.pc = "receiving", !.zip = zip]
    /\ UNCHANGED <<directories, contacted, output>>

\* A chunk is written unless it goes over the limit.
ReceiveChunk ==
    /\ InStep("receiving")
    /\ IF download.bytes + 1 > MaxBytes THEN Reject({})
       ELSE /\ download' = [download EXCEPT !.bytes = @ + 1]
            /\ UNCHANGED <<directories, contacted, output>>

\* Only the command line opens archives.
EndOfBody ==
    /\ InStep("receiving")
    /\ download' = [download EXCEPT
          !.pc = IF download.zip /\ download.caller = "cli" THEN "inspecting" ELSE "consuming"]
    /\ UNCHANGED <<directories, contacted, output>>

InspectArchive ==
    /\ InStep("inspecting")
    /\ download' = [download EXCEPT !.pc = "extracting"]
    /\ directories' = directories \cup {"extracted"}
    /\ UNCHANGED <<contacted, output>>

ExtractEntry ==
    /\ InStep("extracting")
    /\ download' = [download EXCEPT !.pc = "consuming"]
    /\ UNCHANGED <<directories, contacted, output>>

FaultyArchiveFails ==
    /\ download.pc \in {"inspecting", "extracting"}
    /\ Reject(directories \ {"extracted"})

\* A limit, an unsafe path, no single table, an entry that cannot be read: the
\* extraction removes its directory, and the command line the other.
ArchiveFails ==
    /\ download.pc \in {"inspecting", "extracting"}
    /\ Reject(directories \ {"extracted", "download"})

\* A sync is completed and the command has an output path.
WriteExport ==
    /\ InStep("consuming") /\ download.caller = "cli"
    /\ download' = [download EXCEPT !.pc = "exporting"]
    /\ directories' = directories \cup {"export"}
    /\ UNCHANGED <<contacted, output>>

RenameExport ==
    /\ InStep("exporting")
    /\ download' = [download EXCEPT !.pc = "exported"]
    /\ directories' = directories \ {"export"}
    /\ output' = "records"
    /\ UNCHANGED contacted

\* The file is written in part, or cannot be renamed.
ExportFails ==
    /\ InStep("exporting")
    /\ download' = [download EXCEPT !.pc = "failed"]
    /\ directories' = directories \ {"export"}
    /\ UNCHANGED <<contacted, output>>

\* The sync fails, or a verification throws.
ConsumptionFails ==
    /\ InStep("consuming")
    /\ download' = [download EXCEPT !.pc = "failed"]
    /\ UNCHANGED <<directories, contacted, output>>

\* cleanup() of the finally clause, whether the call returns or throws.
CloseDownload ==
    /\ download.pc \in {"consuming", "exported", "failed"}
    /\ download' = [download EXCEPT !.pc = IF InStep("failed") THEN "rejected" ELSE "closed"]
    /\ directories' = directories \ {"download", "extracted"}
    /\ UNCHANGED <<contacted, output>>

DownloadNext ==
    \/ \E caller \in {"registry", "cli"} :
        \/ \E url \in Url : StartDownload(caller, url, {})
        \/ \E host \in Declared, resolver \in Resolver :
            ResolveDownload(caller, host, resolver) \/ ResolutionFails(caller, host, resolver)
    \/ \E url \in Url : FollowRedirect(url)
    \/ \E zip \in BOOLEAN : AcceptAnswer(zip)
    \/ DownloadFails \/ ReceiveChunk \/ EndOfBody \/ InspectArchive
    \/ ExtractEntry \/ ArchiveFails \/ ReadLocalFile
    \/ WriteExport \/ RenameExport \/ ExportFails \/ ConsumptionFails \/ CloseDownload

DownloadSpec == DownloadInit /\ [][DownloadNext]_downloadVars

-----------------------------------------------------------------------------
(* Properties.                                                             *)

DownloadTypeOK ==
    /\ download.pc \in {"idle", "requesting", "receiving", "inspecting", "extracting",
                        "consuming", "exporting", "exported", "failed", "closed", "rejected"}
    /\ directories \subseteq {"download", "extracted", "export"} /\ contacted \subseteq Url
    /\ output \in {"previous", "records"}
    /\ download.pc = "receiving" => download.bytes <= MaxBytes /\ download.redirects <= MaxRedirects

\* Whatever servers answer, nothing is fetched from a host the source does not
\* declare, except from the loopback host if that is what the caller asked for;
\* without https only there, and never with credentials.
OnlyDeclaredHosts ==
    \A url \in contacted :
        /\ url.host \in Declared \/ (url.host = Loopback /\ download.requested.host = Loopback)
        /\ url.scheme = "https" \/ url.host = Loopback
        /\ ~url.credentials

\* The file is there while the caller reads it.  When a call has ended, with
\* whatever result, neither a directory of it is left nor a temporary export;
\* and a call that throws leaves the output file as it was.
NothingIsLeftBehind ==
    /\ InStep("consuming") =>
        directories = IF contacted = {} THEN {}
                      ELSE IF download.zip /\ download.caller = "cli"
                      THEN {"download", "extracted"} ELSE {"download"}
    /\ download.pc \in {"idle", "closed", "rejected"} => directories = {}
    /\ download.pc \in {"failed", "rejected"} => output = "previous"

=============================================================================
