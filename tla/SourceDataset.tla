---------------------------- MODULE SourceDataset ----------------------------
(***************************************************************************)
(* What the promotion of an import promises to the readers of              *)
(* current_records and record_changes (docs/ingestion.md, Lifecycle 4-6):  *)
(* the dataset of a source is replaced in one step by the records of one   *)
(* manifest, a manifest is published at most once, and the change feed     *)
(* gains exactly the difference between the two datasets.  Step 6 of the   *)
(* lifecycle also names the health of the source, which is not modelled:   *)
(* no code writes the table source_health.                                 *)
(***************************************************************************)
CONSTANTS Source, Manifest, Key, Fingerprint, Absent, SourceOf

VARIABLES
    dataset,    \* per source and key, the fingerprint readers see, or Absent
    published,  \* the manifests that were promoted
    feed        \* the change records, one per changed key of a manifest

abstractVars == <<dataset, published, feed>>

Init ==
    /\ dataset = [s \in Source |-> [k \in Key |-> Absent]]
    /\ published = {}
    /\ feed = {}

Difference(old, new) ==
    IF old = Absent THEN "added" ELSE IF new = Absent THEN "removed" ELSE "changed"

Publish(m, content) ==
    LET old == dataset[SourceOf[m]] IN
    /\ m \notin published
    /\ dataset' = [dataset EXCEPT ![SourceOf[m]] = content]
    /\ published' = published \cup {m}
    /\ feed' = feed \cup
          {[manifest |-> m, key |-> k, type |-> Difference(old[k], content[k])] :
              k \in {x \in Key : old[x] # content[x]}}

Next ==
    \E m \in Manifest, content \in [Key -> Fingerprint \cup {Absent}] :
        Publish(m, content)

Spec == Init /\ [][Next]_abstractVars

=============================================================================
