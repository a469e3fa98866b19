----------------------------- MODULE MCPromotion -----------------------------
(* Three imports of two keys of one source, promoted by two connections:    *)
(* every mix of added, changed, unchanged and removed keys, twice in a row. *)
EXTENDS Promotion, TLC

CONSTANTS m1, m2, m3, s1, k1, k2, f1, f2, b1, b2

MCManifest == {m1, m2, m3}
MCSource == {s1}
MCKey == {k1, k2}
MCFingerprint == {f1, f2}
MCBackend == {b1, b2}
MCSourceOf == (m1 :> s1) @@ (m2 :> s1) @@ (m3 :> s1)

\* Manifests are named in the order they are created, keys in the order the
\* first of them stages them, and fingerprints, which are only compared within
\* a key, so that it stages f1: every behaviour is one of these up to names.
MCCanonical ==
    /\ manifestStatus[m1] = "absent" => manifestStatus[m2] = "absent"
    /\ manifestStatus[m2] = "absent" => manifestStatus[m3] = "absent"
    /\ staged[m1][k1] = Absent => staged[m1][k2] = Absent
    /\ f2 \notin {staged[m1][k] : k \in Key}

=============================================================================
