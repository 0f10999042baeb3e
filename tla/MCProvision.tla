----------------------------- MODULE MCProvision -----------------------------
(***************************************************************************)
(* Small instances of Provision: a network with a passphrase of the        *)
(* longest length the wlan manager takes, an open one, and a passphrase    *)
(* that is too long for it.                                                *)
(***************************************************************************)
EXTENDS Provision

CONSTANTS s1, s2, k1, k2

MCKeyLen == [k \in Keys |-> IF k = k1 THEN PskMax ELSE PskMax + 1]
MCNetKey == [s \in Ssids |-> IF s = s1 THEN k1 ELSE Empty]

=============================================================================
