---------------------------- MODULE MCSliceRefine ----------------------------
(* Two responses. The second drops a domain and the anchor, and renders the *)
(* same provenance lines for the domain they share.                        *)
EXTENDS SliceRefine

CONSTANTS auth, audit, claim, first, second

MCCovers == [r \in Responses |-> IF r = first THEN {auth, audit} ELSE {auth}]
MCUses == [r \in Responses |-> IF r = first THEN {claim} ELSE {}]
MCLines == [p \in Responses \X Domains |-> IF p[2] = auth THEN 0 ELSE 1]

=============================================================================
