------------------------- MODULE MCLicenceDelivery -------------------------
(* Small instances of LicenceDelivery for TLC. *)
EXTENDS LicenceDelivery

CONSTANTS s1, p1

\* A single store, with every fault; a store and a head office, with none.
OneStore == <<s1>>
StoreAndPanel == <<s1, p1>>
=============================================================================
