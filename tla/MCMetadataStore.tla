--------------------------- MODULE MCMetadataStore ---------------------------
(* Instances of MetadataStore for TLC. *)
EXTENDS MetadataStore
=============================================================================
