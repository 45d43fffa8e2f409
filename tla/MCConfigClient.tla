--------------------------- MODULE MCConfigClient ---------------------------
(* Small instance of ConfigClient: two servers that learn of the changes   *)
(* in different orders, and one configuration registered late.             *)
EXTENDS ConfigClient

\* Version 1 of the late configurations cannot be unmarshaled.
BadValues == Late \X {1}
=============================================================================
