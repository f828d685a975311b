----------------------------- MODULE MCUringReader -----------------------------
(***************************************************************************)
(* Three reads over a ring and a channel of two entries, three user_data   *)
(* values, and a caller that shuts the reader down twice.                  *)
(***************************************************************************)
EXTENDS UringReader
=============================================================================
