----------------------------- MODULE MCRedaction -----------------------------
(* A buyer who applied and was approved: their application, and the entry  *)
(* of the audit log that says so.                                          *)
EXTENDS Redaction

Approved ==
    {{Piece("application", {"email"}, "none"), Piece("about", {}, "application")}}
=============================================================================
