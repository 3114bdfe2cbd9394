----------------------------- MODULE SessionModel -----------------------------
(***************************************************************************)
(* The status of a session on the way between Rust and Python              *)
(* (rust/src/models/session.rs): Python has other names for two of them.   *)
(***************************************************************************)

NormalizeStatus(s) ==
  CASE s = "CREATED" -> "NO_SESSION"
    [] s = "SESSION_SET" -> "CAREER_NOT_SET"
    [] OTHER -> s

DenormalizeStatus(s) ==
  CASE s = "NO_SESSION" -> "CREATED"
    [] s = "CAREER_NOT_SET" -> "SESSION_SET"
    [] OTHER -> s

RustStatuses   == {"CREATED", "SESSION_SET", "ON_CAREER_PAGE"}
PythonStatuses == {"NO_SESSION", "CAREER_NOT_SET", "ON_CAREER_PAGE"}
=============================================================================
