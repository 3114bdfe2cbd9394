----------------------------- MODULE MCPySession -----------------------------
(* Instances of PySession: two tasks, three futures (one may outlive its   *)
(* cancelled task), two careers.                                           *)
EXTENDS PySession

MCCareers == {"0-2-8-3", "1-1-4-2"}
=============================================================================
