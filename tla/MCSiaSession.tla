---------------------------- MODULE MCSiaSession -----------------------------
(* Instances of SiaSession: two well-formed careers, one of them for       *)
(* electives, a code without four parts, one whose parts are not numbers,  *)
(* and a retry loop of two attempts.                                       *)
EXTENDS SiaSession, TLC

MCConfig == [SiaOptimized EXCEPT !.max_attempts = 2]

MCOneAttempt == [SiaOptimized EXCEPT !.max_attempts = 1]

MCCodes         == {"pregrado", "electivas", "letras", "corto"}
MCFourParts     == {"pregrado", "electivas", "letras"}
MCNumeric       == {"pregrado", "electivas"}
MCCareers       == { <<"pregrado", FALSE>>, <<"electivas", TRUE>>,
                     <<"letras", FALSE>>, <<"corto", FALSE>> }
MCTwoCareers    == { <<"pregrado", FALSE>>, <<"electivas", TRUE>> }
MCOneCareer     == { <<"pregrado", FALSE>> }
MCBrokenBody    == { Error("Parse") }
MCTimeoutOnly   == { Error("Timeout") }

MCUnnamed       == {"electivas"}

(* The catalog answers the same list every time.                           *)
MCFixedLists    == [c \in MCFourParts |-> {IF c = "electivas" THEN 1 ELSE 2}]
MCTwoLists      == [c \in MCNumeric |-> MCFixedLists[c]]

(* Two callers are interchangeable in what must not happen.                *)
MCCallers == Permutations(Callers)
=============================================================================
