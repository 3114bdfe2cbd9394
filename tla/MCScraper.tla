------------------------------ MODULE MCScraper ------------------------------
(* Instances of Scraper: two search codes, one of them in both kinds.      *)
EXTENDS Scraper

Plain(code)    == [code |-> code, electives |-> FALSE]
Electives(code) == [code |-> code, electives |-> TRUE]

MCCareers == { Plain("A"), Electives("A"), Plain("B") }

MCTable ==
  [ c \in MCCareers |->
      IF c = Plain("A") THEN <<"x", "y", "z">>
      ELSE IF c = Electives("A") THEN <<"z">>
      ELSE <<"y", "x">> ]

By(indices, codes) == [indices |-> indices, codes |-> codes]

(* Orders, repetitions, indices outside the list, before it and after it,  *)
(* nothing, lengths that differ.                                           *)
MCBatches ==
  { By(<<>>, <<"y", "x">>), By(<<>>, <<"y", "x", "y">>), By(<<>>, <<"z", "x">>),
    By(<<2, 0>>, <<>>), By(<<1, 5, 0>>, <<"y", "", "x">>), By(<<0, 1, 0>>, <<"x", "y", "">>),
    By(<<>>, <<>>), By(<<1, -1>>, <<>>), By(<<0, 1>>, <<"x">>) }
=============================================================================
