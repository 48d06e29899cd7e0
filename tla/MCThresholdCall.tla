--------------------------- MODULE MCThresholdCall ---------------------------
(* Small instance of ThresholdCall: eleven configurations of up to four      *)
(* verifiers, validated and unvalidated, and two answers.                  *)
EXTENDS ThresholdCall

CONSTANTS u1, u2, u3, u4, u5, yes, no

MCUrl == {u1, u2, u3, u4, u5}
MCPlaintext == {u4}
MCValues == {yes, no}

Cfg(t, s) == [threshold |-> t, servers |-> s]

MCConfigs ==
  { Cfg(1, <<u1>>), Cfg(2, <<u1, u2>>), Cfg(2, <<u1, u2, u3>>), Cfg(3, <<u1, u2, u3>>),
    Cfg(3, <<u1, u2, u3, u5>>),          \* the five above are validated
    Cfg(2, <<u1, u2, u3, u5>>),          \* half of the servers
    Cfg(2, <<u1, u2, u1>>),              \* one server listed twice
    Cfg(3, <<u1, u2>>),                  \* more votes than servers
    Cfg(0, <<u1, u4>>), Cfg(0, << >>), Cfg(1, << >>) }  \* nobody needed, nobody there
=============================================================================
