----------------------------- MODULE FeeCollector -----------------------------
(***************************************************************************)
(* EstimateFeeConsensusCollector (daemon/electrod/                         *)
(* electrod_fee_estimation.py) for one rate: what each server was last     *)
(* measured at, by how old that is.                                        *)
(*   unusable  no measurement, or one older than max_age                   *)
(*   limit     exactly max_age old                                         *)
(*   fresh     younger                                                     *)
(*   nothing   the server's answer was empty, and None was stored: it has  *)
(*             no timestamp, and whatever looks at the rate raises         *)
(***************************************************************************)
EXTENDS Integers, FiniteSets

Measurement == {"unusable", "limit", "fresh", "nothing"}

Raises(data) == \E h \in DOMAIN data : data[h] = "nothing"

\* get_valid_consensus_members_for_rate.
Valid(data) == {h \in DOMAIN data : data[h] = "fresh"}

\* get_rates, before it counts.
Measured(data) == {h \in DOMAIN data : data[h] \in {"fresh", "limit"}}

\* A second of time, for the measurements in older.
Aged(data, older) ==
    [h \in DOMAIN data |->
       IF h \notin older THEN data[h]
       ELSE CASE data[h] = "fresh" -> "limit" [] data[h] = "limit" -> "unusable"
              [] OTHER -> data[h]]
=============================================================================
