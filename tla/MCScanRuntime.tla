---------------------------- MODULE MCScanRuntime ----------------------------
(* The scan runtime for TLC: a client sends two scans under one id (a reload,  *)
(* a retry), which is harder than an id of its own for each.                   *)
EXTENDS ScanRuntime

OneId == [s \in Scan |-> CHOOSE i \in ScanId : TRUE]
OneTopic == [w \in Socket |-> CHOOSE i \in ScanId : TRUE]

\* One scan has its own wave, after which it may answer without data, and a filter
\* with another; the other a stage that may end without a message.
TwoPipelines == [s \in Scan |-> IF s = CHOOSE r \in Scan : TRUE THEN <<"fetching_market_data", "adr">>
                                                             ELSE <<"building_universe">>]
=============================================================================
