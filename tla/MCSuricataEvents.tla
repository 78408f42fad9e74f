--------------------------- MODULE MCSuricataEvents ---------------------------
(***************************************************************************)
(* An instance of SuricataEvents: two alerts, each of which the listener    *)
(* processes as any other record.                                          *)
(***************************************************************************)
EXTENDS SuricataEvents

MCLog     == <<"alert", "alert">>
MCConfigs == [sock : BOOLEAN, file : BOOLEAN]
=============================================================================
