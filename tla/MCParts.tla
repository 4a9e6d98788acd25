-------------------------------- MODULE MCParts -------------------------------
(***************************************************************************)
(* The components that interact with the rest of the system only by being  *)
(* called, checked side by side in one run: each behaviour is one of a     *)
(* single component, and the others rest in an initial state.              *)
(***************************************************************************)
EXTENDS WaFilter, WaWsclient, WaTuner, WaIarm, WaId

VARIABLE part

pvars == <<part, fvars, tvars, uvars, svars, vars>>

MCDiags == 1..1

MCFilters == {[kind |-> "P", limit |-> 50], [kind |-> "S", limit |-> 2]}

MCPowers == {-600, 0, 100}

MCDecoderFiles ==
    {<<>>, <<"HVD", "x">>, <<"HVD", "idx", "started=y", "TSM">>,
     <<"HVD", "idx", "started=n", "HVD", "idx", "started=y", "TSM", "Decode", "Display">>}

MCTransportFiles == {<<>>, <<"band", "x", "channel">>, <<"band", "channel">>, <<"channel">>}

MCTeams ==
    {{}, {"rf4ce", "caps"}, {"wifi", "moca", "caps"}, {"wifi", "sysinfo"}, {"moca", "sysinfo"},
     {"caps", "sysinfo"}, {"wan", "flash"}, {"sdcard", "hdmiout"}}

\* Nobody uses IARM where another part is looked at, and the list is the shortest.
PartsInit ==
    /\ part \in {"filter", "client", "tuner", "iarm", "id"}
    /\ FInit /\ TrInit /\ UInit /\ SInit /\ Init
    /\ part # "iarm" => team = {}
    /\ part # "id" => \A size \in ListSizes : max <= size

PartsNext ==
    \/ part = "filter" /\ FNext /\ UNCHANGED <<part, tvars, uvars, svars, vars>>
    \/ part = "client" /\ TrNext /\ UNCHANGED <<part, fvars, uvars, svars, vars>>
    \/ part = "tuner" /\ UNext /\ UNCHANGED <<part, fvars, tvars, svars, vars>>
    \/ part = "iarm" /\ SNext /\ UNCHANGED <<part, fvars, tvars, uvars, vars>>
    \/ part = "id" /\ Next /\ UNCHANGED <<part, fvars, tvars, uvars, svars>>

PartsSpec == PartsInit /\ [][PartsNext]_pvars

\* The variables of all parts keep to their types and limits: those of the filter of
\* results, of the web client, of the tuner diagnostic, of the IARM users and the list
\* of the ids in use, which is never longer than the pool of its elements allows.
PartsTypeOK == FTypeOK /\ TrTypeOK /\ UTypeOK /\ STypeOK /\ TypeOK
===============================================================================
