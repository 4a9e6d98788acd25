---------------------------- MODULE MCHwstClient ----------------------------
(* Three diags: capabilities_info, avdecoder_qam_status and tuner_status, asked
   for all together, alone, and the two that depend on one another. *)
EXTENDS HwstClient

MCJobSets == {{}, {1}, {3}, {2, 3}}
=============================================================================
