--------------------------- MODULE MCNetServices ---------------------------
(***************************************************************************)
(* The smaller services, and the parts of the larger ones that stand on    *)
(* their own, in one run: each has state of its own, and in each behaviour *)
(* one of them takes the steps, so that the states of the run are those of *)
(* each part, side by side.                                                *)
(***************************************************************************)
EXTENDS WireguardPeers, AmdCalls, KamailioRpc, EslListeners, DailyFigures, CdrReports,
        CdrEnrichment, SdpDescription, SipTranslator, LogPipeline, TLC

(* Numbers to call: one of no known country, and one that costs more.      *)
PhoneNumber(country, premium) == [country |-> country, premium |-> premium]
NumberPairs ==
  {<<PhoneNumber("US", FALSE), PhoneNumber("RU", FALSE)>>,
   <<PhoneNumber("US", TRUE), PhoneNumber("RU", FALSE)>>,
   <<PhoneNumber("US", FALSE), PhoneNumber("GB", TRUE)>>,
   <<PhoneNumber("US", TRUE), PhoneNumber("", FALSE)>>}

(* The thresholds of the rules.                                            *)
TwoRules == {[condition |-> "error_count", threshold |-> 2],
             [condition |-> "specific_error", threshold |-> 1]}

(* The requests to the router's API are alike.                             *)
Alike == Permutations(Operations)

VARIABLE active     \* the part that takes steps: the parts share nothing

vars == <<active, wgVars, amdVars, kamailioVars, eslListenersVars, dailyVars, reportVars,
          enrichmentVars, sdpVars, sipVars, logVars>>

Init ==
  /\ active \in {"peers", "amd", "kamailio", "listeners", "daily", "reports", "enrichment",
                "sdp", "sip", "log"}
  /\ WgInit /\ AmdInit /\ KamailioInit /\ EslListenersInit /\ DailyInit
  /\ ReportsInit /\ EnrichmentInit /\ SdpInit /\ SipInit /\ LogInit
  /\ active = "kamailio" \/ table = {}      \* one start of the parts that take no steps

Next ==
  /\ UNCHANGED active
  /\ \/ active = "peers" /\ WgNext
        /\ UNCHANGED <<amdVars, kamailioVars, eslListenersVars, dailyVars, reportVars,
                       enrichmentVars, sdpVars, sipVars, logVars>>
     \/ active = "amd" /\ AmdNext
        /\ UNCHANGED <<wgVars, kamailioVars, eslListenersVars, dailyVars, reportVars,
                       enrichmentVars, sdpVars, sipVars, logVars>>
     \/ active = "kamailio" /\ KamailioNext
        /\ UNCHANGED <<wgVars, amdVars, eslListenersVars, dailyVars, reportVars, enrichmentVars,
                       sdpVars, sipVars, logVars>>
     \/ active = "listeners" /\ EslListenersNext
        /\ UNCHANGED <<wgVars, amdVars, kamailioVars, dailyVars, reportVars, enrichmentVars,
                       sdpVars, sipVars, logVars>>
     \/ active = "daily" /\ DailyNext
        /\ UNCHANGED <<wgVars, amdVars, kamailioVars, eslListenersVars, reportVars,
                       enrichmentVars, sdpVars, sipVars, logVars>>
     \/ active = "reports" /\ ReportsNext
        /\ UNCHANGED <<wgVars, amdVars, kamailioVars, eslListenersVars, dailyVars,
                       enrichmentVars, sdpVars, sipVars, logVars>>
     \/ active = "enrichment" /\ EnrichmentNext
        /\ UNCHANGED <<wgVars, amdVars, kamailioVars, eslListenersVars, dailyVars, reportVars,
                       sdpVars, sipVars, logVars>>
     \/ active = "sdp" /\ SdpNext
        /\ UNCHANGED <<wgVars, amdVars, kamailioVars, eslListenersVars, dailyVars, reportVars,
                       enrichmentVars, sipVars, logVars>>
     \/ active = "sip" /\ SipNext
        /\ UNCHANGED <<wgVars, amdVars, kamailioVars, eslListenersVars, dailyVars, reportVars,
                       enrichmentVars, sdpVars, logVars>>
     \/ active = "log" /\ LogNext
        /\ UNCHANGED <<wgVars, amdVars, kamailioVars, eslListenersVars, dailyVars, reportVars,
                       enrichmentVars, sdpVars, sipVars>>

Spec == Init /\ [][Next]_vars
=============================================================================
