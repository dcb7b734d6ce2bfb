---------------------------- MODULE MCPubSubNetwork ----------------------------
(***************************************************************************)
(* Both nodes forward and subscribe one topic, as they do with the topic   *)
(* lifecycle; the other one goes from the field node to the robot only.    *)
(***************************************************************************)
EXTENDS PubSubNetwork

CONSTANTS onboard, field, lifecycle, tts_say

MCEarlyCalls ==
  {onboard, field} \X {lifecycle} \X {"subscribe", "network_advertise"}
    \cup {<<field, tts_say, "network_advertise">>}

MCModuleCalls == {<<onboard, tts_say, "subscribe">>}
=============================================================================
