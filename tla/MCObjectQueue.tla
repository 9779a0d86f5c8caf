--------------------------- MODULE MCObjectQueue ---------------------------
(***************************************************************************)
(* Instances of ObjectQueue for TLC.                                       *)
(***************************************************************************)
EXTENDS ObjectQueue

\* Codes of send_mqtt_message's switch, by the way they are handled.
AllFinal == {"INVAL", "PAYLOAD_SIZE", "MALFORMED_UTF8", "QOS_NOT_SUPPORTED",
             "OVERSIZE_PACKET"}
AllRetry == {"NOMEM", "PROTOCOL", "OTHER"}
None == {}

=============================================================================
