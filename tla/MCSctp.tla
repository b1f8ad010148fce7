------------------------------- MODULE MCSctp -------------------------------
(***************************************************************************)
(* The payloads of the Sctp runs: rtvi-ai's pings, pipecat-rtx's OPEN and    *)
(* frames, and an OPEN that takes the label for a second stream.            *)
(***************************************************************************)
EXTENDS Sctp

MCPayload == {
  [kind |-> "ping", sid |-> 0, label |-> "rtvi-ai"],
  [kind |-> "open", sid |-> 2, label |-> "pipecat-rtx"],
  [kind |-> "open", sid |-> 4, label |-> "pipecat-rtx"],
  [kind |-> "rtx",  sid |-> 2, label |-> "pipecat-rtx"]}
=============================================================================
