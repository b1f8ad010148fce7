-------------------------------- MODULE Device --------------------------------
(***************************************************************************)
(* The parts of the device that share no state with one another: playback, the *)
(* proof that the chime was played, the Wi-Fi station, the DSP parameters, the   *)
(* RED uplink, the designated resolver and the LED ring.  What one of them does   *)
(* in an interleaving with the others is what it does alone, so a behaviour here  *)
(* is one of one part with the others at rest, and a property of one part holds   *)
(* of every interleaving of all.                                            *)
(***************************************************************************)
EXTENDS Playback, AckBeep, Wifi, Tuning, Uplink, HubDns, Led

VARIABLE part  \* the part that runs

Parts == {"playback", "chime", "wifi", "tuning", "uplink", "dns", "led"}

deviceVars == <<part, playbackVars, ackBeepVars, wifiVars, tuneVars, uplinkVars,
                hubDnsVars, ledVars>>

DeviceTypeOK ==
  /\ part \in Parts
  /\ PlaybackTypeOK /\ AckBeepTypeOK /\ WifiTypeOK /\ TuneTypeOK /\ UplinkTypeOK
  /\ HubDnsTypeOK /\ LedTypeOK

DeviceInit ==
  /\ part \in Parts
  /\ PlaybackInit /\ AckBeepInit /\ WifiInit /\ TuneInit /\ UplinkInit
  /\ HubDnsInit /\ LedInit
  /\ part # "wifi" => ~fastRejoin /\ inRange = CHOOSE ap \in Ap : TRUE
  /\ part # "tuning" => stored = [p \in TuneParam |-> Absent]
  /\ part # "dns" => zone = CHOOSE z \in Zones : TRUE

DeviceNext ==
  \/ /\ part = "playback" /\ PlaybackNext
     /\ UNCHANGED <<part, ackBeepVars, wifiVars, tuneVars, uplinkVars,
                    hubDnsVars, ledVars>>
  \/ /\ part = "chime" /\ AckBeepNext
     /\ UNCHANGED <<part, playbackVars, wifiVars, tuneVars, uplinkVars,
                    hubDnsVars, ledVars>>
  \/ /\ part = "wifi" /\ WifiNext
     /\ UNCHANGED <<part, playbackVars, ackBeepVars, tuneVars, uplinkVars,
                    hubDnsVars, ledVars>>
  \/ /\ part = "tuning" /\ TuneNext
     /\ UNCHANGED <<part, playbackVars, ackBeepVars, wifiVars, uplinkVars,
                    hubDnsVars, ledVars>>
  \/ /\ part = "uplink" /\ UplinkNext
     /\ UNCHANGED <<part, playbackVars, ackBeepVars, wifiVars, tuneVars,
                    hubDnsVars, ledVars>>
  \/ /\ part = "dns" /\ HubDnsNext
     /\ UNCHANGED <<part, playbackVars, ackBeepVars, wifiVars, tuneVars,
                    uplinkVars, ledVars>>
  \/ /\ part = "led" /\ LedNext
     /\ UNCHANGED <<part, playbackVars, ackBeepVars, wifiVars, tuneVars,
                    uplinkVars, hubDnsVars>>

\* The hub sends a packet every 20 ms while it is connected, most of them
\* decode, and the decoder, the playback task and the DMA run.
PlaybackFairness ==
  /\ WF_playbackVars(part = "playback" /\ PlaybackTask)
  /\ WF_playbackVars(part = "playback" /\ DmaPlays)
  /\ WF_playbackVars(part = "playback" /\ PacketDecoded)
  /\ WF_playbackVars(part = "playback" /\ DecoderSteps)
  /\ SF_playbackVars(part = "playback" /\ \E loud \in BOOLEAN : FrameDecoded(loud))

\* The event task and the timer task run, an attempt to join ends, and an
\* access point that can be joined is joined, and an association gets its
\* lease, if it is tried often enough.
WifiFairness ==
  /\ WF_wifiVars(part = "wifi" /\ WifiHandler)
  /\ WF_wifiVars(part = "wifi" /\ WifiTimers)
  /\ WF_wifiVars(part = "wifi" /\ (JoinFails \/ Joins))
  /\ SF_wifiVars(part = "wifi" /\ Joins)
  /\ SF_wifiVars(part = "wifi" /\ LeaseArrives)

DeviceSpec ==
  DeviceInit /\ [][DeviceNext]_deviceVars /\ PlaybackFairness /\ WifiFairness

-----------------------------------------------------------------------------
\* "Reconnects never give up" (wifi.cpp:264): once the faults have ended, the
\* station comes to hold an address and to know it, whatever order the timers
\* and the events of the outage came in, in either build.  A fast re-join
\* build that is left pinned is the exception.
StationRecovers == <>[](part = "wifi" => StationUp) \/ <>LeftPinned
=============================================================================
