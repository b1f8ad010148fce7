-------------------------------- MODULE Sctp --------------------------------
(***************************************************************************)
(* The data channel of one peer: the firmware's own SCTP under DTLS.  The    *)
(* satellite sends one INIT, follows the hub's TSNs with a cumulative TSN   *)
(* and a bitmap, answers every DATA and FORWARD-TSN with a SACK, keeps the   *)
(* table of streams the hub opened, and answers the hub's pings from the    *)
(* transport loop, never from the callback.                                 *)
(*                                                                          *)
(* Sources: xiao-esp32-s3/components/peer/sctp.c (built with PIPECAT_NACK),  *)
(* and its callers in src/webrtc.cpp and src/rtvi.cpp.  The hub's SCTP and   *)
(* the network are external: a chunk once sent may arrive at any time, any   *)
(* number of times or never; DTLS lets no single packet in twice, so a       *)
(* control packet arrives once.                                             *)
(*                                                                          *)
(* A packet with several chunks is the same chunks one after the other;     *)
(* what follows a DATA or COOKIE-ECHO in its packet is ignored, which is a   *)
(* loss.  Left out: the satellite's own DATA but for the pong (it is never   *)
(* retransmitted and its SACKs are ignored), checksums, verification tags,  *)
(* channel types and reliability parameters, fragments.                     *)
(***************************************************************************)
EXTENDS Naturals, Integers, Sequences, FiniteSets

CONSTANTS
  Half,         \* half the TSN space: 2^31
  FirstTsn,     \* the hub's initial TSN
  Window,       \* bits of inbound_gap_bitmap: 64
  MaxStreams,   \* SCTP_MAX_STREAMS
  Payload,      \* what the hub has to say, see below
  MaxSent,      \* bound: DATA chunks of the hub
  HubInits      \* bound: INITs the hub sends of its own

Mod == 2 * Half

(* A payload is a DCEP OPEN for a stream, a ping, or a frame that the hub   *)
(* retransmits only so often (pipecat-rtx).                                 *)
ASSUME PayloadAssumption ==
  \A p \in Payload : p.kind \in {"open", "ping", "rtx"} /\ {"sid", "label"} \subseteq DOMAIN p
ASSUME TsnAssumption ==
  /\ Half \in Nat /\ FirstTsn \in 0..(Mod - 1)
  /\ Window \in 1..(Half - 1) /\ MaxSent \in 1..(Half - 1)
ASSUME BoundAssumption == MaxStreams \in Nat /\ HubInits \in Nat

Chunk == 1..MaxSent      \* the hub's DATA chunks, in the order of their TSNs

VARIABLES
  opened,       \* sctp_create_association ran
  connected,    \* sctp->connected
  valid,        \* inbound_tsn_valid
  cum,          \* inbound_cumulative_tsn
  gaps,         \* inbound_gap_bitmap: the offsets from cum whose bit is set
  table,        \* stream_table
  pong,         \* pending_pong_ready
  closeAsked,   \* s_redial_requested
  hub,          \* the hub's association: closed, initSent, echoed, up, gone
  inits,        \* INITs the hub has sent
  sent,         \* the payloads of the hub's chunks
  abandoned,    \* chunks the hub has given up on
  hubCum,       \* all chunks up to this one are acknowledged or given up
  hubGaps,      \* chunks beyond it that the last SACK acknowledged
  toHub, toSat, \* control chunks in flight
  handled,      \* ghost: chunks the satellite has acted on
  late          \* ghost: the TSNs were reset after the first had moved them

hsVars  == <<hub, inits, toHub, toSat>>
tsnVars == <<valid, cum, gaps>>
hubVars == <<sent, abandoned, hubCum, hubGaps>>
ghosts  == <<handled, late>>
vars == <<opened, connected, tsnVars, table, pong, closeAsked, hsVars, hubVars,
          ghosts>>

Control == {"INIT", "INIT_ACK", "COOKIE_ECHO", "COOKIE_ACK", "ABORT", "SHUTDOWN"}

TypeOK ==
  /\ opened \in BOOLEAN /\ connected \in BOOLEAN /\ valid \in BOOLEAN /\ closeAsked \in BOOLEAN
  /\ cum \in 0..(Mod - 1) /\ gaps \in SUBSET (1..Window)
  /\ table \in Seq(Payload) /\ Len(table) <= MaxStreams
  /\ pong \in BOOLEAN
  /\ hub \in {"closed", "initSent", "echoed", "up", "gone"} /\ inits \in 0..HubInits
  /\ sent \in Seq(Payload) /\ Len(sent) <= MaxSent
  /\ abandoned \in SUBSET Chunk /\ hubCum \in 0..MaxSent /\ hubGaps \in SUBSET Chunk
  /\ toHub \in SUBSET Control /\ toSat \in SUBSET Control
  /\ handled \in SUBSET Chunk /\ late \in BOOLEAN

Init ==
  /\ opened = FALSE /\ connected = FALSE
  /\ valid = FALSE /\ cum = 0 /\ gaps = {}
  /\ table = <<>> /\ pong = FALSE /\ closeAsked = FALSE
  /\ hub = "closed" /\ inits = 0 /\ toHub = {} /\ toSat = {}
  /\ sent = <<>> /\ abandoned = {} /\ hubCum = 0 /\ hubGaps = {}
  /\ handled = {} /\ late = FALSE

-----------------------------------------------------------------------------
(* TSN arithmetic: 32 bits, compared by the sign of the difference.         *)

Wrap(x) == IF x >= Mod THEN x - Mod ELSE IF x < 0 THEN x + Mod ELSE x

\* (int32_t)(a - b)
Delta(a, b) == LET d == Wrap(a - b) IN IF d < Half THEN d ELSE d - Mod

\* The TSN the hub gives chunk k.
Tsn(k) == Wrap(FirstTsn + k - 1)

-----------------------------------------------------------------------------
(* Following the hub's TSNs.                                                *)

\* Mutant: the cumulative TSN moves by one bit at a time.
SlidOnce(c, bits) ==
  IF 1 \in bits THEN [cum |-> Wrap(c + 1), gaps |-> {i - 1 : i \in bits \ {1}}]
  ELSE [cum |-> c, gaps |-> bits]

\* The loop that moves the cumulative TSN over the bits that are set.
Slid(c, bits) ==
  LET run == CHOOSE n \in 0..Window : 1..n \subseteq bits /\ n + 1 \notin bits
  IN [cum |-> Wrap(c + run), gaps |-> {i - run : i \in {j \in bits : j > run}}]

\* sctp_set_inbound_initial_tsn
Reset(tsn) == [cum |-> Wrap(tsn - 1), gaps |-> {}]

\* What the record functions work on.
Track(tsn) == IF valid THEN [cum |-> cum, gaps |-> gaps] ELSE Reset(tsn)

\* Mutant: the cumulative TSN itself counts as new.
NewFromCum(tsn) ==
  LET d == Delta(tsn, Track(tsn).cum) IN 0 <= d /\ d <= Window

\* What sctp_record_inbound_tsn returns: the bitmap is not asked.
IsNew(tsn) ==
  LET d == Delta(tsn, Track(tsn).cum) IN 0 < d /\ d <= Window

\* Mutant: a TSN past the window sets a bit all the same.
RecordedPastWindow(tsn) ==
  LET t == Track(tsn)  d == Delta(tsn, t.cum) IN
  IF d > 0 THEN Slid(t.cum, t.gaps \cup {((d - 1) % Window) + 1}) ELSE t

\* sctp_record_inbound_tsn
Recorded(tsn) ==
  LET t == Track(tsn) IN
  IF IsNew(tsn) THEN Slid(t.cum, t.gaps \cup {Delta(tsn, t.cum)}) ELSE t

\* sctp_record_forward_tsn
Forwarded(tsn) ==
  LET t == Track(Wrap(tsn + 1))  d == Delta(tsn, t.cum) IN
  IF d <= 0 THEN t
  ELSE Slid(tsn, {i - d : i \in {j \in t.gaps : j > d}})

Follow(t) == valid' = TRUE /\ cum' = t.cum /\ gaps' = t.gaps

-----------------------------------------------------------------------------
(* The stream table and the callbacks.                                      *)

\* Mutant: a label may be taken by a second stream.
SameSid(a, b) == a.sid = b.sid

\* Mapped already, or in conflict with a stream that is.
Clashes(a, b) == a.sid = b.sid \/ a.label = b.label

\* sctp_add_stream_mapping: first come, first served, in a table of a fixed
\* size.  A repeated OPEN finds its own entry.
Mapped(p) ==
  IF (\E i \in DOMAIN table : Clashes(table[i], p)) \/ Len(table) = MaxStreams
  THEN table ELSE Append(table, p)

\* sctp_fill_sack: the bitmap, as gap blocks.
Sack(t) == [cum |-> t.cum, gaps |-> t.gaps]

-----------------------------------------------------------------------------
(* The satellite.                                                           *)

\* DTLS is done: sctp_create_association.
CreateAssociation ==
  /\ ~opened /\ opened' = TRUE
  /\ valid' = FALSE /\ gaps' = {}
  /\ toHub' = toHub \cup {"INIT"}
  /\ UNCHANGED <<connected, cum, table, pong, closeAsked, hub, inits, toSat,
                 hubVars, ghosts>>

Gets(c) == opened /\ c \in toSat /\ toSat' = toSat \ {c}

\* INIT and INIT-ACK both start the hub's TSNs afresh, whatever the state.
StartTsns ==
  /\ Follow(Reset(FirstTsn))
  /\ late' = (late \/ (valid /\ Track(FirstTsn) # Reset(FirstTsn)))
  /\ UNCHANGED handled

GetsInit ==
  /\ Gets("INIT") /\ StartTsns
  /\ toHub' = toHub \cup {"INIT_ACK"}
  /\ UNCHANGED <<opened, connected, table, pong, closeAsked, hub, inits, hubVars>>

GetsInitAck ==
  /\ Gets("INIT_ACK") /\ StartTsns
  /\ toHub' = toHub \cup {"COOKIE_ECHO"}
  /\ UNCHANGED <<opened, connected, table, pong, closeAsked, hub, inits, hubVars>>

\* onopen opens rtvi-ai from the callback, and sctp->buf, which has the
\* COOKIE-ACK by then, is overwritten: the hub gets a COOKIE-ACK only when it
\* repeats its COOKIE-ECHO.
GetsCookieEcho ==
  /\ Gets("COOKIE_ECHO")
  /\ connected' = TRUE
  /\ toHub' = IF connected THEN toHub \cup {"COOKIE_ACK"} ELSE toHub
  /\ UNCHANGED <<opened, tsnVars, table, pong, closeAsked, hub, inits, hubVars,
                 ghosts>>

GetsCookieAck ==
  /\ Gets("COOKIE_ACK")
  /\ connected' = TRUE
  /\ UNCHANGED <<opened, tsnVars, table, pong, closeAsked, hub, inits, toHub,
                 hubVars, ghosts>>

\* onclose asks for a re-dial.
GetsAbort ==
  /\ Gets("ABORT")
  /\ connected' = FALSE /\ closeAsked' = TRUE
  /\ UNCHANGED <<opened, tsnVars, table, pong, hub, inits, toHub, hubVars,
                 ghosts>>

\* A chunk type the switch does not know.
GetsShutdown ==
  /\ Gets("SHUTDOWN")
  /\ UNCHANGED <<opened, connected, tsnVars, table, pong, closeAsked, hub, inits,
                 toHub, hubVars, ghosts>>

\* What becomes of a SACK: it is lost, or the hub takes it.  (A delayed one
\* tells the hub no more than it would have told at once.)
Heard(got, s) ==
  LET acked == hubCum + Delta(s.cum, Tsn(hubCum)) IN
  IF got THEN hubCum' = acked /\ hubGaps' = {acked + i : i \in s.gaps}
  ELSE UNCHANGED <<hubCum, hubGaps>>

\* Bound: no chunk is sent or followed any further once the hub is gone, or the TSNs
\* were started afresh under way.
Live == opened /\ hub # "gone" /\ ~late

\* A copy of chunk k arrives.
Arrives(k) == Live /\ k \in DOMAIN sent

\* A DCEP OPEN is parsed whether its TSN is new or not.
GetsOpen(k, got) ==
  /\ Arrives(k) /\ sent[k].kind = "open"
  /\ \E t \in {Recorded(Tsn(k))} : Follow(t) /\ Heard(got, Sack(t))
  /\ table' = Mapped(sent[k])
  /\ handled' = handled \cup {k}
  /\ UNCHANGED <<opened, connected, pong, closeAsked, hsVars, sent, abandoned, late>>

\* Anything else goes to onmessage if its TSN is new.  The callback only stages
\* a pong: sctp->buf, which has the SACK by then, is not touched.
GetsMessage(k, got) ==
  /\ Arrives(k) /\ sent[k].kind # "open"
  /\ \E t \in {Recorded(Tsn(k))}, new \in {IsNew(Tsn(k))} :
       /\ Follow(t)
       /\ handled' = IF new THEN handled \cup {k} ELSE handled
       /\ pong' = (pong \/ (new /\ sent[k].kind = "ping"))
       /\ Heard(got, Sack(t))
  /\ UNCHANGED <<opened, connected, table, closeAsked, hsVars, sent, abandoned, late>>

\* The point the hub may have the satellite skip to.
ForwardPoint ==
  CHOOSE n \in hubCum..MaxSent :
    hubCum + 1..n \subseteq abandoned /\ n + 1 \notin abandoned

GetsForwardTsn(got) ==
  /\ Live /\ hubCum + 1 \in abandoned
  /\ \E t \in {Forwarded(Tsn(ForwardPoint))} : Follow(t) /\ Heard(got, Sack(t))
  /\ UNCHANGED <<opened, connected, table, pong, closeAsked, hsVars, sent,
                 abandoned, ghosts>>

\* The loop is back from peer_connection_loop.
SendPong ==
  /\ opened /\ pong /\ connected
  /\ pong' = FALSE
  /\ UNCHANGED <<opened, connected, tsnVars, table, closeAsked, hsVars, hubVars,
                 ghosts>>

-----------------------------------------------------------------------------
(* The hub.                                                                 *)

satVars == <<opened, connected, tsnVars, table, pong, closeAsked, ghosts>>

HubGets(c) == hub # "gone" /\ c \in toHub /\ toHub' = toHub \ {c}

HubGetsInit ==
  /\ HubGets("INIT")
  /\ toSat' = toSat \cup {"INIT_ACK"}
  /\ UNCHANGED <<satVars, hub, inits, hubVars>>

HubDials ==
  /\ hub \in {"closed", "initSent"} /\ inits < HubInits
  /\ hub' = "initSent" /\ inits' = inits + 1
  /\ toSat' = toSat \cup {"INIT"}
  /\ UNCHANGED <<satVars, toHub, hubVars>>

HubGetsInitAck ==
  /\ HubGets("INIT_ACK")
  /\ IF hub = "initSent"
     THEN hub' = "echoed" /\ toSat' = toSat \cup {"COOKIE_ECHO"}
     ELSE UNCHANGED <<hub, toSat>>
  /\ UNCHANGED <<satVars, inits, hubVars>>

HubEchoesAgain ==
  /\ hub = "echoed" /\ toSat' = toSat \cup {"COOKIE_ECHO"}
  /\ UNCHANGED <<satVars, hub, inits, toHub, hubVars>>

HubGetsCookieEcho ==
  /\ HubGets("COOKIE_ECHO")
  /\ hub' = "up" /\ toSat' = toSat \cup {"COOKIE_ACK"}
  /\ UNCHANGED <<satVars, inits, hubVars>>

HubGetsCookieAck ==
  /\ HubGets("COOKIE_ACK")
  /\ hub' = IF hub = "echoed" THEN "up" ELSE hub
  /\ UNCHANGED <<satVars, inits, toSat, hubVars>>

HubSends(p) ==
  /\ hub = "up" /\ Live /\ Len(sent) < MaxSent
  /\ sent' = Append(sent, p)
  /\ UNCHANGED <<satVars, hsVars, abandoned, hubCum, hubGaps>>

\* Two retransmissions are all a frame gets.
HubAbandons(k) ==
  /\ hub = "up" /\ Live /\ k \in DOMAIN sent /\ sent[k].kind = "rtx"
  /\ k > hubCum /\ k \notin hubGaps \cup abandoned
  /\ abandoned' = abandoned \cup {k}
  /\ UNCHANGED <<satVars, hsVars, sent, hubCum, hubGaps>>

\* Bound: nothing else that is in flight gets through any more.
HubCloses(c) ==
  /\ hub = "up" /\ hub' = "gone"
  /\ toSat' = {c} /\ toHub' = {}
  /\ UNCHANGED <<satVars, inits, hubVars>>

-----------------------------------------------------------------------------
Satellite ==
  \/ CreateAssociation
  \/ GetsInit \/ GetsInitAck \/ GetsCookieEcho \/ GetsCookieAck
  \/ GetsAbort \/ GetsShutdown
  \/ \E k \in Chunk, got \in BOOLEAN : GetsOpen(k, got) \/ GetsMessage(k, got)
  \/ \E got \in BOOLEAN : GetsForwardTsn(got)
  \/ SendPong

Hub ==
  \/ HubGetsInit \/ HubDials \/ HubGetsInitAck \/ HubEchoesAgain
  \/ HubGetsCookieEcho \/ HubGetsCookieAck
  \/ \E p \in Payload : HubSends(p)
  \/ \E k \in Chunk : HubAbandons(k)
  \/ \E c \in {"ABORT", "SHUTDOWN"} : HubCloses(c)

Next == Satellite \/ Hub

Spec == Init /\ [][Next]_vars

(* The hub retransmits what is not settled, and in the end a retransmission, *)
(* and the SACK for it, get through; a FORWARD-TSN likewise.  Nothing is     *)
(* said of the handshake, which the satellite does not retransmit.          *)
Pending(k) == hub = "up" /\ hubCum < k /\ k \notin hubGaps \cup abandoned
Retransmits ==
  \/ \E k \in Chunk : Pending(k) /\ (GetsOpen(k, TRUE) \/ GetsMessage(k, TRUE))
  \/ hub = "up" /\ GetsForwardTsn(TRUE)
FairSpec == Spec /\ WF_vars(Retransmits)

-----------------------------------------------------------------------------
(* What the hub takes as received has been acted on, unless the hub gave it *)
(* up: no SACK, lost or late or after a skip, acknowledges a chunk the       *)
(* satellite turned away.                                                   *)
AckedIsHandled ==
  \A k \in Chunk : k <= hubCum \/ k \in hubGaps => k \in handled \cup abandoned

(* A sid has one label and a label one sid, whatever the hub opens again or  *)
(* in conflict: frames for pipecat-rtx never reach the JSON parser.          *)
TableIsUnambiguous ==
  \A i, j \in DOMAIN table :
    table[i].sid = table[j].sid \/ table[i].label = table[j].label => i = j

(* What the hub has cumulatively acknowledged is final: no copy of it still  *)
(* in the network, and none of a frame it skipped, reaches the application. *)
(* A handshake chunk that arrives after DATA starts the TSNs afresh and     *)
(* voids this.                                                              *)
SettledIsFinal ==
  \A k \in 1..hubCum : IsNew(Tsn(k)) => late

(* Everything the hub says is acknowledged or given up in the end, past the *)
(* window, gaps, lost SACKs and skips, unless the hub ends it or the TSNs    *)
(* were started afresh under way.                                           *)
EverythingSettles ==
  <>[](hub = "up" => hubCum = Len(sent) \/ late)

(* The comment on the test in sctp_record_inbound_tsn: a duplicate is not   *)
(* new, so the application gets no chunk twice.                             *)
NothingTwice ==
  [][\A k \in handled, got \in BOOLEAN : GetsMessage(k, got) => ~IsNew(Tsn(k))]_vars
=============================================================================
