# Specifications of the house satellite firmware

A satellite is an ESP32-S3 with a microphone array, a loudspeaker and an LED
ring that keeps one WebRTC connection to a hub. Nobody stands beside it: it has
to survive outages of the hub, the network, the power and of its own next
firmware image. These TLA+ modules say how it does that, TLC checks them on small
instances, and TLAPS proves what matters most for every instance.

The modules are translated from the source of the `xiao-esp32-s3` target; all
paths below are relative to `src/xiao-esp32-s3/` unless they start otherwise.

    tlc -config Redial.cfg Redial.tla        # a run
    tlapm Redial_proofs.tla                  # a proof

## The system

### Tasks

| task | does | priority |
| --- | --- | --- |
| `app_main` | boot guard, init, then the transport loop: `pipecat_webrtc_loop`, image confirmation, hub URL tick, reconnect watchdog, re-dial tick | 8 |
| audio publisher | one uplink frame every 20 ms through the current peer | 7 |
| playback | play ring to I2S, beeps | 6 |
| RTVI, LED | messages to the hub, LED ring | 2 |
| httpd | operator requests: status, upload, rollback, re-dial, hub URL, DSP tuning | default |
| `esp_timer` | network watchdog, Wi-Fi timers, link health | timer task |
| one-shots | hub preflight, OTA validation watchdog, reboot delay | 3, 5, 5 |

### Components

Each entry: the state, the operations, how it meets the others, what is hard, and
what makes it correct.

**Connection and re-dial** (`src/webrtc.cpp`, `src/webrtc_redial.h`,
`components/peer/peer_connection.c`). State: the `PeerConnection`, whether it is
connected and since when, when the offer went out, when the next attempt is due,
the pending request, the count of consecutive failures. A lost peer, an SCTP
abort, the reconnect watchdog or `POST /webrtc/redial` ask for a re-dial; the tick
tears the peer down and dials, a failed attempt backs off, forty failures in a
row restart the chip. The audio publisher uses the same object without a lock. Hard:
the teardown frees an object another task may be sending through; callbacks,
httpd and the loop all ask at once; libpeer never leaves its dead states. Correct
if no freed peer is used or leaked, no request is lost, every peer has a clock,
and every outage ends either in a stable connection or in a restart.

**Reconnect watchdog and server liveness** (`src/reconnect_watchdog.h`,
`src/server_liveness.h`). When a connection that looks alive is given up. Hard:
timestamps outlive the peer they came from; pings queue behind media. Correct if
media holds a connection and a new peer gets its grace.

**Hub URL policy** (`src/hub_url_policy.h`, `src/hub_url.cpp`, `src/http.cpp`). The
baked URL or the operator's override, stored in NVS, copied in RAM, judged by a
four-state policy. Three tasks drive it: dial results, operator requests, and the
preflight that asks a demoted override whether it is back. Hard: three steps
from flash to policy, a reset between any two; results noted against a policy that
has moved. Correct if flash, RAM and policy agree, an override is only demoted for
its own rejections, and the satellite ends up on the URL the operator asked for.

**Boot guard and network watchdog** (`src/boot_guard.h`, `src/main.cpp`). Counters
in RTC memory across resets: a hold after a fault, a hand-over to the other OTA
slot after three crashes in a row, a restart when the satellite is unhealthy for
too long. **OTA upload, validation, rollback** (`src/ota.cpp`): writes the other
slot, selects it, confirms an image that has done its job, rejects one that has
not. Hard: both rewrite the same otadata that the bootloader reads, and every
reset may fall between two of their steps. Correct if there is always an image to
boot, only proven images are confirmed, only crashes lead to a hand-over, at most
one per power cycle, and a crash loop does end on the image that works.

**Downlink loss recovery** (`components/peer/nack_client.c`, `rtp.c`). Sixteen
slots of frames that were asked for again and wait 60 ms for it, a FIFO of
retransmissions that came over a data channel, the last sequence number, a circuit
breaker that gives the lane up when the hub does not answer. Hard: a packet, its RED
copy, its retransmission and its deferred concealment may come in any order and
number, and slots and FIFO outlive a peer. Correct if the decoder is fed at most once
for a frame, a deferred frame is never forgotten, no gap passes in silence, and a new
stream is heard from its first packet. **RED** (`red_wrap.c`, `red_unwrap.c`):
redundancy blocks in both directions; correct if a packet carries the last frames of
its own stream. **Arrival trace** (`arrival_trace.c`): records of a diagnostic build.

**SCTP and data channels** (`components/peer/sctp.c`). State: the cumulative TSN, a
bitmap of the 64 after it, the table of streams. Every DATA and FORWARD-TSN is
answered with a SACK; only the hub retransmits. Hard: loss, repetition, skips and
the wrap of the TSNs at once, handshakes begun from both ends, a send from a
callback that shares its buffer. Correct if the SACK acknowledges nothing that was
turned away, what is settled stays settled, nothing is delivered twice, a label
keeps its stream, and everything the hub says settles.

**RTVI messages and heartbeat** (`src/rtvi.cpp`, `rtvi_callbacks.cpp`). A bounded
queue and one staged pong between the receive callback and the sender. Correct if a
ping is answered while the queue sheds, and nothing outlives its connection.

**Wi-Fi station** (`src/wifi.cpp`). The event handler, an address deadline, a
reconnect timer and, in one build, a pinned first attempt. Hard: timers run on a task
of their own, and a stopped one may have fired already. Correct if no order of events,
timers and failing calls leaves nobody responsible for the next attempt, and a link is
taken for up only while it has an address.

**Hub DNS** (`src/hub_dns.cpp`). One query to the designated resolver, sent up to
three times. Hard: late, repeated and foreign datagrams. Correct if only the
resolver's answer to this query decides, and a lost one is not taken for a refusal.

**Playback** (`src/media.cpp`, `prebuffer_ctl.c`, `opus_gapfill.c`). Decoder, gate, play
ring, prebuffer, a selftest clip. Hard: three tasks share two counters without a lock;
a re-armed prebuffer waits for audio that the gate may keep out. Correct if what was
put in the ring is played without waiting for the next utterance.
**Acknowledgement beeps** (`src/ack_beep.c`): whether the hub's chime was really
played. Hard: every block is looked at once, with the features of the blocks before it
kept, while markers come before or after their audio, replace one another and expire.
Correct if one playing is counted for one marker, and none that was played is missed.

**XVF tuning** (`src/ota.cpp`, `src/media.cpp`): DSP parameters that httpd sets, NVS
keeps and the boot replays. Hard: write, readback and store fail one by one, a crash
falls between them, and normalising must be idempotent for a replay not to drift.
Correct if a value reported as stored stays, and runs where it was reported as
applied. **LED ring** (`src/media.cpp`): the phase the hub announces, for as long as it
is fresh. Correct if a phase does not outlive its hub.

**Not control**: the echo canceller's filter transfer (`src/xvf_aec_filter.cpp`, behind
a flag no shipped environment sets), decimation filters (`decim_comp.c`), link health and fleet
identity (telemetry, strings), the three other boards (older variants without the
recovery machinery), the bench scripts.

PROJECT.json lists every component with its status, and the hazards of the code at
the line where each one bites, with the property that watches it.

## Modules

| module | models | checked by | proved in |
| --- | --- | --- | --- |
| `PeerLease` | abstract: who may hold a PeerConnection, and until when | through `Redial` | through `Redial_proofs` |
| `Redial` | transport loop, peer, re-dial, watchdog, liveness, publisher hand-off | `Redial`, `RedialFlap`, `RedialGrace` | `Redial_proofs` |
| `HubUrl` | the URL policy and its three tasks | `HubUrl`, `HubUrlCutover` | `HubUrl_proofs` |
| `BootSlots` | boot guard, network watchdog, OTA slots, bootloader | `BootSlots`, `BootHold` | `BootSlots_proofs` |
| `Sctp` | SCTP handshake, TSN tracking, SACKs, stream table, staged pong | `Sctp`, `SctpTwice` (through `MCSctp`) | `Sctp_proofs` |
| `Downlink` | NACK slots, retransmission channel, RED recovery, concealment, breaker, sequence tracking, across re-dials | `Downlink`, `DownlinkLate` | `Downlink_proofs` |
| `Playback` | decoder's ring side, gate, play ring, prebuffer, selftest clip, DMA lead | `Device` | `Playback_proofs` (types) |
| `AckBeep` | markers, history, scoring, timeout, idle padding | `Device` | `Device_proofs` |
| `Wifi` | events, the two timers, fast re-join | `Device` | `Device_proofs` |
| `Tuning` | tune, readback, store, boot profile, replay, clear | `Device` | `Tuning_proofs` |
| `Uplink` | RED history and the blocks a packet carries | `Device` | `Device_proofs` |
| `HubDns` | tries, budget, matching, alias chase, verdict of a query | `Device` | `Device_proofs` |
| `Led` | RTVI queue and its shedding, phase and stamp, the ring's decision | `Device` | `Device_proofs` |
| `Device` | the seven above side by side, instantiated by `MCDevice` | `Device` | `Playback_proofs` (types) |

How they meet: `Redial`'s restart is `BootSlots`' `RestartFallback`; the re-dial that
`HubUrl` asks for is `Redial`'s `HttpRedial`; the dial of `HubUrl` is a coarser
`Redial`; the abort in `Sctp` is `Redial`'s close from the hub, and one peer of `Redial`
is one whole behaviour of `Sctp`; `Downlink!Redial` is what that teardown leaves of the
downlink, and its channel is one of `Sctp`'s streams; a verdict of `HubDns` is what
`HubUrl` classifies; a packet `Downlink` feeds is one that `Playback` decodes.
They share no variable that a property of one needs from the other, so they are checked apart.

### Redial and PeerLease

`loop` is where the transport loop stands. An iteration is a pass over the peer
(`Pass...`, one action per outcome of `peer_connection_loop` and its callbacks), then
watchdog and re-dial tick together (`Tick...`), and, if that decides so, the teardown
(`Poll...`, `Free`), the dial and the offer. `AttemptFailed` and `TeardownBegins` are
`pipecat_webrtc_note_attempt_failed` and `pipecat_webrtc_teardown`; what the code
does after a call is part of the action that makes it. The publisher takes three
steps per frame, because the teardown looks at `in_send` between them. The loop's
own counts (ticks, 5 ms polls) are numbers; every other deadline is a flag that may
fall due at any moment, which covers every ratio of durations. PeerConnections have
identities, so a frame that keeps a pointer over a teardown is told from one that
uses the successor.

`Redial` implements `PeerLease`: objects are created, lent and destroyed in an
order in which a lent one is never freed and none is leaked. The refinement maps
`live` to the allocated heap blocks and `lent` to the pointer of the current frame.

### HubUrl

Every critical section of the lock is an action and so is every gap: `PickUrl` copies
the URL under the lock, the dial uses it without; `OpStores`, `OpCopies`, `OpNotes`,
`OpRedials` are the four steps of `POST /hub/url`. A dial's outcome is one of three
classes (`NoteUrlClass`, `NoteTransport`, or nothing at all: `DialEndsUnnoted`).
`Reboot` may fall anywhere and leaves only flash. `rejections` and `cutovers` are
ghosts.

### BootSlots

Flash (`image`, `entry`, `latest`), RTC memory (`magic` to `flipped`) and RAM are kept
apart by what each reset leaves. `phase` is where `app_main` stands; the bootloader is
an action (`Boot`) with ESP-IDF's rules: an entry booted once and not confirmed is
aborted, the newest usable entry wins, a slot without a whole image is passed over.
These rules and the `esp_ota_*` calls are not in this repository; they are marked
external. `works` is the set of images that can reach health as the world stands: an
image that was fine may start to crash. Ghosts: `proven` (images that have done their
job), `stale` (slots rewritten since their otadata entry was), `flips`, `crashes`.

### Sctp

One action per chunk the receive loop handles (`GetsInit` to `GetsForwardTsn`), each
with the SACK or answer that goes out with it; `SendPong` is the loop once
`peer_connection_loop` is back. `Recorded`, `IsNew` and `Forwarded` are the two record
functions, with `Slid` for the loop over the bitmap; TSNs are compared by the sign of
a difference modulo 2 `Half`. The bitmap is the set of its offsets from the cumulative
TSN. The hub and the network are external. A DATA chunk once sent may arrive at any
time and any number of times; control packets arrive once, DTLS sees to that, and
the hub may repeat its COOKIE-ECHO. `hubCum` and `hubGaps` are what the hub believes;
a SACK reaches it at once or never, since a late one says less than the next.
Ghosts: `handled` (chunks acted on) and `late` (TSNs started afresh under way: what
a repeated INIT does to an association that is up).

### Downlink

An arrival is two steps: `PacketArrives` drains the FIFO, sweeps the slots and applies the
breaker; then one of `DecodeFirst`, `DecodeLate`, `DecodeNext`, `DecodeResync` and
`DecodeGap` handles the packet itself. Nothing of the transport loop comes between
them, which is what `Idle` says in the other guards. Frames are numbered from the
start of their stream, and every comparison goes through the number on the wire, modulo
`SeqMod`, by the sign of a 16-bit difference (`Delta`). `pending` holds the armed slots
only: one that has expired differs from a free one by a round-trip sample. `fate` and
`twice` are ghosts: what the decoder was fed for each frame, and whether a second
time. `Redial` resets what the teardown resets and keeps what it keeps.

### The parts of the device

`Device` extends seven modules that share no variable. Since what one of them does in
an interleaving is what it does alone, a behaviour of `Device` runs one part (`part`)
with the others at rest; a property of one part then holds of every interleaving, and
the states to check are the sum and not the product of theirs.

- `Playback`: every read-modify-write of a ring counter is two steps, load and store, since
  three tasks do them without a lock. Samples are loud or silent.
- `AckBeep`: operations are atomic, under the glue's mutex. Time is in 20 ms blocks, the
  correlation and tone thresholds are equality with the fingerprint.
- `Wifi`: driver and access points are external. A timer that fires has a step of its
  own between its check and its effect (`ipTimer = "fired"`), where an event may come.
- `Tuning`: a tune is one step with every outcome of its I2C transactions and of its NVS
  write, because httpd is one task and the replay runs before it; a crash inside it is a
  failed tune and a restart. Values are in half units, so that an odd one is not a whole
  number. `promised` and `confirmed` are ghosts: what the answers said.
- `Uplink`: a frame is its length and how long ago it was sent; the bit layout of RED
  is abstracted to the limits it sets. `sentLog` is a ghost.
- `HubDns`: a datagram may be lost, repeated or overtaken, and be an answer to a former
  query or another host's. `said` is a ghost: the resolver's answers to this query.
- `Led`: the RTVI task's two stores and the ring task's three loads are steps. Time is in
  ticks, the clock wraps at `LedMsMod`.

## Runs

| run | expects | shows |
| --- | --- | --- |
| `Redial` | pass | every safety property of the connection, with failures, aborts, HTTP requests and restarts at any moment; requests are served, outages end in a stable connection, a dead hub in restarts |
| `RedialFlap` | violation | finding 1 |
| `RedialGrace` | violation | finding 2 |
| `HubUrl` | pass | consistency, earned demotion, no peer kept on the wrong URL, convergence |
| `HubUrlCutover` | violation | finding 3 |
| `BootSlots` | pass | both slots under uploads, confirmations, rollbacks, flips, watchdogs and resets in every order; a crash loop ends on the image that works |
| `BootHold` | violation | finding 4 |
| `Sctp` | pass | no false acknowledgement, no way back for what is settled, one label per stream, everything settles |
| `SctpTwice` | violation | finding 5 |
| `Downlink` | pass | one feed per frame, nothing deferred is forgotten, no silent hole, the dark lane asks for nothing, a new stream is heard |
| `DownlinkLate` | violation | finding 6 |
| `Device` | pass | speech leaves the ring; the station recovers, and somebody always owns its next attempt; stored parameters win; one playing per marker, and none is missed; RED carries the latest, verdicts are earned, phases expire |

### Bounds

- `Redial`: two PeerConnections are one more than are ever allocated, so a recycled
  block and a dangling pointer are told apart. Two failures are the first ladder with a
  last step, three ticks the first with a middle one, and a frame of one poll is shorter
  than a teardown of two. Safety for larger values is what `Redial_proofs` shows.
- `HubUrl`: two overrides, so that one can replace the other; the code's threshold, 3.
- `BootSlots`: two images, so that the slots can differ; two crashes for a flip (the
  first counts, the second decides) with the counters capped there. `BootHold` uses
  the code's 3, with a cap of 4 for 16. What RTC memory holds after a power-on is
  undefined; the run uses one value of it, the magic wrong and everything else at its
  most harmful, since the code reads nothing else before it has looked at the magic.
- `Sctp`: a window of two and three chunks, so that a chunk falls past the window; a
  TSN space of 16 that wraps at the third chunk; OPENs of one label
  for two streams. The table does not fill here; the theorems cover that, and the code's
  64, 2^31 and 5, as far as fewer than 2^31 chunks are sent. Nothing is sent once the
  hub is gone or `late` holds.
- `Downlink`: two streams that use the same numbers, which wrap at the third frame; gaps
  of one frame (not asked for), of two and three, and one beyond; two of a gap are asked
  for, so that a gap of three is split; three slots, so that they fill. The theorems cover the
  code's 65536, 16 slots and 40 of a gap.
- `Device`: a ring of three frames with counters that wrap at six; a chime of three
  blocks in a history of five; two access points and five faults; one parameter of each
  kind that matters (a grid with a hole, one whose write cannot be read back, one that
  keeps its own store) and two attempts to replay it; a RED ring of three with frames that
  do and do not fit; two tries and two datagrams under way; a queue of one; a clock that
  wraps at five ticks with a time to live of two.
- The ghosts saturate at the value their property looks at.

### Fairness

Weak fairness of tasks and of clocks: FreeRTOS schedules each task that is ready, and
a timer that is armed fires. Nothing is assumed of hubs, networks or operators.
Liveness is therefore stated for a world that has calmed down: each module has a flag
`calm` that may be raised at any moment, after which the environment serves and does
not interfere; before, it does what it likes. In `BootSlots` crashes get fairness as
well: what crashes, crashes. In `Sctp` the hub's retransmission is fair, and so is its
arrival together with the arrival of its SACK; the handshake, which the satellite
never repeats, gets no fairness, so `EverythingSettles` speaks of an association that
came up. The parts of `Device` are calmed by what they
are given: `PlaybackFairness` says that the hub sends while it is connected, that frames
decode infinitely often, and that decoder, playback task and DMA run; `WifiFairness` that
the event and timer tasks run, an attempt to join ends, and an access point that can be
joined again and again is joined and gives an address. The
state in which the world calms down is any reachable
one, so these properties say that no outage leaves a trap behind.

## Proofs

Every theorem is checked by TLAPS for every value of the constants, under the
assumptions named in the modules: distinct values, positive bounds, and, for `Redial`,
`FrameAssumption`, that a publisher frame is shorter than the 500 ms the teardown
waits. The code argues the same in a comment (`src/webrtc.cpp:219`) and enforces
it nowhere; without it the publisher's safety does not hold.

- `Redial_proofs`. The inductive invariant adds to the types: one peer at most
  (`OnePeer`), the aging of the outstanding pointer against the teardown's polls
  (`HandOff`), what callbacks and clocks agree on at each place of the loop (`Phases`),
  and that a peer that cannot speak has a re-dial pending (`Pending`). From it follow
  `TypeOK`, `PublisherHoldsLivePeer`, `NoDeadPeerServiced`, `EveryPeerHasOneClock`, the
  two action properties and the refinement of `PeerLease`.
- `HubUrl_proofs`. How far the httpd task has carried a new override (`Carried`), the
  failure count against the override's own rejections (`CountEarned`: ahead by at most
  the one dial that was under way when it was stored) and the counter's range.
- `BootSlots_proofs`. The latch from a flip's restart to the next power-on
  (`FlipsLatched`), the crash streak against the crashes (`StreakEarned`: `on_boot` may
  not have counted the last one yet), and the otadata (`OneOnProbation`: one entry at
  most is pending, it is the active one, and no upload is under way while the
  running image's is).
- `Sctp_proofs`. While the TSNs are not started afresh, the cumulative TSN belongs to a
  chunk the hub has not acknowledged past, and everything up to it or with its bit set
  has been acted on or given up (`Followed`); the hub's account says no more than that
  (`Heeded`); and data implies a handshake that initialised the TSNs (`Begun`). The
  lemmas below it show that sliding, recording and skipping keep such an account
  (`SlidCovers`, `RecordedCovers`, `ForwardedCovers`), and that the signed difference
  modulo 2 `Half` compares chunks (`DeltaTsn`), which needs `MaxSent < Half`.

- `Downlink_proofs`. Frames are less than half the sequence numbers apart, so the signed
  difference is their distance (`DeltaIs`). What is known of a stream is a prefix
  (`Prefix`). While the channel is armed, table and queue hold exactly the deferred frames of
  this stream, each in one of the two, and together no more than there are slots (`Lane`):
  a copy is never turned away for lack of room, and what is asked for is the
  oldest of a gap, which is what the concealment skips (`GapPlan`). The re-dial leaves
  only what bears an earlier stream. All six properties of the run follow.
- `Device_proofs`. Each property is strengthened within its part, together with the part's
  types: the age of the stamp behind what the ring shows (`LedInv`), datagrams of the
  resolver against what it has said (`DnsInv`), the ring as the last frames of the stream,
  slot by slot (`RedInv`). For the chime (`ChimeInv`) the fresh blocks of the history are
  the uncounted ones, and a pending marker has kept the features of all of them a window
  can still begin in; then what the scan leaves out lies in blocks it has searched before
  (`NothingLeftOut`), moved by what the ring has forgotten. For the station (`WifiInv`) the
  queue of events tells the history of the link: each event may follow the one before it,
  the last one agrees with what the link is, and while the handler takes the link for up
  the first one is its loss. Without that, nothing says what an empty queue leaves behind.
  `OnlyFastPins` confines the exception of `StationRecovers` to the fast re-join build.
- `Tuning_proofs`. What was promised is stored and stays put under normalising
  (`PromisesSettled`), and nothing that the profile or the rest of the replay may
  overwrite is reported as applied (`ConfirmedLater`). It needs the table's facts: ranges are
  not negative, the hole's ends are whole numbers, a parameter is in the table once.

- `Playback_proofs`. A counter of the ring is stored only as the result of an addition that
  wraps, so it stays a word, whatever the tasks overwrite of one another; what is left of a
  packet, of the clip and of the DMA's lead depends on where their task stands (`PlayInv`).
  With the invariants of the other parts this is `DeviceTypeOK`.

Each invariant was checked with TLC before it was proved. The `TypeOK` of `HubUrl`,
`BootSlots` and `Sctp`, and `BootSlots`' `FaultBootHolds`, are proved and no longer in a
run. With that every invariant and every action property of a passing run is a theorem.
Only model-checked, on the bounds above, are the liveness properties (`RequestServed`,
`Recovers`, `DeadHubLeadsToRestart`, `EndsUpOnRightUrl`, `CrashLoopHandsOver`,
`EverythingSettles`, `SpeechIsPlayed`, `StationRecovers`): TLAPS proves nothing about
ENABLED, and so nothing about fairness.

## Findings

1. `RedialFlap`, `src/webrtc_redial.h:69-71`: a hub that accepts every offer and closes
   each session young is re-dialed forever; a lost session is not counted as a failure.
2. `RedialGrace`, `src/reconnect_watchdog.h:17-19`, `src/main.cpp:314-315`: liveness
   timestamps survive the re-dial, so a new peer can be dropped before its grace on
   what its predecessor heard.
3. `HubUrlCutover`, `src/hub_url_policy.h:20-23`: a cutover whose offer is answered and
   whose ICE then fails is dialed again, although it is announced as exactly one dial.
4. `BootHold`, `src/boot_guard.h:20-21`: a plain restart after an earlier fault, with no
   healthy tick between them, is held like a fault.
5. `SctpTwice`, `components/peer/sctp.c:302`: a chunk ahead of a gap that arrives again
   before the gap is filled is handed to the application twice; only TSNs up to the
   cumulative one are recognised as duplicates. The properties of the `Sctp` run
   hold all the same: they are about acknowledgements and about what is settled.

6. `DownlinkLate`, `components/peer/rtp.c:359`: a retransmission that comes after its
   window and before the next packet frees the slot, so the sweep no longer conceals the
   frame, and is not spliced in: of the two, none happens, where the comment says exactly
   one.

The first four are disagreements between a comment and the code, not a judgement on
which is right; the fifth is a bug, and so is the comment or the code of the sixth.

## Not modelled

Durations, except where they order steps; contents of media, messages and JSON;
logging; ICE, DTLS and SRTP, which libpeer and mbedTLS own; NVS, otadata and the
bootloader beyond what the code relies on.

- Arrival trace: compiled into a diagnostic build only; its records decide nothing.
- Echo canceller filter transfer: behind a build flag no shipped environment sets. Beam
  telemetry is a JSON layout.
- Decimation and compensation filters: signal processing.
- Link health and fleet identity: counters and strings for an operator.
- The three other boards: older variants without the recovery machinery.
- Bench and lint scripts.
- Within modelled parts: the adaptive prebuffer controller, off in the production build;
  the body of an upload and the status pages of `src/ota.cpp`; data the satellite sends on
  its own, fragments and channel types in `Sctp`; message construction in `src/rtvi.cpp`.

Hazards no property covers are in PROJECT.json with the reason: the decoder's reset on
one task while another may be decoding (`src/media.cpp:2534`; the state is opus's), the lost
updates of the ring counters (`src/media.cpp:2512`; modelled, but they cost audio and nothing
that lasts), and the brownout between selecting a slot and noting the flip
(`src/main.cpp:186`), which RTC memory and flash cannot exclude.

## Plan

What would add most next: in the proofs, what a lost update of the ring's counters can and
cannot cost, which needs what the three tasks hold at each of their steps as an invariant;
in the models, the adaptive prebuffer controller once it is switched on.
