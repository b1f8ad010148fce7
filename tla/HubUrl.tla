-------------------------------- MODULE HubUrl --------------------------------
(***************************************************************************)
(* Which hub the satellite offers to: the policy that chooses between the    *)
(* baked URL and the operator's override, as three tasks drive it.          *)
(*                                                                          *)
(*   - the transport loop dials, reports what came of it and consumes the   *)
(*     preflight verdict;                                                   *)
(*   - the httpd task stores or erases the override (POST, DELETE /hub/url);*)
(*   - the short-lived preflight task asks an override that was demoted     *)
(*     whether it is healthy again.                                         *)
(*                                                                          *)
(* The policy and the RAM copy of the override are touched under one lock;  *)
(* each critical section is a step here, and so is each gap between two.    *)
(*                                                                          *)
(* Sources: xiao-esp32-s3/src/hub_url_policy.h, hub_url.cpp, http.cpp, and  *)
(* the dial and the tick of webrtc.cpp, whose own states Redial.tla has.    *)
(*                                                                          *)
(* Left out: the failed-cutover and resolver counters, which only stretch   *)
(* the preflight interval or are reported; the interval is a flag that      *)
(* falls due.                                                               *)
(***************************************************************************)
EXTENDS Naturals

CONSTANTS
  Url,          \* overrides an operator may store (valid ones)
  Malformed,    \* a stored value hub_url_valid refuses
  NoUrl,        \* "": no override, or no dial made
  Baked,        \* PIPECAT_SMALLWEBRTC_URL
  Threshold     \* kUrlFailureThreshold

ASSUME UrlAssumption ==
  /\ Malformed \notin Url /\ NoUrl \notin Url /\ Baked \notin Url
  /\ Malformed # NoUrl /\ Malformed # Baked /\ NoUrl # Baked
ASSUME ThresholdAssumption == Threshold \in Nat \ {0}

VARIABLES
  flash,        \* NVS hub/url
  override,     \* s_nvs_url, the RAM copy
  state,        \* s_policy.state_
  urlFailures,  \* s_policy.url_failures_
  preflight,    \* s_preflight; "copied" is kPfRunning with the URL in hand
  checked,      \* the URL the preflight task copied
  pfDue,        \* s_preflight_due_ms has passed
  loop,         \* where the transport loop stands
  conn,         \* the peer: none, dialing, checking, up
  dialed,       \* the URL of that peer's offer
  request,      \* s_redial_requested is set
  retry,        \* the ladder's next attempt is due
  op,           \* httpd task: idle, stored, copied, noted
  asked,        \* the override that request is about, NoUrl for an erase
  rejections,   \* ghost: URL-class answers the current override itself earned
  cutovers,     \* ghost: override dials since re-probing began, up to 2
  calm          \* the world: TRUE once every hub serves and nobody interferes

policyVars == <<state, urlFailures, rejections, cutovers>>
pfVars     == <<preflight, checked, pfDue>>
loopVars   == <<loop, conn, dialed, retry>>
opVars     == <<op, asked>>
vars == <<flash, override, policyVars, pfVars, loopVars, request, opVars, calm>>

TypeOK ==
  /\ flash \in Url \cup {Malformed, NoUrl}
  /\ override \in Url \cup {NoUrl}
  /\ state \in {"baked", "nvs", "baked_fallback", "re-probing"}
  /\ urlFailures \in 0..Threshold
  /\ preflight \in {"idle", "running", "copied", "ok", "fail"}
  /\ checked \in Url \cup {NoUrl}
  /\ pfDue \in BOOLEAN
  /\ loop \in {"pass", "hub", "redial", "dial"}
  /\ conn \in {"none", "dialing", "checking", "up"}
  /\ dialed \in Url \cup {Baked, NoUrl}
  /\ request \in BOOLEAN /\ retry \in BOOLEAN
  /\ op \in {"idle", "stored", "copied", "noted"}
  /\ asked \in Url \cup {NoUrl}
  /\ rejections \in 0..Threshold
  /\ cutovers \in 0..2
  /\ calm \in BOOLEAN

\* load_nvs_locked: a malformed value is ignored at read time.
Loaded(stored) == IF stored \in Url THEN stored ELSE NoUrl

\* HubUrlPolicy.init.
InitialState(url) == IF url = NoUrl THEN "baked" ELSE "nvs"

Init ==
  /\ flash \in Url \cup {Malformed, NoUrl}
  /\ override = Loaded(flash) /\ state = InitialState(Loaded(flash))
  /\ urlFailures = 0 /\ rejections = 0 /\ cutovers = 0
  /\ preflight = "idle" /\ checked = NoUrl /\ pfDue = FALSE
  /\ loop = "dial" /\ conn = "none" /\ dialed = NoUrl /\ retry = FALSE
  /\ request = FALSE
  /\ op = "idle" /\ asked = NoUrl
  /\ calm = FALSE

-----------------------------------------------------------------------------
(* HubUrlPolicy::note, one operator per event; each also says what the       *)
(* ghosts make of it.                                                       *)

DialsOverride == state \in {"nvs", "re-probing"} /\ override # NoUrl

\* The URL the next dial uses.
Chosen == IF DialsOverride THEN override ELSE Baked

\* Entering baked_fallback arms the preflight clock (note_result).
Parked == pfDue' = IF state' = "baked_fallback" /\ state # state'
                   THEN FALSE ELSE pfDue

Least(m, n) == IF m < n THEN m ELSE n

\* Mutant: the fourth rejection demotes, not the third.
NoteUrlClassLate ==
  /\ rejections' = IF dialed = override THEN Least(rejections + 1, Threshold)
                   ELSE rejections
  /\ urlFailures' = IF state = "nvs" THEN urlFailures + 1 ELSE urlFailures
  /\ state' = IF state = "re-probing" \/ (state = "nvs" /\ urlFailures' > Threshold)
              THEN "baked_fallback" ELSE state
  /\ UNCHANGED cutovers /\ Parked

\* NXDOMAIN from the designated resolver, or 400/404/405 from the hub.
NoteUrlClass ==
  /\ rejections' = IF dialed = override THEN Least(rejections + 1, Threshold)
                   ELSE rejections
  /\ urlFailures' = IF state = "nvs" THEN urlFailures + 1 ELSE urlFailures
  /\ state' = IF state = "re-probing" \/ (state = "nvs" /\ urlFailures' >= Threshold)
              THEN "baked_fallback" ELSE state
  /\ UNCHANGED cutovers /\ Parked

\* Timeouts, refusals, 401/403, 5xx, a bad 200, never CONNECTED.
NoteTransport ==
  /\ state' = IF state = "re-probing" THEN "baked_fallback" ELSE state
  /\ UNCHANGED <<urlFailures, rejections, cutovers>> /\ Parked

NoteConnected ==
  /\ state' = IF state = "re-probing" THEN "nvs" ELSE state
  /\ IF state \in {"nvs", "re-probing"}
     THEN urlFailures' = 0 /\ rejections' = 0
     ELSE UNCHANGED <<urlFailures, rejections>>
  /\ UNCHANGED cutovers /\ Parked

\* Mutant: the counter survives a new override.
NoteOperatorKeepsCount ==
  /\ state' = InitialState(asked)
  /\ urlFailures' = urlFailures /\ rejections' = 0
  /\ UNCHANGED cutovers /\ Parked

\* kPost, kErase.
NoteOperator ==
  /\ state' = InitialState(asked)
  /\ urlFailures' = 0 /\ rejections' = 0
  /\ UNCHANGED cutovers /\ Parked

-----------------------------------------------------------------------------
(* The transport loop: a pass over the peer, pipecat_hub_url_tick, then      *)
(* pipecat_webrtc_redial_tick, which may dial.                              *)

PassConnects ==
  /\ loop = "pass" /\ conn = "checking"
  /\ conn' = "up" /\ NoteConnected
  /\ loop' = "hub"
  /\ UNCHANGED <<flash, override, preflight, checked, dialed, retry, request,
                 opVars, calm>>

\* ICE fails or the hub closes: a re-dial is due, and the policy hears nothing.
PassLoses ==
  /\ loop = "pass" /\ conn \in {"checking", "up"} /\ ~calm
  /\ request' = TRUE
  /\ loop' = "hub"
  /\ UNCHANGED <<flash, override, policyVars, pfVars, conn, dialed, retry,
                 opVars, calm>>

PassQuietly ==
  /\ loop = "pass" /\ ~(calm /\ conn = "checking")
  /\ loop' = "hub"
  /\ UNCHANGED <<flash, override, policyVars, pfVars, conn, dialed, retry,
                 request, opVars, calm>>

\* A verdict is there: note it; kPreflightOk from baked_fallback starts the
\* cutover and asks for its one dial.  Either way the clock starts anew.
TickTakesVerdict ==
  /\ loop = "hub" /\ preflight \in {"ok", "fail"}
  /\ IF preflight = "ok" /\ state = "baked_fallback"
     THEN state' = "re-probing" /\ cutovers' = 0 /\ request' = TRUE
     ELSE UNCHANGED <<state, cutovers, request>>
  /\ preflight' = "idle" /\ pfDue' = FALSE
  /\ loop' = "redial"
  /\ UNCHANGED <<flash, override, urlFailures, rejections, checked, conn,
                 dialed, retry, opVars, calm>>

\* Mutant: the preflight never starts.
TickNeverStarts == UNCHANGED <<preflight, checked, pfDue>>

\* Armed and due: create the task, or, without memory for one, wait anew.
TickStarts ==
  IF state = "baked_fallback" /\ pfDue
  THEN /\ checked' = NoUrl
       /\ \/ preflight' = "running" /\ UNCHANGED pfDue
          \/ ~calm /\ preflight' = "idle" /\ pfDue' = FALSE
  ELSE UNCHANGED <<preflight, checked, pfDue>>

TickWithoutVerdict ==
  /\ loop = "hub" /\ preflight \notin {"ok", "fail"}
  /\ IF preflight = "idle" THEN TickStarts
     ELSE UNCHANGED <<preflight, checked, pfDue>>
  /\ loop' = "redial"
  /\ UNCHANGED <<flash, override, policyVars, conn, dialed, retry, request,
                 opVars, calm>>

RedialTick ==
  /\ loop = "redial"
  /\ request' = FALSE
  /\ IF conn = "none"
     THEN loop' = (IF retry THEN "dial" ELSE "pass") /\ UNCHANGED <<conn, dialed>>
     ELSE IF request
          THEN loop' = "dial" /\ conn' = "none" /\ dialed' = NoUrl
          ELSE loop' = "pass" /\ UNCHANGED <<conn, dialed>>
  /\ UNCHANGED <<flash, override, policyVars, pfVars, retry, opVars, calm>>

\* 20 s since the offer without CONNECTED.
RedialTickTimesOut ==
  /\ loop = "redial" /\ conn = "checking" /\ ~request /\ ~calm
  /\ NoteTransport
  /\ conn' = "none" /\ dialed' = NoUrl /\ retry' = FALSE
  /\ loop' = "pass"
  /\ UNCHANGED <<flash, override, preflight, checked, request, opVars, calm>>

\* pipecat_hub_url: policy and URL are read together, and used unlocked.
PickUrl ==
  /\ loop = "dial" /\ conn = "none"
  /\ conn' = "dialing"
  /\ dialed' = Chosen
  /\ cutovers' = IF state = "re-probing" /\ DialsOverride
                 THEN Least(cutovers + 1, 2) ELSE cutovers
  /\ UNCHANGED <<flash, override, state, urlFailures, rejections, pfVars, loop,
                 retry, request, opVars, calm>>

DialAnswered ==
  /\ loop = "dial" /\ conn = "dialing"
  /\ conn' = "checking" /\ loop' = "pass"
  /\ UNCHANGED <<flash, override, policyVars, pfVars, dialed, retry, request,
                 opVars, calm>>

\* No answer: the event is noted as of now, whatever the policy is by now, and
\* pipecat_webrtc_note_attempt_failed starts the backoff.
DialFails(Note) ==
  /\ loop = "dial" /\ conn = "dialing" /\ ~calm
  /\ Note
  /\ conn' = "none" /\ dialed' = NoUrl /\ retry' = FALSE
  /\ loop' = "pass"
  /\ UNCHANGED <<flash, override, preflight, checked, request, opVars, calm>>

DialRejected == DialFails(NoteUrlClass)

DialBreaksDown == DialFails(NoteTransport)

\* No memory for the offer's JSON, or a 200 with an empty sdp.
DialEndsUnnoted == DialFails(UNCHANGED <<policyVars, pfDue>>)

TransportLoop ==
  \/ PassConnects \/ PassLoses \/ PassQuietly
  \/ TickTakesVerdict \/ TickWithoutVerdict
  \/ RedialTick \/ RedialTickTimesOut
  \/ PickUrl \/ DialAnswered
  \/ DialRejected \/ DialBreaksDown \/ DialEndsUnnoted

-----------------------------------------------------------------------------
(* preflight_task: copies the override, asks, leaves a verdict.             *)

PreflightCopies ==
  /\ preflight = "running"
  /\ preflight' = "copied" /\ checked' = override
  /\ UNCHANGED <<flash, override, policyVars, pfDue, loopVars, request, opVars,
                 calm>>

PreflightAsks ==
  /\ preflight = "copied"
  /\ \/ checked # NoUrl /\ preflight' = "ok"
     \/ (checked = NoUrl \/ ~calm) /\ preflight' = "fail"
  /\ UNCHANGED <<flash, override, policyVars, checked, pfDue, loopVars,
                 request, opVars, calm>>

Preflight == PreflightCopies \/ PreflightAsks

-----------------------------------------------------------------------------
(* pipecat_hub_url_set, pipecat_hub_url_erase: flash, RAM copy, policy,      *)
(* re-dial, in that order.                                                  *)

OpStores ==
  /\ op = "idle" /\ ~calm
  /\ \E u \in Url \cup {NoUrl} : asked' = u /\ flash' = u
  /\ op' = "stored"
  /\ UNCHANGED <<override, policyVars, pfVars, loopVars, request, calm>>

\* Mutant: the policy hears of the override before its copy is there.
OpCopiesLate ==
  /\ op = "stored"
  /\ override' = override /\ op' = "copied"
  /\ UNCHANGED <<flash, policyVars, pfVars, loopVars, request, asked, calm>>

OpCopies ==
  /\ op = "stored"
  /\ override' = asked /\ op' = "copied"
  /\ UNCHANGED <<flash, policyVars, pfVars, loopVars, request, asked, calm>>

OpNotes ==
  /\ op = "copied"
  /\ NoteOperator
  /\ op' = "noted"
  /\ UNCHANGED <<flash, override, preflight, checked, loopVars, request, asked,
                 calm>>

\* Mutant: a stored override waits for the next dial.
OpLeavesPeer ==
  /\ op = "noted"
  /\ op' = "idle" /\ asked' = NoUrl
  /\ UNCHANGED <<flash, override, policyVars, pfVars, loopVars, request, calm>>

OpRedials ==
  /\ op = "noted"
  /\ request' = TRUE
  /\ op' = "idle" /\ asked' = NoUrl
  /\ UNCHANGED <<flash, override, policyVars, pfVars, loopVars, calm>>

Operator == OpCopies \/ OpNotes \/ OpRedials

-----------------------------------------------------------------------------
(* Clocks, resets and the world.                                            *)

PreflightFallsDue ==
  /\ ~pfDue /\ pfDue' = TRUE
  /\ UNCHANGED <<flash, override, policyVars, preflight, checked, loopVars,
                 request, opVars, calm>>

BackoffElapses ==
  /\ conn = "none" /\ ~retry /\ retry' = TRUE
  /\ UNCHANGED <<flash, override, policyVars, pfVars, loop, conn, dialed,
                 request, opVars, calm>>

\* Power, a fault or the restart fallback: only flash is left.
Reboot ==
  /\ ~calm
  /\ override' = Loaded(flash) /\ state' = InitialState(Loaded(flash))
  /\ urlFailures' = 0 /\ rejections' = 0 /\ cutovers' = 0
  /\ preflight' = "idle" /\ checked' = NoUrl /\ pfDue' = FALSE
  /\ loop' = "dial" /\ conn' = "none" /\ dialed' = NoUrl /\ retry' = FALSE
  /\ request' = FALSE
  /\ op' = "idle" /\ asked' = NoUrl
  /\ UNCHANGED <<flash, calm>>

WorldCalmsDown ==
  /\ ~calm /\ calm' = TRUE
  /\ UNCHANGED <<flash, override, policyVars, pfVars, loopVars, request,
                 opVars>>

Next == TransportLoop \/ Preflight \/ OpStores \/ Operator
          \/ PreflightFallsDue \/ BackoffElapses \/ Reboot \/ WorldCalmsDown

Spec == Init /\ [][Next]_vars

\* The three tasks run and the two clocks advance; nothing is assumed of hubs
\* and operators.
Fairness == /\ WF_vars(TransportLoop)
            /\ WF_vars(Preflight)
            /\ WF_vars(Operator)
            /\ WF_vars(PreflightFallsDue)
            /\ WF_vars(BackoffElapses)

FairSpec == Spec /\ Fairness

-----------------------------------------------------------------------------
(* Safety.                                                                  *)

\* Whatever the operator does and wherever a reset cuts it short, flash, the
\* RAM copy and the policy agree once the httpd task is idle.
StoreAndPolicyAgree ==
  op = "idle" => /\ override = Loaded(flash)
                 /\ (state = "baked") <=> (override = NoUrl)

\* A demotion is the override's own doing: at most one of the rejections that
\* count toward it belongs to a dial that was under way when it was stored.
DemotionEarned ==
  op # "copied" /\ state \in {"baked_fallback", "re-probing"}
    => rejections + 1 >= Threshold

\* The peer in place, or on its way, was offered to the URL the policy would
\* choose now; if not, it is about to be dropped.  A stored override, an erased
\* one and a cutover all move the policy under a peer.
WrongPeerIsLeaving ==
  conn # "none" /\ op \in {"idle", "stored"} /\ dialed # Chosen => request

-----------------------------------------------------------------------------
(* Liveness, under FairSpec.                                                *)

\* Once the hubs serve, the satellite ends up connected through the URL the
\* operator asked for, from whatever the failures and races have made of the
\* policy; a demoted override comes back through the preflight.
EndsUpOnRightUrl ==
  <>calm => <>[](conn = "up" /\ dialed = (IF override = NoUrl THEN Baked ELSE override))

-----------------------------------------------------------------------------
(* What the comments say and the code does not do.                          *)

\* hub_url_policy.h:20-23: "gates ONE deliberate cutover (`re-probing`: exactly
\* one redial on the override)".
OneCutoverDial == cutovers <= 1
=============================================================================
