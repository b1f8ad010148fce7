-------------------------------- MODULE HubDns --------------------------------
(***************************************************************************)
(* The designated resolver (src/hub_dns.cpp): one UDP query for the override's *)
(* host name, sent at most DnsTries times on one socket with one transaction  *)
(* id.  Its verdict is what HubUrl's policy classifies: only NXDOMAIN counts   *)
(* against the override, so it must be the resolver's answer to this query.    *)
(*                                                                          *)
(* A datagram is lost when it is never taken, and may be overtaken or repeated; *)
(* others reach the port as well.  Names are "hub" and what it may be an alias   *)
(* of; a message that does not parse, is truncated or echoes another question   *)
(* is garbled.                                                              *)
(***************************************************************************)
EXTENDS Naturals, Sequences, FiniteSets, SequencesExt

CONSTANTS
  DnsTries,   \* kHubDnsTries
  DnsBudget,  \* kHubDnsTryTimeoutMs in units
  Zones,      \* what the resolver may hold: [rcode, answers]
  InFlight    \* bound: datagrams on the way to the socket

ASSUME HubDnsBounds ==
  /\ DnsTries \in Nat \ {0} /\ DnsBudget \in Nat \ {0} /\ InFlight \in Nat \ {0}
  /\ \A zone \in Zones : /\ zone.rcode \in {"ok", "nxdomain", "servfail"}
                         /\ IsFiniteSet(DOMAIN zone.answers)

VARIABLES
  dnsAt,    \* "idle", "sending", "waiting", "done"
  tries,    \* diag->tries
  budget,   \* remaining_ms
  verdict,
  zone,     \* what the resolver holds now
  reached,  \* the resolver has this query
  inbox,    \* datagrams on the way to the socket
  said      \* ghost: what the resolver said to this query

queryVars == <<dnsAt, tries, budget, verdict>>
hubDnsVars == <<queryVars, zone, reached, inbox, said>>

Verdicts == {"a", "nxdomain", "nodata", "servfail", "timeout", "no_resolver"}
Datagram == [from : {"resolver", "other"}, re : {"query", "former", "garbled"},
             says : Zones]

HubDnsTypeOK ==
  /\ dnsAt \in {"idle", "sending", "waiting", "done"}
  /\ tries \in 0..DnsTries /\ budget \in 0..DnsBudget
  /\ verdict \in Verdicts \cup {"none"}
  /\ zone \in Zones /\ reached \in BOOLEAN
  /\ inbox \subseteq Datagram /\ said \subseteq Zones

HubDnsInit ==
  /\ dnsAt = "idle" /\ tries = 0 /\ budget = 0 /\ verdict = "none"
  /\ zone \in Zones /\ reached = FALSE /\ inbox = {} /\ said = {}

-----------------------------------------------------------------------------
(* hub_dns_parse_response.                                                  *)

\* A record's owner, spelled out or compressed, is the name that is wanted.
Named(rr, want) == rr.owner = want

\* The answer section in message order: a CNAME of the name that is wanted
\* changes it, and the first A of the name that is wanted ends the scan.
Scanned(answers) ==
  FoldLeft(LAMBDA scan, rr :
             CASE scan.found \/ ~Named(rr, scan.want) -> scan
               [] rr.type = "cname" -> [scan EXCEPT !.want = rr.target]
               [] rr.type = "a" -> [scan EXCEPT !.found = TRUE]
               [] OTHER -> scan,
           [want |-> "hub", found |-> FALSE], answers)

RcodeVerdict(message) ==
  CASE message.rcode = "nxdomain" -> "nxdomain"
    [] message.rcode = "ok" -> IF Scanned(message.answers).found THEN "a" ELSE "nodata"
    [] OTHER -> "servfail"

\* The id, the flags and the echoed question, before anything it says.
Parsed(d) == IF d.re = "query" THEN RcodeVerdict(d.says) ELSE "mismatch"

\* Mutant: a datagram is accepted whoever sent it.
AcceptedFromAny(d) == Parsed(d) # "mismatch"

\* From the server and the port that were asked, and a match.
Accepted(d) == d.from = "resolver" /\ Parsed(d) # "mismatch"

-----------------------------------------------------------------------------
(* pipecat_hub_dns_query and hub_dns_query_server.                          *)

Returns(v) == dnsAt' = "done" /\ verdict' = v

\* No resolver in the lease, or one that is not private: nothing is sent.
NoResolver ==
  /\ dnsAt = "idle" /\ Returns("no_resolver")
  /\ UNCHANGED <<tries, budget, zone, reached, inbox, said>>

\* A name that does not encode or no socket: transport-class.
NotSendable ==
  /\ dnsAt = "idle" /\ Returns("timeout")
  /\ UNCHANGED <<tries, budget, zone, reached, inbox, said>>

QueryStarts ==
  /\ dnsAt = "idle" /\ dnsAt' = "sending"
  /\ UNCHANGED <<tries, budget, verdict, zone, reached, inbox, said>>

\* sendto puts the query on the network or fails.
TrySends ==
  /\ dnsAt = "sending" /\ tries < DnsTries
  /\ tries' = tries + 1
  /\ \/ dnsAt' = "waiting" /\ budget' = DnsBudget /\ reached' \in {reached, TRUE}
     \/ UNCHANGED <<dnsAt, budget, reached>>
  /\ UNCHANGED <<verdict, zone, inbox, said>>

TriesExhausted ==
  /\ dnsAt = "sending" /\ tries = DnsTries /\ Returns("timeout")
  /\ UNCHANGED <<tries, budget, zone, reached, inbox, said>>

\* The wall-clock budget of a try shrinks, and ends it.
BudgetShrinks ==
  /\ dnsAt = "waiting"
  /\ budget' = budget - 1
  /\ dnsAt' = IF budget = 1 THEN "sending" ELSE "waiting"
  /\ UNCHANGED <<tries, verdict, zone, reached, inbox, said>>

ReceiveFails ==
  /\ dnsAt = "waiting" /\ dnsAt' = "sending" /\ budget' = 0
  /\ UNCHANGED <<tries, verdict, zone, reached, inbox, said>>

\* What is not accepted is discarded, and the try goes on.
DatagramTaken(d) ==
  /\ dnsAt = "waiting" /\ d \in inbox
  /\ inbox' = inbox \ {d}
  /\ IF Accepted(d) THEN Returns(Parsed(d)) ELSE UNCHANGED <<dnsAt, verdict>>
  /\ UNCHANGED <<tries, budget, zone, reached, said>>

\* The caller takes the verdict; the socket is closed.
QueryReturns ==
  /\ dnsAt = "done"
  /\ dnsAt' = "idle" /\ tries' = 0 /\ budget' = 0 /\ verdict' = "none"
  /\ reached' = FALSE /\ inbox' = {} /\ said' = {}
  /\ UNCHANGED zone

-----------------------------------------------------------------------------
(* The resolver and the network.                                            *)

\* It may answer a query again, later, or with less than a whole message.
ResolverAnswers ==
  /\ reached /\ dnsAt \in {"sending", "waiting"} /\ Cardinality(inbox) < InFlight
  /\ \E re \in {"query", "garbled"} :
       /\ inbox' = inbox \cup {[from |-> "resolver", re |-> re, says |-> zone]}
       /\ said' = IF re = "query" THEN said \cup {zone} ELSE said
  /\ UNCHANGED <<queryVars, zone, reached>>

\* An answer to a query that had the port before, or one of another host.
StrayArrives ==
  /\ dnsAt \in {"sending", "waiting"} /\ Cardinality(inbox) < InFlight
  /\ \E d \in Datagram : /\ d.from = "other" \/ d.re = "former"
                         /\ inbox' = inbox \cup {d}
  /\ UNCHANGED <<queryVars, zone, reached, said>>

ZoneChanges ==
  /\ zone' \in Zones \ {zone}
  /\ UNCHANGED <<queryVars, reached, inbox, said>>

HubDnsNext ==
  \/ NoResolver \/ NotSendable \/ QueryStarts \/ TrySends \/ TriesExhausted
  \/ BudgetShrinks \/ ReceiveFails \/ (\E d \in inbox : DatagramTaken(d))
  \/ QueryReturns \/ ResolverAnswers \/ StrayArrives \/ ZoneChanges

-----------------------------------------------------------------------------
\* A name is only taken for gone, and an address only for the hub's, when the
\* resolver said so to this query: not to one that had the port before, and no
\* other host; and silence is only a timeout after every try
\* (hub_dns.cpp:284-299, hub_url_policy.h:35).
VerdictIsEarned ==
  dnsAt = "done" =>
    /\ verdict = "nxdomain" => \E s \in said : s.rcode = "nxdomain"
    /\ verdict = "a" => \E s \in said : RcodeVerdict(s) = "a"
    /\ verdict = "timeout" => tries \in {0, DnsTries}
=============================================================================
