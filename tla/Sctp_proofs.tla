----------------------------- MODULE Sctp_proofs -----------------------------
(***************************************************************************)
(* Proofs about Sctp.tla, for every window, TSN space, first TSN, table      *)
(* size, payload and number of chunks.                                      *)
(*                                                                          *)
(* The argument.  As long as the TSNs are not started afresh under way, the *)
(* cumulative TSN is that of some chunk n the hub has not acknowledged past, *)
(* and every chunk up to n, and every one whose bit is set, has been acted   *)
(* on or given up (Followed).  A SACK tells the hub no more than that       *)
(* (Heeded), and since nobody compares TSNs further apart than half their   *)
(* space, the comparison modulo 2^32 is the comparison of chunks.           *)
(***************************************************************************)
EXTENDS Sctp, TLAPS, WellFoundedInduction

USE PayloadAssumption, TsnAssumption, BoundAssumption
USE DEF vars, tsnVars, hsVars, hubVars, ghosts, satVars

\* Up to chunk n, and where a bit is set beyond it, all chunks are in done, and
\* none is past the last one.
Covers(t, n, done, last) ==
  /\ n \in 0..last /\ t.cum = Tsn(n)
  /\ t.gaps \subseteq 1..Window
  /\ \A k \in 1..n : k \in done
  /\ \A i \in t.gaps : n + i \in done /\ n + i <= last

Settled == handled \cup abandoned

\* The handshake: who has come how far.
Begun ==
  /\ valid => opened
  /\ "INIT_ACK" \in toHub \/ "COOKIE_ECHO" \in toHub \/ hub \in {"echoed", "up"}
     \/ sent # <<>> => valid

\* The satellite's account of the hub's chunks.
Followed ==
  valid /\ ~late =>
    \E n \in hubCum..Len(sent) :
      Covers([cum |-> cum, gaps |-> gaps], n, Settled, Len(sent))

\* The hub's account of them.
Heeded ==
  /\ hubCum <= Len(sent)
  /\ \A k \in 1..hubCum : k \in Settled
  /\ \A k \in hubGaps : k \in Settled
  /\ \A k \in abandoned : k <= Len(sent)

\* The Boolean part of TypeOK, apart because it is first-order logic only.
FlagsOK ==
  /\ opened \in BOOLEAN /\ connected \in BOOLEAN /\ valid \in BOOLEAN
  /\ closeAsked \in BOOLEAN /\ pong \in BOOLEAN /\ late \in BOOLEAN

\* The rest of it.
OthersOK ==
  /\ cum \in 0..(Mod - 1) /\ gaps \in SUBSET (1..Window)
  /\ table \in Seq(Payload) /\ Len(table) <= MaxStreams
  /\ hub \in {"closed", "initSent", "echoed", "up", "gone"} /\ inits \in 0..HubInits
  /\ sent \in Seq(Payload) /\ Len(sent) <= MaxSent
  /\ abandoned \in SUBSET Chunk /\ hubCum \in 0..MaxSent /\ hubGaps \in SUBSET Chunk
  /\ toHub \in SUBSET Control /\ toSat \in SUBSET Control
  /\ handled \in SUBSET Chunk

IInv == TypeOK /\ TableIsUnambiguous /\ Begun /\ Followed /\ Heeded

-----------------------------------------------------------------------------
(* Numbers.                                                                 *)

\* A set of naturals has a least member.
LEMMA LeastOf ==
  ASSUME NEW T, T \subseteq Nat, T # {}
  PROVE  \E m \in T : \A k \in T : m <= k
<1> DEFINE R == OpToRel(<, Nat)
<1>1. R = {ss \in Nat \X Nat : ss[1] < ss[2]}
  BY DEF OpToRel
<1>2. IsWellFoundedOn(R, Nat)
  BY NatLessThanWellFounded
<1>3. \E m \in T : \A k \in T : ~ (<<k, m>> \in R)
  <2> HIDE DEF R
  <2> QED BY <1>2, WFMin, Zenon
<1>4. \A k, m \in Nat : k < m => <<k, m>> \in R
  <2> HIDE DEF R
  <2> QED BY <1>1
<1> HIDE DEF R
<1>5. PICK m \in T : \A k \in T : <<k, m>> \notin R
  BY <1>3
<1>6. ASSUME NEW k \in T PROVE m <= k
  <2>1. k \in Nat /\ m \in Nat
    OBVIOUS
  <2>2. ~(k < m)
    BY <1>4, <1>5, <2>1, Zenon
  <2> QED BY <2>1, <2>2
<1> QED BY <1>6

\* The run of set bits that Slid looks for exists.
LEMMA RunExists ==
  ASSUME NEW bits, bits \subseteq 1..Window
  PROVE  \E n \in 0..Window : 1..n \subseteq bits /\ n + 1 \notin bits
<1> DEFINE T == {m \in 1..(Window + 1) : m \notin bits}
<1>1. T \subseteq Nat
  OBVIOUS
<1>2. Window + 1 \in T
  OBVIOUS
<1>3. PICK m \in T : \A k \in T : m <= k
  <2> HIDE DEF T
  <2> QED BY <1>1, <1>2, LeastOf
<1>4. m - 1 \in 0..Window /\ (m - 1) + 1 \notin bits
  BY <1>3
<1>5. 1..(m - 1) \subseteq bits
  <2> SUFFICES ASSUME NEW k \in 1..(m - 1), k \notin bits PROVE FALSE
    OBVIOUS
  <2>1. k \in T /\ k < m
    BY <1>3
  <2> QED BY <1>3, <2>1
<1> QED BY <1>4, <1>5

\* TSNs are what cum ranges over.
LEMMA TsnType == ASSUME NEW k \in 0..MaxSent PROVE Tsn(k) \in 0..(Mod - 1)
BY DEF Tsn, Wrap, Mod

\* Adding to a TSN is counting on.
LEMMA TsnPlus ==
  ASSUME NEW k \in Nat, NEW r \in Nat, k + r <= MaxSent
  PROVE  Wrap(Tsn(k) + r) = Tsn(k + r)
BY DEF Tsn, Wrap, Mod

\* The comparison modulo the TSN space compares chunks.
LEMMA DeltaTsn ==
  ASSUME NEW a \in 0..MaxSent, NEW b \in 0..MaxSent
  PROVE  Delta(Tsn(a), Tsn(b)) = a - b
BY DEF Tsn, Wrap, Mod, Delta

-----------------------------------------------------------------------------
(* The record functions.                                                    *)

\* Sliding over the set bits loses nothing and claims nothing.
LEMMA SlidCovers ==
  ASSUME NEW last \in 0..MaxSent, NEW done, NEW n \in Nat, NEW c, NEW bits,
         Covers([cum |-> c, gaps |-> bits], n, done, last)
  PROVE  \E m \in n..last : Covers(Slid(c, bits), m, done, last)
<1>0. /\ n \in 0..last /\ c = Tsn(n) /\ bits \subseteq 1..Window
      /\ \A k \in 1..n : k \in done
      /\ \A i \in bits : n + i \in done /\ n + i <= last
  BY DEF Covers
<1> DEFINE P(r) == 1..r \subseteq bits /\ r + 1 \notin bits
           run == CHOOSE r \in 0..Window : P(r)
           g == {i - run : i \in {j \in bits : j > run}}
<1>1. run \in 0..Window /\ P(run)
  BY <1>0, RunExists
<1>2. Slid(c, bits) = [cum |-> Wrap(c + run), gaps |-> g]
  BY DEF Slid
<1> HIDE DEF run
<1>3. n + run \in n..last
  <2>1. CASE run = 0
    BY <2>1, <1>0
  <2>2. CASE run # 0
    <3>1. run \in bits
      BY <1>1, <2>2
    <3> QED BY <3>1, <1>0, <1>1
  <2> QED BY <2>1, <2>2
<1>4. Wrap(c + run) = Tsn(n + run)
  BY <1>0, <1>1, <1>3, TsnPlus
<1>5. g \subseteq 1..Window
  BY <1>0, <1>1
<1>6. \A k \in 1..(n + run) : k \in done
  <2> SUFFICES ASSUME NEW k \in 1..(n + run), k > n PROVE k \in done
    BY <1>0
  <2>1. k - n \in 1..run
    BY <1>1
  <2>2. k - n \in bits
    BY <2>1, <1>1
  <2>3. n + (k - n) \in done
    BY <2>2, <1>0
  <2> QED BY <2>3
<1>7. ASSUME NEW i \in g PROVE (n + run) + i \in done /\ (n + run) + i <= last
  <2>1. PICK j \in bits : j > run /\ i = j - run
    OBVIOUS
  <2>2. n + j \in done /\ n + j <= last
    BY <1>0
  <2>3. (n + run) + i = n + j
    BY <2>1, <1>0, <1>1
  <2> QED BY <2>2, <2>3
<1> HIDE DEF g
<1> DEFINE m == n + run
<1>8. m \in 0..last
  BY <1>0, <1>1, <1>3
<1>9. Slid(c, bits).cum = Tsn(m) /\ Slid(c, bits).gaps = g
  BY <1>2, <1>4
<1>10. (\A k \in 1..m : k \in done) /\ (\A i \in g : m + i \in done /\ m + i <= last)
  BY <1>6, <1>7
<1> HIDE DEF m
<1>11. Covers(Slid(c, bits), m, done, last)
  BY <1>5, <1>8, <1>9, <1>10 DEF Covers
<1>12. m \in n..last
  BY <1>3 DEF m
<1> QED BY <1>11, <1>12

\* A DATA chunk.
LEMMA RecordedCovers ==
  ASSUME NEW last \in 0..MaxSent, NEW done, NEW n \in Nat, NEW k \in 1..last,
         valid, Covers([cum |-> cum, gaps |-> gaps], n, done, last)
  PROVE  \E m \in n..last :
           Covers(Recorded(Tsn(k)), m,
                  IF IsNew(Tsn(k)) THEN done \cup {k} ELSE done, last)
<1>0. /\ n \in 0..last /\ cum = Tsn(n) /\ gaps \subseteq 1..Window
      /\ \A j \in 1..n : j \in done
      /\ \A i \in gaps : n + i \in done /\ n + i <= last
  BY DEF Covers
<1>1. Track(Tsn(k)) = [cum |-> cum, gaps |-> gaps]
  BY DEF Track
<1>2. Delta(Tsn(k), cum) = k - n
  BY <1>0, DeltaTsn
<1>3. CASE IsNew(Tsn(k))
  <2>1. k - n \in 1..Window
    BY <1>0, <1>1, <1>2, <1>3 DEF IsNew
  <2>2. Recorded(Tsn(k)) = Slid(cum, gaps \cup {k - n})
    BY <1>1, <1>2, <1>3 DEF Recorded
  <2>3. Covers([cum |-> cum, gaps |-> gaps \cup {k - n}], n, done \cup {k}, last)
    BY <1>0, <2>1 DEF Covers
  <2>4. \E m \in n..last : Covers(Slid(cum, gaps \cup {k - n}), m, done \cup {k}, last)
    BY <2>3, SlidCovers
  <2> QED BY <1>3, <2>2, <2>4
<1>4. CASE ~IsNew(Tsn(k))
  <2>1. Recorded(Tsn(k)) = [cum |-> cum, gaps |-> gaps]
    BY <1>1, <1>4 DEF Recorded
  <2> QED BY <1>0, <1>4, <2>1
<1> QED BY <1>3, <1>4

\* A FORWARD-TSN up to chunk p.
LEMMA ForwardedCovers ==
  ASSUME NEW last \in 0..MaxSent, NEW done, NEW n \in Nat, NEW p \in 0..last,
         \A k \in 1..p : k \in done,
         valid, Covers([cum |-> cum, gaps |-> gaps], n, done, last)
  PROVE  \E m \in n..last : Covers(Forwarded(Tsn(p)), m, done, last)
<1>0. /\ n \in 0..last /\ cum = Tsn(n) /\ gaps \subseteq 1..Window
      /\ \A j \in 1..n : j \in done
      /\ \A i \in gaps : n + i \in done /\ n + i <= last
  BY DEF Covers
<1>1. Track(Wrap(Tsn(p) + 1)) = [cum |-> cum, gaps |-> gaps]
  BY DEF Track
<1>2. Delta(Tsn(p), cum) = p - n
  BY <1>0, DeltaTsn
<1>3. CASE p <= n
  <2>1. Forwarded(Tsn(p)) = [cum |-> cum, gaps |-> gaps]
    BY <1>0, <1>1, <1>2, <1>3 DEF Forwarded
  <2> QED BY <1>0, <2>1
<1>4. CASE p > n
  <2> DEFINE g == {i - (p - n) : i \in {j \in gaps : j > p - n}}
  <2> DEFINE d == Delta(Tsn(p), Track(Wrap(Tsn(p) + 1)).cum)
  <2>a. d = p - n /\ Track(Wrap(Tsn(p) + 1)).gaps = gaps
    BY <1>1, <1>2
  <2>b. Forwarded(Tsn(p)) =
          IF d <= 0 THEN Track(Wrap(Tsn(p) + 1))
          ELSE Slid(Tsn(p), {i - d : i \in {j \in Track(Wrap(Tsn(p) + 1)).gaps : j > d}})
    BY DEF Forwarded
  <2> HIDE DEF d
  <2>c. ~(d <= 0)
    BY <1>0, <1>4, <2>a
  <2>1. Forwarded(Tsn(p)) = Slid(Tsn(p), g)
    BY <2>a, <2>b, <2>c, Zenon
  <2>2. g \subseteq 1..Window
    BY <1>0, <1>4
  <2>3. ASSUME NEW i \in g PROVE p + i \in done /\ p + i <= last
    <3>1. PICK j \in gaps : j > p - n /\ i = j - (p - n)
      OBVIOUS
    <3>2. n + j \in done /\ n + j <= last
      BY <1>0
    <3>3. p + i = n + j
      BY <3>1, <1>0
    <3> QED BY <3>2, <3>3
  <2> HIDE DEF g
  <2>4. Covers([cum |-> Tsn(p), gaps |-> g], p, done, last)
    BY <2>2, <2>3 DEF Covers
  <2>5. \E m \in p..last : Covers(Slid(Tsn(p), g), m, done, last)
    BY <2>4, SlidCovers
  <2> QED BY <1>0, <1>4, <2>1, <2>5
<1> QED BY <1>0, <1>3, <1>4

\* What the hub makes of a SACK.
LEMMA HeardCovers ==
  ASSUME TypeOK, NEW got \in BOOLEAN, NEW t, NEW m \in hubCum..Len(sent), NEW done,
         Covers(t, m, done, Len(sent)), Heard(got, Sack(t)),
         \A k \in 1..hubCum : k \in done, \A k \in hubGaps : k \in done
  PROVE  /\ hubCum' \in hubCum..m /\ hubGaps' \in SUBSET Chunk
         /\ \A k \in 1..hubCum' : k \in done
         /\ \A k \in hubGaps' : k \in done
<1>0. /\ Len(sent) \in 0..MaxSent /\ hubCum \in 0..MaxSent /\ m \in 0..MaxSent
      /\ hubGaps \in SUBSET Chunk
  BY DEF TypeOK
<1>1. CASE got
  <2>1. Sack(t).cum = Tsn(m) /\ Sack(t).gaps = t.gaps
    BY DEF Sack, Covers
  <2>2. hubCum + Delta(Tsn(m), Tsn(hubCum)) = m
    BY <1>0, DeltaTsn
  <2>3. hubCum' = m /\ hubGaps' = {m + i : i \in t.gaps}
    BY <1>1, <2>1, <2>2 DEF Heard
  <2>4. \A i \in t.gaps : i \in 1..Window /\ m + i \in done /\ m + i <= Len(sent)
    BY DEF Covers
  <2>5. hubGaps' \in SUBSET Chunk /\ \A k \in hubGaps' : k \in done
    BY <1>0, <2>3, <2>4 DEF Chunk
  <2> QED BY <1>0, <2>3, <2>5 DEF Covers
<1>2. CASE ~got
  BY <1>0, <1>2 DEF Heard
<1> QED BY <1>1, <1>2

-----------------------------------------------------------------------------
(* The stream table.                                                        *)

\* An OPEN leaves the table within its size, and one to one.
LEMMA MappedFits ==
  ASSUME table \in Seq(Payload), Len(table) <= MaxStreams, TableIsUnambiguous,
         NEW p \in Payload, table' = Mapped(p)
  PROVE  table' \in Seq(Payload) /\ Len(table') <= MaxStreams /\ TableIsUnambiguous'
<1>1. CASE (\E i \in DOMAIN table : Clashes(table[i], p)) \/ Len(table) = MaxStreams
  BY <1>1 DEF Mapped, TableIsUnambiguous
<1>2. CASE ~((\E i \in DOMAIN table : Clashes(table[i], p)) \/ Len(table) = MaxStreams)
  <2>1. table' = Append(table, p)
    BY <1>2 DEF Mapped
  <2>2. table' \in Seq(Payload) /\ Len(table') = Len(table) + 1
    BY <2>1
  <2>3. \A i \in DOMAIN table : table'[i] = table[i] /\ ~Clashes(table[i], p)
    BY <1>2, <2>1
  <2>4. table'[Len(table) + 1] = p
    BY <2>1
  <2>5. \A i \in DOMAIN table' : i \in DOMAIN table \/ i = Len(table) + 1
    BY <2>1
  <2>6. TableIsUnambiguous'
    BY <2>3, <2>4, <2>5 DEF TableIsUnambiguous, Clashes
  <2> QED BY <1>2, <2>2, <2>6
<1> QED BY <1>1, <1>2

-----------------------------------------------------------------------------
(* The steps.                                                               *)

\* What leaves the TSNs, the hub's chunks and the table alone.
LEMMA Quiet ==
  ASSUME IInv, UNCHANGED <<tsnVars, hubVars, ghosts, table>>
  PROVE  Followed' /\ Heeded' /\ TableIsUnambiguous'
<1>1. Heeded' /\ TableIsUnambiguous'
  BY DEF IInv, Heeded, TableIsUnambiguous, Settled
<1>2. Followed'
  BY Zenon DEF IInv, Followed, Settled, Covers, Tsn, Wrap, Mod
<1> QED BY <1>1, <1>2

\* Every action keeps the Boolean variables Boolean.
LEMMA FlagsStep == FlagsOK /\ [Next]_vars => FlagsOK'
<1> SUFFICES ASSUME FlagsOK, [Next]_vars PROVE FlagsOK'
  OBVIOUS
<1> USE DEF FlagsOK, Follow, Live, Arrives, StartTsns
<1>1. CASE CreateAssociation
  BY <1>1, Zenon DEF CreateAssociation
<1>2. CASE GetsInit
  BY <1>2, Zenon DEF GetsInit
<1>3. CASE GetsInitAck
  BY <1>3, Zenon DEF GetsInitAck
<1>4. CASE GetsCookieEcho
  BY <1>4, Zenon DEF GetsCookieEcho
<1>5. CASE GetsCookieAck
  BY <1>5, Zenon DEF GetsCookieAck
<1>6. CASE GetsAbort
  BY <1>6, Zenon DEF GetsAbort
<1>7. CASE GetsShutdown
  BY <1>7, Zenon DEF GetsShutdown
<1>8. CASE SendPong
  BY <1>8, Zenon DEF SendPong
<1>9. CASE HubGetsInit
  BY <1>9, Zenon DEF HubGetsInit
<1>10. CASE HubDials
  BY <1>10, Zenon DEF HubDials
<1>11. CASE HubGetsInitAck
  BY <1>11, Zenon DEF HubGetsInitAck
<1>12. CASE HubEchoesAgain
  BY <1>12, Zenon DEF HubEchoesAgain
<1>13. CASE HubGetsCookieEcho
  BY <1>13, Zenon DEF HubGetsCookieEcho
<1>14. CASE HubGetsCookieAck
  BY <1>14, Zenon DEF HubGetsCookieAck
<1>15. ASSUME NEW k \in Chunk, NEW got \in BOOLEAN, GetsOpen(k, got) PROVE FlagsOK'
  BY <1>15, Zenon DEF GetsOpen
<1>16. ASSUME NEW k \in Chunk, NEW got \in BOOLEAN, GetsMessage(k, got) PROVE FlagsOK'
  BY <1>16, Zenon DEF GetsMessage
<1>17. ASSUME NEW got \in BOOLEAN, GetsForwardTsn(got) PROVE FlagsOK'
  BY <1>17, Zenon DEF GetsForwardTsn
<1>18. ASSUME NEW p \in Payload, HubSends(p) PROVE FlagsOK'
  BY <1>18, Zenon DEF HubSends
<1>19. ASSUME NEW k \in Chunk, HubAbandons(k) PROVE FlagsOK'
  BY <1>19, Zenon DEF HubAbandons
<1>20. ASSUME NEW c \in {"ABORT", "SHUTDOWN"}, HubCloses(c) PROVE FlagsOK'
  BY <1>20, Zenon DEF HubCloses
<1>21. CASE UNCHANGED vars
  BY <1>21, Zenon
<1> QED
  BY <1>1, <1>2, <1>3, <1>4, <1>5, <1>6, <1>7, <1>8, <1>9, <1>10, <1>11, <1>12, <1>13, <1>14, <1>15, <1>16, <1>17, <1>18, <1>19, <1>20, <1>21, Zenon DEF Next, Satellite, Hub

\* The satellite's handshake.
LEMMA HandshakeStep ==
  ASSUME IInv,
         \/ CreateAssociation \/ GetsInit \/ GetsInitAck \/ GetsCookieEcho
         \/ GetsCookieAck \/ GetsAbort \/ GetsShutdown \/ SendPong
  PROVE  OthersOK' /\ Begun' /\ Followed' /\ Heeded' /\ TableIsUnambiguous'
<1> USE DEF IInv, TypeOK, OthersOK, Begun, Control, Gets
<1>1. CASE CreateAssociation
  <2>1. OthersOK' /\ Begun' /\ ~valid'
    BY <1>1 DEF CreateAssociation
  <2>2. Followed' /\ Heeded' /\ TableIsUnambiguous'
    BY <1>1, <2>1 DEF CreateAssociation, Followed, Heeded, TableIsUnambiguous, Settled
  <2> QED BY <2>1, <2>2
<1>2. ASSUME NEW c \in {"INIT", "INIT_ACK"}, Gets(c), StartTsns,
             \E d \in Control : toHub' = toHub \cup {d},
             UNCHANGED <<opened, connected, table, pong, closeAsked, hub, inits, hubVars>>
      PROVE  OthersOK' /\ Begun' /\ Followed' /\ Heeded' /\ TableIsUnambiguous'
  <2>1. valid' = TRUE /\ cum' = Tsn(0) /\ gaps' = {}
    BY <1>2 DEF StartTsns, Follow, Reset, Tsn
  <2>2. OthersOK' /\ Begun'
    <3>1. Tsn(0) \in 0..(Mod - 1)
      BY TsnType
    <3>2. handled' = handled
      BY <1>2 DEF StartTsns
    <3> QED BY <1>2, <2>1, <3>1, <3>2
  <2>3. Heeded' /\ TableIsUnambiguous'
    BY <1>2 DEF StartTsns, Heeded, TableIsUnambiguous, Settled
  <2>4. ASSUME ~late' PROVE Followed'
    <3>1. ~late
      BY <1>2, <2>4 DEF StartTsns
    <3>2. CASE valid
      <4>1. cum' = cum /\ gaps' = gaps
        <5>1. Track(FirstTsn) = [cum |-> cum, gaps |-> gaps]
          BY <3>2 DEF Track
        <5>2. Reset(FirstTsn) = [cum |-> cum', gaps |-> gaps']
          BY <1>2 DEF StartTsns, Follow, Reset
        <5>3. [cum |-> cum, gaps |-> gaps] = [cum |-> cum', gaps |-> gaps']
          BY <1>2, <2>4, <3>2, <5>1, <5>2 DEF StartTsns
        <5>4. [cum |-> cum, gaps |-> gaps].cum = [cum |-> cum', gaps |-> gaps'].cum
          BY <5>3
        <5>5. [cum |-> cum, gaps |-> gaps].gaps = [cum |-> cum', gaps |-> gaps'].gaps
          BY <5>3
        <5> QED BY <5>4, <5>5
      <4>2. UNCHANGED <<sent, abandoned, hubCum, handled>>
        BY <1>2 DEF StartTsns
      <4>3. Followed
        OBVIOUS
      <4> QED BY <3>1, <3>2, <4>1, <4>2, <4>3, Zenon DEF Followed, Settled
    <3>3. CASE ~valid
      <4>1. sent = <<>>
        BY <3>3
      <4>2. hubCum = 0 /\ Len(sent) = 0
        BY <4>1 DEF Heeded
      <4>3. UNCHANGED <<sent, hubCum>>
        BY <1>2
      <4>4. Covers([cum |-> cum', gaps |-> gaps'], 0, Settled', Len(sent'))
        BY <2>1, <4>2, <4>3 DEF Covers
      <4>5. 0 \in hubCum'..Len(sent')
        BY <4>2, <4>3
      <4> QED BY <4>4, <4>5 DEF Followed
    <3> QED BY <3>2, <3>3
  <2>5. ASSUME late' PROVE Followed'
    BY <2>5 DEF Followed
  <2> QED BY <2>2, <2>3, <2>4, <2>5
<1>3. CASE GetsInit
  BY <1>2, <1>3 DEF GetsInit
<1>4. CASE GetsInitAck
  BY <1>2, <1>4 DEF GetsInitAck
<1>5. CASE GetsCookieEcho
  <2>1. OthersOK' /\ Begun'
    BY <1>5 DEF GetsCookieEcho
  <2>2. UNCHANGED <<tsnVars, hubVars, ghosts, table>>
    BY <1>5 DEF GetsCookieEcho
  <2> QED BY <2>1, <2>2, Quiet
<1>6. CASE GetsCookieAck
  <2>1. OthersOK' /\ Begun'
    BY <1>6 DEF GetsCookieAck
  <2>2. UNCHANGED <<tsnVars, hubVars, ghosts, table>>
    BY <1>6 DEF GetsCookieAck
  <2> QED BY <2>1, <2>2, Quiet
<1>7. CASE GetsAbort
  <2>1. OthersOK' /\ Begun'
    BY <1>7 DEF GetsAbort
  <2>2. UNCHANGED <<tsnVars, hubVars, ghosts, table>>
    BY <1>7 DEF GetsAbort
  <2> QED BY <2>1, <2>2, Quiet
<1>8. CASE GetsShutdown
  <2>1. OthersOK' /\ Begun'
    BY <1>8 DEF GetsShutdown
  <2>2. UNCHANGED <<tsnVars, hubVars, ghosts, table>>
    BY <1>8 DEF GetsShutdown
  <2> QED BY <2>1, <2>2, Quiet
<1>9. CASE SendPong
  <2>1. OthersOK' /\ Begun'
    BY <1>9 DEF SendPong
  <2>2. UNCHANGED <<tsnVars, hubVars, ghosts, table>>
    BY <1>9 DEF SendPong
  <2> QED BY <2>1, <2>2, Quiet
<1> QED BY <1>1, <1>3, <1>4, <1>5, <1>6, <1>7, <1>8, <1>9

\* A DATA chunk arrives: what both kinds have in common.
LEMMA DataKeeps ==
  ASSUME IInv, NEW k \in Chunk, NEW got \in BOOLEAN, Arrives(k),
         NEW t, t = Recorded(Tsn(k)), Follow(t), Heard(got, Sack(t)),
         handled' \in SUBSET Chunk, handled \subseteq handled',
         IsNew(Tsn(k)) => k \in handled',
         UNCHANGED <<sent, abandoned, late>>
  PROVE  /\ cum' \in 0..(Mod - 1) /\ gaps' \in SUBSET (1..Window) /\ valid'
         /\ hubCum' \in 0..MaxSent /\ hubGaps' \in SUBSET Chunk
         /\ Followed' /\ Heeded'
<1> DEFINE last == Len(sent)
<1>1. /\ last \in 0..MaxSent /\ k \in 1..last /\ ~late /\ valid /\ hubCum \in 0..last
  BY DEF IInv, TypeOK, Begun, Heeded, Arrives, Live
<1>2. PICK n \in hubCum..last : Covers([cum |-> cum, gaps |-> gaps], n, Settled, last)
  BY <1>1 DEF IInv, Followed
<1>3. PICK m \in n..last :
        Covers(t, m, IF IsNew(Tsn(k)) THEN Settled \cup {k} ELSE Settled, last)
  <2>1. n \in Nat
    BY <1>1, <1>2
  <2> HIDE DEF last
  <2>2. \E m \in n..last :
          Covers(Recorded(Tsn(k)), m,
                 IF IsNew(Tsn(k)) THEN Settled \cup {k} ELSE Settled, last)
    BY <1>1, <1>2, <2>1, RecordedCovers
  <2> QED BY <2>2, Zenon
<1>4. (IF IsNew(Tsn(k)) THEN Settled \cup {k} ELSE Settled) \subseteq Settled'
  BY DEF Settled
<1>5. Covers(t, m, Settled', last)
  BY <1>3, <1>4 DEF Covers
<1>6. m \in hubCum..last /\ m \in 0..MaxSent
  BY <1>1, <1>2, <1>3
<1>7. (\A j \in 1..hubCum : j \in Settled') /\ (\A j \in hubGaps : j \in Settled')
  BY DEF IInv, Heeded, Settled
<1>8. /\ hubCum' \in hubCum..m /\ hubGaps' \in SUBSET Chunk
      /\ \A j \in 1..hubCum' : j \in Settled'
      /\ \A j \in hubGaps' : j \in Settled'
  BY <1>5, <1>6, <1>7, HeardCovers DEF IInv
<1>9. valid' /\ cum' = t.cum /\ gaps' = t.gaps
  BY DEF Follow
<1>10. cum' \in 0..(Mod - 1) /\ gaps' \in SUBSET (1..Window)
  BY <1>5, <1>6, <1>9, TsnType DEF Covers
<1>11. Covers([cum |-> cum', gaps |-> gaps'], m, Settled', Len(sent'))
  BY <1>5, <1>9 DEF Covers
<1>12. m \in hubCum'..Len(sent') /\ hubCum' \in 0..MaxSent /\ hubCum' <= Len(sent')
  BY <1>1, <1>6, <1>8
<1>13. Followed'
  BY <1>11, <1>12 DEF Followed
<1>14. Heeded'
  BY <1>8, <1>12 DEF IInv, Heeded
<1> QED BY <1>8, <1>9, <1>10, <1>12, <1>13, <1>14

\* An OPEN or a message arrives.
LEMMA DataStep ==
  ASSUME IInv, NEW k \in Chunk, NEW got \in BOOLEAN,
         GetsOpen(k, got) \/ GetsMessage(k, got)
  PROVE  OthersOK' /\ Begun' /\ Followed' /\ Heeded' /\ TableIsUnambiguous'
<1> USE DEF IInv, TypeOK, OthersOK, Begun
<1>1. CASE GetsOpen(k, got)
  <2>1. PICK t \in {Recorded(Tsn(k))} : Follow(t) /\ Heard(got, Sack(t))
    BY <1>1 DEF GetsOpen
  <2>2. /\ Arrives(k) /\ handled' = handled \cup {k} /\ table' = Mapped(sent[k])
        /\ UNCHANGED <<opened, hsVars, sent, abandoned, late>>
    BY <1>1 DEF GetsOpen
  <2>3. /\ cum' \in 0..(Mod - 1) /\ gaps' \in SUBSET (1..Window) /\ valid'
        /\ hubCum' \in 0..MaxSent /\ hubGaps' \in SUBSET Chunk
        /\ Followed' /\ Heeded'
    BY <2>1, <2>2, DataKeeps
  <2>4. table' \in Seq(Payload) /\ Len(table') <= MaxStreams /\ TableIsUnambiguous'
    <3>1. sent[k] \in Payload
      BY <2>2 DEF Arrives
    <3> QED BY <2>2, <3>1, MappedFits
  <2>5. opened
    BY <2>2 DEF Arrives, Live
  <2> QED BY <2>2, <2>3, <2>4, <2>5
<1>2. CASE GetsMessage(k, got)
  <2>1. PICK t \in {Recorded(Tsn(k))}, new \in {IsNew(Tsn(k))} :
          /\ Follow(t) /\ Heard(got, Sack(t))
          /\ handled' = IF new THEN handled \cup {k} ELSE handled
    BY <1>2, Zenon DEF GetsMessage
  <2>2. Arrives(k) /\ UNCHANGED <<opened, table, hsVars, sent, abandoned, late>>
    BY <1>2 DEF GetsMessage
  <2>3. /\ handled' \in SUBSET Chunk /\ handled \subseteq handled'
        /\ IsNew(Tsn(k)) => k \in handled'
    BY <2>1
  <2>4. /\ cum' \in 0..(Mod - 1) /\ gaps' \in SUBSET (1..Window) /\ valid'
        /\ hubCum' \in 0..MaxSent /\ hubGaps' \in SUBSET Chunk
        /\ Followed' /\ Heeded'
    BY <2>1, <2>2, <2>3, DataKeeps
  <2>5. TableIsUnambiguous'
    BY <2>2 DEF TableIsUnambiguous
  <2>6. opened
    BY <2>2 DEF Arrives, Live
  <2> QED BY <2>2, <2>3, <2>4, <2>5, <2>6
<1> QED BY <1>1, <1>2

\* The skip takes in only what the hub has given up.
LEMMA ForwardStep ==
  ASSUME IInv, NEW got \in BOOLEAN, GetsForwardTsn(got)
  PROVE  OthersOK' /\ Begun' /\ Followed' /\ Heeded' /\ TableIsUnambiguous'
<1> DEFINE last == Len(sent)  p == ForwardPoint
<1>1. /\ last \in 0..MaxSent /\ hubCum \in 0..last /\ hubCum + 1 \in abandoned
      /\ ~late /\ opened /\ \A k \in abandoned : k \in Settled /\ k \in 1..last
  BY DEF IInv, TypeOK, Heeded, GetsForwardTsn, Live, Settled, Chunk
<1>2. valid
  BY <1>1 DEF IInv, Begun, TypeOK
<1>3. p \in 0..last /\ \A k \in 1..p : k \in Settled
  <2> DEFINE P(n) == hubCum + 1..n \subseteq abandoned /\ n + 1 \notin abandoned
             T == {m \in (hubCum + 1)..(last + 1) : m \notin abandoned}
  <2>1. T \subseteq Nat /\ last + 1 \in T
    BY <1>1
  <2>2. PICK m \in T : \A k \in T : m <= k
    <3> HIDE DEF T
    <3> QED BY <2>1, LeastOf
  <2>3. m - 1 \in hubCum..MaxSent /\ P(m - 1)
    BY <1>1, <2>2
  <2>4. p \in hubCum..MaxSent /\ P(p)
    BY <2>3 DEF ForwardPoint
  <2> HIDE DEF p
  <2>5. p <= last
    BY <1>1, <2>4
  <2>6. \A k \in 1..p : k \in 1..hubCum \/ k \in abandoned
    BY <1>1, <2>4
  <2> QED BY <1>1, <2>4, <2>5, <2>6 DEF IInv, Heeded
<1>4. PICK t \in {Forwarded(Tsn(p))} : Follow(t) /\ Heard(got, Sack(t))
  BY DEF GetsForwardTsn
<1>5. PICK n \in hubCum..last : Covers([cum |-> cum, gaps |-> gaps], n, Settled, last)
  BY <1>1, <1>2 DEF IInv, Followed
<1>6. PICK m \in n..last : Covers(t, m, Settled, last)
  <2> HIDE DEF last, p
  <2> QED BY <1>1, <1>2, <1>3, <1>4, <1>5, ForwardedCovers
<1>7. m \in hubCum..last /\ m \in 0..MaxSent
  BY <1>1, <1>5, <1>6
<1>8. /\ hubCum' \in hubCum..m /\ hubGaps' \in SUBSET Chunk
      /\ \A j \in 1..hubCum' : j \in Settled
      /\ \A j \in hubGaps' : j \in Settled
  BY <1>4, <1>6, <1>7, HeardCovers DEF IInv, Heeded
<1>9. valid' /\ cum' = t.cum /\ gaps' = t.gaps
  BY <1>4 DEF Follow
<1>10. cum' \in 0..(Mod - 1) /\ gaps' \in SUBSET (1..Window)
  BY <1>6, <1>7, <1>9, TsnType DEF Covers
<1>11. /\ UNCHANGED <<opened, table, hsVars, sent, abandoned, handled, late>>
       /\ Settled' = Settled
  BY DEF GetsForwardTsn, Settled
<1>12. Covers([cum |-> cum', gaps |-> gaps'], m, Settled', Len(sent'))
  BY <1>6, <1>9, <1>11 DEF Covers
<1>13. m \in hubCum'..Len(sent') /\ hubCum' \in 0..MaxSent /\ hubCum' <= Len(sent')
  BY <1>1, <1>7, <1>8, <1>11
<1>14. Followed'
  BY <1>12, <1>13 DEF Followed
<1>15. Heeded'
  BY <1>8, <1>11, <1>13 DEF IInv, Heeded
<1>16. OthersOK' /\ Begun' /\ TableIsUnambiguous'
  BY <1>1, <1>8, <1>9, <1>10, <1>11, <1>13
     DEF IInv, TypeOK, OthersOK, Begun, TableIsUnambiguous
<1> QED BY <1>14, <1>15, <1>16

\* The hub's own steps.
LEMMA HubStep ==
  ASSUME IInv, Hub
  PROVE  OthersOK' /\ Begun' /\ Followed' /\ Heeded' /\ TableIsUnambiguous'
<1> USE DEF IInv, TypeOK, OthersOK, Begun, Control, HubGets
<1>1. CASE HubGetsInit
  <2>1. OthersOK' /\ Begun'
    BY <1>1 DEF HubGetsInit
  <2>2. UNCHANGED <<tsnVars, hubVars, ghosts, table>>
    BY <1>1 DEF HubGetsInit
  <2> QED BY <2>1, <2>2, Quiet
<1>2. CASE HubDials
  <2>1. OthersOK' /\ Begun'
    BY <1>2 DEF HubDials
  <2>2. UNCHANGED <<tsnVars, hubVars, ghosts, table>>
    BY <1>2 DEF HubDials
  <2> QED BY <2>1, <2>2, Quiet
<1>3. CASE HubGetsInitAck
  <2>1. OthersOK' /\ Begun'
    BY <1>3 DEF HubGetsInitAck
  <2>2. UNCHANGED <<tsnVars, hubVars, ghosts, table>>
    BY <1>3 DEF HubGetsInitAck
  <2> QED BY <2>1, <2>2, Quiet
<1>4. CASE HubEchoesAgain
  <2>1. OthersOK' /\ Begun'
    BY <1>4 DEF HubEchoesAgain
  <2>2. UNCHANGED <<tsnVars, hubVars, ghosts, table>>
    BY <1>4 DEF HubEchoesAgain
  <2> QED BY <2>1, <2>2, Quiet
<1>5. CASE HubGetsCookieEcho
  <2>1. OthersOK' /\ Begun'
    BY <1>5 DEF HubGetsCookieEcho
  <2>2. UNCHANGED <<tsnVars, hubVars, ghosts, table>>
    BY <1>5 DEF HubGetsCookieEcho
  <2> QED BY <2>1, <2>2, Quiet
<1>6. CASE HubGetsCookieAck
  <2>1. OthersOK' /\ Begun'
    BY <1>6 DEF HubGetsCookieAck
  <2>2. UNCHANGED <<tsnVars, hubVars, ghosts, table>>
    BY <1>6 DEF HubGetsCookieAck
  <2> QED BY <2>1, <2>2, Quiet
<1>7. ASSUME NEW p \in Payload, HubSends(p)
      PROVE  OthersOK' /\ Begun' /\ Followed' /\ Heeded' /\ TableIsUnambiguous'
  <2>1. /\ hub = "up" /\ sent' = Append(sent, p) /\ Len(sent) < MaxSent
        /\ UNCHANGED <<satVars, hsVars, abandoned, hubCum, hubGaps>>
    BY <1>7 DEF HubSends
  <2>2. sent' \in Seq(Payload) /\ Len(sent') = Len(sent) + 1
    BY <2>1
  <2>3. OthersOK' /\ Begun'
    BY <2>1, <2>2
  <2>4. Heeded' /\ TableIsUnambiguous'
    BY <2>1, <2>2 DEF Heeded, TableIsUnambiguous, Settled, Chunk
  <2>5. ASSUME valid', ~late' PROVE Followed'
    <3>1. PICK n \in hubCum..Len(sent) :
            Covers([cum |-> cum, gaps |-> gaps], n, Settled, Len(sent))
      BY <2>1, <2>5 DEF Followed
    <3>2. Len(sent) \in Nat /\ n \in Nat
      OBVIOUS
    <3>3. Settled' = Settled
      BY <2>1 DEF Settled
    <3>4. Covers([cum |-> cum', gaps |-> gaps'], n, Settled', Len(sent'))
      BY <2>1, <2>2, <3>1, <3>2, <3>3 DEF Covers
    <3>5. n \in hubCum'..Len(sent')
      BY <2>1, <2>2, <3>1, <3>2
    <3> QED BY <3>4, <3>5 DEF Followed
  <2>6. Followed'
    BY <2>5 DEF Followed
  <2> QED BY <2>3, <2>4, <2>6
<1>8. ASSUME NEW k \in Chunk, HubAbandons(k)
      PROVE  OthersOK' /\ Begun' /\ Followed' /\ Heeded' /\ TableIsUnambiguous'
  <2>1. /\ k \in DOMAIN sent /\ abandoned' = abandoned \cup {k}
        /\ UNCHANGED <<satVars, hsVars, sent, hubCum, hubGaps>>
    BY <1>8 DEF HubAbandons
  <2>2. OthersOK' /\ Begun'
    BY <2>1
  <2>3. Heeded' /\ TableIsUnambiguous'
    BY <2>1 DEF Heeded, TableIsUnambiguous, Settled
  <2>4. Followed'
    <3>1. Settled \subseteq Settled'
      BY <2>1 DEF Settled
    <3>2. ASSUME NEW n, Covers([cum |-> cum, gaps |-> gaps], n, Settled, Len(sent))
          PROVE  Covers([cum |-> cum, gaps |-> gaps], n, Settled', Len(sent))
      BY <3>1, <3>2 DEF Covers
    <3> QED BY <2>1, <3>2, Zenon DEF Followed
  <2> QED BY <2>2, <2>3, <2>4
<1>9. ASSUME NEW c \in {"ABORT", "SHUTDOWN"}, HubCloses(c)
      PROVE  OthersOK' /\ Begun' /\ Followed' /\ Heeded' /\ TableIsUnambiguous'
  <2>1. OthersOK' /\ Begun'
    BY <1>9 DEF HubCloses
  <2>2. UNCHANGED <<tsnVars, hubVars, ghosts, table>>
    BY <1>9 DEF HubCloses
  <2> QED BY <2>1, <2>2, Quiet
<1> QED BY <1>1, <1>2, <1>3, <1>4, <1>5, <1>6, <1>7, <1>8, <1>9 DEF Hub

-----------------------------------------------------------------------------
(* The theorems.                                                            *)

\* The invariant the theorems follow from.
LEMMA Inductive == Spec => []IInv
<1>1. Init => IInv
  <2>1. Init => FlagsOK
    BY Zenon DEF Init, FlagsOK
  <2>2. Init => OthersOK
    BY DEF Init, OthersOK, Mod
  <2>3. Init => Begun /\ Followed /\ Heeded /\ TableIsUnambiguous
    BY DEF Init, Begun, Followed, Heeded, TableIsUnambiguous
  <2> QED BY <2>1, <2>2, <2>3, Zenon DEF IInv, TypeOK, OthersOK, FlagsOK
<1>2. IInv /\ [Next]_vars => IInv'
  <2> SUFFICES ASSUME IInv, [Next]_vars PROVE IInv'
    OBVIOUS
  <2>1. OthersOK' /\ Begun' /\ Followed' /\ Heeded' /\ TableIsUnambiguous'
    <3>1. CASE UNCHANGED vars
      <4>1. OthersOK' /\ Begun'
        BY <3>1 DEF IInv, TypeOK, OthersOK, Begun
      <4>2. UNCHANGED <<tsnVars, hubVars, ghosts, table>>
        BY <3>1
      <4> QED BY <4>1, <4>2, Quiet
    <3>2. CASE Satellite
      BY <3>2, HandshakeStep, DataStep, ForwardStep, Zenon DEF Satellite
    <3>3. CASE Hub
      BY <3>3, HubStep
    <3> QED BY <3>1, <3>2, <3>3 DEF Next
  <2>2. FlagsOK'
    <3>1. FlagsOK
      BY Zenon DEF IInv, TypeOK, FlagsOK
    <3> QED BY <3>1, FlagsStep
  <2>3. TypeOK'
    BY <2>1, <2>2, Zenon DEF TypeOK, OthersOK, FlagsOK
  <2> QED BY <2>1, <2>3 DEF IInv
<1> QED BY <1>1, <1>2, PTL DEF Spec

\* Every variable keeps its type: the bitmap its width, the table its size,
\* the hub's account the chunks there are.
THEOREM TypeCorrect == Spec => []TypeOK
<1>1. IInv => TypeOK
  BY DEF IInv
<1> QED BY <1>1, Inductive, PTL

\* No SACK acknowledges a chunk that was turned away.
THEOREM SacksAreTrue == Spec => []AckedIsHandled
<1>1. IInv => AckedIsHandled
  BY DEF IInv, Heeded, Settled, AckedIsHandled, Chunk
<1> QED BY <1>1, Inductive, PTL

\* The stream table maps labels and sids one to one, full or not.
THEOREM StreamsAreOneToOne == Spec => []TableIsUnambiguous
<1>1. IInv => TableIsUnambiguous
  BY DEF IInv
<1> QED BY <1>1, Inductive, PTL

\* What the hub has cumulatively acknowledged or skipped never reaches the
\* application again.
THEOREM SettledStaysSettled == Spec => []SettledIsFinal
<1>1. IInv => SettledIsFinal
  <2> SUFFICES ASSUME IInv, NEW k \in 1..hubCum, IsNew(Tsn(k)), ~late PROVE FALSE
    BY Zenon DEF SettledIsFinal
  <2>1. Len(sent) \in 0..MaxSent /\ hubCum \in 0..Len(sent)
    BY DEF IInv, TypeOK, Heeded
  <2>2. valid
    BY <2>1 DEF IInv, Begun, TypeOK
  <2>3. PICK n \in hubCum..Len(sent) :
          Covers([cum |-> cum, gaps |-> gaps], n, Settled, Len(sent))
    BY <2>2 DEF IInv, Followed
  <2>4. k \in 0..MaxSent /\ n \in 0..MaxSent /\ k <= n
    BY <2>1
  <2>5. Delta(Tsn(k), Track(Tsn(k)).cum) = k - n
    BY <2>2, <2>3, <2>4, DeltaTsn DEF Track, Covers
  <2> QED BY <2>4, <2>5 DEF IsNew
<1> QED BY <1>1, Inductive, PTL
=============================================================================
