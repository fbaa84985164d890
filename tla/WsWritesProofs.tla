---------------------------- MODULE WsWritesProofs ----------------------------
(* Machine-checked proofs about WsWrites, for every set of clients, every   *)
(* set of envelopes and any length of the log.                              *)
EXTENDS WsWrites, FiniteSetTheorems, SequenceTheorems, TLAPS

EventKinds == {"participant-joined", "participant-left", "proposal", "agree", "dispute",
               "node-created", "entity-included", "entity-removed", "commit",
               "meta-disagreement-marked", "proposal-withdrawn", "withdraw-agreement",
               "snapshot-created"}
FrameTypes == {"refused", "failed", "event-applied", "ack", "snapshot-state"}
Causes == Requests \cup {NoRequest}
Events == [kind : EventKinds, by : Clients, on : Nat, req : Causes]
FrameSet == [type : FrameTypes, req : Causes, seq : Nat]

\* The stations of an envelope.
Unsent == [phase : {"unsent"}]
InHandler == [phase : {"checking", "ready"}, by : Clients, expected : Int, alive : BOOLEAN]
Written == [phase : {"committed"}, by : Clients, expected : Int, alive : BOOLEAN,
            first : Nat, last : Nat]
Over == [phase : {"done"}, by : Clients, expected : Int]

\* Every variable the proofs speak of stays in its type.
WritesTypeOK ==
  /\ log \in Seq(Events)
  /\ request \in [Requests -> Unsent \cup InHandler \cup Written \cup Over]
  /\ sent \in [Clients -> Seq(FrameSet)]

\* Event e may follow log l.
MayFollow(l, e) ==
  /\ e.kind \in {"commit", "meta-disagreement-marked", "snapshot-created"} => e.by = Host
  /\ e.kind \in {"proposal-withdrawn", "entity-removed"} =>
       e.on \in DOMAIN l /\ e.by = l[e.on].by
  /\ e.kind \in {"proposal", "agree", "dispute", "node-created", "entity-included",
                 "withdraw-agreement"} => e.by \in Current(l)
  /\ e.kind = "proposal-withdrawn" => e.on \in Pending(l)
  /\ e.kind = "meta-disagreement-marked" => Candidate(l, e.on) \in Pending(l)
  /\ e.kind = "commit" => ~CommittedNow(l, e.on)

\* Every event of log l may follow the events before it.
Lawful(l) == \A i \in DOMAIN l : MayFollow(SubSeq(l, 1, i - 1), l[i])

\* The events of an envelope: none before its transaction, then a run that
\* starts right after the log its sender had seen.
Placed(r) ==
  /\ request[r].phase \in {"unsent", "checking", "ready"} => Batch(r) = {}
  /\ request[r].phase = "committed" =>
       /\ request[r].first = request[r].expected + 1
       /\ request[r].first <= request[r].last
       /\ request[r].last <= Len(log)
       /\ Batch(r) = request[r].first..request[r].last
  /\ request[r].phase = "done" /\ Batch(r) # {} =>
       \E n \in Nat : n > request[r].expected /\ Batch(r) = (request[r].expected + 1)..n

Batches == \A r \in Requests : Placed(r)

\* A frame that carries an event carries one of the log, and nothing is sent
\* on behalf of an envelope before it has been dealt with.
Said ==
  \A c \in Clients : \A i \in DOMAIN sent[c] :
    /\ sent[c][i].type = "event-applied" => sent[c][i].seq <= Len(log)
    /\ \A r \in Requests : sent[c][i].req = r => request[r].phase = "done"

\* What the answer at position i of c's socket says of envelope r.
SaysTheTruth(c, r, i) ==
  /\ request[r].by = c
  /\ sent[c][i].type = "ack" =>
       /\ sent[c][i].seq = Max(Batch(r))
       /\ \A j \in i..Len(sent[c]) :
            ~(sent[c][j].type = "event-applied" /\ sent[c][j].req = r)
  /\ sent[c][i].type = "refused" => Batch(r) = {}
  /\ sent[c][i].type = "snapshot-state" =>
       \A j \in 1..(i - 1) :
         sent[c][j].type = "event-applied" => sent[c][j].seq <= sent[c][i].seq

Answered ==
  \A c \in Clients, r \in Requests :
    /\ \A i, j \in Answers(c, r) : i = j
    /\ \A i \in Answers(c, r) : SaysTheTruth(c, r, i)

WInv == WritesTypeOK /\ Lawful(log) /\ Batches /\ Said /\ Answered

----------------------------------------------------------------------------
(* Logs that grow *)

\* Elements of a concatenation.
LEMMA ConcatElements ==
  ASSUME NEW S, NEW s \in Seq(S), NEW t \in Seq(S)
  PROVE  /\ s \o t \in Seq(S)
         /\ Len(s \o t) = Len(s) + Len(t)
         /\ DOMAIN (s \o t) = 1..(Len(s) + Len(t))
         /\ \A k \in 1..Len(s) : (s \o t)[k] = s[k]
         /\ \A k \in 1..Len(t) : (s \o t)[Len(s) + k] = t[k]
OBVIOUS

\* What precedes an event does not change when the log grows.
LEMMA PrefixStays ==
  ASSUME NEW S, NEW l \in Seq(S), NEW e \in S
  PROVE  /\ \A i \in DOMAIN l : SubSeq(Append(l, e), 1, i - 1) = SubSeq(l, 1, i - 1)
         /\ SubSeq(Append(l, e), 1, Len(l)) = l
<1>1. ASSUME NEW k \in Nat, k <= Len(l)
      PROVE  SubSeq(Append(l, e), 1, k) = SubSeq(l, 1, k)
  <2>1. \A j \in 1..k : Append(l, e)[j] = l[j]
    BY <1>1
  <2>2. /\ SubSeq(Append(l, e), 1, k) = [j \in 1..k |-> Append(l, e)[j]]
        /\ SubSeq(l, 1, k) = [j \in 1..k |-> l[j]]
    BY <1>1
  <2> QED
    BY <2>1, <2>2
<1>2. \A i \in DOMAIN l : i - 1 \in Nat /\ i - 1 <= Len(l)
  OBVIOUS
<1>3. SubSeq(l, 1, Len(l)) = l
  OBVIOUS
<1>4. Len(l) \in Nat
  OBVIOUS
<1> QED
  BY <1>1, <1>2, <1>3, <1>4

\* A lawful log followed by what may follow it is lawful.
LEMMA LawfulGrows ==
  ASSUME NEW l \in Seq(Events), NEW e \in Events, Lawful(l), MayFollow(l, e)
  PROVE  Append(l, e) \in Seq(Events) /\ Lawful(Append(l, e))
<1>1. Append(l, e) \in Seq(Events) /\ DOMAIN Append(l, e) = DOMAIN l \cup {Len(l) + 1}
  OBVIOUS
<1>2. /\ \A i \in DOMAIN l : Append(l, e)[i] = l[i]
      /\ Append(l, e)[Len(l) + 1] = e
  OBVIOUS
<1>3. ASSUME NEW i \in DOMAIN l
      PROVE  MayFollow(SubSeq(Append(l, e), 1, i - 1), Append(l, e)[i])
  BY <1>2, PrefixStays DEF Lawful
<1>4. MayFollow(SubSeq(Append(l, e), 1, Len(l) + 1 - 1), Append(l, e)[Len(l) + 1])
  <2>1. SubSeq(Append(l, e), 1, Len(l)) = l /\ Len(l) + 1 - 1 = Len(l)
    BY PrefixStays
  <2> QED
    BY <1>2, <2>1
<1> QED
  BY <1>1, <1>3, <1>4 DEF Lawful

\* Who sits in the session is undisturbed by events that are not of members.
LEMMA CurrentStays ==
  ASSUME NEW l \in Seq(Events), NEW e \in Events, e.kind # "participant-left"
  PROVE  Current(l) \subseteq Current(Append(l, e))
<1> DEFINE m == Append(l, e)
<1>1. /\ m \in Seq(Events) /\ Len(m) = Len(l) + 1
      /\ \A i \in 1..Len(l) : m[i] = l[i]
      /\ m[Len(l) + 1] = e
      /\ DOMAIN l = 1..Len(l) /\ DOMAIN m = 1..(Len(l) + 1) /\ Len(l) \in Nat
  OBVIOUS
<1> HIDE DEF m
<1> SUFFICES ASSUME NEW p \in Clients, NEW i \in DOMAIN l,
                    l[i].kind = "participant-joined", l[i].by = p,
                    \A j \in i..Len(l) : ~(l[j].kind = "participant-left" /\ l[j].by = p)
             PROVE  \E k \in DOMAIN m :
                      /\ m[k].kind = "participant-joined" /\ m[k].by = p
                      /\ \A j \in k..Len(m) : ~(m[j].kind = "participant-left" /\ m[j].by = p)
  BY DEF Current, m
<1>2. i \in DOMAIN m /\ m[i].kind = "participant-joined" /\ m[i].by = p
  BY <1>1
<1>3. ASSUME NEW j \in i..Len(m)
      PROVE  ~(m[j].kind = "participant-left" /\ m[j].by = p)
  <2>1. CASE j = Len(l) + 1
    BY <2>1, <1>1
  <2>2. CASE j # Len(l) + 1
    <3>1. j \in i..Len(l) /\ m[j] = l[j]
      BY <2>2, <1>1, <1>3
    <3> QED
      BY <3>1
  <2> QED
    BY <2>1, <2>2
<1> QED
  BY <1>2, <1>3

----------------------------------------------------------------------------
(* What the handlers append *)

LEMMA OneEventIsLawful ==
  ASSUME WInv, NEW r \in Requests, request[r].phase = "ready",
         NEW kind \in EventKinds, NEW on \in Nat,
         MayFollow(log, Event(kind, request[r].by, on, r))
  PROVE  /\ Own(r, kind, on) \in Seq(Events)
         /\ Len(Own(r, kind, on)) = 1
         /\ \A k \in DOMAIN Own(r, kind, on) : Own(r, kind, on)[k].req = r
         /\ Lawful(log \o Own(r, kind, on))
<1>1. log \in Seq(Events) /\ Lawful(log) /\ request[r].by \in Clients
  BY DEF WInv, WritesTypeOK, Unsent, InHandler, Written, Over
<1> DEFINE e == Event(kind, request[r].by, on, r)
<1>2. e \in Events /\ e.req = r
  BY <1>1 DEF Event, Events, Causes
<1>3. Own(r, kind, on) = <<e>>
  BY DEF Own
<1> HIDE DEF e
<1>4. log \o <<e>> = Append(log, e)
  BY <1>1, <1>2
<1>5. Lawful(Append(log, e))
  BY <1>1, <1>2, LawfulGrows DEF e
<1>6. <<e>> \in Seq(Events) /\ Len(<<e>>) = 1 /\ \A k \in DOMAIN <<e>> : <<e>>[k].req = r
  BY <1>2
<1> QED
  BY <1>3, <1>4, <1>5, <1>6

\* The events of a capture.
Capture(r, id) ==
  Own(r, "node-created", id) \o Own(r, "entity-included", id) \o Own(r, "proposal", id)

LEMMA CaptureIsLawful ==
  ASSUME WInv, NEW r \in Requests, request[r].phase = "ready", ByParticipant(r),
         NEW id \in Nat
  PROVE  /\ Capture(r, id) \in Seq(Events)
         /\ Len(Capture(r, id)) = 3
         /\ \A k \in DOMAIN Capture(r, id) : Capture(r, id)[k].req = r
         /\ Lawful(log \o Capture(r, id))
<1>1. log \in Seq(Events) /\ Lawful(log) /\ request[r].by \in Clients
  BY DEF WInv, WritesTypeOK, Unsent, InHandler, Written, Over
<1> DEFINE a == Event("node-created", request[r].by, id, r)
           b == Event("entity-included", request[r].by, id, r)
           c == Event("proposal", request[r].by, id, r)
<1>2. /\ a \in Events /\ b \in Events /\ c \in Events
      /\ a.req = r /\ b.req = r /\ c.req = r
      /\ a.by = request[r].by /\ b.by = request[r].by /\ c.by = request[r].by
      /\ a.kind = "node-created" /\ b.kind = "entity-included" /\ c.kind = "proposal"
  BY <1>1 DEF Event, Events, Causes, EventKinds
<1> DEFINE ab == <<a>> \o <<b>>
<1>3. Capture(r, id) = ab \o <<c>>
  BY DEF Capture, Own
<1> HIDE DEF a, b, c
<1>4. /\ <<a>> \in Seq(Events) /\ Len(<<a>>) = 1 /\ <<a>>[1] = a
      /\ <<b>> \in Seq(Events) /\ Len(<<b>>) = 1 /\ <<b>>[1] = b
      /\ <<c>> \in Seq(Events) /\ Len(<<c>>) = 1 /\ <<c>>[1] = c
  BY <1>2
<1>5. ab \in Seq(Events) /\ Len(ab) = 2 /\ ab[1] = a /\ ab[2] = b
  BY <1>4, ConcatProperties
<1>6. log \o ab = (log \o <<a>>) \o <<b>>
  BY <1>1, <1>4, ConcatAssociative
<1> HIDE DEF ab
<1>7. log \o (ab \o <<c>>) = (log \o ab) \o <<c>>
  BY <1>1, <1>4, <1>5, ConcatAssociative
<1> DEFINE la == Append(log, a)
           lb == Append(la, b)
           lc == Append(lb, c)
<1>8. request[r].by \in Current(log)
  BY DEF ByParticipant
<1>9. la \in Seq(Events) /\ Lawful(la)
  BY <1>1, <1>2, <1>8, LawfulGrows DEF MayFollow
<1>10. request[r].by \in Current(la)
  BY <1>1, <1>2, <1>8, CurrentStays
<1> HIDE DEF la
<1>11. lb \in Seq(Events) /\ Lawful(lb)
  BY <1>2, <1>9, <1>10, LawfulGrows DEF MayFollow
<1>12. request[r].by \in Current(lb)
  BY <1>2, <1>9, <1>10, CurrentStays
<1> HIDE DEF lb
<1>13. lc \in Seq(Events) /\ Lawful(lc)
  BY <1>2, <1>11, <1>12, LawfulGrows DEF MayFollow
<1>14. log \o Capture(r, id) = lc
  <2>1. la = log \o <<a>>
    BY <1>1, <1>2, AppendIsConcat DEF la
  <2>2. lb = la \o <<b>>
    BY <1>2, <1>9, AppendIsConcat DEF lb
  <2>3. lc = lb \o <<c>>
    BY <1>2, <1>11, AppendIsConcat
  <2> QED
    BY <1>3, <1>6, <1>7, <2>1, <2>2, <2>3
<1>15. /\ Capture(r, id) \in Seq(Events) /\ Len(Capture(r, id)) = 3
       /\ \A k \in DOMAIN Capture(r, id) : Capture(r, id)[k].req = r
  <2>1. PICK x : x = ab \o <<c>>
    OBVIOUS
  <2>2. x \in Seq(Events) /\ Len(x) = 3 /\ x[1] = a /\ x[2] = b /\ x[3] = c
    BY <1>4, <1>5, <2>1, ConcatProperties
  <2>3. DOMAIN x = 1..3
    BY <2>2
  <2>4. \A k \in DOMAIN x : x[k].req = r
    BY <1>2, <2>2, <2>3
  <2> QED
    BY <1>3, <2>1, <2>2, <2>4
<1> QED
  BY <1>13, <1>14, <1>15

\* A facet that may be committed carries no commit of its candidate.
LEMMA CommitIsFirst ==
  ASSUME NEW l, NEW e,
         Candidate(l, e) # 0,
         Status(l, e) \notin {"committed", "meta-disagreement", "withdrawn"},
         \A p \in Present(l) : Choice(l, e, p) = "agree"
  PROVE  ~CommittedNow(l, e)
<1>1. \A p \in Present(l) : Choice(l, e, p) # "dispute"
  OBVIOUS
<1> QED
  BY <1>1 DEF Status

\* A handler that writes appends a batch of its own to a lawful log.
LEMMA WritesAreLawful ==
  ASSUME WInv, NEW r \in Requests, Writes(r)
  PROVE  \E batch \in Seq(Events) :
           /\ AppendEvents(r, batch)
           /\ Len(batch) > 0
           /\ \A k \in DOMAIN batch : batch[k].req = r
           /\ Lawful(log \o batch)
<1>0. /\ request[r].phase = "ready"
      /\ log \in Seq(Events)
      /\ Len(log) \in Nat
  BY DEF Writes, WInv, WritesTypeOK
<1>a. \A q \in Proposals(log) : q \in Nat /\ q \in DOMAIN log /\ log[q].on \in Nat
  <2>1. \A q \in DOMAIN log : q \in Nat /\ log[q] \in Events
    BY <1>0
  <2>2. \A e \in Events : e.on \in Nat
    BY DEF Events
  <2> QED
    BY <2>1, <2>2 DEF Proposals
<1>b. \A e \in Entities(log) : e \in Nat
  BY <1>a DEF Entities
<1>c. ASSUME NEW kind \in EventKinds, NEW on \in Nat,
             MayFollow(log, Event(kind, request[r].by, on, r)),
             AppendEvents(r, Own(r, kind, on))
      PROVE  \E batch \in Seq(Events) :
               /\ AppendEvents(r, batch)
               /\ Len(batch) > 0
               /\ \A k \in DOMAIN batch : batch[k].req = r
               /\ Lawful(log \o batch)
  <2>1. /\ Own(r, kind, on) \in Seq(Events)
        /\ Len(Own(r, kind, on)) = 1
        /\ \A k \in DOMAIN Own(r, kind, on) : Own(r, kind, on)[k].req = r
        /\ Lawful(log \o Own(r, kind, on))
    BY <1>0, <1>c, OneEventIsLawful
  <2>2. 1 > 0
    OBVIOUS
  <2> QED
    BY <1>c, <2>1, <2>2
<1> USE DEF Event, MayFollow, EventKinds
<1>1. CASE ProposeValue(r)
  BY <1>1, <1>c DEF ProposeValue, ByParticipant
<1>2. CASE ProposeCapture(r)
  <2>1. PICK id \in Nat : id = Len(log) + 3
    BY <1>0
  <2>2. ByParticipant(r) /\ AppendEvents(r, Capture(r, id))
    BY <1>2, <2>1 DEF ProposeCapture, Capture
  <2>3. /\ Capture(r, id) \in Seq(Events) /\ Len(Capture(r, id)) = 3
        /\ \A k \in DOMAIN Capture(r, id) : Capture(r, id)[k].req = r
        /\ Lawful(log \o Capture(r, id))
    BY <1>0, <2>2, CaptureIsLawful
  <2>4. 3 > 0
    OBVIOUS
  <2> QED
    BY <2>2, <2>3, <2>4
<1>3. CASE LabelSnapshot(r)
  BY <1>3, <1>c DEF LabelSnapshot
<1>4. ASSUME NEW e \in Entities(log), NEW choice \in {"agree", "dispute"}, Vote(r, e, choice)
      PROVE  \E batch \in Seq(Events) :
               /\ AppendEvents(r, batch)
               /\ Len(batch) > 0
               /\ \A k \in DOMAIN batch : batch[k].req = r
               /\ Lawful(log \o batch)
  BY <1>4, <1>b, <1>c DEF Vote, ByParticipant
<1>5. ASSUME NEW e \in Entities(log), Commit(r, e)
      PROVE  \E batch \in Seq(Events) :
               /\ AppendEvents(r, batch)
               /\ Len(batch) > 0
               /\ \A k \in DOMAIN batch : batch[k].req = r
               /\ Lawful(log \o batch)
  <2>1. /\ request[r].by = Host /\ ~CommittedNow(log, e) /\ e \in Nat
        /\ AppendEvents(r, Own(r, "commit", e))
    BY <1>5, <1>b, CommitIsFirst DEF Commit, ByModerator
  <2> QED
    BY <2>1, <1>c
<1>6. ASSUME NEW e \in Entities(log), WithdrawAgreement(r, e)
      PROVE  \E batch \in Seq(Events) :
               /\ AppendEvents(r, batch)
               /\ Len(batch) > 0
               /\ \A k \in DOMAIN batch : batch[k].req = r
               /\ Lawful(log \o batch)
  BY <1>6, <1>b, <1>c DEF WithdrawAgreement, ByParticipant
<1>7. ASSUME NEW q \in Proposals(log), MarkMetaDisagreement(r, q)
      PROVE  \E batch \in Seq(Events) :
               /\ AppendEvents(r, batch)
               /\ Len(batch) > 0
               /\ \A k \in DOMAIN batch : batch[k].req = r
               /\ Lawful(log \o batch)
  <2>1. PICK e \in Nat : e = log[q].on
    BY <1>a
  <2>2. /\ request[r].by = Host /\ Candidate(log, e) \in Pending(log)
        /\ AppendEvents(r, Own(r, "meta-disagreement-marked", e))
    BY <1>7, <2>1 DEF MarkMetaDisagreement, ByModerator
  <2> QED
    BY <2>2, <1>c
<1>8. ASSUME NEW q \in Proposals(log), WithdrawProposal(r, q)
      PROVE  \E batch \in Seq(Events) :
               /\ AppendEvents(r, batch)
               /\ Len(batch) > 0
               /\ \A k \in DOMAIN batch : batch[k].req = r
               /\ Lawful(log \o batch)
  <2>1. PICK kind \in {"proposal-withdrawn", "entity-removed"} :
          AppendEvents(r, Own(r, kind, q))
    BY <1>8 DEF WithdrawProposal
  <2>2. q \in Pending(log) /\ request[r].by = log[q].by /\ q \in Nat /\ q \in DOMAIN log
    BY <1>8, <1>a DEF WithdrawProposal, ByProposer
  <2> QED
    BY <2>1, <2>2, <1>c
<1> QED
  BY <1>1, <1>2, <1>3, <1>4, <1>5, <1>6, <1>7, <1>8 DEF Writes

----------------------------------------------------------------------------
(* Batches *)

\* Events of one cause x at the end of the log.
LEMMA BatchGrows ==
  ASSUME log \in Seq(Events), NEW x, NEW batch \in Seq(Events), log' = log \o batch,
         \A k \in DOMAIN batch : batch[k].req = x
  PROVE  /\ Batch(x)' = Batch(x) \cup ((Len(log) + 1)..(Len(log) + Len(batch)))
         /\ \A s : s # x => Batch(s)' = Batch(s)
         /\ Len(log') = Len(log) + Len(batch)
<1>1. PICK m \in Nat, n \in Nat :
        /\ m = Len(log) /\ DOMAIN log = 1..m
        /\ n = Len(batch) /\ DOMAIN batch = 1..n
  OBVIOUS
<1>2. /\ DOMAIN log' = 1..(m + n) /\ Len(log') = m + n
      /\ \A k \in 1..m : log'[k] = log[k]
      /\ \A k \in 1..n : log'[m + k] = batch[k]
  BY <1>1, ConcatElements
<1>3. \A i \in (m + 1)..(m + n) : log'[i].req = x
  <2> SUFFICES ASSUME NEW i \in (m + 1)..(m + n) PROVE log'[i].req = x
    OBVIOUS
  <2>1. PICK k \in 1..n : i = m + k
    <3>1. i - m \in 1..n /\ i = m + (i - m)
      BY <1>1
    <3> QED
      BY <3>1
  <2> QED
    BY <2>1, <1>1, <1>2
<1>4. \A i : i \in 1..(m + n) <=> i \in 1..m \/ i \in (m + 1)..(m + n)
  BY <1>1
<1>5. \A s : Batch(s) = {i \in 1..m : log[i].req = s}
  BY <1>1 DEF Batch
<1>6. ASSUME NEW s
      PROVE  Batch(s)' = {i \in 1..(m + n) : log'[i].req = s}
  BY <1>2 DEF Batch
<1>7. Batch(x)' = Batch(x) \cup ((m + 1)..(m + n))
  <2>1. Batch(x)' = {i \in 1..(m + n) : log'[i].req = x}
    BY <1>6
  <2> QED
    BY <2>1, <1>2, <1>3, <1>4, <1>5
<1>8. ASSUME NEW s, s # x PROVE Batch(s)' = Batch(s)
  <2>1. Batch(s)' = {i \in 1..(m + n) : log'[i].req = s}
    BY <1>6
  <2> QED
    BY <2>1, <1>2, <1>3, <1>4, <1>5, <1>8
<1>9. \A s : s # x => Batch(s)' = Batch(s)
  BY <1>8
<1> QED
  BY <1>1, <1>2, <1>7, <1>9

LEMMA LastOfARun ==
  ASSUME NEW a \in Int, NEW b \in Int, a <= b
  PROVE  Max(a..b) = b
<1>1. b \in a..b /\ \A y \in a..b : b >= y
  OBVIOUS
<1>2. \A x \in a..b : (\A y \in a..b : x >= y) => x = b
  BY <1>1
<1>3. Max(a..b) \in a..b /\ \A y \in a..b : Max(a..b) >= y
  BY <1>1 DEF Max
<1> QED
  BY <1>2, <1>3

----------------------------------------------------------------------------
(* Answers *)

\* The new frames of envelope r of client b: its answer comes last and is true.
AddsUp(r, b, new) ==
  \A c \in Clients : \A k \in 1..Len(new[c]) :
    /\ new[c][k].req \in {r, NoRequest}
    /\ new[c][k].type = "event-applied" => new[c][k].seq <= Len(log')
    /\ new[c][k].req = r /\ new[c][k].type # "event-applied" =>
         /\ k = Len(new[c]) /\ c = b
         /\ new[c][k].type = "ack" => new[c][k].seq = Max(Batch(r)')
         /\ new[c][k].type = "refused" => Batch(r)' = {}
         /\ new[c][k].type = "snapshot-state" =>
              Len(log) <= new[c][k].seq /\ Len(new[c]) = 1

\* Envelope r of client b is over, and its frames `new` are behind those the
\* sockets carried.
LEMMA Finishes ==
  ASSUME WInv, NEW r \in Requests, request[r].phase # "done",
         NEW b \in Clients, NEW x \in Int,
         request' = [request EXCEPT ![r] = Finished(b, x)],
         NEW new \in [Clients -> Seq(FrameSet)],
         sent' = [c \in Clients |-> sent[c] \o new[c]],
         log' \in Seq(Events), Len(log) <= Len(log'),
         \A s \in Requests \ {r} : Batch(s)' = Batch(s),
         AddsUp(r, b, new)
  PROVE  /\ sent' \in [Clients -> Seq(FrameSet)]
         /\ Said'
         /\ Answered'
<1>a. log \in Seq(Events) /\ sent \in [Clients -> Seq(FrameSet)] /\ Said /\ Answered
  BY DEF WInv, WritesTypeOK
<1>b. Len(log) \in Nat /\ Len(log') \in Nat
  BY <1>a
<1>c. \A f \in FrameSet : f.seq \in Nat
  BY DEF FrameSet
<1>0. /\ log \in Seq(Events) /\ sent \in [Clients -> Seq(FrameSet)]
      /\ Len(log) \in Nat /\ Len(log') \in Nat
      /\ Said /\ Answered
      /\ \A f \in FrameSet : f.seq \in Nat
  BY <1>a, <1>b, <1>c
<1>1. /\ request'[r].phase = "done" /\ request'[r].by = b
      /\ \A s \in Requests \ {r} : request'[s] = request[s]
  BY DEF WInv, WritesTypeOK, Finished
<1>2. ASSUME NEW c \in Clients
      PROVE  /\ sent'[c] \in Seq(FrameSet)
             /\ Len(sent'[c]) = Len(sent[c]) + Len(new[c])
             /\ DOMAIN sent'[c] = 1..(Len(sent[c]) + Len(new[c]))
             /\ Len(sent[c]) \in Nat /\ Len(new[c]) \in Nat
             /\ DOMAIN sent[c] = 1..Len(sent[c])
             /\ \A i \in 1..Len(sent[c]) : sent'[c][i] = sent[c][i] /\ sent[c][i] \in FrameSet
             /\ \A i \in DOMAIN sent'[c] : i > Len(sent[c]) =>
                  \E k \in 1..Len(new[c]) : i = Len(sent[c]) + k /\ sent'[c][i] = new[c][k]
  <2>1. PICK s \in Seq(FrameSet), t \in Seq(FrameSet) :
          s = sent[c] /\ t = new[c] /\ sent'[c] = s \o t
    BY <1>0
  <2>2. PICK m \in Nat, n \in Nat :
          m = Len(s) /\ n = Len(t) /\ DOMAIN s = 1..m /\ \A i \in 1..m : s[i] \in FrameSet
    BY <2>1
  <2>3. /\ s \o t \in Seq(FrameSet) /\ Len(s \o t) = m + n /\ DOMAIN (s \o t) = 1..(m + n)
        /\ \A i \in 1..m : (s \o t)[i] = s[i]
        /\ \A k \in 1..n : (s \o t)[m + k] = t[k]
    BY <2>2, ConcatElements
  <2>4. ASSUME NEW i \in 1..(m + n), i > m
        PROVE  \E k \in 1..n : i = m + k /\ (s \o t)[i] = t[k]
    <3>1. i - m \in 1..n /\ i = m + (i - m)
      BY <2>2, <2>4
    <3> QED
      BY <3>1, <2>3
  <2>5. \A i \in DOMAIN (s \o t) : i > m => \E k \in 1..n : i = m + k /\ (s \o t)[i] = t[k]
    BY <2>3, <2>4
  <2>6. \A i \in 1..m : (s \o t)[i] = s[i] /\ s[i] \in FrameSet
    BY <2>2, <2>3
  <2> QED
    BY <2>1, <2>2, <2>3, <2>5, <2>6
<1>3. sent' \in [Clients -> Seq(FrameSet)]
  BY <1>2
<1>4. NoRequest \notin Requests
  BY RequestAssumption
<1>8. \A c \in Clients : \A k \in 1..Len(new[c]) :
        /\ new[c][k].req \in {r, NoRequest}
        /\ new[c][k].type = "event-applied" => new[c][k].seq <= Len(log')
        /\ new[c][k].req = r /\ new[c][k].type # "event-applied" =>
             /\ k = Len(new[c]) /\ c = b
             /\ new[c][k].type = "ack" => new[c][k].seq = Max(Batch(r)')
             /\ new[c][k].type = "refused" => Batch(r)' = {}
             /\ new[c][k].type = "snapshot-state" =>
                  Len(log) <= new[c][k].seq /\ Len(new[c]) = 1
  BY DEF AddsUp
<1>5. Said'
  <2> SUFFICES ASSUME NEW c \in Clients, NEW i \in DOMAIN sent'[c]
               PROVE  /\ sent'[c][i].type = "event-applied" => sent'[c][i].seq <= Len(log')
                      /\ \A s \in Requests : sent'[c][i].req = s => request'[s].phase = "done"
    BY DEF Said
  <2>1. CASE i <= Len(sent[c])
    <3>1. i \in DOMAIN sent[c] /\ sent'[c][i] = sent[c][i] /\ sent[c][i].seq \in Nat
      BY <1>0, <1>2, <2>1
    <3>2. sent[c][i].type = "event-applied" => sent[c][i].seq <= Len(log)
      BY <1>0, <3>1 DEF Said
    <3>3. \A s \in Requests : sent[c][i].req = s => request[s].phase = "done" /\ s # r
      BY <1>0, <3>1 DEF Said
    <3> QED
      BY <1>0, <1>1, <3>1, <3>2, <3>3
  <2>2. CASE i > Len(sent[c])
    <3>1. PICK k \in 1..Len(new[c]) : sent'[c][i] = new[c][k]
      BY <1>2, <2>2
    <3>2. sent'[c][i].type = "event-applied" => sent'[c][i].seq <= Len(log')
      BY <3>1, <1>8
    <3>3. sent'[c][i].req \in {r, NoRequest}
      BY <3>1, <1>8
    <3> QED
      BY <3>2, <3>3, <1>1, <1>4
  <2>3. i \in Nat /\ Len(sent[c]) \in Nat
    BY <1>2
  <2> QED
    BY <2>1, <2>2, <2>3
<1>6. ASSUME NEW c \in Clients, NEW s \in Requests
      PROVE  /\ \A i, j \in Answers(c, s)' : i = j
             /\ \A i \in Answers(c, s)' : SaysTheTruth(c, s, i)'
  <2>0. PICK m \in Nat, n \in Nat :
          /\ m = Len(sent[c]) /\ n = Len(new[c])
          /\ Len(sent'[c]) = m + n /\ DOMAIN sent'[c] = 1..(m + n)
          /\ DOMAIN sent[c] = 1..m
    BY <1>2
  <2>a. ASSUME NEW i \in 1..(m + n), i > m
        PROVE  \E k \in 1..n : i = m + k /\ sent'[c][i] = new[c][k]
    <3>1. i \in DOMAIN sent'[c] /\ i > Len(sent[c])
      BY <2>0, <2>a
    <3>2. PICK k \in 1..Len(new[c]) : i = Len(sent[c]) + k /\ sent'[c][i] = new[c][k]
      BY <3>1, <1>2
    <3> QED
      BY <3>2, <2>0
  <2>b. \A i \in 1..m : sent'[c][i] = sent[c][i]
    BY <1>2, <2>0
  <2>1. \A i \in Answers(c, s)' :
          i \in 1..(m + n) /\ sent'[c][i].req = s /\ sent'[c][i].type # "event-applied"
    BY <2>0 DEF Answers
  <2>2. CASE s # r
    <3>1. \A i \in 1..(m + n) : i > m => sent'[c][i].req # s
      <4> SUFFICES ASSUME NEW i \in 1..(m + n), i > m PROVE sent'[c][i].req # s
        OBVIOUS
      <4>1. PICK k \in 1..Len(new[c]) : sent'[c][i] = new[c][k]
        BY <2>a, <2>0
      <4>2. new[c][k].req \in {r, NoRequest}
        BY <1>8
      <4> QED
        BY <4>1, <4>2, <1>4, <2>2
    <3>2. \A i \in Answers(c, s)' : i \in Answers(c, s) /\ i \in 1..m
      <4> SUFFICES ASSUME NEW i \in Answers(c, s)' PROVE i \in Answers(c, s) /\ i \in 1..m
        OBVIOUS
      <4>a. i \in 1..(m + n) /\ sent'[c][i].req = s
        BY <2>1
      <4>b. ~(i > m)
        BY <3>1, <4>a
      <4>1. i \in 1..m
        BY <4>a, <4>b
      <4>2. sent'[c][i] = sent[c][i]
        BY <4>1, <2>b
      <4> QED
        BY <4>1, <4>2, <2>0, <2>1 DEF Answers
    <3>3. request'[s] = request[s] /\ Batch(s)' = Batch(s)
      BY <1>1, <2>2
    <3>4. ASSUME NEW i \in Answers(c, s)' PROVE SaysTheTruth(c, s, i)'
      <4>1. SaysTheTruth(c, s, i) /\ i \in 1..m /\ sent'[c][i] = sent[c][i]
        BY <3>2, <3>4, <1>0, <1>2, <2>0 DEF Answered
      <4>2. sent'[c][i].type = "ack" =>
              \A j \in i..(m + n) :
                ~(sent'[c][j].type = "event-applied" /\ sent'[c][j].req = s)
        <5> SUFFICES ASSUME sent'[c][i].type = "ack", NEW j \in i..(m + n)
                     PROVE  ~(sent'[c][j].type = "event-applied" /\ sent'[c][j].req = s)
          OBVIOUS
        <5>0. j \in 1..(m + n) /\ j \in i..(m + n)
          BY <4>1
        <5>1. CASE j > m
          BY <5>0, <5>1, <3>1
        <5>2. CASE j <= m
          <6>1. j \in 1..m /\ j \in i..Len(sent[c])
            BY <5>2, <4>1, <2>0
          <6>2. sent'[c][j] = sent[c][j]
            BY <6>1, <1>2, <2>0
          <6> QED
            BY <6>1, <6>2, <4>1 DEF SaysTheTruth
        <5>3. j > m \/ j <= m
          BY <5>0
        <5> QED
          BY <5>1, <5>2, <5>3
      <4>3. \A j \in 1..(i - 1) : sent'[c][j] = sent[c][j]
        BY <4>1, <1>2, <2>0
      <4> QED
        BY <4>1, <4>2, <4>3, <3>3, <2>0 DEF SaysTheTruth
    <3>5. \A i, j \in Answers(c, s)' : i = j
      BY <3>2, <1>0 DEF Answered
    <3> QED
      BY <3>4, <3>5
  <2>3. CASE s = r
    <3>1. ASSUME NEW i \in Answers(c, s)'
          PROVE  i = m + n /\ SaysTheTruth(c, s, i)'
      <4>1. i > m
        <5>1. i \in 1..m => sent'[c][i] = sent[c][i] /\ i \in DOMAIN sent[c]
          BY <1>2, <2>0
        <5>2. ~(i \in 1..m)
          BY <5>1, <1>0, <2>1, <2>3, <3>1 DEF Said
        <5> QED
          BY <5>2, <2>1, <3>1
      <4>2. PICK k \in 1..n : i = m + k /\ sent'[c][i] = new[c][k]
        BY <2>a, <2>1, <3>1, <4>1
      <4>3. new[c][k].req = r /\ new[c][k].type # "event-applied"
        BY <2>1, <2>3, <3>1, <4>2
      <4>4. /\ k = n /\ c = b
            /\ new[c][k].type = "ack" => new[c][k].seq = Max(Batch(r)')
            /\ new[c][k].type = "refused" => Batch(r)' = {}
            /\ new[c][k].type = "snapshot-state" => Len(log) <= new[c][k].seq /\ n = 1
        BY <4>2, <4>3, <2>0, <1>8
      <4>5. i = m + n
        BY <4>2, <4>4
      <4>6. \A j \in i..Len(sent'[c]) :
              ~(sent'[c][j].type = "event-applied" /\ sent'[c][j].req = s)
        <5>0. Len(sent'[c]) = i
          BY <4>5, <2>0
        <5>1. \A j \in i..i : j = i
          BY <4>5
        <5> QED
          BY <5>0, <5>1, <4>2, <4>3
      <4>7. sent'[c][i].type = "snapshot-state" =>
              \A j \in 1..(i - 1) :
                sent'[c][j].type = "event-applied" => sent'[c][j].seq <= sent'[c][i].seq
        <5> SUFFICES ASSUME sent'[c][i].type = "snapshot-state", NEW j \in 1..(i - 1),
                            sent'[c][j].type = "event-applied"
                     PROVE  sent'[c][j].seq <= sent'[c][i].seq
          OBVIOUS
        <5>1. n = 1 /\ Len(log) <= new[c][k].seq /\ new[c][k].seq \in Nat
          <6>1. new[c][k] \in FrameSet
            BY <4>2, <2>0
          <6> QED
            BY <6>1, <4>2, <4>4, <1>0
        <5>2. j \in 1..m
          BY <5>1, <4>5
        <5>3. sent'[c][j] = sent[c][j] /\ j \in DOMAIN sent[c] /\ sent[c][j].seq \in Nat
          BY <5>2, <1>0, <1>2, <2>0
        <5>4. sent[c][j].seq <= Len(log)
          BY <5>3, <1>0 DEF Said
        <5>5. sent[c][j].seq <= new[c][k].seq
          BY <5>1, <5>3, <5>4, <1>0
        <5> QED
          BY <5>3, <5>5, <4>2
      <4> QED
        BY <1>1, <2>3, <4>2, <4>4, <4>5, <4>6, <4>7 DEF SaysTheTruth
    <3> QED
      BY <3>1
  <2> QED
    BY <2>2, <2>3
<1>7. Answered'
  BY <1>6 DEF Answered
<1> QED
  BY <1>3, <1>5, <1>7

\* An envelope is over with one frame to its sender that is not an
\* acknowledgement, or with none when the socket is gone.
LEMMA Tells ==
  ASSUME WInv, NEW r \in Requests, request[r].phase # "done",
         NEW b \in Clients, NEW x \in Int,
         request' = [request EXCEPT ![r] = Finished(b, x)],
         NEW frame \in FrameSet,
         frame.req \in {r, NoRequest},
         frame.type \notin {"event-applied", "ack"},
         sent' = sent \/ sent' = [sent EXCEPT ![b] = Append(@, frame)],
         log' \in Seq(Events), Len(log) <= Len(log'),
         \A s \in Requests \ {r} : Batch(s)' = Batch(s),
         frame.type = "refused" /\ frame.req = r => Batch(r)' = {},
         frame.type = "snapshot-state" => Len(log) <= frame.seq
  PROVE  /\ sent' \in [Clients -> Seq(FrameSet)]
         /\ Said'
         /\ Answered'
<1>0. sent \in [Clients -> Seq(FrameSet)]
  BY DEF WInv, WritesTypeOK
<1>1. <<>> \in Seq(FrameSet) /\ <<frame>> \in Seq(FrameSet)
  OBVIOUS
<1>2. \A c \in Clients : sent[c] \o <<>> = sent[c] /\ Append(sent[c], frame) = sent[c] \o <<frame>>
  BY <1>0, ConcatEmptySeq, AppendIsConcat
<1>3. PICK new \in [Clients -> {<<>>, <<frame>>}] :
        /\ sent' = [c \in Clients |-> sent[c] \o new[c]]
        /\ \A c \in Clients : c # b => new[c] = <<>>
  <2>1. CASE sent' = sent
    <3>1. PICK none \in [Clients -> {<<>>, <<frame>>}] : \A c \in Clients : none[c] = <<>>
      <4>1. [d \in Clients |-> <<>>] \in [Clients -> {<<>>, <<frame>>}]
        OBVIOUS
      <4> QED
        BY <4>1
    <3>2. sent' = [c \in Clients |-> sent[c] \o none[c]]
      BY <2>1, <3>1, <1>0, <1>2
    <3> QED
      BY <3>1, <3>2
  <2>2. CASE sent' = [sent EXCEPT ![b] = Append(@, frame)]
    <3> DEFINE new == [d \in Clients |-> IF d = b THEN <<frame>> ELSE <<>>]
    <3>1. sent' = [c \in Clients |-> IF c = b THEN Append(sent[c], frame) ELSE sent[c]]
      BY <2>2, <1>0
    <3>2. \A c \in Clients : new[c] = IF c = b THEN <<frame>> ELSE <<>>
      OBVIOUS
    <3>3. new \in [Clients -> {<<>>, <<frame>>}]
      OBVIOUS
    <3> HIDE DEF new
    <3>4. sent' = [c \in Clients |-> sent[c] \o new[c]]
      BY <3>1, <3>2, <1>2
    <3> QED
      BY <3>2, <3>3, <3>4
  <2> QED
    BY <2>1, <2>2
<1>4. new \in [Clients -> Seq(FrameSet)]
  BY <1>1, <1>3
<1>5. Len(<<>>) = 0 /\ Len(<<frame>>) = 1 /\ <<frame>>[1] = frame
  OBVIOUS
<1>6. ASSUME NEW c \in Clients, NEW k \in 1..Len(new[c])
      PROVE  new[c][k] = frame /\ k = 1 /\ Len(new[c]) = 1 /\ c = b
  <2>1. new[c] # <<>>
    BY <1>5, <1>6
  <2>2. new[c] = <<frame>> /\ c = b
    BY <2>1, <1>3
  <2>3. Len(new[c]) = 1
    BY <2>2, <1>5
  <2>4. k = 1
    BY <2>3, <1>6
  <2> QED
    BY <2>2, <2>3, <2>4, <1>5
<1>7. \A c \in Clients : \A k \in 1..Len(new[c]) :
        /\ new[c][k].req \in {r, NoRequest}
        /\ new[c][k].type = "event-applied" => new[c][k].seq <= Len(log')
        /\ new[c][k].req = r /\ new[c][k].type # "event-applied" =>
             /\ k = Len(new[c]) /\ c = b
             /\ new[c][k].type = "ack" => new[c][k].seq = Max(Batch(r)')
             /\ new[c][k].type = "refused" => Batch(r)' = {}
             /\ new[c][k].type = "snapshot-state" =>
                  Len(log) <= new[c][k].seq /\ Len(new[c]) = 1
  BY <1>6
<1>8. AddsUp(r, b, new)
  BY <1>7 DEF AddsUp
<1> QED
  BY <1>3, <1>4, <1>8, Finishes

\* What was said of the envelopes that are over stays true while nothing more
\* is said and sockets come and go.
LEMMA KeepsQuiet ==
  ASSUME WInv,
         sent' \in [Clients -> Seq(FrameSet)],
         \A c \in Clients : sent'[c] = sent[c] \/ sent'[c] = <<>>,
         log' \in Seq(Events), Len(log) <= Len(log'),
         \A s \in Requests : request[s].phase = "done" =>
           request'[s] = request[s] /\ Batch(s)' = Batch(s)
  PROVE  Said' /\ Answered'
<1>a. log \in Seq(Events) /\ sent \in [Clients -> Seq(FrameSet)] /\ Said /\ Answered
  BY DEF WInv, WritesTypeOK
<1>b. Len(log) \in Nat /\ Len(log') \in Nat
  BY <1>a
<1>c. \A f \in FrameSet : f.seq \in Nat
  BY DEF FrameSet
<1>0. /\ Said /\ Answered /\ log \in Seq(Events) /\ sent \in [Clients -> Seq(FrameSet)]
      /\ Len(log) \in Nat /\ Len(log') \in Nat
      /\ \A f \in FrameSet : f.seq \in Nat
  BY <1>a, <1>b, <1>c
<1>1. ASSUME NEW c \in Clients, NEW i \in DOMAIN sent'[c]
      PROVE  sent'[c] = sent[c] /\ sent[c][i].seq \in Nat
  <2>1. sent'[c] = sent[c]
    <3>1. DOMAIN <<>> = {}
      OBVIOUS
    <3> QED
      BY <3>1, <1>1
  <2>2. sent[c] \in Seq(FrameSet) /\ i \in DOMAIN sent[c]
    BY <1>0, <1>1, <2>1
  <2>3. sent[c][i] \in FrameSet
    BY <2>2
  <2> QED
    BY <1>0, <2>1, <2>3
<1>2. Said'
  <2> SUFFICES ASSUME NEW c \in Clients, NEW i \in DOMAIN sent'[c]
               PROVE  /\ sent'[c][i].type = "event-applied" => sent'[c][i].seq <= Len(log')
                      /\ \A s \in Requests : sent'[c][i].req = s => request'[s].phase = "done"
    BY DEF Said
  <2>1. /\ sent'[c] = sent[c] /\ sent[c][i].seq \in Nat /\ i \in DOMAIN sent[c]
    BY <1>1
  <2>2. sent[c][i].type = "event-applied" => sent[c][i].seq <= Len(log)
    BY <2>1, <1>0 DEF Said
  <2>3. \A s \in Requests : sent[c][i].req = s => request[s].phase = "done"
    BY <2>1, <1>0 DEF Said
  <2>4. sent[c][i].type = "event-applied" => sent[c][i].seq <= Len(log')
    BY <2>1, <2>2, <1>0
  <2>5. \A s \in Requests : sent[c][i].req = s => request'[s].phase = "done"
    BY <2>3
  <2> QED
    BY <2>1, <2>4, <2>5
<1>3. ASSUME NEW c \in Clients, NEW s \in Requests, NEW i \in Answers(c, s)'
      PROVE  i \in Answers(c, s) /\ SaysTheTruth(c, s, i)'
  <2>1. i \in DOMAIN sent'[c] /\ sent'[c][i].req = s /\ sent'[c][i].type # "event-applied"
    BY <1>3 DEF Answers
  <2>2. sent'[c] = sent[c]
    BY <1>1, <2>1
  <2>3. i \in Answers(c, s) /\ request[s].phase = "done"
    BY <1>0, <2>1, <2>2 DEF Answers, Said
  <2>4. request'[s] = request[s] /\ Batch(s)' = Batch(s)
    BY <2>3
  <2>5. SaysTheTruth(c, s, i)
    BY <2>3, <1>0 DEF Answered
  <2> QED
    BY <2>2, <2>3, <2>4, <2>5 DEF SaysTheTruth
<1>4. Answered'
  BY <1>3, <1>0 DEF Answered
<1> QED
  BY <1>2, <1>4

----------------------------------------------------------------------------
(* The steps, one lemma a kind *)

\* What an envelope's station says of its fields.
LEMMA Stations ==
  ASSUME WInv, NEW r \in Requests
  PROVE  /\ request[r].phase \in {"unsent", "checking", "ready", "committed", "done"}
         /\ request[r].phase # "unsent" =>
              request[r].by \in Clients /\ request[r].expected \in Int
         /\ request[r].phase \in {"checking", "ready"} => request[r] \in InHandler
         /\ request[r].phase = "committed" => request[r] \in Written
         /\ Placed(r)
<1>1. request[r] \in Unsent \cup InHandler \cup Written \cup Over /\ Placed(r)
  BY DEF WInv, WritesTypeOK, Batches
<1> QED
  BY <1>1 DEF Unsent, InHandler, Written, Over

\* An envelope's place outlives other envelopes' events.
LEMMA PlaceIsKept ==
  ASSUME WInv, NEW s \in Requests, request'[s] = request[s], Batch(s)' = Batch(s),
         log' \in Seq(Events), Len(log) <= Len(log')
  PROVE  Placed(s)'
<1>1. Placed(s) /\ (request[s].phase = "committed" => request[s] \in Written)
  BY Stations
<1>2. Len(log) \in Nat /\ Len(log') \in Nat
  BY DEF WInv, WritesTypeOK
<1>3. request[s].phase = "committed" => request[s].last \in Nat
  BY <1>1 DEF Written
<1> QED
  BY <1>1, <1>2, <1>3 DEF Placed

\* An envelope ends without having written.
LEMMA EndsUnwritten ==
  ASSUME WInv, NEW r \in Requests, request[r].phase \in {"unsent", "checking", "ready"},
         NEW b \in Clients, NEW x \in Int,
         request' = [request EXCEPT ![r] = Finished(b, x)],
         NEW frame \in FrameSet,
         frame.req \in {r, NoRequest},
         frame.type \notin {"event-applied", "ack"},
         frame.type = "snapshot-state" => frame.seq = Len(log),
         sent' = sent \/ sent' = [sent EXCEPT ![b] = Append(@, frame)],
         log' = log
  PROVE  WInv'
<1>1. log \in Seq(Events) /\ Lawful(log)
  BY DEF WInv, WritesTypeOK
<1>2. Len(log) \in Nat
  BY <1>1
<1>3. \A s : Batch(s)' = Batch(s)
  BY DEF Batch
<1>4. Batch(r) = {} /\ Batch(r)' = {}
  BY <1>3, Stations DEF Placed
<1>5. sent' \in [Clients -> Seq(FrameSet)] /\ Said' /\ Answered'
  <2>1. log' \in Seq(Events) /\ Len(log) <= Len(log')
    BY <1>1, <1>2
  <2>2. \A s \in Requests \ {r} : Batch(s)' = Batch(s)
    BY <1>3
  <2>3. request[r].phase # "done"
    OBVIOUS
  <2>4. /\ frame.type = "refused" /\ frame.req = r => Batch(r)' = {}
        /\ frame.type = "snapshot-state" => Len(log) <= frame.seq
    BY <1>4, <1>2
  <2> QED
    BY <2>1, <2>2, <2>3, <2>4, Tells
<1>6. request' \in [Requests -> Unsent \cup InHandler \cup Written \cup Over]
  <2>1. Finished(b, x) \in Over
    BY DEF Finished, Over
  <2> QED
    BY <2>1 DEF WInv, WritesTypeOK
<1>7. Batches'
  <2>1. \A s \in Requests : s # r => Placed(s)'
    <3> SUFFICES ASSUME NEW s \in Requests, s # r PROVE Placed(s)'
      OBVIOUS
    <3>1. request'[s] = request[s]
      BY DEF WInv, WritesTypeOK
    <3>2. Batch(s)' = Batch(s) /\ log' \in Seq(Events) /\ Len(log) <= Len(log')
      BY <1>1, <1>2, <1>3
    <3> QED
      BY <3>1, <3>2, PlaceIsKept
  <2>2. request'[r].phase = "done"
    BY DEF WInv, WritesTypeOK, Finished
  <2>3. Placed(r)'
    BY <2>2, <1>4 DEF Placed
  <2> QED
    BY <2>1, <2>3 DEF Batches
<1> QED
  BY <1>1, <1>5, <1>6, <1>7 DEF WInv, WritesTypeOK

LEMMA RefuseKeepsWInv ==
  ASSUME WInv, NEW r \in Requests, request[r].phase \in {"checking", "ready"},
         Refuse(r) \/ Fail(r) \/ TakeSnapshot(r)
  PROVE  WInv'
<1>1. PICK frame : /\ frame \in {Frame("refused", r, 0), Frame("failed", r, 0),
                                 Frame("snapshot-state", r, Len(log))}
                   /\ Answer(r, frame)
                   /\ Done(r, 0) /\ log' = log
  BY DEF Refuse, Fail, TakeSnapshot
<1>2. Len(log) \in Nat
  BY DEF WInv, WritesTypeOK
<1>3. /\ frame \in FrameSet /\ frame.req = r
      /\ frame.type \notin {"event-applied", "ack"}
      /\ frame.type = "snapshot-state" => frame.seq = Len(log)
  BY <1>1, <1>2 DEF Frame, FrameSet, FrameTypes, Causes
<1>4. PICK b \in Clients : b = request[r].by
  BY Stations
<1>5. request' = [request EXCEPT ![r] = Finished(b, 0)]
  BY <1>1, <1>4 DEF Done
<1>6. sent' = sent \/ sent' = [sent EXCEPT ![b] = Append(@, frame)]
  BY <1>1, <1>4 DEF Answer
<1>7. 0 \in Int
  OBVIOUS
<1> QED
  BY <1>1, <1>3, <1>5, <1>6, <1>7, EndsUnwritten

\* An envelope moves on inside its handler.
LEMMA GoesOn ==
  ASSUME WInv, NEW r \in Requests, request[r].phase \in {"unsent", "checking"},
         NEW station \in InHandler, request' = [request EXCEPT ![r] = station],
         UNCHANGED <<log, sent>>
  PROVE  WInv'
<1>1. log \in Seq(Events) /\ Lawful(log) /\ sent \in [Clients -> Seq(FrameSet)]
  BY DEF WInv, WritesTypeOK
<1>2. Len(log) \in Nat
  BY <1>1
<1>3. \A s : Batch(s)' = Batch(s)
  BY DEF Batch
<1>4. \A s \in Requests : s # r => request'[s] = request[s]
  BY DEF WInv, WritesTypeOK
<1>5. request'[r] = station /\ station.phase \in {"checking", "ready"}
  BY DEF WInv, WritesTypeOK, InHandler
<1>6. Said' /\ Answered'
  <2>1. /\ sent' \in [Clients -> Seq(FrameSet)]
        /\ \A c \in Clients : sent'[c] = sent[c] \/ sent'[c] = <<>>
        /\ log' \in Seq(Events) /\ Len(log) <= Len(log')
    BY <1>1, <1>2
  <2>2. \A s \in Requests : request[s].phase = "done" =>
          request'[s] = request[s] /\ Batch(s)' = Batch(s)
    BY <1>3, <1>4
  <2> QED
    BY <2>1, <2>2, KeepsQuiet
<1>7. Batches'
  <2>1. ASSUME NEW s \in Requests, s # r PROVE Placed(s)'
    BY <2>1, <1>1, <1>2, <1>3, <1>4, PlaceIsKept
  <2>2. Placed(r)'
    BY <1>3, <1>5, Stations DEF Placed
  <2> QED
    BY <2>1, <2>2 DEF Batches
<1>8. request' \in [Requests -> Unsent \cup InHandler \cup Written \cup Over]
  BY DEF WInv, WritesTypeOK
<1> QED
  BY <1>1, <1>6, <1>7, <1>8 DEF WInv, WritesTypeOK

LEMMA SendKeepsWInv ==
  ASSUME WInv, NEW r \in Requests, NEW c \in Clients, Send(r, c) \/ SendNonsense(r, c)
  PROVE  WInv'
<1>0. request[r].phase = "unsent" /\ log' = log /\ Len(log) \in Nat
  BY DEF Send, SendNonsense, WInv, WritesTypeOK
<1>1. CASE \E answered \in {r, NoRequest} :
             /\ request' = [request EXCEPT ![r] = Finished(c, 0)]
             /\ sent' = [sent EXCEPT ![c] = Append(@, Frame("refused", answered, 0))]
  <2>1. PICK answered \in {r, NoRequest} :
             /\ request' = [request EXCEPT ![r] = Finished(c, 0)]
             /\ sent' = [sent EXCEPT ![c] = Append(@, Frame("refused", answered, 0))]
    BY <1>1
  <2>2. PICK frame \in FrameSet : frame = Frame("refused", answered, 0)
    BY DEF Frame, FrameSet, FrameTypes, Causes
  <2>3. frame.req \in {r, NoRequest} /\ frame.type = "refused"
    BY <2>2 DEF Frame
  <2>4. 0 \in Int
    OBVIOUS
  <2> QED
    BY <1>0, <2>1, <2>2, <2>3, <2>4, EndsUnwritten
<1>2. CASE \E behind \in {0, 1} :
             /\ request' = [request EXCEPT ![r] =
                  [phase |-> "checking", by |-> c, expected |-> Len(log) - behind,
                   alive |-> TRUE]]
             /\ sent' = sent
  <2>1. PICK behind \in {0, 1} :
             /\ request' = [request EXCEPT ![r] =
                  [phase |-> "checking", by |-> c, expected |-> Len(log) - behind,
                   alive |-> TRUE]]
             /\ sent' = sent
    BY <1>2
  <2>2. PICK station \in InHandler :
          station = [phase |-> "checking", by |-> c, expected |-> Len(log) - behind,
                     alive |-> TRUE]
    <3>1. Len(log) - behind \in Int
      BY <1>0
    <3>2. \A x \in Int : [phase |-> "checking", by |-> c, expected |-> x, alive |-> TRUE]
                          \in InHandler
      BY DEF InHandler
    <3> QED
      BY <3>1, <3>2
  <2> QED
    BY <1>0, <2>1, <2>2, GoesOn
<1>3. Send(r, c) => \/ /\ request' = [request EXCEPT ![r] = Finished(c, 0)]
                       /\ sent' = [sent EXCEPT ![c] = Append(@, Frame("refused", r, 0))]
                    \/ \E behind \in {0, 1} :
                         /\ request' = [request EXCEPT ![r] =
                              [phase |-> "checking", by |-> c, expected |-> Len(log) - behind,
                               alive |-> TRUE]]
                         /\ sent' = sent
  BY DEF Send
<1>4. SendNonsense(r, c) => \E answered \in {r, NoRequest} :
             /\ request' = [request EXCEPT ![r] = Finished(c, 0)]
             /\ sent' = [sent EXCEPT ![c] = Append(@, Frame("refused", answered, 0))]
  BY DEF SendNonsense
<1> QED
  BY <1>1, <1>2, <1>3, <1>4

LEMMA SeeSessionKeepsWInv ==
  ASSUME WInv, NEW r \in Requests, SeeSession(r)
  PROVE  WInv'
<1>1. request[r].phase = "checking" /\ request[r] \in InHandler
  BY Stations DEF SeeSession
<1>2. CASE /\ request' = [request EXCEPT ![r].phase = "ready"]
           /\ UNCHANGED <<log, sent>>
  <2>1. PICK station \in InHandler : station = [request[r] EXCEPT !.phase = "ready"]
    BY <1>1 DEF InHandler
  <2>2. request' = [request EXCEPT ![r] = station]
    BY <1>2, <2>1
  <2> QED
    BY <1>1, <1>2, <2>1, <2>2, GoesOn
<1>3. CASE Refuse(r)
  BY <1>1, <1>3, RefuseKeepsWInv
<1> QED
  BY <1>2, <1>3 DEF SeeSession

\* A transaction commits, and its answer arrives or is lost.
LEMMA WritesKeepWInv ==
  ASSUME WInv, NEW r \in Requests, Writes(r)
  PROVE  WInv'
<1>1. PICK batch \in Seq(Events) :
        /\ AppendEvents(r, batch)
        /\ Len(batch) > 0
        /\ \A k \in DOMAIN batch : batch[k].req = r
        /\ Lawful(log \o batch)
  BY WritesAreLawful
<1>2. PICK m \in Nat, n \in Nat : m = Len(log) /\ n = Len(batch) /\ n > 0
  BY <1>1 DEF WInv, WritesTypeOK
<1>3. /\ request[r].phase = "ready" /\ request[r] \in InHandler
      /\ Batch(r) = {}
  BY Stations DEF Writes, Placed
<1>4. log \in Seq(Events)
  BY DEF WInv, WritesTypeOK
<1>5. /\ request[r].expected = m
      /\ log' = log \o batch
  BY <1>1, <1>2 DEF AppendEvents, UpToDate
<1>6. log' \in Seq(Events) /\ Lawful(log')
  BY <1>1, <1>4, <1>5
<1>7. /\ Batch(r)' = (m + 1)..(m + n)
      /\ \A s : s # r => Batch(s)' = Batch(s)
      /\ Len(log') = m + n
  <2>1. /\ Batch(r)' = Batch(r) \cup ((Len(log) + 1)..(Len(log) + Len(batch)))
        /\ \A s : s # r => Batch(s)' = Batch(s)
        /\ Len(log') = Len(log) + Len(batch)
    BY <1>1, <1>4, <1>5, BatchGrows
  <2> QED
    BY <2>1, <1>2, <1>3
<1>8. Len(log) <= Len(log')
  BY <1>2, <1>7
<1>9. PICK b \in Clients : b = request[r].by
  BY <1>3 DEF InHandler
<1>10. CASE /\ request' = [request EXCEPT ![r] =
                  [phase |-> "committed", by |-> @.by, expected |-> @.expected,
                   alive |-> @.alive, first |-> Len(log) + 1,
                   last |-> Len(log) + Len(batch)]]
            /\ sent' = sent
  <2>1. PICK station \in Written :
          station = [phase |-> "committed", by |-> b, expected |-> m,
                     alive |-> request[r].alive, first |-> m + 1, last |-> m + n]
    <3>1. request[r].alive \in BOOLEAN
      BY <1>3 DEF InHandler
    <3>2. m \in Int /\ m + 1 \in Nat /\ m + n \in Nat
      BY <1>2
    <3>3. \A w \in BOOLEAN, x \in Int, y \in Nat, z \in Nat :
            [phase |-> "committed", by |-> b, expected |-> x, alive |-> w,
             first |-> y, last |-> z] \in Written
      BY DEF Written
    <3> QED
      BY <3>1, <3>2, <3>3
  <2>2. request' = [request EXCEPT ![r] = station]
    BY <1>2, <1>5, <1>9, <1>10, <2>1
  <2>3. /\ request'[r] = station
        /\ \A s \in Requests : s # r => request'[s] = request[s]
        /\ request' \in [Requests -> Unsent \cup InHandler \cup Written \cup Over]
    BY <2>2 DEF WInv, WritesTypeOK
  <2>4. sent' \in [Clients -> Seq(FrameSet)]
        /\ \A c \in Clients : sent'[c] = sent[c] \/ sent'[c] = <<>>
    BY <1>10 DEF WInv, WritesTypeOK
  <2>5. Said' /\ Answered'
    <3>1. \A s \in Requests : request[s].phase = "done" =>
            request'[s] = request[s] /\ Batch(s)' = Batch(s)
      BY <1>3, <1>7, <2>3
    <3> QED
      BY <1>6, <1>8, <2>4, <3>1, KeepsQuiet
  <2>6. Placed(r)'
    <3>1. /\ request'[r].phase = "committed" /\ request'[r].first = m + 1
          /\ request'[r].last = m + n /\ request'[r].expected = m
      BY <2>1, <2>3
    <3> QED
      BY <1>2, <1>7, <3>1 DEF Placed
  <2>7. ASSUME NEW s \in Requests, s # r PROVE Placed(s)'
    <3>1. request'[s] = request[s] /\ Batch(s)' = Batch(s)
      BY <2>3, <2>7, <1>7
    <3> QED
      BY <3>1, <1>6, <1>8, PlaceIsKept
  <2>8. Batches'
    BY <2>6, <2>7 DEF Batches
  <2> QED
    BY <1>6, <2>3, <2>4, <2>5, <2>8 DEF WInv, WritesTypeOK
<1>11. CASE Answer(r, Frame("failed", r, 0)) /\ Done(r, request[r].expected)
  <2>1. PICK frame \in FrameSet : frame = Frame("failed", r, 0)
    BY DEF Frame, FrameSet, FrameTypes, Causes
  <2>2. /\ frame.req \in {r, NoRequest}
        /\ frame.type \notin {"event-applied", "ack", "refused", "snapshot-state"}
    BY <2>1 DEF Frame
  <2>3. request' = [request EXCEPT ![r] = Finished(b, m)]
    BY <1>5, <1>9, <1>11 DEF Done
  <2>4. sent' = sent \/ sent' = [sent EXCEPT ![b] = Append(@, frame)]
    BY <1>9, <1>11, <2>1 DEF Answer
  <2>5. sent' \in [Clients -> Seq(FrameSet)] /\ Said' /\ Answered'
    <3>1. \A s \in Requests \ {r} : Batch(s)' = Batch(s)
      BY <1>7
    <3>2. m \in Int /\ request[r].phase # "done"
      BY <1>3
    <3>3. /\ frame.type \notin {"event-applied", "ack"}
          /\ frame.type = "refused" /\ frame.req = r => Batch(r)' = {}
          /\ frame.type = "snapshot-state" => Len(log) <= frame.seq
      BY <2>2
    <3> QED
      BY <1>6, <1>8, <2>2, <2>3, <2>4, <3>1, <3>2, <3>3, Tells
  <2>6. /\ request'[r] = Finished(b, m)
        /\ \A s \in Requests : s # r => request'[s] = request[s]
    BY <2>3 DEF WInv, WritesTypeOK
  <2>7. request' \in [Requests -> Unsent \cup InHandler \cup Written \cup Over]
    <3>1. Finished(b, m) \in Over
      BY DEF Finished, Over
    <3> QED
      BY <2>3, <3>1 DEF WInv, WritesTypeOK
  <2>8. Placed(r)'
    <3>1. request'[r].phase = "done" /\ request'[r].expected = m
      BY <2>6 DEF Finished
    <3>2. m + n \in Nat /\ m + n > m
      BY <1>2
    <3> QED
      BY <1>7, <3>1, <3>2 DEF Placed
  <2>9. ASSUME NEW s \in Requests, s # r PROVE Placed(s)'
    <3>1. request'[s] = request[s] /\ Batch(s)' = Batch(s)
      BY <2>6, <2>9, <1>7
    <3> QED
      BY <3>1, <1>6, <1>8, PlaceIsKept
  <2>10. Batches'
    BY <2>8, <2>9 DEF Batches
  <2> QED
    BY <1>6, <2>5, <2>7, <2>10 DEF WInv, WritesTypeOK
<1> QED
  BY <1>1, <1>10, <1>11 DEF AppendEvents

\* What one client's socket is sent when envelope r settles.
LEMMA OutcomeIsTrue ==
  ASSUME WInv, NEW r \in Requests, request[r].phase = "committed", NEW c \in Clients
  PROVE  /\ Outcome(r, c) \in Seq(FrameSet)
         /\ \A k \in 1..Len(Outcome(r, c)) :
              /\ Outcome(r, c)[k].req = r
              /\ Outcome(r, c)[k].type \in {"event-applied", "ack"}
              /\ Outcome(r, c)[k].type = "event-applied" =>
                   Outcome(r, c)[k].seq <= request[r].last
              /\ Outcome(r, c)[k].type = "ack" =>
                   /\ k = Len(Outcome(r, c)) /\ c = request[r].by
                   /\ Outcome(r, c)[k].seq = request[r].last
<1>1. PICK first \in Nat, last \in Nat :
        first = request[r].first /\ last = request[r].last /\ first <= last
  BY Stations DEF Written, Placed
<1>2. PICK n \in Nat : n = last - first + 1
  BY <1>1
<1> DEFINE applied == IF c \in subscribed THEN EventFrames(r) ELSE <<>>
           answer == IF c = request[r].by THEN Ack(r) ELSE <<>>
<1>3. EventFrames(r) = [i \in 1..n |-> Frame("event-applied", r, first + i - 1)]
  BY <1>1, <1>2 DEF EventFrames
<1>4. /\ applied \in Seq(FrameSet)
      /\ \A k \in 1..Len(applied) :
           /\ applied[k].req = r /\ applied[k].type = "event-applied"
           /\ applied[k].seq <= last
  <2>1. CASE c \in subscribed
    <3>1. applied = [i \in 1..n |-> Frame("event-applied", r, first + i - 1)]
      BY <1>3, <2>1
    <3>2. \A i \in 1..n : /\ first + i - 1 \in Nat /\ first + i - 1 <= last
      BY <1>1, <1>2
    <3>3. \A x \in Nat : /\ Frame("event-applied", r, x) \in FrameSet
                         /\ Frame("event-applied", r, x).req = r
                         /\ Frame("event-applied", r, x).type = "event-applied"
                         /\ Frame("event-applied", r, x).seq = x
      BY DEF Frame, FrameSet, FrameTypes, Causes
    <3> HIDE DEF applied
    <3>4. \A i \in 1..n : /\ applied[i] \in FrameSet
                         /\ applied[i].req = r /\ applied[i].type = "event-applied"
                         /\ applied[i].seq <= last
      BY <3>1, <3>2, <3>3
    <3>5. applied \in [1..n -> FrameSet]
      BY <3>1, <3>2, <3>3
    <3>6. applied \in Seq(FrameSet) /\ Len(applied) = n
      BY <3>5
    <3> QED
      BY <3>4, <3>6
  <2>2. CASE c \notin subscribed
    <3>1. applied = <<>>
      BY <2>2
    <3> HIDE DEF applied
    <3> QED
      BY <3>1
  <2> QED
    BY <2>1, <2>2
<1>5. /\ answer \in Seq(FrameSet)
      /\ Len(answer) \in {0, 1}
      /\ \A k \in 1..Len(answer) :
           /\ k = Len(answer) /\ c = request[r].by
           /\ answer[k].req = r /\ answer[k].type = "ack" /\ answer[k].seq = last
  <2>1. CASE c = request[r].by /\ request[r].alive
    <3>1. answer = <<Frame("ack", r, last)>>
      BY <1>1, <2>1 DEF Ack
    <3>2. PICK f \in FrameSet : f = Frame("ack", r, last)
      BY DEF Frame, FrameSet, FrameTypes, Causes
    <3>3. f.req = r /\ f.type = "ack" /\ f.seq = last
      BY <3>2 DEF Frame
    <3> HIDE DEF answer
    <3>4. answer \in Seq(FrameSet) /\ Len(answer) = 1 /\ answer[1] = f
      BY <3>1, <3>2
    <3>5. \A k \in 1..1 : k = 1
      OBVIOUS
    <3> QED
      BY <2>1, <3>3, <3>4, <3>5
  <2>2. CASE ~(c = request[r].by /\ request[r].alive)
    <3>1. answer = <<>>
      BY <2>2 DEF Ack
    <3> HIDE DEF answer
    <3> QED
      BY <3>1
  <2> QED
    BY <2>1, <2>2
<1>6. Outcome(r, c) = applied \o answer
  BY DEF Outcome
<1> HIDE DEF applied, answer
<1>7. PICK m \in Nat, a \in {0, 1} : m = Len(applied) /\ a = Len(answer)
  BY <1>4, <1>5
<1>8. /\ Outcome(r, c) \in Seq(FrameSet)
      /\ Len(Outcome(r, c)) = m + a
      /\ \A k \in 1..m : Outcome(r, c)[k] = applied[k]
      /\ \A k \in 1..a : Outcome(r, c)[m + k] = answer[k]
  <2>1. /\ applied \o answer \in Seq(FrameSet)
        /\ Len(applied \o answer) = Len(applied) + Len(answer)
        /\ \A k \in 1..Len(applied) : (applied \o answer)[k] = applied[k]
        /\ \A k \in 1..Len(answer) : (applied \o answer)[Len(applied) + k] = answer[k]
    BY <1>4, <1>5, ConcatElements
  <2> QED
    BY <2>1, <1>6, <1>7
<1>9. ASSUME NEW k \in 1..(m + a)
      PROVE  /\ Outcome(r, c)[k].req = r
             /\ Outcome(r, c)[k].type \in {"event-applied", "ack"}
             /\ Outcome(r, c)[k].type = "event-applied" => Outcome(r, c)[k].seq <= last
             /\ Outcome(r, c)[k].type = "ack" =>
                  k = m + a /\ c = request[r].by /\ Outcome(r, c)[k].seq = last
  <2>1. CASE k <= m
    <3>1. k \in 1..m
      BY <2>1
    <3>2. Outcome(r, c)[k] = applied[k]
      BY <3>1, <1>8
    <3> QED
      BY <3>1, <3>2, <1>4, <1>7
  <2>2. CASE k > m
    <3>1. a = 1 /\ k = m + 1 /\ 1 \in 1..a
      BY <2>2, <1>7
    <3>2. Outcome(r, c)[k] = answer[1]
      BY <3>1, <1>8
    <3> QED
      BY <3>1, <3>2, <1>5, <1>7
  <2> QED
    BY <2>1, <2>2
<1> QED
  BY <1>1, <1>8, <1>9

LEMMA SettleKeepsWInv ==
  ASSUME WInv, NEW r \in Requests, Settle(r)
  PROVE  WInv'
<1>1. /\ request[r].phase = "committed" /\ request[r] \in Written /\ Placed(r)
      /\ log \in Seq(Events) /\ Lawful(log)
  BY Stations DEF Settle, WInv, WritesTypeOK
<1>2. Len(log) \in Nat
  BY <1>1
<1>3. PICK b \in Clients, x \in Int, last \in Nat :
        /\ b = request[r].by /\ x = request[r].expected /\ last = request[r].last
        /\ x + 1 <= last /\ last <= Len(log)
        /\ Batch(r) = (x + 1)..last
  BY <1>1 DEF Written, Placed
<1>4. \A s : Batch(s)' = Batch(s)
  BY DEF Settle, Batch
<1>5. Max(Batch(r)') = last
  BY <1>3, <1>4, LastOfARun
<1> DEFINE new == [c \in Clients |-> Outcome(r, c)]
<1>6. /\ new \in [Clients -> Seq(FrameSet)]
      /\ \A c \in Clients : new[c] = Outcome(r, c)
  BY <1>1, OutcomeIsTrue
<1>7. sent' = [c \in Clients |-> sent[c] \o new[c]]
  BY DEF Settle
<1>8. AddsUp(r, b, new)
  <2> SUFFICES ASSUME NEW c \in Clients, NEW k \in 1..Len(new[c])
               PROVE  /\ new[c][k].req \in {r, NoRequest}
                      /\ new[c][k].type = "event-applied" => new[c][k].seq <= Len(log')
                      /\ new[c][k].req = r /\ new[c][k].type # "event-applied" =>
                           /\ k = Len(new[c]) /\ c = b
                           /\ new[c][k].type = "ack" => new[c][k].seq = Max(Batch(r)')
                           /\ new[c][k].type = "refused" => Batch(r)' = {}
                           /\ new[c][k].type = "snapshot-state" =>
                                Len(log) <= new[c][k].seq /\ Len(new[c]) = 1
    BY DEF AddsUp
  <2> HIDE DEF new
  <2>1. PICK out \in Seq(FrameSet) : out = Outcome(r, c) /\ out = new[c]
    BY <1>6
  <2>2. /\ out[k].req = r
        /\ out[k].type \in {"event-applied", "ack"}
        /\ out[k].type = "event-applied" => out[k].seq <= last
        /\ out[k].type = "ack" => k = Len(out) /\ c = b /\ out[k].seq = last
    <3>1. k \in 1..Len(Outcome(r, c))
      BY <2>1
    <3>2. /\ Outcome(r, c)[k].req = r
          /\ Outcome(r, c)[k].type \in {"event-applied", "ack"}
          /\ Outcome(r, c)[k].type = "event-applied" =>
               Outcome(r, c)[k].seq <= request[r].last
          /\ Outcome(r, c)[k].type = "ack" =>
               /\ k = Len(Outcome(r, c)) /\ c = request[r].by
               /\ Outcome(r, c)[k].seq = request[r].last
      BY <1>1, <3>1, OutcomeIsTrue
    <3> QED
      BY <3>2, <2>1, <1>3
  <2>3. log' = log
    BY DEF Settle
  <2>4. out[k].seq \in Nat
    <3>1. k \in 1..Len(out)
      BY <2>1
    <3>2. out[k] \in FrameSet
      BY <3>1
    <3> QED
      BY <3>2 DEF FrameSet
  <2>5. out[k].type = "event-applied" => out[k].seq <= Len(log')
    BY <2>2, <2>3, <2>4, <1>2, <1>3
  <2> QED
    BY <2>1, <2>2, <2>5, <1>5
<1> HIDE DEF new
<1>9. request' = [request EXCEPT ![r] = Finished(b, x)]
  BY <1>3 DEF Settle, Done
<1>10. sent' \in [Clients -> Seq(FrameSet)] /\ Said' /\ Answered'
  <2>1. log' \in Seq(Events) /\ Len(log) <= Len(log')
    BY <1>1, <1>2 DEF Settle
  <2>2. \A s \in Requests \ {r} : Batch(s)' = Batch(s)
    BY <1>4
  <2>3. request[r].phase # "done"
    BY <1>1
  <2> QED
    BY <2>1, <2>2, <2>3, <1>6, <1>7, <1>8, <1>9, Finishes
<1>11. /\ request'[r] = Finished(b, x)
       /\ \A s \in Requests : s # r => request'[s] = request[s]
       /\ request' \in [Requests -> Unsent \cup InHandler \cup Written \cup Over]
  <2>1. Finished(b, x) \in Over
    BY DEF Finished, Over
  <2> QED
    BY <1>9, <2>1 DEF WInv, WritesTypeOK
<1>12. Placed(r)'
  <2>1. request'[r].phase = "done" /\ request'[r].expected = x
    BY <1>11 DEF Finished
  <2>2. last > x
    BY <1>3
  <2> QED
    BY <2>1, <2>2, <1>3, <1>4 DEF Placed
<1>13. ASSUME NEW s \in Requests, s # r PROVE Placed(s)'
  <2>1. /\ request'[s] = request[s] /\ Batch(s)' = Batch(s)
        /\ log' \in Seq(Events) /\ Len(log) <= Len(log')
    BY <1>1, <1>2, <1>4, <1>11, <1>13 DEF Settle
  <2> QED
    BY <2>1, PlaceIsKept
<1>14. log' = log
  BY DEF Settle
<1> QED
  BY <1>1, <1>10, <1>11, <1>12, <1>13, <1>14 DEF WInv, WritesTypeOK, Batches

\* A member joins or leaves over HTTP.
LEMMA MemberKeepsWInv ==
  ASSUME WInv, NEW kind \in {"participant-joined", "participant-left"}, Member(kind)
  PROVE  WInv'
<1>1. /\ log \in Seq(Events) /\ Lawful(log) /\ sent \in [Clients -> Seq(FrameSet)]
      /\ request \in [Requests -> Unsent \cup InHandler \cup Written \cup Over]
  BY DEF WInv, WritesTypeOK
<1> DEFINE e == Event(kind, Debater, 0, NoRequest)
<1>2. e \in Events /\ e.kind = kind /\ e.req = NoRequest
  BY ClientAssumption DEF Event, Events, EventKinds, Causes
<1>3. MayFollow(log, e)
  BY <1>2 DEF MayFollow
<1>4. log' = Append(log, e) /\ UNCHANGED <<request, sent>>
  BY DEF Member
<1> HIDE DEF e
<1>5. log' \in Seq(Events) /\ Lawful(log')
  BY <1>1, <1>2, <1>3, <1>4, LawfulGrows
<1>6. /\ <<e>> \in Seq(Events) /\ Len(<<e>>) = 1
      /\ \A k \in DOMAIN <<e>> : <<e>>[k].req = NoRequest
  BY <1>2
<1>7. log' = log \o <<e>>
  BY <1>1, <1>2, <1>4, AppendIsConcat
<1>8. \A s : s # NoRequest => Batch(s)' = Batch(s)
  BY <1>1, <1>6, <1>7, BatchGrows
<1>9. Len(log) <= Len(log')
  BY <1>1, <1>2, <1>4
<1>10. \A s \in Requests : Batch(s)' = Batch(s) /\ request'[s] = request[s]
  BY <1>4, <1>8, RequestAssumption
<1>11. Said' /\ Answered'
  <2>1. /\ sent' \in [Clients -> Seq(FrameSet)]
        /\ \A c \in Clients : sent'[c] = sent[c] \/ sent'[c] = <<>>
    BY <1>1, <1>4
  <2> QED
    BY <1>5, <1>9, <1>10, <2>1, KeepsQuiet
<1>12. Batches'
  <2>1. ASSUME NEW s \in Requests PROVE Placed(s)'
    BY <1>5, <1>9, <1>10, PlaceIsKept
  <2> QED
    BY <2>1 DEF Batches
<1> QED
  BY <1>1, <1>4, <1>5, <1>11, <1>12 DEF WInv, WritesTypeOK

\* Sockets end, or nothing the invariant speaks of changes.
LEMMA DropKeepsWInv ==
  ASSUME WInv, \/ UNCHANGED <<log, request, sent>> \/ Restart
               \/ \E c \in Clients : Drop(c)
  PROVE  WInv'
<1>1. /\ log \in Seq(Events) /\ Lawful(log) /\ sent \in [Clients -> Seq(FrameSet)]
      /\ request \in [Requests -> Unsent \cup InHandler \cup Written \cup Over]
  BY DEF WInv, WritesTypeOK
<1>2. Len(log) \in Nat
  BY <1>1
<1>3. log' = log
  BY DEF Restart, Drop
<1>4. \A s : Batch(s)' = Batch(s)
  BY <1>3 DEF Batch
<1>5. /\ sent' \in [Clients -> Seq(FrameSet)]
      /\ \A c \in Clients : sent'[c] = sent[c] \/ sent'[c] = <<>>
  <2>1. <<>> \in Seq(FrameSet)
    OBVIOUS
  <2>2. CASE sent' = sent
    BY <1>1, <2>2
  <2>3. CASE Restart
    BY <2>1, <2>3 DEF Restart
  <2>4. CASE \E c \in Clients : Drop(c)
    BY <1>1, <2>1, <2>4 DEF Drop
  <2> QED
    BY <2>2, <2>3, <2>4
<1>6. ASSUME NEW s \in Requests
      PROVE  \/ request'[s] = request[s]
             \/ /\ request[s].phase \in {"checking", "ready", "committed"}
                /\ request'[s] = [request[s] EXCEPT !.alive = FALSE]
             \/ /\ request[s].phase = "committed"
                /\ request'[s] = Finished(request[s].by, request[s].expected)
             \/ /\ request[s].phase \in {"checking", "ready"}
                /\ request'[s] = Finished(request[s].by, 0)
  <2>1. CASE Restart
    BY <2>1 DEF Restart
  <2>2. CASE \E c \in Clients : Drop(c)
    BY <2>2 DEF Drop
  <2> QED
    BY <2>1, <2>2
<1>7. ASSUME NEW s \in Requests
      PROVE  /\ request'[s] \in Unsent \cup InHandler \cup Written \cup Over
             /\ Placed(s)'
             /\ request[s].phase = "done" => request'[s] = request[s]
  <2>0. log' \in Seq(Events) /\ Len(log) <= Len(log')
    BY <1>1, <1>2, <1>3
  <2>1. CASE request'[s] = request[s]
    BY <1>1, <1>4, <2>0, <2>1, PlaceIsKept
  <2>2. CASE /\ request[s].phase \in {"checking", "ready"}
             /\ request'[s] = [request[s] EXCEPT !.alive = FALSE]
    <3>1. request'[s] \in InHandler /\ request'[s].phase \in {"checking", "ready"}
      BY <2>2, Stations DEF InHandler
    <3>2. Batch(s)' = {}
      BY <1>4, <2>2, Stations DEF Placed
    <3> QED
      BY <2>2, <3>1, <3>2 DEF Placed
  <2>3. CASE /\ request[s].phase = "committed"
             /\ request'[s] = [request[s] EXCEPT !.alive = FALSE]
    <3>1. /\ request[s] \in Written
          /\ request[s].first = request[s].expected + 1
          /\ request[s].first <= request[s].last
          /\ request[s].last <= Len(log)
          /\ Batch(s) = request[s].first..request[s].last
      BY <2>3, Stations DEF Placed
    <3>2. /\ request'[s] \in Written /\ request'[s].phase = "committed"
          /\ request'[s].first = request[s].first /\ request'[s].last = request[s].last
          /\ request'[s].expected = request[s].expected
      BY <2>3, <3>1 DEF Written
    <3> QED
      BY <1>3, <1>4, <2>3, <3>1, <3>2 DEF Placed
  <2>4. CASE /\ request[s].phase = "committed"
             /\ request'[s] = Finished(request[s].by, request[s].expected)
    <3>1. PICK b \in Clients, x \in Int, last \in Nat :
            /\ b = request[s].by /\ x = request[s].expected /\ last = request[s].last
            /\ x + 1 <= last
            /\ Batch(s) = (x + 1)..last
      BY <2>4, Stations DEF Written, Placed
    <3>2. request'[s] \in Over /\ request'[s].phase = "done" /\ request'[s].expected = x
      BY <2>4, <3>1 DEF Finished, Over
    <3>3. last > x
      BY <3>1
    <3> QED
      BY <1>4, <2>4, <3>1, <3>2, <3>3 DEF Placed
  <2>5. CASE /\ request[s].phase \in {"checking", "ready"}
             /\ request'[s] = Finished(request[s].by, 0)
    <3>1. request'[s] \in Over /\ request'[s].phase = "done"
      BY <2>5, Stations DEF Finished, Over
    <3>2. Batch(s)' = {}
      BY <1>4, <2>5, Stations DEF Placed
    <3> QED
      BY <2>5, <3>1, <3>2 DEF Placed
  <2> QED
    BY <1>6, <2>1, <2>2, <2>3, <2>4, <2>5
<1>8. request' \in [Requests -> Unsent \cup InHandler \cup Written \cup Over]
  <2>1. request' = [s \in Requests |-> request'[s]]
    BY <1>1 DEF Restart, Drop
  <2> QED
    BY <2>1, <1>7
<1>9. Said' /\ Answered'
  <2>1. log' \in Seq(Events) /\ Len(log) <= Len(log')
    BY <1>1, <1>2, <1>3
  <2>2. \A s \in Requests : request[s].phase = "done" =>
          request'[s] = request[s] /\ Batch(s)' = Batch(s)
    BY <1>4, <1>7
  <2> QED
    BY <1>5, <2>1, <2>2, KeepsQuiet
<1> QED
  BY <1>1, <1>3, <1>5, <1>7, <1>8, <1>9 DEF WInv, WritesTypeOK, Batches

----------------------------------------------------------------------------
(* The initial states *)

LEMMA InitEstablishesWInv == Init => WInv
<1> SUFFICES ASSUME Init PROVE WInv
  OBVIOUS
<1> DEFINE joined == Event("participant-joined", Debater, 0, NoRequest)
           classified == Event("proposal", Debater, 0, NoRequest)
           agreed == Event("agree", Debater, 0, NoRequest)
           disputed == Event("dispute", Debater, 0, NoRequest)
           captured == Event("node-created", Host, 4, NoRequest)
           included == Event("entity-included", Host, 4, NoRequest)
           proposed == Event("proposal", Host, 4, NoRequest)
           heard == Append(<<>>, joined)
           begun == Append(heard, classified)
           grown == Append(Append(heard, captured), included)
<1>1. /\ {joined, classified, agreed, disputed, captured, included, proposed} \subseteq Events
      /\ joined.kind = "participant-joined" /\ joined.by = Debater
      /\ classified.kind = "proposal" /\ classified.by = Debater
      /\ agreed.kind = "agree" /\ agreed.by = Debater
      /\ disputed.kind = "dispute" /\ disputed.by = Debater
      /\ captured.kind = "node-created" /\ captured.by = Host
      /\ included.kind = "entity-included" /\ included.by = Host
      /\ proposed.kind = "proposal" /\ proposed.by = Host
  BY ClientAssumption DEF Event, Events, EventKinds, Causes
<1>2. /\ \A i \in DOMAIN log : log[i].req = NoRequest
      /\ log \in {Append(begun, agreed), Append(begun, disputed), Append(grown, proposed)}
  <2>1. \A i \in DOMAIN log : log[i].req = NoRequest
    BY DEF Init, Prelude, Event
  <2>2. \/ log = <<joined, classified, agreed>>
        \/ log = <<joined, classified, disputed>>
        \/ log = <<joined, captured, included, proposed>>
    BY DEF Init, Prelude
  <2> HIDE DEF joined, classified, agreed, disputed, captured, included, proposed
  <2>3. log \in {Append(begun, agreed), Append(begun, disputed), Append(grown, proposed)}
    BY <2>2
  <2> QED
    BY <2>1, <2>3
<1> HIDE DEF joined, classified, agreed, disputed, captured, included, proposed
<1>3. heard \in Seq(Events) /\ Lawful(heard)
  <2>1. Lawful(<<>>) /\ <<>> \in Seq(Events)
    BY DEF Lawful
  <2>2. MayFollow(<<>>, joined)
    BY <1>1 DEF MayFollow
  <2> QED
    BY <1>1, <2>1, <2>2, LawfulGrows
<1>4. Debater \in Current(heard)
  <2>1. Len(heard) = 1 /\ DOMAIN heard = 1..1 /\ heard[1] = joined
    OBVIOUS
  <2>2. \A j \in 1..1 : ~(heard[j].kind = "participant-left" /\ heard[j].by = Debater)
    BY <1>1, <2>1
  <2>3. 1 \in DOMAIN heard /\ Debater \in Clients
    BY <2>1, ClientAssumption
  <2> HIDE DEF heard
  <2> QED
    BY <1>1, <2>1, <2>2, <2>3 DEF Current
<1>5. \A l : Host \in Current(l)
  BY DEF Current
<1> HIDE DEF heard
<1>6. begun \in Seq(Events) /\ Lawful(begun) /\ Debater \in Current(begun)
  <2>1. MayFollow(heard, classified)
    BY <1>1, <1>4 DEF MayFollow
  <2>2. Current(heard) \subseteq Current(begun)
    BY <1>1, <1>3, CurrentStays
  <2> QED
    BY <1>1, <1>3, <1>4, <2>1, <2>2, LawfulGrows
<1>7. grown \in Seq(Events) /\ Lawful(grown)
  <2>1. MayFollow(heard, captured)
    BY <1>1, <1>5 DEF MayFollow
  <2>2. Append(heard, captured) \in Seq(Events) /\ Lawful(Append(heard, captured))
    BY <1>1, <1>3, <2>1, LawfulGrows
  <2>3. MayFollow(Append(heard, captured), included)
    BY <1>1, <1>5 DEF MayFollow
  <2> QED
    BY <1>1, <2>2, <2>3, LawfulGrows
<1> HIDE DEF begun, grown
<1>8. log \in Seq(Events) /\ Lawful(log)
  <2>1. MayFollow(begun, agreed) /\ MayFollow(begun, disputed)
    BY <1>1, <1>6 DEF MayFollow
  <2>2. MayFollow(grown, proposed)
    BY <1>1, <1>5 DEF MayFollow
  <2>3. PICK l \in Seq(Events), e \in Events :
          log = Append(l, e) /\ Lawful(l) /\ MayFollow(l, e)
    BY <1>1, <1>2, <1>6, <1>7, <2>1, <2>2
  <2> QED
    BY <2>3, LawfulGrows
<1>9. \A r \in Requests : Batch(r) = {} /\ request[r].phase = "unsent"
  BY <1>2, RequestAssumption DEF Batch, Init
<1>10. Batches
  BY <1>9 DEF Batches, Placed
<1>11. \A c \in Clients : sent[c] = <<>> /\ DOMAIN sent[c] = {}
  BY DEF Init
<1>12. Said /\ Answered
  BY <1>11 DEF Said, Answered, Answers
<1>13. /\ request \in [Requests -> Unsent \cup InHandler \cup Written \cup Over]
       /\ sent \in [Clients -> Seq(FrameSet)]
  <2>1. <<>> \in Seq(FrameSet)
    OBVIOUS
  <2> QED
    BY <2>1 DEF Init, Unsent
<1> QED
  BY <1>8, <1>10, <1>12, <1>13 DEF WInv, WritesTypeOK

LEMMA NextKeepsWInv == WInv /\ [Next]_vars => WInv'
<1> SUFFICES ASSUME WInv, [Next]_vars PROVE WInv'
  OBVIOUS
<1>1. ASSUME NEW r \in Requests, NEW c \in Clients, Send(r, c) \/ SendNonsense(r, c)
      PROVE  WInv'
  BY <1>1, SendKeepsWInv
<1>2. ASSUME NEW r \in Requests, SeeSession(r) PROVE WInv'
  BY <1>2, SeeSessionKeepsWInv
<1>3. ASSUME NEW r \in Requests, Writes(r) PROVE WInv'
  BY <1>3, WritesKeepWInv
<1>4. ASSUME NEW r \in Requests, Reject(r) \/ TakeSnapshot(r) \/ Fail(r) PROVE WInv'
  <2>1. request[r].phase \in {"checking", "ready"}
    BY <1>4 DEF Reject, TakeSnapshot, Fail
  <2>2. Refuse(r) \/ Fail(r) \/ TakeSnapshot(r)
    BY <1>4 DEF Reject
  <2> QED
    BY <2>1, <2>2, RefuseKeepsWInv
<1>5. ASSUME NEW r \in Requests, Settle(r) PROVE WInv'
  BY <1>5, SettleKeepsWInv
<1>6. ASSUME Member("participant-joined") \/ Member("participant-left") PROVE WInv'
  BY <1>6, MemberKeepsWInv
<1>7. ASSUME \/ \E c \in Clients : Subscribe(c)
             \/ SetPrivacy
             \/ UNCHANGED vars
             \/ \E c \in Clients : Drop(c)
             \/ Restart
      PROVE  WInv'
  <2>1. \/ UNCHANGED <<log, request, sent>> \/ Restart
        \/ \E c \in Clients : Drop(c)
    BY <1>7 DEF Subscribe, SetPrivacy, vars
  <2> QED
    BY <2>1, DropKeepsWInv
<1> QED
  BY <1>1, <1>2, <1>3, <1>4, <1>5, <1>6, <1>7 DEF Next

----------------------------------------------------------------------------
(* What the clients may rely on *)

\* The invariant says what a reader of the log may conclude.
LEMMA LawfulWritesAreSound ==
  ASSUME WInv
  PROVE  WritesAreSound
<1>1. log \in Seq(Events) /\ Lawful(log)
  BY DEF WInv, WritesTypeOK
<1>2. ASSUME NEW i \in DOMAIN log
      PROVE  /\ MayFollow(Before(i), log[i])
             /\ log[i].kind \in EventKinds
             /\ DOMAIN Before(i) \subseteq DOMAIN log
             /\ \A k \in DOMAIN Before(i) : Before(i)[k] = log[k]
  <2>1. MayFollow(Before(i), log[i])
    BY <1>1, <1>2 DEF Lawful, Before
  <2>2. log[i] \in Events
    BY <1>1, <1>2
  <2>3. PICK m \in Nat, n \in Nat : /\ m = Len(log) /\ DOMAIN log = 1..m /\ n = i - 1
                                  /\ n <= m
    BY <1>1, <1>2
  <2>4. /\ DOMAIN SubSeq(log, 1, n) = 1..n
        /\ \A k \in 1..n : SubSeq(log, 1, n)[k] = log[k]
    BY <1>1, <2>3
  <2>5. DOMAIN SubSeq(log, 1, n) \subseteq DOMAIN log
    BY <2>3, <2>4
  <2>6. Before(i) = SubSeq(log, 1, n)
    BY <2>3 DEF Before
  <2> QED
    BY <2>1, <2>2, <2>4, <2>5, <2>6 DEF Events
<1>3. ASSUME NEW i \in DOMAIN log PROVE Entitled(i)
  <2>1. CASE log[i].kind \in {"commit", "meta-disagreement-marked", "snapshot-created"}
    BY <1>2, <2>1 DEF Entitled, MayFollow
  <2>2. CASE log[i].kind \in {"proposal-withdrawn", "entity-removed"}
    <3>1. log[i].on \in DOMAIN Before(i) /\ log[i].by = Before(i)[log[i].on].by
      BY <1>2, <2>2 DEF MayFollow
    <3>2. log[i].by = log[log[i].on].by
      BY <1>2, <3>1
    <3> QED
      BY <2>2, <3>2 DEF Entitled
  <2>3. CASE log[i].kind \in {"proposal", "agree", "dispute", "node-created",
                              "entity-included", "withdraw-agreement"}
    BY <1>2, <2>3 DEF Entitled, MayFollow
  <2>4. CASE log[i].kind \in {"participant-joined", "participant-left"}
    BY <2>4 DEF Entitled
  <2> QED
    BY <1>2, <2>1, <2>2, <2>3, <2>4 DEF EventKinds
<1>4. ASSUME NEW r \in Requests, Batch(r) # {}
      PROVE  Batch(r) = (request[r].expected + 1)..Max(Batch(r))
  <2>1. PICK x \in Int, last \in Int :
          x = request[r].expected /\ x + 1 <= last /\ Batch(r) = (x + 1)..last
    <3>1. CASE request[r].phase = "committed"
      BY <3>1, Stations DEF Placed, Written
    <3>2. CASE request[r].phase = "done"
      <4>1. PICK n \in Nat : n > request[r].expected /\ Batch(r) = (request[r].expected + 1)..n
        BY <1>4, <3>2, Stations DEF Placed
      <4>2. request[r].expected \in Int
        BY <3>2, Stations
      <4> QED
        BY <4>1, <4>2
    <3> QED
      BY <1>4, <3>1, <3>2, Stations DEF Placed
  <2>2. x + 1 \in Int
    BY <2>1
  <2>3. Max((x + 1)..last) = last
    BY <2>1, <2>2, LastOfARun
  <2> QED
    BY <2>1, <2>3
<1>5. ASSUME NEW i \in DOMAIN log
      PROVE  /\ log[i].kind = "proposal-withdrawn" => log[i].on \in Pending(Before(i))
             /\ log[i].kind = "meta-disagreement-marked" =>
                  Candidate(Before(i), log[i].on) \in Pending(Before(i))
             /\ log[i].kind = "commit" => ~CommittedNow(Before(i), log[i].on)
  BY <1>2 DEF MayFollow
<1> QED
  BY <1>3, <1>4, <1>5 DEF WritesAreSound

\* Every event was written by someone entitled to it by the log before it, in
\* an unbroken batch that starts where its sender had read to (the handlers'
\* locked transactions, ws/handlers/propose.ts and its siblings).
THEOREM WritesStaySound == Spec => []WritesAreSound
<1>1. WInv => WritesAreSound
  BY LawfulWritesAreSound
<1> QED
  BY <1>1, InitEstablishesWInv, NextKeepsWInv, PTL DEF Spec

\* What a client concludes from an answer on its socket is so
\* (ws/dispatcher.ts, ws/error-envelope.ts, the write handlers and the snapshot's).
THEOREM AnswersStayTrue == Spec => []AnswersAreTrue
<1>1. ASSUME WInv PROVE AnswersAreTrue
  <2>1. ASSUME NEW c \in Clients, NEW r \in Requests
        PROVE  Cardinality(Answers(c, r)) <= 1
    <3>1. \A i, j \in Answers(c, r) : i = j
      BY <1>1 DEF WInv, Answered
    <3>2. CASE Answers(c, r) = {}
      <4>1. Cardinality(Answers(c, r)) = 0
        BY <3>2, FS_EmptySet
      <4> QED
        BY <4>1
    <3>3. CASE Answers(c, r) # {}
      <4>1. PICK i : Answers(c, r) = {i}
        BY <3>1, <3>3
      <4>2. Cardinality(Answers(c, r)) = 1
        BY <4>1, FS_Singleton
      <4> QED
        BY <4>2
    <3> QED
      BY <3>2, <3>3
  <2>2. ASSUME NEW c \in Clients, NEW r \in Requests, NEW i \in Answers(c, r)
        PROVE  SaysTheTruth(c, r, i)
    BY <1>1 DEF WInv, Answered
  <2> QED
    BY <2>1, <2>2 DEF AnswersAreTrue, SaysTheTruth
<1> QED
  BY <1>1, InitEstablishesWInv, NextKeepsWInv, PTL DEF Spec

=============================================================================
