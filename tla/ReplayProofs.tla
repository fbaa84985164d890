---------------------------- MODULE ReplayProofs ----------------------------
(* Looking back at a debate.  First the replay player and the test-mode     *)
(* scrubber (Playback), for any sessions, page size, length of the logs and *)
(* number of gestures.  Then what the replay endpoint computes at a         *)
(* position, the diagnoses (Diagnostics), for every graph: the invariant of *)
(* Tarjan's search and the measure that ends it, the components as classes, *)
(* the walks through them, and the detectors that remain.                   *)
EXTENDS Playback, Diagnostics, FiniteSetTheorems, SequenceTheorems,
        WellFoundedInduction, TLAPS

----------------------------------------------------------------------------
(* The player: its inductive invariant *)

\* The first n events of session s, as the page keeps them.
Copy(s, n) == [k \in 1 .. n |-> <<s, k>>]

Answers == [code : Nat, items : Seq(Nat), next : Nat]
Requests ==
  [what : {"page", "chapters"} \cup PanelNames, session : Sessions, at : Nat,
   collected : Seq(Sessions \X Nat), live : BOOLEAN, answer : Answers]
Panels ==
  [status : {"idle", "loading", "ready", "error"}, about : {None} \cup (Sessions \X Nat)]

\* Types; only the scrubber has panels, and only the player plays.
Surroundings ==
  /\ panels \in [PanelNames -> Panels]
  /\ chapters \in [status : {"loading", "ready", "error"}, marks : Seq(Nat)]
  /\ wanted \in {None, <<1>>, <<MaxLog + 1>>}
  /\ surface # "scrubber" => panels = NoPanels
  /\ playing \in BOOLEAN /\ (playing => surface = "replay")
  /\ log \in [Sessions -> Seq(Kinds)] /\ public \in [Sessions -> BOOLEAN]
  /\ gestures \in 0 .. MaxGestures

\* The copy is a beginning of the session's log that goes at least as far as
\* the log did when the page was opened.
CopyIsFaithful ==
  /\ route \in Sessions
  /\ status \in {"loading", "ready", "not-found", "error"}
  /\ opened \in 0 .. Len(log[route])
  /\ Len(events) \in Nat /\ events = Copy(route, Len(events))
  /\ Len(events) <= Len(log[route])
  /\ status = "ready" => opened <= Len(events)
  /\ position \in 0 .. Len(events)

\* Until the copy is there nothing hangs on it.
NothingBeforeTheCopy ==
  status # "ready" => events = <<>> /\ ~playing /\ chapters = Blank /\ panels = NoPanels

\* A set of marks that names every chapter of the copy.
Covers(marks) ==
  /\ marks \subseteq Nat
  /\ \A n \in 1 .. Len(events) : log[route][n] = "chapter" => n \in marks
IndexIsComplete == chapters.status = "ready" => Covers(Marks)

\* A page that still counts continues what was collected, and its answer is a
\* part of the log; the last one reaches as far as the log did when the page
\* was opened.
PageContinues(f) ==
  /\ status = "loading" /\ f.session = route
  /\ f.collected = Copy(route, f.at)
  /\ f.answer.code = 200 =>
       /\ Len(f.answer.items) \in Nat
       /\ f.at + Len(f.answer.items) <= Len(log[route])
       /\ f.answer.items = [i \in 1 .. Len(f.answer.items) |-> f.at + i]
       /\ IF f.answer.next = 0 THEN opened <= f.at + Len(f.answer.items)
          ELSE f.answer.next = f.at + Len(f.answer.items)

\* A chapters request that still counts is about the copy on screen, and a
\* panel request is about the place on show.
ChaptersCover(f) ==
  /\ status = "ready" /\ f.session = route
  /\ f.answer.code = 200 => Covers(ToSet(f.answer.items))
PanelFollows(f) ==
  /\ status = "ready" /\ surface = "scrubber"
  /\ f.session = route /\ f.at = position
  /\ f.answer.code = 200 => f.answer.items = <<position>>

\* What holds of each request.
Sound(f) ==
  /\ f \in Requests
  /\ f.at <= Len(log[f.session])
  /\ f.answer.code # 400
  /\ f.live /\ f.what = "page" => PageContinues(f)
  /\ f.live /\ f.what = "chapters" => ChaptersCover(f)
  /\ f.live /\ f.what \in PanelNames => PanelFollows(f)

RequestsAreSound == \A f \in flights : Sound(f)

\* One page at a time is read for the load on screen.
OnePage ==
  \A f, g \in flights :
    f.live /\ g.live /\ f.what = "page" /\ g.what = "page" => f = g

ReplayInv ==
  /\ Surroundings /\ CopyIsFaithful /\ NothingBeforeTheCopy /\ IndexIsComplete
  /\ RequestsAreSound /\ OnePage /\ ReadoutsAreCurrent

----------------------------------------------------------------------------
(* Lemmas *)

\* The numbers of a finite set, put in a row, are all there.
LEMMA RowsOfASet ==
  ASSUME NEW S, IsFiniteSet(S)
  PROVE  ToSet(SetToSeq(S)) = S /\ SetToSeq(S) \in Seq(S)
<1> DEFINE n == Cardinality(S)
           row == SetToSeq(S)
<1>1. n \in Nat /\ ExistsBijection(1 .. n, S)
  BY FS_CardinalityType
<1>2. PICK b \in [1 .. n -> S] : IsInjective(b)
  BY <1>1 DEF ExistsBijection, Bijection, Injection, IsInjective
<1>3. row \in [1 .. n -> S] /\ IsInjective(row)
  BY <1>2 DEF SetToSeq
<1>4. row \in Injection(1 .. n, S)
  BY <1>3 DEF Injection, IsInjective
<1>5. IsFiniteSet(1 .. n) /\ Cardinality(1 .. n) = n
  BY <1>1, FS_Interval
<1>6. row \in Surjection(1 .. n, S)
  BY <1>4, <1>5, FS_Injection
<1>7. \A x \in S : \E i \in 1 .. n : row[i] = x
  BY <1>6 DEF Surjection
<1>8. row \in Seq(S)
  <2> HIDE DEF n, row
  <2> QED BY <1>1, <1>3
<1> QED BY <1>3, <1>7, <1>8 DEF ToSet

\* A set of numbers that is not empty has a least, and a greatest when it is
\* bounded: the chapters the two buttons jump to.
LEMMA LeastMark ==
  ASSUME NEW S \in SUBSET Nat, S # {}
  PROVE  \E m \in S : \A n \in S : m <= n
<1> DEFINE R == OpToRel(<, Nat)
<1>1. IsWellFoundedOn(R, Nat)
  BY NatLessThanWellFounded
<1>2. PICK m \in S : \A n \in S : ~(<<n, m>> \in R)
  BY <1>1, WFMin
<1>3. \A n \in S : ~(n < m)
  BY <1>2 DEF OpToRel
<1>4. \A n \in S : m <= n
  BY <1>3
<1> QED BY <1>4

LEMMA GreatestMark ==
  ASSUME NEW S \in SUBSET Nat, S # {}, NEW b \in Nat, \A n \in S : n <= b
  PROVE  \E m \in S : \A n \in S : n <= m
<1> DEFINE D == {b - n : n \in S}
<1>0. \A n \in S : b - n \in Nat
  OBVIOUS
<1>1. D \in SUBSET Nat /\ D # {}
  BY <1>0
<1>2. PICK d \in D : \A e \in D : d <= e
  BY <1>1, LeastMark
<1>3. PICK m \in S : d = b - m
  OBVIOUS
<1>4. ASSUME NEW n \in S PROVE n <= m
  <2>1. b - m <= b - n
    BY <1>2, <1>3
  <2> QED BY <2>1
<1> QED BY <1>4

\* A page continues the copy.
LEMMA CopyGrows ==
  ASSUME NEW s \in Sessions, NEW a \in Nat, NEW k \in Nat, NEW items,
         items = [i \in 1 .. k |-> a + i]
  PROVE  /\ Copy(s, a) \o EventsOf(s, items) = Copy(s, a + k)
         /\ Copy(s, a + k) \in Seq(Sessions \X Nat)
<1> DEFINE p == Copy(s, a)
           q == EventsOf(s, items)
           T == Sessions \X Nat
<1>1. p \in Seq(T) /\ Len(p) = a /\ \A n \in 1 .. a : p[n] = <<s, n>>
  BY DEF Copy
<1>2. q = [i \in 1 .. k |-> <<s, a + i>>]
  BY DEF EventsOf
<1>3. q \in Seq(T) /\ Len(q) = k /\ \A i \in 1 .. k : q[i] = <<s, a + i>>
  <2>1. \A i \in 1 .. k : a + i \in Nat
    OBVIOUS
  <2> HIDE DEF q
  <2> QED BY <1>2, <2>1
<1> HIDE DEF p, q, T
<1>4. /\ p \o q \in Seq(T) /\ Len(p \o q) = a + k
      /\ \A i \in 1 .. a + k : (p \o q)[i] = IF i <= a THEN p[i] ELSE q[i - a]
  BY <1>1, <1>3, ConcatProperties
<1>5. ASSUME NEW n \in 1 .. a + k PROVE (p \o q)[n] = <<s, n>>
  <2>1. CASE n <= a
    BY <1>1, <1>4, <2>1
  <2>2. CASE ~(n <= a)
    <3>1. n - a \in 1 .. k /\ a + (n - a) = n
      BY <2>2
    <3> QED BY <1>3, <1>4, <2>2, <3>1
  <2> QED BY <2>1, <2>2
<1>6. p \o q = [n \in 1 .. a + k |-> (p \o q)[n]]
  <2> DEFINE r == p \o q
  <2>1. r \in Seq(T) /\ Len(r) = a + k
    BY <1>4
  <2> HIDE DEF r
  <2>2. r = [n \in 1 .. a + k |-> r[n]]
    BY <2>1
  <2> QED BY <2>2 DEF r
<1>7. p \o q = Copy(s, a + k)
  BY <1>5, <1>6 DEF Copy
<1> QED BY <1>4, <1>7 DEF p, q, T

\* Both hold for the chapters the two buttons jump to.
LEMMA ChaptersAhead ==
  ASSUME chapters.marks \in Seq(Nat), position \in Nat
  PROVE  /\ NextChapter # None => NextChapter[1] \in Nat
         /\ PrevChapter # None => PrevChapter[1] \in Nat
<1>0. Marks \subseteq Nat
  BY DEF Marks, ToSet
<1>1. ASSUME Later # {} PROVE NextChapter[1] \in Nat
  <2>1. Later \in SUBSET Nat
    BY <1>0 DEF Later
  <2>2. (CHOOSE m \in Later : \A n \in Later : m <= n) \in Later
    BY <1>1, <2>1, LeastMark
  <2> QED BY <1>1, <2>1, <2>2 DEF NextChapter
<1>2. ASSUME Earlier # {} PROVE PrevChapter[1] \in Nat
  <2>1. Earlier \in SUBSET Nat
    BY <1>0 DEF Earlier
  <2>0. \A n \in Earlier : n <= position
    BY <2>1 DEF Earlier
  <2>2. (CHOOSE m \in Earlier : \A n \in Earlier : n <= m) \in Earlier
    BY <1>2, <2>0, <2>1, GreatestMark
  <2> QED BY <1>2, <2>1, <2>2 DEF PrevChapter
<1> QED BY <1>1, <1>2 DEF NextChapter, PrevChapter

\* A new request has these fields.
LEMMA AskedIsTyped ==
  ASSUME NEW what \in {"page", "chapters"} \cup PanelNames, NEW s \in Sessions,
         NEW at \in Nat, NEW collected \in Seq(Sessions \X Nat)
  PROVE  Fetch(what, s, at, collected) \in Requests
<1>1. Unanswered \in Answers
  BY DEF Unanswered, Answers
<1> QED BY <1>1 DEF Fetch, Requests

LEMMA NoPanelsIsTyped == NoPanels \in [PanelNames -> Panels]
<1>1. Panel("loading", None) \in Panels /\ Panel("idle", None) \in Panels
  BY DEF Panel, Panels
<1>2. NoPanels = [p \in PanelNames |-> IF p = "state" THEN Panel("idle", None)
                                       ELSE Panel("loading", None)]
  BY DEF NoPanels, PanelNames
<1> QED BY <1>1, <1>2

\* A request that no longer counts stays sound wherever the page goes, as long
\* as the logs only grow.
LEMMA CancelledIsSound ==
  ASSUME NEW f, Sound(f), \A s \in Sessions : Len(log[s]) <= Len(log'[s]),
         log \in [Sessions -> Seq(Kinds)], log' \in [Sessions -> Seq(Kinds)]
  PROVE  Sound([f EXCEPT !.live = FALSE])'
<1> DEFINE g == [f EXCEPT !.live = FALSE]
<1>1. f \in Requests
  BY DEF Sound
<1>2. /\ g \in Requests
      /\ g.session = f.session /\ g.at = f.at /\ g.live = FALSE /\ g.answer = f.answer
  BY <1>1 DEF Requests
<1>3. f.session \in Sessions /\ f.at \in Nat /\ f.at <= Len(log'[f.session])
  BY <1>1 DEF Sound, Requests
<1> HIDE DEF g
<1>4. Sound(g)'
  BY <1>1, <1>2, <1>3 DEF Sound
<1> QED BY <1>4 DEF g

\* While log, page, copy and position stay, so does what is said of a request.
stage == <<log, route, opened, status, events, surface, position>>
LEMMA SoundStays ==
  ASSUME NEW f, Sound(f), UNCHANGED stage
  PROVE  Sound(f)'
BY DEF stage, Sound, PageContinues, ChaptersCover, PanelFollows, Covers

----------------------------------------------------------------------------
(* The player: every step keeps the invariant *)

LEMMA ReplayStarts == ReplayInit => ReplayInv
<1> SUFFICES ASSUME ReplayInit PROVE ReplayInv
  OBVIOUS
<1>1. route \in Sessions
  BY SessionsAssumption DEF ReplayInit
<1>2. log \in [Sessions -> Seq(Kinds)] /\ log[route] = <<>>
  BY <1>1 DEF ReplayInit
<1>3. Copy(route, 0) = <<>>
  BY DEF Copy
<1>4. Surroundings
  <2>1. Blank \in [status : {"loading", "ready", "error"}, marks : Seq(Nat)]
    BY DEF Blank
  <2>2. wanted \in {None, <<1>>, <<MaxLog + 1>>}
    BY DEF ReplayInit
  <2>3. gestures \in 0 .. MaxGestures
    BY BoundsAssumption DEF ReplayInit
  <2> QED
    BY <1>2, <2>1, <2>2, <2>3, NoPanelsIsTyped DEF ReplayInit, Surroundings
<1>5. CopyIsFaithful /\ NothingBeforeTheCopy /\ IndexIsComplete
  BY <1>1, <1>2, <1>3
     DEF ReplayInit, CopyIsFaithful, NothingBeforeTheCopy, IndexIsComplete, Blank
<1>6. Sound(Fetch("page", route, 0, <<>>))
  <2>1. Fetch("page", route, 0, <<>>) \in Requests
    <3>1. <<>> \in Seq(Sessions \X Nat) /\ "page" \in {"page", "chapters"} \cup PanelNames
      OBVIOUS
    <3> QED BY <3>1, <1>1, AskedIsTyped
  <2> QED
    BY <2>1, <1>1, <1>2, <1>3 DEF ReplayInit, Sound, Fetch, Unanswered, PageContinues, PanelNames
<1>7. RequestsAreSound /\ OnePage
  BY <1>6 DEF ReplayInit, RequestsAreSound, OnePage
<1>8. ReadoutsAreCurrent
  BY DEF ReplayInit, ReadoutsAreCurrent, NoPanels, Panel, PanelNames
<1> QED BY <1>4, <1>5, <1>7, <1>8 DEF ReplayInv

\* The log grows under the page.
LEMMA AppendKeeps ==
  ASSUME ReplayInv, NEW s \in Sessions, AppendEvent(s)
  PROVE  ReplayInv'
<1>1. PICK kind \in Kinds : log' = [log EXCEPT ![s] = Append(@, kind)]
  BY DEF AppendEvent
<1>2. log \in [Sessions -> Seq(Kinds)]
  BY DEF ReplayInv, Surroundings
<1>3. log' \in [Sessions -> Seq(Kinds)]
  BY <1>1, <1>2
<1>4. \A t \in Sessions : /\ Len(log[t]) \in Nat /\ Len(log'[t]) \in Nat
                           /\ Len(log[t]) <= Len(log'[t])
                           /\ \A n \in 1 .. Len(log[t]) : log'[t][n] = log[t][n]
  <2> TAKE t \in Sessions
  <2>1. CASE t = s
    BY <1>1, <1>2, <2>1
  <2>2. CASE t # s
    BY <1>1, <1>2, <2>2
  <2> QED BY <2>1, <2>2
<1>5. UNCHANGED <<public, flights, surface, viewer, wanted, gestures, route, opened,
                  status, events, position, playing, chapters, panels>>
  BY DEF AppendEvent, setting, page
<1>6. CopyIsFaithful'
  BY <1>3, <1>4, <1>5 DEF ReplayInv, CopyIsFaithful
<1>7. \A marks : Covers(marks) => Covers(marks)'
  <2>1. \A n \in 1 .. Len(events) : n \in 1 .. Len(log[route])
    BY <1>4 DEF ReplayInv, CopyIsFaithful
  <2>2. \A n \in 1 .. Len(events) : log'[route'][n] = log[route][n]
    BY <2>1, <1>4, <1>5 DEF ReplayInv, CopyIsFaithful
  <2> QED BY <2>2, <1>5 DEF Covers
<1>8. ASSUME NEW f \in flights PROVE Sound(f)'
  <2>1. Sound(f)
    BY DEF ReplayInv, RequestsAreSound
  <2>2. f \in Requests /\ f.at <= Len(log'[f.session])
    BY <2>1, <1>4 DEF Sound, Requests
  <2>3. f.live /\ f.what = "page" => PageContinues(f)'
    BY <2>1, <1>4, <1>5 DEF Sound, Requests, PageContinues, ReplayInv, CopyIsFaithful
  <2>4. f.live /\ f.what = "chapters" => ChaptersCover(f)'
    BY <2>1, <1>5, <1>7 DEF Sound, ChaptersCover
  <2>5. f.live /\ f.what \in PanelNames => PanelFollows(f)'
    BY <2>1, <1>5 DEF Sound, PanelFollows
  <2> QED BY <2>1, <2>2, <2>3, <2>4, <2>5 DEF Sound
<1>9. Surroundings'
  BY <1>3, <1>5 DEF ReplayInv, Surroundings
<1>10. NothingBeforeTheCopy' /\ OnePage' /\ ReadoutsAreCurrent'
  BY <1>5 DEF ReplayInv, NothingBeforeTheCopy, OnePage, ReadoutsAreCurrent
<1>11. IndexIsComplete'
  BY <1>5, <1>7 DEF ReplayInv, IndexIsComplete, Marks
<1> QED BY <1>5, <1>6, <1>8, <1>9, <1>10, <1>11 DEF ReplayInv, RequestsAreSound

\* The privacy of a session matters to the answers only.
LEMMA FlipKeeps ==
  ASSUME ReplayInv, NEW s \in Sessions, FlipPrivacy(s)
  PROVE  ReplayInv'
<1>1. /\ public' \in [Sessions -> BOOLEAN] /\ gestures' \in 0 .. MaxGestures
      /\ UNCHANGED <<log, flights, setting, page, status, events, position, playing,
                     chapters, panels>>
  <2>1. public \in [Sessions -> BOOLEAN] /\ gestures \in 0 .. MaxGestures
    BY DEF ReplayInv, Surroundings
  <2> QED BY <2>1, BoundsAssumption DEF FlipPrivacy, Gesture
<1>2. UNCHANGED <<stage, flights, chapters, panels, playing, wanted>>
  BY <1>1 DEF stage, setting, page
<1>3. RequestsAreSound'
  BY <1>2, SoundStays DEF ReplayInv, RequestsAreSound
<1>4. Surroundings'
  BY <1>1, <1>2 DEF ReplayInv, Surroundings, stage
<1>5. CopyIsFaithful' /\ NothingBeforeTheCopy' /\ IndexIsComplete'
  BY <1>2 DEF ReplayInv, CopyIsFaithful, NothingBeforeTheCopy, IndexIsComplete,
              Covers, Marks, stage
<1>6. OnePage' /\ ReadoutsAreCurrent'
  BY <1>2 DEF ReplayInv, OnePage, ReadoutsAreCurrent, stage
<1> QED BY <1>3, <1>4, <1>5, <1>6 DEF ReplayInv

\* Loading another session, or the same one again.
LEMMA LoadKeeps ==
  ASSUME ReplayInv, NEW s \in Sessions, Load(s), Gesture, UNCHANGED <<server, setting>>
  PROVE  ReplayInv'
<1> DEFINE first == Fetch("page", s, 0, <<>>)
<1>1. /\ UNCHANGED <<log, public, surface, viewer, wanted>>
      /\ route' = s /\ opened' = Len(log[s]) /\ status' = "loading" /\ events' = <<>>
      /\ flights' = Cancelled(flights, {"page", "chapters", "diagnostics", "state"})
                      \cup {first}
      /\ position' = 0 /\ playing' = FALSE /\ chapters' = Blank /\ panels' = NoPanels
  BY DEF Load, server, setting
<1>2. log \in [Sessions -> Seq(Kinds)] /\ log' \in [Sessions -> Seq(Kinds)]
  BY <1>1 DEF ReplayInv, Surroundings
<1>3. Copy(s, 0) = <<>>
  BY DEF Copy
<1>4. Surroundings'
  <2>1. Blank \in [status : {"loading", "ready", "error"}, marks : Seq(Nat)]
    BY DEF Blank
  <2>2. gestures' \in 0 .. MaxGestures
    BY BoundsAssumption DEF ReplayInv, Surroundings, Gesture
  <2> QED BY <1>1, <2>1, <2>2, NoPanelsIsTyped DEF ReplayInv, Surroundings
<1>5. CopyIsFaithful' /\ NothingBeforeTheCopy' /\ IndexIsComplete'
  BY <1>1, <1>2, <1>3 DEF CopyIsFaithful, NothingBeforeTheCopy, IndexIsComplete, Blank
<1>6. Sound(first)'
  <2>1. <<>> \in Seq(Sessions \X Nat) /\ "page" \in {"page", "chapters"} \cup PanelNames
    OBVIOUS
  <2>2. first \in Requests
    BY <2>1, AskedIsTyped
  <2>3. /\ first.what = "page" /\ first.session = s /\ first.at = 0
        /\ first.collected = <<>> /\ first.answer = Unanswered
    BY DEF Fetch
  <2> HIDE DEF first
  <2> QED
    BY <2>2, <2>3, <1>1, <1>2, <1>3
       DEF Sound, Unanswered, PageContinues, PanelNames
<1>7. \A f \in Cancelled(flights, {"page", "chapters", "diagnostics", "state"}) :
        Sound(f)' /\ f.live = FALSE
  <2> SUFFICES ASSUME NEW f \in flights PROVE
        /\ f.what \in {"page", "chapters", "diagnostics", "state"}
        /\ Sound([f EXCEPT !.live = FALSE])'
        /\ [f EXCEPT !.live = FALSE].live = FALSE
    BY DEF Cancelled
  <2>1. Sound(f)
    BY DEF ReplayInv, RequestsAreSound
  <2>2. \A t \in Sessions : Len(log[t]) <= Len(log'[t])
    BY <1>1, <1>2
  <2>3. Sound([f EXCEPT !.live = FALSE])'
    BY <2>1, <2>2, <1>2, CancelledIsSound
  <2> QED BY <2>1, <2>3 DEF Sound, Requests, PanelNames
<1>8. RequestsAreSound' /\ OnePage'
  BY <1>1, <1>6, <1>7 DEF RequestsAreSound, OnePage
<1>9. ReadoutsAreCurrent'
  BY <1>1 DEF ReadoutsAreCurrent, NoPanels, Panel, PanelNames
<1> QED BY <1>4, <1>5, <1>8, <1>9 DEF ReplayInv

\* What the server answers.
LEMMA ResponseIsSound ==
  ASSUME ReplayInv, NEW f \in flights, f.answer = Unanswered,
         NEW answer, answer = Response(f) \/ answer = Refused(500)
  PROVE  /\ [f EXCEPT !.answer = answer] \in Requests
         /\ Sound([f EXCEPT !.answer = answer])
<1> DEFINE g == [f EXCEPT !.answer = answer]
           s == f.session
           written == Len(log[s])
<1>1. Sound(f) /\ f \in Requests
  BY DEF ReplayInv, RequestsAreSound, Sound
<1>2. log[s] \in Seq(Kinds) /\ written \in Nat /\ f.at \in 0 .. written /\ s \in Sessions
  BY <1>1 DEF Sound, Requests, ReplayInv, Surroundings
<1>3. ASSUME NEW code \in {401, 404, 500}
      PROVE  Refused(code) \in Answers /\ Refused(code).code = code
  <2>1. Unanswered \in Answers
    BY DEF Unanswered, Answers
  <2> QED BY <2>1 DEF Refused, Answers
<1>4. CASE answer.code # 200 /\ answer \in Answers /\ answer.code # 400
  <2>1. /\ g \in Requests /\ g.session = s /\ g.at = f.at /\ g.live = f.live
        /\ g.what = f.what /\ g.collected = f.collected /\ g.answer = answer
    BY <1>1, <1>4 DEF Requests
  <2> HIDE DEF g
  <2>2. Sound(g)
    BY <2>1, <1>1, <1>4 DEF Sound, PageContinues, ChaptersCover, PanelFollows
  <2> QED BY <2>1, <2>2 DEF g
<1>5. CASE f.what = "page" /\ answer = Page(s, f.at)
  <2> DEFINE more == written - f.at > PageLimit
             size == IF more THEN PageLimit ELSE written - f.at
             next == IF more THEN f.at + size ELSE 0
             items == [i \in 1 .. size |-> f.at + i]
  <2>1. size \in Nat /\ f.at + size <= written /\ next \in Nat
    BY <1>2, PageLimitAssumption
  <2>2. next = 0 => f.at + size = written
    BY <1>2, PageLimitAssumption
  <2>3. answer = [code |-> 200, items |-> items, next |-> next]
    BY <1>5 DEF Page, Found
  <2>4. items \in Seq(Nat) /\ Len(items) = size
    <3>1. \A i \in 1 .. size : f.at + i \in Nat
      BY <2>1, <1>2
    <3> HIDE DEF size
    <3> QED BY <2>1, <3>1
  <2>5. next # 0 => next = f.at + size
    OBVIOUS
  <2> HIDE DEF more, size, next
  <2>6. answer \in Answers
    BY <2>1, <2>3, <2>4 DEF Answers
  <2>7. /\ g \in Requests /\ g.session = s /\ g.at = f.at /\ g.live = f.live
        /\ g.what = f.what /\ g.collected = f.collected /\ g.answer = answer
    BY <1>1, <2>6 DEF Requests
  <2>8. answer.code = 200 /\ answer.items = items /\ answer.next = next
    BY <2>3
  <2> HIDE DEF g
  <2>9. f.live => PageContinues(g)
    <3> SUFFICES ASSUME f.live PROVE PageContinues(g)
      OBVIOUS
    <3>1. PageContinues(f)
      BY <1>1, <1>5 DEF Sound
    <3>2. opened <= written /\ s = route
      BY <3>1 DEF PageContinues, ReplayInv, CopyIsFaithful
    <3> QED
      BY <3>1, <3>2, <2>1, <2>2, <2>4, <2>5, <2>7, <2>8 DEF PageContinues
  <2>10. Sound(g)
    BY <1>1, <1>5, <2>7, <2>8, <2>9 DEF Sound, PanelNames
  <2> QED BY <2>7, <2>10 DEF g
<1>6. CASE f.what = "chapters" /\ answer = Snapshots(s)
  <2> DEFINE S == {n \in 1 .. written : log[s][n] = "chapter"}
             items == SetToSeq(S)
  <2>1. S \in SUBSET (1 .. written) /\ IsFiniteSet(1 .. written)
    <3>1. IsFiniteSet(1 .. written)
      BY <1>2, FS_Interval
    <3> QED BY <3>1
  <2>2. IsFiniteSet(S)
    BY <2>1, FS_Subset
  <2>3. ToSet(items) = S /\ items \in Seq(S)
    BY <2>2, RowsOfASet
  <2>4. items \in Seq(Nat)
    BY <2>1, <2>3
  <2>5. answer = [code |-> 200, items |-> items, next |-> 0]
    BY <1>6 DEF Snapshots, Found
  <2> HIDE DEF items
  <2>6. answer \in Answers
    BY <2>4, <2>5 DEF Answers
  <2>7. /\ g \in Requests /\ g.session = s /\ g.at = f.at /\ g.live = f.live
        /\ g.what = f.what /\ g.collected = f.collected /\ g.answer = answer
    BY <1>1, <2>6 DEF Requests
  <2>8. answer.code = 200 /\ answer.items = items
    BY <2>5
  <2> HIDE DEF g
  <2>9. f.live => ChaptersCover(g)
    <3> SUFFICES ASSUME f.live PROVE ChaptersCover(g)
      OBVIOUS
    <3>1. ChaptersCover(f)
      BY <1>1, <1>6 DEF Sound
    <3>2. s = route /\ Len(events) <= written /\ Len(events) \in Nat
      BY <3>1 DEF ChaptersCover, ReplayInv, CopyIsFaithful
    <3>3. Covers(S)
      BY <3>2, <1>2 DEF Covers
    <3> QED BY <3>1, <3>3, <2>3, <2>7, <2>8 DEF ChaptersCover
  <2>10. Sound(g)
    BY <1>1, <1>6, <2>7, <2>8, <2>9 DEF Sound, PanelNames
  <2> QED BY <2>7, <2>10 DEF g
<1>7. CASE f.what \in PanelNames /\ answer = AtPosition(s, f.at)
  <2>1. answer = [code |-> 200, items |-> <<f.at>>, next |-> 0]
    BY <1>2, <1>7 DEF AtPosition, Found
  <2>2. <<f.at>> \in Seq(Nat)
    BY <1>2
  <2>3. answer \in Answers
    BY <2>1, <2>2 DEF Answers
  <2>4. /\ g \in Requests /\ g.session = s /\ g.at = f.at /\ g.live = f.live
        /\ g.what = f.what /\ g.collected = f.collected /\ g.answer = answer
    BY <1>1, <2>3 DEF Requests
  <2>5. answer.code = 200 /\ answer.items = <<f.at>>
    BY <2>1
  <2> HIDE DEF g
  <2>6. f.live => PanelFollows(g)
    BY <1>1, <1>7, <2>4, <2>5 DEF Sound, PanelFollows
  <2>7. Sound(g)
    BY <1>1, <1>7, <2>4, <2>5, <2>6 DEF Sound, PanelNames
  <2> QED BY <2>4, <2>7 DEF g
<1>8. \/ answer \in {Refused(401), Refused(404), Refused(500)}
      \/ f.what = "page" /\ answer = Page(s, f.at)
      \/ f.what = "chapters" /\ answer = Snapshots(s)
      \/ f.what \in PanelNames /\ answer = AtPosition(s, f.at)
  BY <1>1 DEF Response, Requests
<1> QED BY <1>3, <1>4, <1>5, <1>6, <1>7, <1>8

\* An answer arrives at a request.
LEMMA AnswerKeeps ==
  ASSUME ReplayInv, NEW f \in flights, Answer(f)
  PROVE  ReplayInv'
<1>1. PICK answer : /\ answer = Response(f) \/ answer = Refused(500)
                    /\ flights' = (flights \ {f}) \cup {[f EXCEPT !.answer = answer]}
  BY DEF Answer
<1> DEFINE g == [f EXCEPT !.answer = answer]
<1>2. f.answer = Unanswered /\ f \in Requests
  BY DEF Answer, ReplayInv, RequestsAreSound, Sound
<1>3. Sound(g)
  BY <1>1, <1>2, ResponseIsSound
<1>4. UNCHANGED <<stage, public, viewer, chapters, panels, playing, wanted, gestures>>
  BY DEF Answer, stage, server, setting, page
<1>5. RequestsAreSound'
  BY <1>1, <1>3, <1>4, SoundStays DEF ReplayInv, RequestsAreSound
<1>6. g.live = f.live /\ g.what = f.what
  BY <1>2 DEF Requests
<1>7. OnePage'
  BY <1>1, <1>6 DEF ReplayInv, OnePage
<1>8. Surroundings'
  BY <1>4 DEF ReplayInv, Surroundings, stage
<1>9. CopyIsFaithful' /\ NothingBeforeTheCopy' /\ IndexIsComplete' /\ ReadoutsAreCurrent'
  BY <1>4 DEF ReplayInv, CopyIsFaithful, NothingBeforeTheCopy, IndexIsComplete,
              ReadoutsAreCurrent, Covers, Marks, stage
<1> QED BY <1>5, <1>7, <1>8, <1>9 DEF ReplayInv

\* A request that is dropped, or whose answer changes nothing else.
LEMMA DropKeeps ==
  ASSUME ReplayInv, NEW f \in flights, flights' = flights \ {f},
         UNCHANGED <<stage, public, viewer, chapters, panels, playing, wanted, gestures>>
  PROVE  ReplayInv'
<1>1. RequestsAreSound' /\ OnePage'
  BY SoundStays DEF ReplayInv, RequestsAreSound, OnePage
<1>2. Surroundings'
  BY DEF ReplayInv, Surroundings, stage
<1>3. CopyIsFaithful' /\ NothingBeforeTheCopy' /\ IndexIsComplete' /\ ReadoutsAreCurrent'
  BY DEF ReplayInv, CopyIsFaithful, NothingBeforeTheCopy, IndexIsComplete,
         ReadoutsAreCurrent, Covers, Marks, stage
<1> QED BY <1>1, <1>2, <1>3 DEF ReplayInv

\* The player or the scrubber mounts on the whole copy.
LEMMA MountKeeps ==
  ASSUME ReplayInv, NEW f \in flights, f.live, f.what = "page", PageContinues(f),
         NEW n \in Nat, opened <= n, n <= Len(log[route]),
         NEW all, all = Copy(route, n), Mount(f, all),
         UNCHANGED <<log, public, route, opened, surface, viewer, wanted, gestures,
                     chapters, panels, playing>>
  PROVE  ReplayInv'
<1>1. status = "loading" /\ route \in Sessions
  BY DEF PageContinues, ReplayInv, CopyIsFaithful
<1>2. Len(all) = n
  BY DEF Copy
<1> DEFINE start == IF surface = "replay" /\ wanted # None
                    THEN IF wanted[1] > Len(all) THEN Len(all) ELSE wanted[1]
                    ELSE Len(all)
           index == Fetch("chapters", route, 0, <<>>)
           panel == Fetch("diagnostics", route, start, <<>>)
<1>3. start \in 0 .. n
  <2>1. wanted # None => wanted[1] \in Nat
    BY BoundsAssumption DEF ReplayInv, Surroundings
  <2> QED BY <1>2, <2>1
<1>4. /\ status' = "ready" /\ events' = all /\ position' = start
      /\ \A g \in flights' : \/ g \in flights /\ g # f
                             \/ g = index
                             \/ g = panel /\ surface = "scrubber"
  <2>1. /\ status' = "ready" /\ events' = all /\ position' = start
        /\ flights' = (flights \ {f}) \cup
             IF surface = "replay" \/ all # <<>>
             THEN {index} \cup IF surface = "scrubber" THEN {panel} ELSE {} ELSE {}
    BY DEF Mount
  <2> QED BY <2>1
<1> HIDE DEF start
<1>5. <<>> \in Seq(Sessions \X Nat)
  OBVIOUS
<1>6. ASSUME NEW what \in {"chapters"} \cup PanelNames, NEW at \in 0 .. n,
             what \in PanelNames => surface = "scrubber" /\ at = start
      PROVE  \A g : g = Fetch(what, route, at, <<>>) => Sound(g)' /\ g.what = what
  <2> SUFFICES ASSUME NEW g, g = Fetch(what, route, at, <<>>) PROVE Sound(g)' /\ g.what = what
    OBVIOUS
  <2>0. what \in {"page", "chapters"} \cup PanelNames /\ at \in Nat
    OBVIOUS
  <2>1. g \in Requests
    BY <1>1, <1>5, <2>0, AskedIsTyped
  <2>2. /\ g.what = what /\ g.session = route /\ g.at = at /\ g.answer = Unanswered
    BY DEF Fetch
  <2>3. Unanswered.code = 0
    BY DEF Unanswered
  <2>4. at <= Len(log[route])
    BY DEF ReplayInv, Surroundings, CopyIsFaithful
  <2>5. ChaptersCover(g)' /\ (what \in PanelNames => PanelFollows(g)')
    BY <1>4, <1>6, <2>2, <2>3 DEF ChaptersCover, PanelFollows
  <2>6. Sound(g)'
    BY <2>1, <2>2, <2>3, <2>4, <2>5 DEF Sound, PanelNames
  <2> QED BY <2>2, <2>6
<1>7. \A g : g = index => Sound(g)' /\ g.what = "chapters"
  BY <1>6 DEF PanelNames
<1>8. \A g : g = panel /\ surface = "scrubber" => Sound(g)' /\ g.what = "diagnostics"
  <2>1. "diagnostics" \in {"chapters"} \cup PanelNames
    BY DEF PanelNames
  <2> QED BY <2>1, <1>3, <1>6
<1>9. ASSUME NEW g \in flights, g # f PROVE Sound(g)' /\ ~(g.live /\ g.what = "page")
  <2>1. Sound(g) /\ ~(g.live /\ g.what = "page")
    BY <1>9 DEF ReplayInv, RequestsAreSound, OnePage
  <2>2. ~g.live
    BY <2>1, <1>1 DEF Sound, Requests, ChaptersCover, PanelFollows
  <2>3. Sound(g)'
    BY <2>1, <2>2 DEF Sound
  <2> QED BY <2>1, <2>3
<1>10. RequestsAreSound' /\ OnePage'
  BY <1>4, <1>7, <1>8, <1>9 DEF RequestsAreSound, OnePage
<1>11. chapters = Blank /\ panels = NoPanels /\ ~playing
  BY <1>1 DEF ReplayInv, NothingBeforeTheCopy
<1>12. CopyIsFaithful'
  BY <1>1, <1>2, <1>3, <1>4 DEF ReplayInv, CopyIsFaithful
<1>13. NothingBeforeTheCopy' /\ IndexIsComplete' /\ ReadoutsAreCurrent'
  BY <1>4, <1>11 DEF NothingBeforeTheCopy, IndexIsComplete, ReadoutsAreCurrent, Blank,
                     NoPanels, Panel, PanelNames
<1>14. Surroundings'
  BY DEF ReplayInv, Surroundings
<1> QED BY <1>10, <1>12, <1>13, <1>14 DEF ReplayInv

\* A page arrives.
LEMMA ReceivePageKeeps ==
  ASSUME ReplayInv, NEW f \in flights, ReceivePage(f)
  PROVE  ReplayInv'
<1> DEFINE k == Len(f.answer.items)
           all == f.collected \o EventsOf(f.session, f.answer.items)
<1>1. /\ f.what = "page"
      /\ UNCHANGED <<server, setting, gestures, page, playing>>
  BY DEF ReceivePage
<1>2. UNCHANGED <<log, public, route, opened, surface, viewer, wanted, gestures, playing>>
  BY <1>1 DEF server, setting, page
<1>3. Sound(f)
  BY DEF ReplayInv, RequestsAreSound
<1>4. ASSUME f.live, f.answer.code = 200
      PROVE  /\ PageContinues(f) /\ k \in Nat /\ f.at \in Nat
             /\ f.at + k <= Len(log[route]) /\ all = Copy(route, f.at + k)
  <2>1. PageContinues(f) /\ f.at \in Nat
    BY <1>1, <1>3, <1>4 DEF Sound, Requests
  <2>2. f.collected = Copy(route, f.at) /\ f.session = route
        /\ f.answer.items = [i \in 1 .. k |-> f.at + i] /\ k \in Nat
        /\ f.at + k <= Len(log[route])
    BY <2>1, <1>4 DEF PageContinues
  <2>3. all = Copy(route, f.at + k)
    <3>1. route \in Sessions
      BY DEF ReplayInv, CopyIsFaithful
    <3> DEFINE items == f.answer.items
    <3>2. items = [i \in 1 .. k |-> f.at + i]
      BY <2>2
    <3> HIDE DEF items, k
    <3>3. Copy(route, f.at) \o EventsOf(route, items) = Copy(route, f.at + k)
      BY <2>1, <2>2, <3>1, <3>2, CopyGrows
    <3> QED BY <2>2, <3>3 DEF items
  <2> QED BY <2>1, <2>2, <2>3
<1>5. CASE Drop(f)
  BY <1>2, <1>5, DropKeeps DEF Drop, stage
<1>6. CASE /\ f.live /\ f.answer.code = 200 /\ f.answer.next # 0
           /\ flights' = (flights \ {f})
                           \cup {Fetch("page", f.session, f.answer.next, all)}
           /\ UNCHANGED <<status, events, position, chapters, panels>>
  <2> DEFINE g == Fetch("page", route, f.at + k, all)
  <2>1. UNCHANGED <<stage, public, viewer, chapters, panels, playing, wanted, gestures>>
    BY <1>2, <1>6 DEF stage
  <2>2. f.session = route /\ f.answer.next = f.at + k /\ status = "loading"
    BY <1>4, <1>6 DEF PageContinues
  <2>3. route \in Sessions /\ Len(log[route]) \in Nat
    BY DEF ReplayInv, CopyIsFaithful, Surroundings
  <2>4. all \in Seq(Sessions \X Nat)
    <3> HIDE DEF all, k
    <3>1. f.at + k \in Nat /\ all = Copy(route, f.at + k)
      BY <1>4, <1>6
    <3> QED BY <2>3, <3>1 DEF Copy
  <2> HIDE DEF all
  <2>5. g \in Requests
    BY <1>4, <1>6, <2>3, <2>4, AskedIsTyped
  <2>6. /\ g.what = "page" /\ g.session = route /\ g.at = f.at + k /\ g.collected = all
        /\ g.answer = Unanswered
    BY DEF Fetch
  <2>7. Unanswered.code = 0
    BY DEF Unanswered
  <2>8. flights' = (flights \ {f}) \cup {g}
    BY <1>6, <2>2
  <2> HIDE DEF g, k
  <2>9. Sound(g)
    BY <1>4, <1>6, <2>2, <2>5, <2>6, <2>7 DEF Sound, PageContinues, PanelNames
  <2>10. RequestsAreSound'
    BY <2>1, <2>8, <2>9, SoundStays DEF ReplayInv, RequestsAreSound
  <2>11. OnePage'
    BY <1>1, <1>6, <2>8 DEF ReplayInv, OnePage
  <2>12. Surroundings'
    BY <2>1 DEF ReplayInv, Surroundings, stage
  <2>13. CopyIsFaithful' /\ NothingBeforeTheCopy' /\ IndexIsComplete' /\ ReadoutsAreCurrent'
    BY <2>1 DEF ReplayInv, CopyIsFaithful, NothingBeforeTheCopy, IndexIsComplete,
                ReadoutsAreCurrent, Covers, Marks, stage
  <2> QED BY <2>10, <2>11, <2>12, <2>13 DEF ReplayInv
<1>7. CASE /\ f.live /\ f.answer.code = 200 /\ f.answer.next = 0
           /\ Mount(f, all) /\ UNCHANGED <<chapters, panels>>
  <2>1. opened <= f.at + k /\ f.at + k \in Nat
    BY <1>4, <1>7 DEF PageContinues
  <2> HIDE DEF all, k
  <2> QED BY <1>1, <1>2, <1>4, <1>7, <2>1, MountKeeps
<1>8. CASE /\ f.live /\ f.answer.code # 200
           /\ status' = IF f.answer.code = 404 THEN "not-found" ELSE "error"
           /\ flights' = flights \ {f}
           /\ UNCHANGED <<events, position, chapters, panels>>
  <2>1. status = "loading"
    BY <1>1, <1>3, <1>8 DEF Sound, PageContinues
  <2>2. ASSUME NEW g \in flights, g # f PROVE Sound(g)'
    <3>1. Sound(g) /\ ~(g.live /\ g.what = "page")
      BY <1>1, <1>8, <2>2 DEF ReplayInv, RequestsAreSound, OnePage
    <3>2. ~g.live
      BY <3>1, <2>1 DEF Sound, Requests, ChaptersCover, PanelFollows
    <3> QED BY <3>1, <3>2, <1>2 DEF Sound
  <2>3. RequestsAreSound' /\ OnePage'
    BY <1>8, <2>2 DEF ReplayInv, RequestsAreSound, OnePage
  <2>4. status' # "ready" /\ status' \in {"not-found", "error"}
    BY <1>8
  <2>5. Surroundings' /\ CopyIsFaithful'
    BY <1>2, <1>8, <2>4 DEF ReplayInv, Surroundings, CopyIsFaithful
  <2>6. NothingBeforeTheCopy' /\ IndexIsComplete' /\ ReadoutsAreCurrent'
    BY <1>2, <1>8, <2>1, <2>4
       DEF ReplayInv, NothingBeforeTheCopy, IndexIsComplete, ReadoutsAreCurrent,
           Covers, Marks
  <2> QED BY <2>3, <2>5, <2>6 DEF ReplayInv
<1> QED BY <1>5, <1>6, <1>7, <1>8 DEF ReceivePage

\* The chapters arrive.
LEMMA ReceiveChaptersKeeps ==
  ASSUME ReplayInv, NEW f \in flights, ReceiveChapters(f)
  PROVE  ReplayInv'
<1>1. /\ f.what = "chapters"
      /\ UNCHANGED <<log, public, route, opened, surface, viewer, wanted, gestures, playing>>
  BY DEF ReceiveChapters, server, setting, page
<1>2. Sound(f) /\ f \in Requests
  BY DEF ReplayInv, RequestsAreSound, Sound
<1>3. CASE Drop(f)
  BY <1>1, <1>3, DropKeeps DEF Drop, stage
<1>4. CASE /\ f.live
           /\ chapters' = IF f.answer.code = 200
                          THEN [status |-> "ready", marks |-> f.answer.items]
                          ELSE [chapters EXCEPT !.status = "error"]
           /\ flights' = flights \ {f}
           /\ UNCHANGED <<status, events, position, panels>>
  <2>1. status = "ready" /\ (f.answer.code = 200 => Covers(ToSet(f.answer.items)))
    BY <1>1, <1>2, <1>4 DEF Sound, ChaptersCover
  <2>2. UNCHANGED stage
    BY <1>1, <1>4 DEF stage
  <2>3. RequestsAreSound' /\ OnePage'
    BY <1>4, <2>2, SoundStays DEF ReplayInv, RequestsAreSound, OnePage
  <2>4. /\ chapters' \in [status : {"loading", "ready", "error"}, marks : Seq(Nat)]
        /\ chapters'.status = "ready" => /\ f.answer.code = 200
                                        /\ chapters'.marks = f.answer.items
    <3>1. chapters \in [status : {"loading", "ready", "error"}, marks : Seq(Nat)]
      BY DEF ReplayInv, Surroundings
    <3>2. f.answer.items \in Seq(Nat)
      BY <1>2 DEF Requests, Answers
    <3> QED BY <1>4, <3>1, <3>2
  <2>5. Surroundings'
    BY <1>1, <1>4, <2>4 DEF ReplayInv, Surroundings
  <2>6. \A marks : Covers(marks)' <=> Covers(marks)
    BY <2>2 DEF Covers, stage
  <2>7. IndexIsComplete'
    BY <2>1, <2>4, <2>6 DEF IndexIsComplete, Marks
  <2>8. CopyIsFaithful' /\ NothingBeforeTheCopy' /\ ReadoutsAreCurrent'
    BY <1>4, <2>1, <2>2 DEF ReplayInv, CopyIsFaithful, NothingBeforeTheCopy,
                            ReadoutsAreCurrent, stage
  <2> QED BY <2>3, <2>5, <2>7, <2>8 DEF ReplayInv
<1> QED BY <1>3, <1>4 DEF ReceiveChapters

\* A diagnosis or a state arrives.
LEMMA ReceivePanelKeeps ==
  ASSUME ReplayInv, NEW f \in flights, ReceivePanel(f)
  PROVE  ReplayInv'
<1>1. /\ f.what \in PanelNames
      /\ UNCHANGED <<log, public, route, opened, surface, viewer, wanted, gestures, playing>>
  BY DEF ReceivePanel, server, setting, page
<1>2. Sound(f) /\ f \in Requests
  BY DEF ReplayInv, RequestsAreSound, Sound
<1>3. CASE Drop(f)
  BY <1>1, <1>3, DropKeeps DEF Drop, stage
<1>4. CASE /\ f.live
           /\ panels' = [panels EXCEPT ![f.what] =
                           IF f.answer.code = 200
                           THEN Panel("ready", <<f.session, f.answer.items[1]>>)
                           ELSE [@ EXCEPT !.status = "error"]]
           /\ flights' = flights \ {f}
           /\ UNCHANGED <<status, events, position, chapters>>
  <2>1. /\ status = "ready" /\ surface = "scrubber" /\ f.session = route
        /\ f.answer.code = 200 => f.answer.items = <<position>>
    BY <1>1, <1>2, <1>4 DEF Sound, PanelFollows
  <2>2. UNCHANGED stage
    BY <1>1, <1>4 DEF stage
  <2>3. RequestsAreSound' /\ OnePage'
    BY <1>4, <2>2, SoundStays DEF ReplayInv, RequestsAreSound, OnePage
  <2> DEFINE filled == IF f.answer.code = 200
                       THEN Panel("ready", <<f.session, f.answer.items[1]>>)
                       ELSE [panels[f.what] EXCEPT !.status = "error"]
  <2>4. panels \in [PanelNames -> Panels] /\ panels' = [panels EXCEPT ![f.what] = filled]
    BY <1>4 DEF ReplayInv, Surroundings
  <2>5. /\ filled \in Panels
        /\ filled.status = "ready" => filled.about = <<route, position>>
    <3>1. CASE f.answer.code = 200
      <4>1. filled = [status |-> "ready", about |-> <<route, position>>]
        BY <2>1, <3>1 DEF Panel
      <4>2. <<route, position>> \in Sessions \X Nat
        BY DEF ReplayInv, CopyIsFaithful
      <4> QED BY <4>1, <4>2 DEF Panels
    <3>2. CASE f.answer.code # 200
      <4>1. panels[f.what] \in Panels
        BY <1>1, <2>4
      <4> QED BY <3>2, <4>1 DEF Panels
    <3> QED BY <3>1, <3>2
  <2> HIDE DEF filled
  <2>6. Surroundings'
    BY <1>1, <1>4, <2>1, <2>4, <2>5 DEF ReplayInv, Surroundings
  <2>7. ReadoutsAreCurrent'
    BY <1>1, <2>2, <2>4, <2>5 DEF ReplayInv, ReadoutsAreCurrent, stage
  <2>8. CopyIsFaithful' /\ NothingBeforeTheCopy' /\ IndexIsComplete'
    BY <1>4, <2>1, <2>2 DEF ReplayInv, CopyIsFaithful, NothingBeforeTheCopy,
                            IndexIsComplete, Covers, Marks, stage
  <2> QED BY <2>3, <2>6, <2>7, <2>8 DEF ReplayInv
<1> QED BY <1>3, <1>4 DEF ReceivePanel

\* A request made where the page stands, and the panel or index it is for.
LEMMA AskKeeps ==
  ASSUME ReplayInv, NEW what \in {"chapters"} \cup PanelNames, NEW at \in Nat,
         status = "ready", at <= Len(events),
         what \in PanelNames => surface = "scrubber" /\ at = position,
         flights' = flights \cup {Fetch(what, route, at, <<>>)},
         UNCHANGED <<stage, public, viewer, playing, wanted>>, Gesture,
         \/ UNCHANGED panels /\ chapters' = Blank
         \/ /\ what \in PanelNames /\ UNCHANGED chapters
            /\ panels' = [panels EXCEPT ![what] = Panel("loading", None)]
  PROVE  ReplayInv'
<1>1. ASSUME NEW g, g = Fetch(what, route, at, <<>>)
      PROVE  Sound(g) /\ g.what # "page"
  <2>1. <<>> \in Seq(Sessions \X Nat) /\ what \in {"page", "chapters"} \cup PanelNames
    OBVIOUS
  <2>2. route \in Sessions
    BY DEF ReplayInv, CopyIsFaithful
  <2>3. g \in Requests
    BY <1>1, <2>1, <2>2, AskedIsTyped
  <2>4. g.what = what /\ g.session = route /\ g.at = at /\ g.answer = Unanswered
    BY <1>1 DEF Fetch
  <2>5. Unanswered.code = 0
    BY DEF Unanswered
  <2>6. at <= Len(log[route])
    BY <2>2 DEF ReplayInv, Surroundings, CopyIsFaithful
  <2> QED
    BY <2>3, <2>4, <2>5, <2>6 DEF Sound, ChaptersCover, PanelFollows, PanelNames
<1>2. RequestsAreSound' /\ OnePage'
  BY <1>1, SoundStays DEF ReplayInv, RequestsAreSound, OnePage
<1>3. gestures' \in 0 .. MaxGestures
  BY BoundsAssumption DEF ReplayInv, Surroundings, Gesture
<1>4. /\ panels' \in [PanelNames -> Panels]
      /\ \A p \in PanelNames : panels'[p].status = "ready" => panels'[p] = panels[p]
      /\ surface # "scrubber" => UNCHANGED panels
  <2>1. Panel("loading", None) \in Panels /\ Panel("loading", None).status = "loading"
    BY DEF Panel, Panels
  <2>2. panels \in [PanelNames -> Panels]
    BY DEF ReplayInv, Surroundings
  <2> QED BY <2>1, <2>2
<1>5. /\ chapters' \in [status : {"loading", "ready", "error"}, marks : Seq(Nat)]
      /\ chapters'.status = "ready" => UNCHANGED chapters
  <2>1. Blank \in [status : {"loading", "ready", "error"}, marks : Seq(Nat)]
        /\ Blank.status = "loading"
    BY DEF Blank
  <2> QED BY <2>1 DEF ReplayInv, Surroundings
<1>6. Surroundings'
  BY <1>3, <1>4, <1>5 DEF ReplayInv, Surroundings, stage
<1>7. CopyIsFaithful' /\ NothingBeforeTheCopy'
  BY DEF ReplayInv, CopyIsFaithful, NothingBeforeTheCopy, stage
<1>8. IndexIsComplete'
  BY <1>5 DEF ReplayInv, IndexIsComplete, Covers, Marks, stage
<1>9. ReadoutsAreCurrent'
  BY <1>4 DEF ReplayInv, ReadoutsAreCurrent, stage
<1> QED BY <1>2, <1>6, <1>7, <1>8, <1>9 DEF ReplayInv

\* Another position: what was asked about the old one is cancelled.
LEMMA MoveKeeps ==
  ASSUME ReplayInv, NEW p \in Int, Move(p)
  PROVE  ReplayInv'
<1> DEFINE to == Clamp(p)
<1>1. /\ status = "ready" /\ Gesture /\ SetPosition(to)
      /\ UNCHANGED <<log, public, setting, page, status, events, playing, chapters>>
  BY DEF Move, Mounted, server
<1>2. to \in 0 .. Len(events)
  BY DEF Clamp, HeadSequence, ReplayInv, CopyIsFaithful
<1> HIDE DEF to
<1>3. gestures' \in 0 .. MaxGestures
  BY <1>1, BoundsAssumption DEF ReplayInv, Surroundings, Gesture
<1>4. UNCHANGED <<log, public, route, opened, surface, viewer, wanted, status, events,
                  playing, chapters>> /\ position' = to
  BY <1>1 DEF setting, page, SetPosition
<1>5. CopyIsFaithful'
  BY <1>2, <1>4 DEF ReplayInv, CopyIsFaithful
<1>6. NothingBeforeTheCopy' /\ IndexIsComplete'
  BY <1>1, <1>4 DEF ReplayInv, NothingBeforeTheCopy, IndexIsComplete, Covers, Marks
<1>7. CASE surface = "scrubber" /\ to # position
  <2> DEFINE new == Fetch("diagnostics", route, to, <<>>)
  <2>1. /\ flights' = Cancelled(flights, PanelNames) \cup {new}
        /\ panels' = NoPanels
    BY <1>1, <1>7 DEF SetPosition
  <2>2. ASSUME NEW g, g = new PROVE Sound(g)' /\ g.what = "diagnostics"
    <3>1. <<>> \in Seq(Sessions \X Nat) /\ to \in Nat
          /\ "diagnostics" \in {"page", "chapters"} \cup PanelNames
      BY <1>2 DEF PanelNames
    <3>2. route \in Sessions
      BY DEF ReplayInv, CopyIsFaithful
    <3>3. g \in Requests
      BY <2>2, <3>1, <3>2, AskedIsTyped
    <3>4. /\ g.what = "diagnostics" /\ g.session = route /\ g.at = to
          /\ g.answer = Unanswered
      BY <2>2 DEF Fetch
    <3>5. Unanswered.code = 0
      BY DEF Unanswered
    <3>6. to <= Len(log[route])
      BY <1>2, <3>2 DEF ReplayInv, Surroundings, CopyIsFaithful
    <3> QED
      BY <1>1, <1>4, <1>7, <3>3, <3>4, <3>5, <3>6 DEF Sound, PanelFollows
  <2>3. ASSUME NEW f \in flights, f.what \in PanelNames
        PROVE  Sound([f EXCEPT !.live = FALSE])'
    <3>1. Sound(f)
      BY DEF ReplayInv, RequestsAreSound
    <3>2. /\ \A s \in Sessions : Len(log[s]) <= Len(log'[s])
          /\ log \in [Sessions -> Seq(Kinds)] /\ log' \in [Sessions -> Seq(Kinds)]
      BY <1>4 DEF ReplayInv, Surroundings
    <3> QED BY <3>1, <3>2, CancelledIsSound
  <2>4. ASSUME NEW f \in flights, f.what \notin PanelNames PROVE Sound(f)'
    BY <1>4, <2>4 DEF ReplayInv, RequestsAreSound, Sound, PageContinues, ChaptersCover, Covers
  <2>5. \A g \in flights' : Sound(g)' /\ (g \in flights \/ ~g.live \/ g.what # "page")
    <3> SUFFICES ASSUME NEW g \in flights', g # new
                 PROVE  Sound(g)' /\ (g \in flights \/ ~g.live)
      BY <2>2
    <3>1. PICK f \in flights :
            g = IF f.what \in PanelNames THEN [f EXCEPT !.live = FALSE] ELSE f
      BY <2>1 DEF Cancelled
    <3>2. CASE f.what \in PanelNames
      <4>1. f \in Requests
        BY DEF ReplayInv, RequestsAreSound, Sound
      <4>2. ~[f EXCEPT !.live = FALSE].live
        BY <4>1 DEF Requests
      <4> QED BY <2>3, <3>1, <3>2, <4>2
    <3>3. CASE f.what \notin PanelNames
      BY <2>4, <3>1, <3>3
    <3> QED BY <3>2, <3>3
  <2>6. RequestsAreSound' /\ OnePage'
    BY <2>5 DEF ReplayInv, RequestsAreSound, OnePage
  <2>7. Surroundings'
    BY <1>3, <1>4, <2>1, NoPanelsIsTyped DEF ReplayInv, Surroundings
  <2>8. ReadoutsAreCurrent'
    BY <2>1 DEF ReadoutsAreCurrent, NoPanels, Panel, PanelNames
  <2>9. NothingBeforeTheCopy'
    BY <1>1, <1>4 DEF NothingBeforeTheCopy
  <2> QED BY <1>5, <1>6, <2>6, <2>7, <2>8, <2>9 DEF ReplayInv
<1>8. CASE ~(surface = "scrubber" /\ to # position)
  <2>1. UNCHANGED <<flights, panels>>
    BY <1>1, <1>8 DEF SetPosition
  <2>2. ASSUME NEW f \in flights PROVE Sound(f)'
    <3>1. CASE to = position
      BY <1>4, <3>1, SoundStays DEF ReplayInv, RequestsAreSound, stage
    <3>2. CASE surface # "scrubber"
      BY <1>4, <3>2 DEF ReplayInv, RequestsAreSound, Sound, PageContinues, ChaptersCover,
                        PanelFollows, Covers
    <3> QED BY <1>8, <3>1, <3>2
  <2>3. RequestsAreSound' /\ OnePage'
    BY <2>1, <2>2 DEF ReplayInv, RequestsAreSound, OnePage
  <2>4. Surroundings'
    BY <1>3, <1>4, <2>1 DEF ReplayInv, Surroundings
  <2>5. ReadoutsAreCurrent'
    BY <1>4, <1>8, <2>1 DEF ReplayInv, Surroundings, ReadoutsAreCurrent, NoPanels, Panel,
                            PanelNames
  <2> QED BY <1>5, <1>6, <2>3, <2>4, <2>5 DEF ReplayInv
<1> QED BY <1>7, <1>8

\* The player starts, stops and ticks; it has no panels.
LEMMA PlayingKeeps ==
  ASSUME ReplayInv, Play \/ Pause \/ Tick
  PROVE  ReplayInv'
<1>1. /\ status = "ready" /\ surface = "replay" /\ playing' \in BOOLEAN
      /\ position' \in 0 .. Len(events) /\ gestures' \in 0 .. MaxGestures
      /\ UNCHANGED <<log, public, flights, surface, viewer, wanted, route, opened, status,
                     events, chapters, panels>>
  <2>1. /\ gestures \in 0 .. MaxGestures /\ position \in 0 .. Len(events)
        /\ Len(events) \in Nat /\ (playing => surface = "replay")
    BY DEF ReplayInv, Surroundings, CopyIsFaithful
  <2>2. CASE Play
    BY <2>1, <2>2, BoundsAssumption DEF Play, Gesture, Mounted, server, setting, page
  <2>3. CASE Pause
    <3>1. /\ status = "ready" /\ playing /\ playing' = FALSE /\ Gesture
          /\ UNCHANGED <<server, setting, flights, page, status, events, position, chapters,
                         panels>>
      BY <2>3 DEF Pause, Mounted
    <3>2. gestures' \in 0 .. MaxGestures
      BY <2>1, <3>1, BoundsAssumption DEF Gesture
    <3> QED BY <2>1, <3>1, <3>2 DEF server, setting, page
  <2>4. CASE Tick
    <3>1. Forward(position) \in 0 .. Len(events)
      BY <2>1 DEF Forward, HeadSequence
    <3> QED
      BY <2>1, <2>4, <3>1 DEF Tick, Mounted, server, setting, page
  <2> QED BY <2>2, <2>3, <2>4
<1>2. RequestsAreSound' /\ OnePage'
  BY <1>1 DEF ReplayInv, RequestsAreSound, OnePage, Sound, PageContinues, ChaptersCover,
              PanelFollows, Covers
<1>3. panels = NoPanels
  BY <1>1 DEF ReplayInv, Surroundings
<1>4. ReadoutsAreCurrent'
  BY <1>1, <1>3 DEF ReadoutsAreCurrent, NoPanels, Panel, PanelNames
<1>5. Surroundings'
  BY <1>1 DEF ReplayInv, Surroundings
<1>6. CopyIsFaithful' /\ NothingBeforeTheCopy' /\ IndexIsComplete'
  BY <1>1 DEF ReplayInv, CopyIsFaithful, NothingBeforeTheCopy, IndexIsComplete, Covers, Marks
<1> QED BY <1>2, <1>4, <1>5, <1>6 DEF ReplayInv

LEMMA MovesKeep ==
  ASSUME ReplayInv,
         \/ StepForward \/ StepBack \/ Scrub \/ JumpToChapter \/ GoNextChapter \/ GoPrevChapter
  PROVE  ReplayInv'
<1>1. /\ position \in Nat /\ Len(events) \in Nat /\ chapters.marks \in Seq(Nat)
  BY DEF ReplayInv, Surroundings, CopyIsFaithful
<1>2. Marks \subseteq Nat
  BY <1>1 DEF Marks, ToSet
<1>3. Forward(position) \in Nat /\ Back(position) \in Nat
  BY <1>1 DEF Forward, Back, HeadSequence
<1>4. \/ Move(Forward(position)) \/ Move(Back(position))
      \/ \E p \in 0 .. Len(events) : Move(p)
      \/ \E m \in Marks : Move(m)
      \/ NextChapter # None /\ Move(NextChapter[1])
      \/ PrevChapter # None /\ Move(PrevChapter[1])
  BY DEF StepForward, StepBack, Scrub, JumpToChapter, GoNextChapter, GoPrevChapter,
         HeadSequence
<1>5. \E p \in Nat : Move(p)
  BY <1>1, <1>2, <1>3, <1>4, ChaptersAhead
<1> QED BY <1>5, MoveKeeps

LEMMA RequestsKeep ==
  ASSUME ReplayInv, RetryChapters \/ RetryDiagnostics \/ RequestExport
  PROVE  ReplayInv'
<1>1. position \in 0 .. Len(events) /\ Len(events) \in Nat
  BY DEF ReplayInv, CopyIsFaithful
<1>2. CASE RetryChapters
  <2>1. /\ status = "ready" /\ Gesture /\ chapters' = Blank
        /\ flights' = flights \cup {Fetch("chapters", route, 0, <<>>)}
        /\ UNCHANGED <<stage, public, viewer, playing, wanted, panels>>
    BY <1>2 DEF RetryChapters, Mounted, server, setting, page, stage
  <2> QED BY <1>1, <2>1, AskKeeps DEF PanelNames
<1>3. CASE RetryDiagnostics
  <2>1. /\ status = "ready" /\ Gesture /\ surface = "scrubber"
        /\ flights' = flights \cup {Fetch("diagnostics", route, position, <<>>)}
        /\ panels' = [panels EXCEPT !["diagnostics"] = Panel("loading", None)]
        /\ UNCHANGED <<stage, public, viewer, playing, wanted, chapters>>
    BY <1>3 DEF RetryDiagnostics, Mounted, server, setting, page, stage
  <2> QED BY <1>1, <2>1, AskKeeps DEF PanelNames
<1>4. CASE RequestExport
  <2>1. /\ status = "ready" /\ Gesture /\ surface = "scrubber"
        /\ flights' = flights \cup {Fetch("state", route, position, <<>>)}
        /\ panels' = [panels EXCEPT !["state"] = Panel("loading", None)]
        /\ UNCHANGED <<stage, public, viewer, playing, wanted, chapters>>
    BY <1>4 DEF RequestExport, Mounted, server, setting, page, stage
  <2> QED BY <1>1, <2>1, AskKeeps DEF PanelNames
<1> QED BY <1>2, <1>3, <1>4

LEMMA ReplayStep == ReplayInv /\ [ReplayNext]_replayVars => ReplayInv'
<1> SUFFICES ASSUME ReplayInv, [ReplayNext]_replayVars PROVE ReplayInv'
  OBVIOUS
<1>1. ASSUME NEW s \in Sessions, Navigate(s) PROVE ReplayInv'
  BY <1>1, LoadKeeps DEF Navigate
<1>2. CASE RetryLoad
  <2>1. route \in Sessions
    BY DEF ReplayInv, CopyIsFaithful
  <2>2. \E s \in Sessions : Load(s) /\ Gesture /\ UNCHANGED <<server, setting>>
    BY <1>2, <2>1 DEF RetryLoad
  <2> QED BY <2>2, LoadKeeps
<1>3. CASE UNCHANGED replayVars
  <2>1. UNCHANGED <<stage, public, flights, viewer, chapters, panels, playing, wanted, gestures>>
    BY <1>3 DEF replayVars, stage
  <2>2. RequestsAreSound' /\ OnePage'
    BY <2>1, SoundStays DEF ReplayInv, RequestsAreSound, OnePage
  <2>3. Surroundings'
    BY <2>1 DEF ReplayInv, Surroundings, stage
  <2>4. CopyIsFaithful' /\ NothingBeforeTheCopy' /\ IndexIsComplete' /\ ReadoutsAreCurrent'
    BY <2>1 DEF ReplayInv, CopyIsFaithful, NothingBeforeTheCopy, IndexIsComplete,
                ReadoutsAreCurrent, Covers, Marks, stage
  <2> QED BY <2>2, <2>3, <2>4 DEF ReplayInv
<1> QED
  BY <1>1, <1>2, <1>3, AppendKeeps, FlipKeeps, AnswerKeeps, ReceivePageKeeps,
     ReceiveChaptersKeeps, ReceivePanelKeeps, PlayingKeeps, MovesKeep, RequestsKeep
     DEF ReplayNext, Respond, Receive

\* The invariant holds as long as anyone looks back.
THEOREM ReplayInvariantHolds == ReplaySpec => []ReplayInv
<1>1. ReplayInit => ReplayInv
  BY ReplayStarts
<1>2. ReplayInv /\ [ReplayNext]_replayVars => ReplayInv'
  BY ReplayStep
<1> QED BY <1>1, <1>2, PTL DEF ReplaySpec

\* The copy on screen is a whole beginning of the right session's log, at least
\* as long as the log was when the page was opened; every position asked for
\* exists; and the chapter index names every chapter of the copy
\* (useSessionEventLog, useSessionSnapshots, the replay routes).
THEOREM PlayerAlwaysShowsTheLog == ReplaySpec => []PlayerShowsTheLog
<1>1. ReplayInv => ReplayTypeOK
  <2> SUFFICES ASSUME ReplayInv PROVE ReplayTypeOK
    OBVIOUS
  <2>1. \A f \in flights :
          /\ f.what \in {"page", "chapters"} \cup PanelNames
          /\ f.session \in Sessions /\ f.at \in 0 .. Len(log[f.session])
          /\ f.live \in BOOLEAN
    BY DEF ReplayInv, Surroundings, RequestsAreSound, Sound, Requests
  <2> QED
    BY <2>1 DEF ReplayInv, Surroundings, CopyIsFaithful, ReplayTypeOK, Panels, HeadSequence
<1>2. ReplayInv => ShowsThisLog
  BY DEF ReplayInv, CopyIsFaithful, ShowsThisLog, Copy, Surroundings
<1>3. ReplayInv => PositionsExist
  BY DEF ReplayInv, RequestsAreSound, Sound, PositionsExist
<1>4. ReplayInv => IndexCoversTheLog
  BY DEF ReplayInv, IndexIsComplete, Covers, IndexCoversTheLog
<1>5. ReplayInv => PlayerShowsTheLog
  BY <1>1, <1>2, <1>3, <1>4 DEF PlayerShowsTheLog
<1> QED BY <1>5, ReplayInvariantHolds, PTL

\* Diagnostics and exported state are those of the session and the position on
\* screen, in whatever order the answers come (useStateAtPosition).
THEOREM ReadoutsStayCurrent == ReplaySpec => []ReadoutsAreCurrent
<1>1. ReplayInv => ReadoutsAreCurrent
  BY DEF ReplayInv
<1> QED BY <1>1, ReplayInvariantHolds, PTL

----------------------------------------------------------------------------
(* The diagnosis: its inductive invariant *)

Facets == [offered : Values \cup {NoValue}, decided : Values \cup {NoValue},
           status : Statuses]

\* The types of the graph.
GraphIsTyped ==
  /\ edges \in Seq(Drawable) /\ Len(edges) <= MaxEdges
  /\ hidden \subseteq Entities
  /\ broken \subseteq Drawn
  /\ facet \in [Nodes -> Facets]
  /\ due \in BOOLEAN

\* What an entry of a diagnosis names exists, and the two severe detectors
\* alone are blocking and identified by the nodes they name.
Sane(d) ==
  /\ d.nodes \subseteq Entities /\ d.edges \subseteq EdgeIds
  /\ d.severity \in Severities
  /\ d.severity = "blocking" <=> d.key[1] \in {"cycle", "contradiction"}
  /\ d.severity = "blocking" => d.key[2] = d.nodes

\* The inductive invariant.
DiagInv ==
  /\ GraphIsTyped
  /\ ~due => reported = Diagnosis
  /\ \A d \in reported \cup screen : Sane(d)
  /\ Keys(screen) = Keys(reported)

----------------------------------------------------------------------------
(* Loops *)

LEMMA OneOrMore ==
  ASSUME NEW n \in Nat, n # 0
  PROVE  n = 1 \/ n >= 2
  OBVIOUS

\* What holds at one number and passes to the next holds from there on.
LEMMA FromThereOn ==
  ASSUME NEW P \in SUBSET Nat, NEW j \in P, \A k \in P : k >= j => k + 1 \in P
  PROVE  \A k \in Nat : k >= j => k \in P
<1> DEFINE B == {k \in Nat : k >= j /\ k \notin P}
<1> SUFFICES ASSUME B # {} PROVE FALSE
  OBVIOUS
<1>1. PICK b \in B : \A n \in B : b <= n
  BY LeastMark
<1>2. b \in Nat /\ b > j /\ j \in Nat
  BY <1>1
<1>3. b - 1 \in Nat /\ b - 1 >= j /\ b - 1 \notin B
  BY <1>1, <1>2
<1>4. (b - 1) + 1 \in P
  BY <1>3
<1> QED BY <1>1, <1>2, <1>4

\* A loop whose body keeps its state in a set G has a run, of any length.
RunOf(g, a, F) == g = [k \in Nat |-> IF k = 0 THEN a ELSE F[g[k - 1]]]

LEMMA LoopRuns ==
  ASSUME NEW G, NEW a \in G, NEW F \in [G -> G]
  PROVE  \E g \in [Nat -> G] : RunOf(g, a, F)
<1> DEFINE Run(n, f) == /\ f \in [0 .. n -> G] /\ f[0] = a
                        /\ \A k \in 1 .. n : f[k] = F[f[k - 1]]
           P == {n \in Nat : \E f : Run(n, f)}
<1>1. 0 \in P
  <2>1. Run(0, [k \in 0 .. 0 |-> a])
    OBVIOUS
  <2> QED BY <2>1
<1>2. ASSUME NEW n \in P PROVE n + 1 \in P
  <2>1. PICK f : Run(n, f)
    OBVIOUS
  <2> DEFINE h == [k \in 0 .. n + 1 |-> IF k = n + 1 THEN F[f[n]] ELSE f[k]]
  <2>2. n \in Nat /\ f[n] \in G
    BY <2>1
  <2>3. h \in [0 .. n + 1 -> G] /\ h[0] = a
    BY <2>1, <2>2
  <2>4. ASSUME NEW k \in 1 .. n + 1 PROVE h[k] = F[h[k - 1]]
    <3>1. CASE k = n + 1
      BY <2>2, <3>1
    <3>2. CASE k # n + 1
      <4>1. k \in 1 .. n /\ k - 1 \in 0 .. n
        BY <2>2, <3>2
      <4>2. h[k] = f[k] /\ h[k - 1] = f[k - 1]
        BY <2>2, <4>1
      <4> QED BY <2>1, <4>1, <4>2
    <3> QED BY <3>1, <3>2
  <2>5. Run(n + 1, h)
    BY <2>3, <2>4
  <2> HIDE DEF h, Run
  <2> QED BY <2>2, <2>5
<1>3. \A n \in Nat : n \in P
  <2> HIDE DEF P
  <2>1. P \in SUBSET Nat
    BY DEF P
  <2> QED BY <1>1, <1>2, <2>1, FromThereOn
<1>4. ASSUME NEW n \in Nat, NEW m \in Nat, NEW f, NEW h, Run(n, f), Run(m, h)
      PROVE  \A k \in Nat : k <= n /\ k <= m => f[k] = h[k]
  <2> DEFINE Q == {k \in Nat : k <= n /\ k <= m => f[k] = h[k]}
  <2>1. 0 \in Q
    BY <1>4
  <2>2. ASSUME NEW k \in Q PROVE k + 1 \in Q
    <3> SUFFICES ASSUME k + 1 <= n, k + 1 <= m PROVE f[k + 1] = h[k + 1]
      OBVIOUS
    <3>1. f[k] = h[k] /\ k + 1 \in 1 .. n /\ k + 1 \in 1 .. m /\ (k + 1) - 1 = k
      OBVIOUS
    <3> QED BY <1>4, <3>1
  <2> HIDE DEF Q
  <2>3. Q \in SUBSET Nat
    BY DEF Q
  <2>4. \A k \in Nat : k \in Q
    BY <2>1, <2>2, <2>3, FromThereOn
  <2> QED BY <2>4 DEF Q
<1> DEFINE best(n) == CHOOSE f : Run(n, f)
           g == [n \in Nat |-> best(n)[n]]
<1>5. \A n \in Nat : Run(n, best(n))
  BY <1>3
<1> HIDE DEF best, Run
<1>6. \A n \in Nat : /\ best(n) \in [0 .. n -> G] /\ best(n)[0] = a
                    /\ \A k \in 1 .. n : best(n)[k] = F[best(n)[k - 1]]
  BY <1>5 DEF Run
<1>7. g \in [Nat -> G]
  <2>1. \A n \in Nat : n \in 0 .. n
    OBVIOUS
  <2>2. \A n \in Nat : best(n)[n] \in G
    BY <1>6, <2>1
  <2> QED BY <2>2
<1>8. ASSUME NEW k \in Nat PROVE g[k] = IF k = 0 THEN a ELSE F[g[k - 1]]
  <2>1. CASE k = 0
    BY <1>6, <2>1
  <2>2. CASE k # 0
    <3>1. k - 1 \in Nat /\ k \in 1 .. k /\ k - 1 <= k /\ k - 1 <= k - 1
      BY <2>2
    <3>2. best(k)[k] = F[best(k)[k - 1]]
      BY <1>6, <3>1
    <3>3. best(k)[k - 1] = best(k - 1)[k - 1]
      BY <1>4, <1>5, <3>1
    <3> QED BY <2>2, <3>1, <3>2, <3>3
  <2> QED BY <2>1, <2>2
<1>9. g = [k \in Nat |-> IF k = 0 THEN a ELSE F[g[k - 1]]]
  <2> HIDE DEF g
  <2>1. g = [k \in Nat |-> g[k]]
    BY <1>7
  <2> QED BY <1>8, <2>1
<1> QED BY <1>7, <1>9 DEF RunOf

----------------------------------------------------------------------------
(* Adjacency *)

\* Numbers can be put in order.
LEMMA Orderable ==
  ASSUME NEW S \in SUBSET Nat, IsFiniteSet(S)
  PROVE  \E row \in [1 .. Cardinality(S) -> S] :
           \A i, j \in DOMAIN row : i < j => row[i] < row[j]
<1> DEFINE Ordered(T, row) == /\ row \in [1 .. Cardinality(T) -> T]
                              /\ \A i, j \in DOMAIN row : i < j => row[i] < row[j]
           P == {n \in Nat : \A T \in SUBSET Nat :
                   IsFiniteSet(T) /\ Cardinality(T) = n => \E row : Ordered(T, row)}
<1>1. 0 \in P
  <2> SUFFICES ASSUME NEW T \in SUBSET Nat, IsFiniteSet(T), Cardinality(T) = 0
               PROVE  \E row : Ordered(T, row)
    OBVIOUS
  <2>1. Ordered(T, [k \in 1 .. 0 |-> 0])
    OBVIOUS
  <2> QED BY <2>1
<1>2. ASSUME NEW n \in P PROVE n + 1 \in P
  <2> SUFFICES ASSUME NEW T \in SUBSET Nat, IsFiniteSet(T), Cardinality(T) = n + 1
               PROVE  \E row : Ordered(T, row)
    OBVIOUS
  <2>1. n \in Nat /\ T # {}
    BY FS_EmptySet
  <2>2. PICK m \in T : \A x \in T : m <= x
    BY <2>1, LeastMark
  <2>3. IsFiniteSet(T \ {m}) /\ Cardinality(T \ {m}) = n
    BY <2>1, FS_RemoveElement
  <2>4. PICK r : Ordered(T \ {m}, r)
    BY <2>3
  <2> DEFINE row == [k \in 1 .. n + 1 |-> IF k = 1 THEN m ELSE r[k - 1]]
  <2>5. /\ r \in [1 .. n -> T \ {m}]
        /\ \A i, j \in 1 .. n : i < j => r[i] < r[j]
    BY <2>3, <2>4
  <2>6. row \in [1 .. n + 1 -> T]
    BY <2>1, <2>5
  <2>7. ASSUME NEW i \in 1 .. n + 1, NEW j \in 1 .. n + 1, i < j PROVE row[i] < row[j]
    <3>1. j - 1 \in 1 .. n /\ row[j] = r[j - 1]
      BY <2>1, <2>7
    <3>2. r[j - 1] \in T /\ r[j - 1] # m /\ m <= r[j - 1] /\ m \in Nat /\ r[j - 1] \in Nat
      BY <2>2, <2>5, <3>1
    <3>3. CASE i = 1
      BY <3>1, <3>2, <3>3
    <3>4. CASE i # 1
      <4>1. i - 1 \in 1 .. n /\ i - 1 < j - 1 /\ row[i] = r[i - 1]
        BY <2>1, <2>7, <3>4
      <4> QED BY <2>5, <3>1, <4>1
    <3> QED BY <3>3, <3>4
  <2>8. Ordered(T, row)
    BY <2>6, <2>7
  <2> HIDE DEF row
  <2> QED BY <2>8
<1>3. P \in SUBSET Nat
  OBVIOUS
<1> HIDE DEF P
<1>4. \A n \in Nat : n \in P
  BY <1>1, <1>2, <1>3, FromThereOn
<1>5. Cardinality(S) \in Nat
  BY FS_CardinalityType
<1> QED BY <1>4, <1>5 DEF P

LEMMA InOrderListsAll ==
  ASSUME NEW S \in SUBSET Nat, IsFiniteSet(S)
  PROVE  /\ InOrder(S) \in [1 .. Cardinality(S) -> S]
         /\ \A x \in S : \E i \in 1 .. Cardinality(S) : InOrder(S)[i] = x
<1> DEFINE n == Cardinality(S)
           row == InOrder(S)
<1>1. n \in Nat
  BY FS_CardinalityType
<1>2. row \in [1 .. n -> S] /\ \A i, j \in DOMAIN row : i < j => row[i] < row[j]
  BY Orderable DEF InOrder
<1>3. \A i, j \in 1 .. n : row[i] = row[j] => i = j
  <2> SUFFICES ASSUME NEW i \in 1 .. n, NEW j \in 1 .. n, row[i] = row[j], i # j
               PROVE  FALSE
    OBVIOUS
  <2>1. row[i] \in Nat /\ row[j] \in Nat
    BY <1>2
  <2>2. i < j \/ j < i
    BY <1>1
  <2>3. row[i] < row[j] \/ row[j] < row[i]
    BY <1>2, <2>2
  <2> QED BY <2>1, <2>3
<1>4. row \in Injection(1 .. n, S)
  BY <1>2, <1>3 DEF Injection, IsInjective
<1>5. Cardinality(1 .. n) = n
  BY <1>1, FS_Interval
<1>6. row \in Surjection(1 .. n, S)
  BY <1>4, <1>5, FS_Injection
<1> QED BY <1>2, <1>6 DEF Surjection

\* The nodes that can be seen and the firing supports links out of one of them.
SeenNodes == Nodes \ hidden
Linked(n) ==
  {edges[i].target : i \in {j \in Links("supports") : edges[j].source = n /\ Fires(j)}}

\* The adjacency lists every successor of every visible node.
LEMMA AdjacencyIsRight ==
  ASSUME GraphIsTyped
  PROVE  /\ SeenNodes \in SUBSET Nat /\ IsFiniteSet(SeenNodes)
         /\ Cardinality(Links("supports")) \in Nat
         /\ Adjacency \in [SeenNodes -> Seq(SeenNodes)]
         /\ \A n \in SeenNodes : /\ ToSet(Adjacency[n]) = Linked(n)
                                 /\ Len(Adjacency[n]) <= Cardinality(Links("supports"))
<1> DEFINE links == Links("supports")
           firing(n) == {i \in links : edges[i].source = n /\ Fires(i)}
           starts(n) == {i \in firing(n) :
                          \A j \in firing(n) : edges[j].target = edges[i].target => i <= j}
<1>1. links \subseteq Drawn /\ Drawn \in SUBSET Nat /\ IsFiniteSet(Drawn)
  BY FS_Interval DEF Links, SeenEdges, Drawn, GraphIsTyped
<1>2. links \in SUBSET Nat /\ IsFiniteSet(links) /\ Cardinality(links) \in Nat
  BY <1>1, FS_Subset, FS_CardinalityType
<1>3. \A i \in links : edges[i].target \in SeenNodes
  BY DEF Links, SeenNode, SeenNodes
<1>4. SeenNodes \in SUBSET Nat /\ IsFiniteSet(SeenNodes)
  <2>1. SeenNodes \subseteq Nodes
    BY DEF SeenNodes
  <2>2. Cardinality(Nodes) \in Nat
    BY NodesAssumption, FS_CardinalityType
  <2> QED BY <2>1, <2>2, NodesAssumption, FS_Subset
<1>5. ASSUME NEW n \in SeenNodes
      PROVE  /\ Successors(n) \in Seq(SeenNodes)
             /\ ToSet(Successors(n)) = Linked(n)
             /\ Len(Successors(n)) <= Cardinality(links)
  <2> DEFINE c == Cardinality(starts(n))
             row == InOrder(starts(n))
  <2>1. starts(n) \in SUBSET links /\ starts(n) \in SUBSET Nat
    BY <1>2
  <2>2. IsFiniteSet(starts(n)) /\ c <= Cardinality(links) /\ c \in Nat
    BY <1>2, <2>1, FS_Subset, FS_CardinalityType
  <2>3. row \in [1 .. c -> starts(n)] /\ \A i \in starts(n) : \E k \in 1 .. c : row[k] = i
    BY <2>1, <2>2, InOrderListsAll
  <2>4. Successors(n) = [k \in 1 .. c |-> edges[row[k]].target]
    BY <2>3 DEF Successors
  <2>5. \A k \in 1 .. c : edges[row[k]].target \in SeenNodes
    BY <1>3, <2>1, <2>3
  <2>6. Successors(n) \in Seq(SeenNodes) /\ Len(Successors(n)) = c
        /\ DOMAIN Successors(n) = 1 .. c
    BY <2>2, <2>4, <2>5
  <2>7. ASSUME NEW k \in 1 .. c PROVE Successors(n)[k] \in Linked(n)
    <3>1. row[k] \in firing(n)
      BY <2>3
    <3> QED BY <2>4, <3>1 DEF Linked
  <2>8. ASSUME NEW t \in Linked(n) PROVE \E k \in 1 .. c : Successors(n)[k] = t
    <3> DEFINE I == {i \in firing(n) : edges[i].target = t}
    <3>1. I # {} /\ I \in SUBSET Nat
      BY <1>2 DEF Linked
    <3>2. PICK i \in I : \A j \in I : i <= j
      BY <3>1, LeastMark
    <3>3. i \in starts(n)
      BY <3>2
    <3>4. PICK k \in 1 .. c : row[k] = i
      BY <2>3, <3>3
    <3> QED BY <2>4, <3>2, <3>4
  <2> QED BY <2>2, <2>6, <2>7, <2>8 DEF ToSet
<1>6. Adjacency = [n \in SeenNodes |-> Successors(n)]
  BY DEF Adjacency, SeenNodes
<1> QED BY <1>2, <1>4, <1>5, <1>6

----------------------------------------------------------------------------
(* Tarjan's search: its invariant *)

Rows(D, L) == {q \in Seq(D) : Len(q) <= L}
Frames(D, L) == [node : D, left : Rows(D, L)]
SearchStates(D, L) ==
  [index : [D -> Nat], low : [D -> Nat], next : Nat, stack : Seq(D),
   frames : Seq(Frames(D, L)), found : Seq(Seq(D))]

\* A graph of numbered nodes, none with more than L successors.
IsGraph(D, A, L) ==
  D \in SUBSET Nat /\ IsFiniteSet(D) /\ L \in Nat /\ A \in [D -> Rows(D, L)]

\* m is in every set that n is in and no edge leads out of.
Reaches(D, A, n, m) ==
  \A S \in SUBSET D : n \in S /\ (\A x \in S : ToSet(A[x]) \subseteq S) => m \in S

Open(s) == ToSet(s.stack)
Closed(s, D) == {n \in D : s.index[n] > 0 /\ n \notin Open(s)}

\* Nodes are numbered as they are entered, along the stack and the frames.
Numbered(s, D) ==
  /\ s.next > 0
  /\ \A n \in D : s.index[n] < s.next
  /\ \A n \in Open(s) : s.index[n] > 0
  /\ \A i, j \in DOMAIN s.stack : i < j => s.index[s.stack[i]] < s.index[s.stack[j]]
  /\ \A i, j \in DOMAIN s.frames :
       i < j => s.index[s.frames[i].node] < s.index[s.frames[j].node]

\* The frames are on the stack, and have edges of their own to look at.
FramesAreOpen(s, A) ==
  \A i \in DOMAIN s.frames :
    /\ s.frames[i].node \in Open(s)
    /\ ToSet(s.frames[i].left) \subseteq ToSet(A[s.frames[i].node])

\* Frame i is the last one that was entered no later than x.
Owns(s, i, x) ==
  /\ s.index[s.frames[i].node] <= s.index[x]
  /\ i < Len(s.frames) => s.index[x] < s.index[s.frames[i + 1].node]

\* An edge is still ahead, or it was looked at: when it leads to an open node
\* below the frame it belongs to, the frame's link has been lowered that far.
Ahead(s, x, m) ==
  \E i \in DOMAIN s.frames : s.frames[i].node = x /\ m \in ToSet(s.frames[i].left)
LookedAt(s, x, m) ==
  /\ s.index[m] > 0
  /\ m \in Open(s) =>
       \A i \in DOMAIN s.frames :
         Owns(s, i, x) /\ s.index[m] < s.index[s.frames[i].node]
           => s.low[s.frames[i].node] <= s.index[m]
EdgesAccountedFor(s, A, but) ==
  \A x \in Open(s) : \A m \in ToSet(A[x]) :
    <<x, m>> \in but \/ Ahead(s, x, m) \/ LookedAt(s, x, m)

\* Nothing leads out of what is closed.
ClosedIsClosed(s, D, A) ==
  \A n \in Closed(s, D) : ToSet(A[n]) \subseteq Closed(s, D)

\* A frame reaches what was entered after it, an open node a frame before it,
\* and the link of a node is the number of an open node it reaches.
OpenIsConnected(s, D, A) ==
  /\ \A i \in DOMAIN s.frames : \A x \in Open(s) :
       s.index[x] >= s.index[s.frames[i].node] => Reaches(D, A, s.frames[i].node, x)
  /\ \A x \in Open(s) : \E i \in DOMAIN s.frames :
       s.index[s.frames[i].node] <= s.index[x] /\ Reaches(D, A, x, s.frames[i].node)
  /\ \A x \in Open(s) : \E w \in Open(s) :
       s.low[x] = s.index[w] /\ s.index[w] <= s.index[x] /\ Reaches(D, A, x, w)

\* The nodes that n reaches and that reach n.
ClassOf(D, A, n) == {m \in D : Reaches(D, A, n, m) /\ Reaches(D, A, m, n)}

\* What was found is closed, without repetition, and whole classes.
FoundAreClasses(s, D, A) ==
  /\ \A n \in D : n \in Closed(s, D) <=> \E k \in DOMAIN s.found : n \in ToSet(s.found[k])
  /\ \A k, l \in DOMAIN s.found :
       k # l => ToSet(s.found[k]) \cap ToSet(s.found[l]) = {}
  /\ \A k \in DOMAIN s.found :
       /\ s.found[k] # <<>> /\ IsInjective(s.found[k])
       /\ \A n \in ToSet(s.found[k]) : ToSet(s.found[k]) = ClassOf(D, A, n)

SearchInv(s, D, A, L, but) ==
  /\ s \in SearchStates(D, L)
  /\ Numbered(s, D)
  /\ FramesAreOpen(s, A)
  /\ EdgesAccountedFor(s, A, but)
  /\ ClosedIsClosed(s, D, A)
  /\ OpenIsConnected(s, D, A)
  /\ FoundAreClasses(s, D, A)

LEMMA ReachIsAPreorder ==
  ASSUME NEW D, NEW A, NEW n, NEW m, NEW k
  PROVE  /\ Reaches(D, A, n, n)
         /\ Reaches(D, A, n, m) /\ Reaches(D, A, m, k) => Reaches(D, A, n, k)
  BY DEF Reaches

LEMMA EdgesReach ==
  ASSUME NEW D, NEW A, NEW n \in D, NEW m \in ToSet(A[n])
  PROVE  Reaches(D, A, n, m)
  BY DEF Reaches

LEMMA FoundStays ==
  ASSUME NEW D, NEW A, NEW s, NEW t, t.found = s.found, Closed(t, D) = Closed(s, D),
         FoundAreClasses(s, D, A)
  PROVE  FoundAreClasses(t, D, A)
<1>1. t.found = s.found /\ \A n \in D : n \in Closed(t, D) <=> n \in Closed(s, D)
  OBVIOUS
<1> QED BY <1>1, Zenon DEF FoundAreClasses

----------------------------------------------------------------------------
(* Tarjan's search: entering a node *)

LEMMA AppendGrows ==
  ASSUME NEW S, NEW q \in Seq(S), NEW e \in S
  PROVE  /\ Append(q, e) \in Seq(S) /\ Len(Append(q, e)) = Len(q) + 1
         /\ DOMAIN Append(q, e) = DOMAIN q \cup {Len(q) + 1}
         /\ \A i \in DOMAIN q : i \in 1 .. Len(q) /\ Append(q, e)[i] = q[i]
         /\ Append(q, e)[Len(q) + 1] = e
         /\ ToSet(Append(q, e)) = ToSet(q) \cup {e}
<1>1. /\ Append(q, e) \in Seq(S) /\ Len(Append(q, e)) = Len(q) + 1
      /\ \A i \in 1 .. Len(q) : Append(q, e)[i] = q[i]
      /\ Append(q, e)[Len(q) + 1] = e
  BY AppendProperties
<1> DEFINE r == Append(q, e)
<1> HIDE DEF r
<1>2. /\ r \in Seq(S) /\ Len(r) = Len(q) + 1 /\ \A i \in 1 .. Len(q) : r[i] = q[i]
      /\ r[Len(q) + 1] = e
  BY <1>1 DEF r
<1>3. DOMAIN r = DOMAIN q \cup {Len(q) + 1} /\ DOMAIN q = 1 .. Len(q)
  BY <1>2
<1>4. ToSet(r) = ToSet(q) \cup {e}
  BY <1>2, <1>3 DEF ToSet
<1> QED BY <1>2, <1>3, <1>4 DEF r

LEMMA EnterDoes ==
  ASSUME NEW D, NEW A, NEW L, IsGraph(D, A, L), NEW s \in SearchStates(D, L), NEW n \in D,
         NEW t, t = Enter(s, n, A)
  PROVE  /\ t \in SearchStates(D, L)
         /\ t.index = [s.index EXCEPT ![n] = s.next]
         /\ t.low = [s.low EXCEPT ![n] = s.next]
         /\ t.next = s.next + 1
         /\ t.stack = Append(s.stack, n)
         /\ t.frames = Append(s.frames, [node |-> n, left |-> A[n]])
         /\ t.found = s.found
<1>1. [node |-> n, left |-> A[n]] \in Frames(D, L)
  BY DEF IsGraph, Frames
<1>2. /\ Append(s.frames, [node |-> n, left |-> A[n]]) \in Seq(Frames(D, L))
      /\ Append(s.stack, n) \in Seq(D)
  BY <1>1, AppendProperties DEF SearchStates
<1>3. /\ t.index = [s.index EXCEPT ![n] = s.next]
      /\ t.low = [s.low EXCEPT ![n] = s.next]
      /\ t.next = s.next + 1
      /\ t.stack = Append(s.stack, n)
      /\ t.frames = Append(s.frames, [node |-> n, left |-> A[n]])
      /\ t.found = s.found
  BY DEF Enter, SearchStates
<1>4. t = [index |-> t.index, low |-> t.low, next |-> t.next, stack |-> t.stack,
           frames |-> t.frames, found |-> t.found]
  BY DEF Enter, SearchStates
<1>5. t.index \in [D -> Nat] /\ t.low \in [D -> Nat] /\ t.next \in Nat
  BY <1>3 DEF SearchStates
<1>6. t.stack \in Seq(D) /\ t.frames \in Seq(Frames(D, L)) /\ t.found \in Seq(Seq(D))
  BY <1>2, <1>3 DEF SearchStates
<1>7. t \in SearchStates(D, L)
  BY <1>4, <1>5, <1>6 DEF SearchStates
<1> QED BY <1>3, <1>7

\* Entering a node that was not reached accounts for the edge that led there.
LEMMA EnterKeeps ==
  ASSUME NEW D, NEW A, NEW L, IsGraph(D, A, L), NEW s, NEW n \in D, NEW but,
         SearchInv(s, D, A, L, but), \A e \in but : e[2] = n,
         s.index[n] = 0,
         \A i \in DOMAIN s.frames : Reaches(D, A, s.frames[i].node, n),
         NEW t, t = Enter(s, n, A)
  PROVE  SearchInv(t, D, A, L, {})
<1> DEFINE f == [node |-> n, left |-> A[n]]
           top == Len(s.frames) + 1
<1>0. s \in SearchStates(D, L) /\ Numbered(s, D) /\ FramesAreOpen(s, A)
      /\ EdgesAccountedFor(s, A, but) /\ ClosedIsClosed(s, D, A)
      /\ OpenIsConnected(s, D, A) /\ FoundAreClasses(s, D, A)
  BY DEF SearchInv
<1>1. /\ t \in SearchStates(D, L)
      /\ t.index = [s.index EXCEPT ![n] = s.next]
      /\ t.low = [s.low EXCEPT ![n] = s.next]
      /\ t.next = s.next + 1
      /\ t.stack = Append(s.stack, n)
      /\ t.frames = Append(s.frames, f)
      /\ t.found = s.found
  BY <1>0, EnterDoes
<1>2. f \in Frames(D, L) /\ f.node = n /\ f.left = A[n]
  BY DEF IsGraph, Frames
<1>3. /\ s.stack \in Seq(D) /\ s.frames \in Seq(Frames(D, L))
      /\ s.index \in [D -> Nat] /\ s.low \in [D -> Nat] /\ s.next \in Nat
  BY <1>0 DEF SearchStates
<1>4. /\ Open(t) = Open(s) \cup {n} /\ n \notin Open(s)
      /\ DOMAIN t.stack = DOMAIN s.stack \cup {Len(s.stack) + 1}
      /\ \A i \in DOMAIN s.stack : i \in 1 .. Len(s.stack) /\ t.stack[i] = s.stack[i]
      /\ t.stack[Len(s.stack) + 1] = n
  <2>1. n \notin Open(s)
    BY <1>0 DEF Numbered
  <2> QED BY <1>1, <1>3, <2>1, AppendGrows DEF Open
<1>5. /\ DOMAIN t.frames = DOMAIN s.frames \cup {top} /\ Len(t.frames) = top
      /\ \A i \in DOMAIN s.frames : i \in 1 .. Len(s.frames) /\ t.frames[i] = s.frames[i]
      /\ t.frames[top] = f
  BY <1>1, <1>2, <1>3, AppendGrows
<1>6. Open(s) \subseteq D /\ n \notin Open(s)
  BY <1>3, <1>4 DEF Open, ToSet
<1>7. /\ \A x \in Open(s) : t.index[x] = s.index[x] /\ t.low[x] = s.low[x] /\ x # n
                            /\ s.index[x] \in Nat /\ s.low[x] \in Nat
      /\ t.index[n] = s.next /\ t.low[n] = s.next
      /\ \A x \in D : x # n => t.index[x] = s.index[x] /\ t.low[x] = s.low[x]
  BY <1>1, <1>3, <1>6
<1>8. \A i \in DOMAIN s.frames : /\ s.frames[i].node \in Open(s)
                                 /\ t.frames[i].node = s.frames[i].node
                                 /\ t.frames[i].left = s.frames[i].left
  BY <1>0, <1>5 DEF FramesAreOpen
<1>9. \A i \in DOMAIN s.stack : s.stack[i] \in Open(s)
  BY DEF Open, ToSet
<1>10. Numbered(t, D)
  <2>1. t.next > 0 /\ \A x \in D : t.index[x] < t.next
    BY <1>0, <1>1, <1>3, <1>7 DEF Numbered
  <2>2. \A x \in Open(t) : t.index[x] > 0
    BY <1>0, <1>4, <1>7, <1>3 DEF Numbered
  <2>3. \A x \in Open(s) : t.index[x] < s.next
    BY <1>0, <1>6, <1>7 DEF Numbered
  <2>4. ASSUME NEW i \in DOMAIN t.stack, NEW j \in DOMAIN t.stack, i < j
        PROVE  t.index[t.stack[i]] < t.index[t.stack[j]]
    <3>1. i \in DOMAIN s.stack
      BY <1>3, <1>4, <2>4
    <3>2. CASE j \in DOMAIN s.stack
      BY <1>0, <1>4, <1>7, <1>9, <2>4, <3>1, <3>2 DEF Numbered
    <3>3. CASE j = Len(s.stack) + 1
      BY <1>4, <1>7, <1>9, <2>3, <3>1, <3>3
    <3> QED BY <1>4, <3>2, <3>3
  <2>5. ASSUME NEW i \in DOMAIN t.frames, NEW j \in DOMAIN t.frames, i < j
        PROVE  t.index[t.frames[i].node] < t.index[t.frames[j].node]
    <3>1. i \in DOMAIN s.frames
      BY <1>3, <1>5, <2>5
    <3>2. CASE j \in DOMAIN s.frames
      BY <1>0, <1>7, <1>8, <2>5, <3>1, <3>2 DEF Numbered
    <3>3. CASE j = top
      BY <1>2, <1>5, <1>7, <1>8, <2>3, <3>1, <3>3
    <3> QED BY <1>5, <3>2, <3>3
  <2> QED BY <2>1, <2>2, <2>4, <2>5 DEF Numbered
<1>11. FramesAreOpen(t, A)
  <2>1. ASSUME NEW i \in DOMAIN s.frames
        PROVE  /\ t.frames[i].node \in Open(t)
               /\ ToSet(t.frames[i].left) \subseteq ToSet(A[t.frames[i].node])
    BY <1>0, <1>4, <1>8 DEF FramesAreOpen
  <2>2. t.frames[top].node \in Open(t) /\ t.frames[top].left = A[t.frames[top].node]
    BY <1>2, <1>4, <1>5
  <2> QED BY <1>5, <2>1, <2>2 DEF FramesAreOpen
<1>12. EdgesAccountedFor(t, A, {})
  <2> SUFFICES ASSUME NEW x \in Open(t), NEW m \in ToSet(A[x]), ~Ahead(t, x, m)
               PROVE  LookedAt(t, x, m)
    BY DEF EdgesAccountedFor
  <2>0. m \in D /\ x \in D
    <3>1. x \in D
      BY <1>4, <1>6
    <3>2. A[x] \in Seq(D)
      BY <3>1 DEF IsGraph, Rows
    <3> QED BY <3>1, <3>2 DEF ToSet
  <2>1. x \in Open(s)
    BY <1>2, <1>4, <1>5 DEF Ahead
  <2>2. ~Ahead(s, x, m)
    BY <1>5, <1>8 DEF Ahead
  <2>3. CASE m = n
    <3>1. t.index[m] = s.next /\ t.index[m] > 0
      BY <1>0, <1>7, <2>3 DEF Numbered
    <3>2. \A i \in DOMAIN t.frames : ~(t.index[m] < t.index[t.frames[i].node])
      <4>1. \A i \in DOMAIN s.frames : t.index[t.frames[i].node] < s.next
                                       /\ t.index[t.frames[i].node] \in Nat
        BY <1>0, <1>6, <1>7, <1>8 DEF Numbered
      <4>2. t.index[t.frames[top].node] = s.next
        BY <1>2, <1>5, <1>7
      <4> QED BY <1>3, <1>5, <3>1, <4>1, <4>2
    <3> QED BY <3>1, <3>2 DEF LookedAt
  <2>4. CASE m # n
    <3>1. LookedAt(s, x, m)
      BY <1>0, <2>1, <2>2, <2>4 DEF EdgesAccountedFor
    <3>2. t.index[m] = s.index[m] /\ (m \in Open(t) => m \in Open(s))
      BY <1>4, <1>7, <2>0, <2>4
    <3>3. ASSUME m \in Open(t), NEW i \in DOMAIN t.frames, Owns(t, i, x),
                 t.index[m] < t.index[t.frames[i].node]
          PROVE  t.low[t.frames[i].node] <= t.index[m]
      <4>1. i # top
        <5>1. t.index[x] < s.next /\ t.index[x] \in Nat
          BY <1>0, <1>6, <1>7, <2>1 DEF Numbered
        <5> QED BY <1>2, <1>3, <1>5, <1>7, <3>3, <5>1 DEF Owns
      <4>2. i \in DOMAIN s.frames
        BY <1>5, <4>1
      <4>3. Owns(s, i, x)
        <5>1. ASSUME i < Len(s.frames) PROVE s.index[x] < s.index[s.frames[i + 1].node]
          <6>1. i + 1 \in DOMAIN s.frames /\ i < Len(t.frames)
            BY <1>3, <1>5, <4>2, <5>1
          <6> QED BY <1>7, <1>8, <2>1, <3>3, <6>1 DEF Owns
        <5> QED BY <1>7, <1>8, <2>1, <3>3, <4>2, <5>1 DEF Owns
      <4> QED BY <1>7, <1>8, <3>1, <3>2, <3>3, <4>2, <4>3 DEF LookedAt
    <3> QED BY <3>1, <3>2, <3>3 DEF LookedAt
  <2> QED BY <2>3, <2>4
<1>13. Closed(t, D) = Closed(s, D)
  BY <1>4, <1>7 DEF Closed
<1>14. ClosedIsClosed(t, D, A)
  BY <1>0, <1>13 DEF ClosedIsClosed
<1>15. FoundAreClasses(t, D, A)
  <2>1. t.found = s.found
    BY <1>1
  <2> QED BY <1>0, <1>13, <2>1 DEF FoundAreClasses
<1>16. OpenIsConnected(t, D, A)
  <2>1. ASSUME NEW i \in DOMAIN t.frames, NEW x \in Open(t),
               t.index[x] >= t.index[t.frames[i].node]
        PROVE  Reaches(D, A, t.frames[i].node, x)
    <3>1. CASE i = top /\ x = n
      BY <1>2, <1>5, <3>1, ReachIsAPreorder
    <3>2. CASE i = top /\ x \in Open(s)
      <4>1. t.index[x] < s.next /\ t.index[x] \in Nat
        BY <1>0, <1>6, <1>7, <3>2 DEF Numbered
      <4> QED BY <1>2, <1>3, <1>5, <1>7, <2>1, <3>2, <4>1
    <3>3. CASE i \in DOMAIN s.frames /\ x = n
      BY <1>8, <3>3
    <3>4. CASE i \in DOMAIN s.frames /\ x \in Open(s)
      <4>1. s.index[x] >= s.index[s.frames[i].node]
        BY <1>7, <1>8, <2>1, <3>4
      <4>2. Reaches(D, A, s.frames[i].node, x)
        BY <1>0, <3>4, <4>1 DEF OpenIsConnected
      <4> QED BY <1>8, <3>4, <4>2
    <3> QED BY <1>4, <1>5, <3>1, <3>2, <3>3, <3>4
  <2>2. ASSUME NEW x \in Open(t)
        PROVE  \E i \in DOMAIN t.frames : /\ t.index[t.frames[i].node] <= t.index[x]
                                          /\ Reaches(D, A, x, t.frames[i].node)
    <3>1. CASE x = n
      <4>1. t.frames[top].node = n /\ t.index[n] <= t.index[n]
        BY <1>2, <1>3, <1>5, <1>7
      <4> QED BY <1>5, <3>1, <4>1, ReachIsAPreorder
    <3>2. CASE x \in Open(s)
      <4>1. PICK i \in DOMAIN s.frames : /\ s.index[s.frames[i].node] <= s.index[x]
                                         /\ Reaches(D, A, x, s.frames[i].node)
        BY <1>0, <3>2 DEF OpenIsConnected
      <4> QED BY <1>5, <1>7, <1>8, <3>2, <4>1
    <3> QED BY <1>4, <3>1, <3>2
  <2>3. ASSUME NEW x \in Open(t)
        PROVE  \E w \in Open(t) : /\ t.low[x] = t.index[w] /\ t.index[w] <= t.index[x]
                                  /\ Reaches(D, A, x, w)
    <3>1. CASE x = n
      BY <1>3, <1>4, <1>7, <3>1, ReachIsAPreorder
    <3>2. CASE x \in Open(s)
      <4>1. PICK w \in Open(s) : /\ s.low[x] = s.index[w] /\ s.index[w] <= s.index[x]
                                 /\ Reaches(D, A, x, w)
        BY <1>0, <3>2 DEF OpenIsConnected
      <4> QED BY <1>4, <1>7, <3>2, <4>1
    <3> QED BY <1>4, <3>1, <3>2
  <2> QED BY <2>1, <2>2, <2>3 DEF OpenIsConnected
<1> QED BY <1>1, <1>10, <1>11, <1>12, <1>14, <1>15, <1>16 DEF SearchInv

----------------------------------------------------------------------------
(* Tarjan's search: looking at an edge *)

LEMMA RestOfASequence ==
  ASSUME NEW S, NEW q \in Seq(S), q # <<>>
  PROVE  /\ Head(q) \in S /\ Head(q) \in ToSet(q) /\ Tail(q) \in Seq(S)
         /\ Len(Tail(q)) = Len(q) - 1
         /\ ToSet(q) = {Head(q)} \cup ToSet(Tail(q))
<1> DEFINE r == Tail(q)
<1>1. /\ Head(q) \in S /\ r \in Seq(S) /\ Len(r) = Len(q) - 1
      /\ \A i \in 1 .. Len(r) : r[i] = q[i + 1]
  BY HeadTailProperties
<1>2. Head(q) = q[1] /\ Len(q) \in Nat /\ Len(q) # 0
  OBVIOUS
<1> HIDE DEF r
<1>3. DOMAIN q = 1 .. Len(q) /\ DOMAIN r = 1 .. Len(q) - 1
  BY <1>1
<1>4. \A i \in DOMAIN q : i = 1 \/ (i - 1 \in DOMAIN r /\ r[i - 1] = q[i])
  BY <1>1, <1>2, <1>3
<1>5. \A i \in DOMAIN r : i + 1 \in DOMAIN q /\ r[i] = q[i + 1]
  BY <1>1, <1>2, <1>3
<1>6. 1 \in DOMAIN q
  BY <1>2, <1>3
<1>7. ToSet(q) = {q[1]} \cup ToSet(r)
  BY <1>4, <1>5, <1>6 DEF ToSet
<1> QED BY <1>1, <1>2, <1>6, <1>7 DEF r, ToSet

Looked(s, top) == [s EXCEPT !.frames[top].left = Tail(@)]
Lowered(s, n, m) == [s EXCEPT !.low[n] = Least(@, s.index[m])]

\* What looking at the edge from n to m leaves to do.
EdgeTaken(s, t, D, A, L, top, n, m) ==
  /\ SearchInv(t, D, A, L, {<<n, m>>})
  /\ n \in D /\ m \in D /\ m \in ToSet(A[n])
  /\ t.index = s.index /\ t.low = s.low /\ t.next = s.next
  /\ t.stack = s.stack /\ t.found = s.found
  /\ Len(t.frames) = top /\ top \in DOMAIN s.frames /\ DOMAIN t.frames = DOMAIN s.frames
  /\ \A i \in DOMAIN s.frames : t.frames[i].node = s.frames[i].node
  /\ Len(t.frames[top].left) = Len(s.frames[top].left) - 1

LEMMA LookKeeps ==
  ASSUME NEW D, NEW A, NEW L, IsGraph(D, A, L), NEW s, SearchInv(s, D, A, L, {}),
         NEW top, top = Len(s.frames), s.frames # <<>>, s.frames[top].left # <<>>,
         NEW n, n = s.frames[top].node, NEW m, m = Head(s.frames[top].left),
         NEW t, t = Looked(s, top)
  PROVE  EdgeTaken(s, t, D, A, L, top, n, m)
<1> DEFINE f == s.frames[top]
           g == [f EXCEPT !.left = Tail(@)]
<1>0. s \in SearchStates(D, L) /\ Numbered(s, D) /\ FramesAreOpen(s, A)
      /\ EdgesAccountedFor(s, A, {}) /\ ClosedIsClosed(s, D, A)
      /\ OpenIsConnected(s, D, A) /\ FoundAreClasses(s, D, A)
  BY DEF SearchInv
<1>1. s.frames \in Seq(Frames(D, L)) /\ s.stack \in Seq(D)
  BY <1>0 DEF SearchStates
<1>2. top \in Nat /\ top \in DOMAIN s.frames /\ f \in Frames(D, L)
      /\ DOMAIN s.frames = 1 .. top
  BY <1>1
<1>3. f.left \in Seq(D) /\ Len(f.left) <= L /\ n \in D /\ L \in Nat
  BY <1>2 DEF Frames, Rows, IsGraph
<1>4. /\ m \in ToSet(f.left) /\ m \in D /\ Tail(f.left) \in Seq(D)
      /\ Len(Tail(f.left)) = Len(f.left) - 1
      /\ ToSet(f.left) = {m} \cup ToSet(Tail(f.left))
  BY <1>3, RestOfASequence
<1>5. g \in Frames(D, L) /\ g.node = n /\ g.left = Tail(f.left)
  <2>1. Tail(f.left) \in Rows(D, L)
    BY <1>3, <1>4 DEF Rows
  <2> QED BY <1>2, <2>1 DEF Frames
<1>6. /\ t.frames = [s.frames EXCEPT ![top] = g]
      /\ t.index = s.index /\ t.low = s.low /\ t.next = s.next
      /\ t.stack = s.stack /\ t.found = s.found
  BY <1>0 DEF SearchStates, Looked
<1>7. t.frames \in Seq(Frames(D, L)) /\ Len(t.frames) = top
  BY <1>1, <1>2, <1>5, <1>6
<1>8. t \in SearchStates(D, L)
  <2>1. t = [index |-> t.index, low |-> t.low, next |-> t.next, stack |-> t.stack,
             frames |-> t.frames, found |-> t.found]
    BY <1>0 DEF SearchStates, Looked
  <2>2. /\ s.index \in [D -> Nat] /\ s.low \in [D -> Nat] /\ s.next \in Nat
        /\ s.found \in Seq(Seq(D))
    BY <1>0 DEF SearchStates
  <2> QED BY <1>1, <1>6, <1>7, <2>1, <2>2 DEF SearchStates
<1> HIDE DEF g
<1>9. /\ DOMAIN t.frames = DOMAIN s.frames /\ t.frames[top] = g
      /\ \A i \in DOMAIN s.frames : i # top => t.frames[i] = s.frames[i]
  BY <1>1, <1>2, <1>6
<1>10. \A i \in DOMAIN s.frames : t.frames[i].node = s.frames[i].node
  BY <1>5, <1>9
<1>11. Open(t) = Open(s) /\ Closed(t, D) = Closed(s, D)
  BY <1>6 DEF Open, Closed
<1>12. m \in ToSet(A[n])
  BY <1>0, <1>2, <1>4 DEF FramesAreOpen
<1>13. Numbered(t, D)
  BY <1>0, <1>6, <1>9, <1>10, <1>11 DEF Numbered
<1>14. FramesAreOpen(t, A)
  <2>1. ASSUME NEW i \in DOMAIN s.frames
        PROVE  /\ t.frames[i].node \in Open(t)
               /\ ToSet(t.frames[i].left) \subseteq ToSet(A[t.frames[i].node])
    <3>1. ToSet(t.frames[i].left) \subseteq ToSet(s.frames[i].left)
      BY <1>4, <1>5, <1>9
    <3> QED BY <1>0, <1>10, <1>11, <3>1 DEF FramesAreOpen
  <2> QED BY <1>9, <2>1 DEF FramesAreOpen
<1>15. ASSUME NEW x \in Open(t), NEW k \in ToSet(A[x]), <<x, k>> # <<n, m>>
       PROVE  Ahead(t, x, k) \/ LookedAt(t, x, k)
  <2>1. CASE Ahead(s, x, k)
    <3>1. PICK i \in DOMAIN s.frames : s.frames[i].node = x /\ k \in ToSet(s.frames[i].left)
      BY <2>1 DEF Ahead
    <3>2. k \in ToSet(t.frames[i].left)
      BY <1>4, <1>5, <1>9, <1>15, <3>1
    <3> QED BY <1>9, <1>10, <3>1, <3>2 DEF Ahead
  <2>2. CASE LookedAt(s, x, k)
    <3>1. \A i \in DOMAIN s.frames : Owns(t, i, x) => Owns(s, i, x)
      <4>1. \A i \in DOMAIN s.frames : i < top => i + 1 \in DOMAIN s.frames
        BY <1>2
      <4> QED BY <1>6, <1>7, <1>10, <4>1 DEF Owns
    <3> QED BY <1>6, <1>9, <1>10, <1>11, <2>2, <3>1 DEF LookedAt
  <2> QED BY <1>0, <1>11, <2>1, <2>2 DEF EdgesAccountedFor
<1>16. EdgesAccountedFor(t, A, {<<n, m>>})
  BY <1>15 DEF EdgesAccountedFor
<1>17. ClosedIsClosed(t, D, A) /\ FoundAreClasses(t, D, A)
  <2>1. t.found = s.found /\ Closed(t, D) = Closed(s, D)
    BY <1>6, <1>11
  <2>2. ClosedIsClosed(t, D, A)
    BY <1>0, <2>1 DEF ClosedIsClosed
  <2>3. FoundAreClasses(t, D, A)
    BY <1>0, <2>1, FoundStays
  <2> QED BY <2>2, <2>3
<1>18. OpenIsConnected(t, D, A)
  BY <1>0, <1>6, <1>9, <1>10, <1>11 DEF OpenIsConnected
<1>19. SearchInv(t, D, A, L, {<<n, m>>})
  BY <1>8, <1>13, <1>14, <1>16, <1>17, <1>18 DEF SearchInv
<1> QED BY <1>2, <1>3, <1>4, <1>5, <1>6, <1>7, <1>9, <1>10, <1>12, <1>19 DEF EdgeTaken

\* A node seen before lowers the link of the top frame while it is open.
LEMMA LowerKeeps ==
  ASSUME NEW D, NEW A, NEW L, IsGraph(D, A, L), NEW s, NEW n, NEW m,
         SearchInv(s, D, A, L, {<<n, m>>}), s.frames # <<>>,
         n = s.frames[Len(s.frames)].node, n \in D, m \in ToSet(A[n]), m \in Open(s),
         NEW t, t = Lowered(s, n, m)
  PROVE  /\ SearchInv(t, D, A, L, {}) /\ t.frames = s.frames /\ t.index = s.index
<1> DEFINE top == Len(s.frames)
<1>0. s \in SearchStates(D, L) /\ Numbered(s, D) /\ FramesAreOpen(s, A)
      /\ EdgesAccountedFor(s, A, {<<n, m>>}) /\ ClosedIsClosed(s, D, A)
      /\ OpenIsConnected(s, D, A) /\ FoundAreClasses(s, D, A)
  BY DEF SearchInv
<1>1. /\ s.frames \in Seq(Frames(D, L)) /\ s.stack \in Seq(D)
      /\ s.index \in [D -> Nat] /\ s.low \in [D -> Nat] /\ s.next \in Nat
      /\ s.found \in Seq(Seq(D))
  BY <1>0 DEF SearchStates
<1>2. Open(s) \subseteq D
  BY <1>1 DEF Open, ToSet
<1>3. s.index[m] \in Nat /\ s.low[n] \in Nat
  BY <1>1, <1>2
<1>4. /\ t.low = [s.low EXCEPT ![n] = Least(s.low[n], s.index[m])]
      /\ t.index = s.index /\ t.frames = s.frames /\ t.next = s.next
      /\ t.stack = s.stack /\ t.found = s.found
  BY <1>0 DEF SearchStates, Lowered
<1>5. t \in SearchStates(D, L)
  <2>1. t = [index |-> t.index, low |-> t.low, next |-> t.next, stack |-> t.stack,
             frames |-> t.frames, found |-> t.found]
    BY <1>0 DEF SearchStates, Lowered
  <2>2. Least(s.low[n], s.index[m]) \in Nat
    BY <1>3 DEF Least
  <2>3. t.low \in [D -> Nat]
    BY <1>1, <1>4, <2>2
  <2> QED BY <1>1, <1>4, <2>1, <2>3 DEF SearchStates
<1>6. /\ t.low[n] <= s.low[n] /\ t.low[n] <= s.index[m]
      /\ t.low[n] \in {s.low[n], s.index[m]}
      /\ \A x \in D : x # n => t.low[x] = s.low[x]
  BY <1>1, <1>3, <1>4 DEF Least
<1>7. Open(t) = Open(s) /\ Closed(t, D) = Closed(s, D)
  BY <1>4 DEF Open, Closed
<1>8. \A i \in DOMAIN s.frames : s.frames[i].node \in D
  BY <1>0, <1>2 DEF FramesAreOpen
<1>9. \A x \in D : t.low[x] <= s.low[x] /\ t.low[x] \in Nat /\ s.low[x] \in Nat
                   /\ s.index[x] \in Nat
  <2> SUFFICES ASSUME NEW x \in D
               PROVE  /\ t.low[x] <= s.low[x] /\ t.low[x] \in Nat /\ s.low[x] \in Nat
                      /\ s.index[x] \in Nat
    OBVIOUS
  <2>1. s.low[x] \in Nat /\ s.index[x] \in Nat
    BY <1>1
  <2>2. CASE x = n
    BY <1>3, <1>6, <2>1, <2>2
  <2>3. CASE x # n
    <3>1. t.low[x] = s.low[x]
      BY <1>6, <2>3
    <3> QED BY <2>1, <3>1
  <2> QED BY <2>2, <2>3
<1>10. Numbered(t, D) /\ FramesAreOpen(t, A)
  BY <1>0, <1>4, <1>7 DEF Numbered, FramesAreOpen
<1>11. \A i, x : Owns(t, i, x) <=> Owns(s, i, x)
  BY <1>4 DEF Owns
<1>12. ASSUME NEW x \in Open(t), NEW k \in ToSet(A[x])
       PROVE  Ahead(t, x, k) \/ LookedAt(t, x, k)
  <2>1. CASE Ahead(s, x, k)
    BY <1>4, <2>1 DEF Ahead
  <2>2. CASE LookedAt(s, x, k)
    <3>1. ASSUME k \in Open(s), NEW i \in DOMAIN s.frames, Owns(s, i, x),
                 s.index[k] < s.index[s.frames[i].node]
          PROVE  t.low[s.frames[i].node] <= s.index[k]
      <4>1. s.low[s.frames[i].node] <= s.index[k]
        BY <2>2, <3>1 DEF LookedAt
      <4> QED BY <1>2, <1>8, <1>9, <3>1, <4>1
    <3> QED BY <1>4, <1>7, <1>11, <2>2, <3>1 DEF LookedAt
  <2>3. CASE x = n /\ k = m
    <3>1. s.index[m] > 0
      BY <1>0 DEF Numbered
    <3>2. ASSUME NEW i \in DOMAIN s.frames, Owns(s, i, n) PROVE i = top
      <4>1. top \in DOMAIN s.frames /\ i \in 1 .. top /\ top \in Nat /\ DOMAIN s.frames = 1 .. top
        BY <1>1
      <4>2. ASSUME i < top PROVE FALSE
        <5>1. i + 1 \in DOMAIN s.frames /\ s.index[n] < s.index[s.frames[i + 1].node]
          BY <3>2, <4>1, <4>2 DEF Owns
        <5>2. CASE i + 1 = top
          BY <1>9, <5>1, <5>2
        <5>3. CASE i + 1 < top
          <6>1. s.index[s.frames[i + 1].node] < s.index[n]
            BY <1>0, <4>1, <5>1, <5>3 DEF Numbered
          <6> QED BY <1>8, <1>9, <5>1, <6>1
        <5> QED BY <4>1, <4>2, <5>2, <5>3
      <4> QED BY <4>1, <4>2
    <3> QED BY <1>4, <1>6, <1>11, <2>3, <3>1, <3>2 DEF LookedAt
  <2> QED BY <1>0, <1>7, <2>1, <2>2, <2>3 DEF EdgesAccountedFor
<1>13. EdgesAccountedFor(t, A, {})
  BY <1>12 DEF EdgesAccountedFor
<1>14. ClosedIsClosed(t, D, A) /\ FoundAreClasses(t, D, A)
  <2>1. ClosedIsClosed(t, D, A)
    BY <1>0, <1>7 DEF ClosedIsClosed
  <2>2. t.found = s.found /\ Closed(t, D) = Closed(s, D)
    BY <1>4, <1>7
  <2>3. FoundAreClasses(t, D, A)
    BY <1>0, <2>2, FoundStays
  <2> QED BY <2>1, <2>3
<1>15. ASSUME NEW x \in Open(t)
       PROVE  \E w \in Open(t) : /\ t.low[x] = t.index[w] /\ t.index[w] <= t.index[x]
                                 /\ Reaches(D, A, x, w)
  <2>1. PICK w \in Open(s) : /\ s.low[x] = s.index[w] /\ s.index[w] <= s.index[x]
                             /\ Reaches(D, A, x, w)
    BY <1>0, <1>7 DEF OpenIsConnected
  <2>2. CASE t.low[x] = s.low[x]
    BY <1>4, <1>7, <2>1, <2>2
  <2>3. CASE t.low[x] # s.low[x]
    <3>1. x = n /\ t.low[n] = s.index[m]
      BY <1>2, <1>6, <1>7, <2>3
    <3>2. s.index[m] <= s.index[n]
      <4>1. s.index[m] <= s.low[n] /\ s.low[n] = s.index[w] /\ s.index[w] <= s.index[n]
        BY <1>6, <2>1, <3>1
      <4>2. s.index[n] \in Nat /\ s.index[w] \in Nat
        BY <1>2, <1>9
      <4> QED BY <1>3, <4>1, <4>2
    <3> QED BY <1>4, <1>7, <3>1, <3>2, EdgesReach
  <2> QED BY <2>2, <2>3
<1>16. OpenIsConnected(t, D, A)
  BY <1>0, <1>4, <1>7, <1>15 DEF OpenIsConnected
<1>17. SearchInv(t, D, A, L, {})
  BY <1>5, <1>10, <1>13, <1>14, <1>16 DEF SearchInv
<1> QED BY <1>4, <1>17

----------------------------------------------------------------------------
(* Tarjan's search: leaving a node *)

LEMMA FrontOf ==
  ASSUME NEW S, NEW q \in Seq(S), q # <<>>
  PROVE  /\ Front(q) \in Seq(S) /\ Len(Front(q)) = Len(q) - 1
         /\ \A i \in 1 .. Len(q) - 1 : Front(q)[i] = q[i]
<1> DEFINE n == Len(q) - 1
<1>1. n \in Nat /\ Len(q) = n + 1 /\ \A i \in 1 .. n : q[i] \in S
  OBVIOUS
<1> HIDE DEF n
<1>2. /\ SubSeq(q, 1, n) \in Seq(S)
      /\ Len(SubSeq(q, 1, n)) = IF 1 <= n THEN n - 1 + 1 ELSE 0
      /\ \A i \in 1 .. n - 1 + 1 : SubSeq(q, 1, n)[i] = q[1 + i - 1]
  BY <1>1, SubSeqProperties
<1>3. Front(q) = SubSeq(q, 1, n)
  BY DEF Front, n
<1>4. \A i \in 1 .. n : i \in 1 .. n - 1 + 1 /\ 1 + i - 1 = i
  BY <1>1
<1>5. Len(SubSeq(q, 1, n)) = n
  BY <1>1, <1>2
<1>6. \A i \in 1 .. n : SubSeq(q, 1, n)[i] = q[i]
  BY <1>2, <1>4
<1> QED BY <1>1, <1>2, <1>3, <1>5, <1>6 DEF n

\* The two parts of a stack of distinct nodes cut at a position.
Parts(D, q, at, below, above) ==
  /\ below \in Seq(D) /\ Len(below) = at - 1 /\ DOMAIN below = 1 .. at - 1
  /\ \A i \in 1 .. at - 1 : below[i] = q[i]
  /\ ToSet(below) = {q[k] : k \in 1 .. at - 1}
  /\ above \in Seq(D) /\ above # <<>> /\ IsInjective(above)
  /\ ToSet(above) = {q[k] : k \in at .. Len(q)}

LEMMA CutStack ==
  ASSUME NEW D, NEW q \in Seq(D), NEW at \in DOMAIN q, IsInjective(q),
         NEW below, below = SubSeq(q, 1, at - 1),
         NEW above, above = Reverse(SubSeq(q, at, Len(q)))
  PROVE  Parts(D, q, at, below, above)
<1> DEFINE n == Len(q)
           c == (n - at) + 1
           piece == SubSeq(q, at, n)
<1>1. n \in Nat /\ at \in 1 .. n /\ DOMAIN q = 1 .. n /\ \A k \in 1 .. n : q[k] \in D
  OBVIOUS
<1>2. /\ below \in Seq(D) /\ Len(below) = at - 1
      /\ \A i \in 1 .. at - 1 : below[i] = q[i]
  <2>1. \A i \in 1 .. at - 1 : q[i] \in D
    BY <1>1
  <2>2. Len(below) = IF 1 <= at - 1 THEN (at - 1) - 1 + 1 ELSE 0
    BY <1>1, <2>1, SubSeqProperties
  <2>3. \A i \in 1 .. (at - 1) - 1 + 1 : below[i] = q[1 + i - 1]
    BY <1>1, <2>1, SubSeqProperties
  <2>4. below \in Seq(D)
    BY <1>1, <2>1, SubSeqProperties
  <2> QED BY <1>1, <2>2, <2>3, <2>4
<1>3. DOMAIN below = 1 .. at - 1
  BY <1>2
<1>4. ToSet(below) = {q[k] : k \in 1 .. at - 1}
  BY <1>2, <1>3 DEF ToSet
<1>5. piece \in Seq(D) /\ Len(piece) = c /\ \A i \in 1 .. c : piece[i] = q[at + i - 1]
  <2>1. \A i \in at .. n : q[i] \in D
    BY <1>1
  <2> QED BY <1>1, <2>1, SubSeqProperties
<1>6. c \in Nat /\ c >= 1 /\ c = (n - at) + 1
  BY <1>1
<1> HIDE DEF piece
<1>7. above = [i \in 1 .. c |-> piece[(c - i) + 1]]
  BY <1>5 DEF Reverse, piece
<1> HIDE DEF c, n
<1>8. \A i \in 1 .. c : (c - i) + 1 \in 1 .. c /\ above[i] = q[n - i + 1]
  <2> SUFFICES ASSUME NEW i \in 1 .. c
               PROVE  (c - i) + 1 \in 1 .. c /\ above[i] = q[n - i + 1]
    OBVIOUS
  <2>1. (c - i) + 1 \in 1 .. c /\ at + ((c - i) + 1) - 1 = n - i + 1
    BY <1>1, <1>6
  <2> QED BY <1>5, <1>7, <2>1
<1>9. above \in Seq(D) /\ DOMAIN above = 1 .. c
  <2> DEFINE val(i) == piece[(c - i) + 1]
  <2>1. \A i \in 1 .. c : val(i) \in D
    BY <1>5, <1>6, <1>8
  <2>2. above = [i \in 1 .. c |-> val(i)]
    BY <1>7
  <2> HIDE DEF val
  <2>3. above \in [1 .. c -> D]
    BY <2>1, <2>2
  <2> QED BY <1>6, <2>3
<1>10. above # <<>>
  BY <1>6, <1>9
<1>11. IsInjective(above)
  <2> SUFFICES ASSUME NEW i \in 1 .. c, NEW j \in 1 .. c, above[i] = above[j] PROVE i = j
    BY <1>9 DEF IsInjective
  <2>1. n - i + 1 \in DOMAIN q /\ n - j + 1 \in DOMAIN q
    BY <1>1, <1>6
  <2>2. n - i + 1 = n - j + 1
    BY <1>8, <2>1 DEF IsInjective
  <2> QED BY <1>1, <2>2
<1>12. ToSet(above) = {q[k] : k \in at .. n}
  <2>1. ASSUME NEW i \in 1 .. c PROVE \E k \in at .. n : above[i] = q[k]
    <3>1. n - i + 1 \in at .. n
      BY <1>1, <1>6
    <3> QED BY <1>8, <3>1
  <2>2. ASSUME NEW k \in at .. n PROVE \E i \in 1 .. c : above[i] = q[k]
    <3>1. n - k + 1 \in 1 .. c /\ n - (n - k + 1) + 1 = k
      BY <1>1, <1>6
    <3> QED BY <1>8, <3>1
  <2>3. ToSet(above) = {above[i] : i \in 1 .. c}
    BY <1>9 DEF ToSet
  <2>4. ToSet(above) \subseteq {q[k] : k \in at .. n}
    BY <2>1, <2>3
  <2>5. {q[k] : k \in at .. n} \subseteq ToSet(above)
    BY <2>2, <2>3
  <2> QED BY <2>4, <2>5
<1> QED BY <1>2, <1>3, <1>4, <1>9, <1>10, <1>11, <1>12 DEF n, Parts

\* The last frame was entered last.
LEMMA TopFrame ==
  ASSUME NEW D, NEW A, NEW L, IsGraph(D, A, L), NEW s, NEW but, SearchInv(s, D, A, L, but),
         NEW top, top = Len(s.frames), s.frames # <<>>, NEW n, n = s.frames[top].node
  PROVE  /\ top \in Nat /\ top >= 1 /\ DOMAIN s.frames = 1 .. top
         /\ s.frames \in Seq(Frames(D, L)) /\ s.stack \in Seq(D) /\ s.found \in Seq(Seq(D))
         /\ s.index \in [D -> Nat] /\ s.low \in [D -> Nat] /\ s.next \in Nat
         /\ n \in Open(s) /\ n \in D /\ Open(s) \subseteq D
         /\ \A i \in 1 .. top - 1 : /\ s.frames[i].node \in Open(s)
                                    /\ s.index[s.frames[i].node] < s.index[n]
         /\ \A x \in Open(s) : s.index[x] >= s.index[n] => Owns(s, top, x)
         /\ IsInjective(s.stack)
<1>0. s \in SearchStates(D, L) /\ Numbered(s, D) /\ FramesAreOpen(s, A)
  BY DEF SearchInv
<1>1. /\ s.frames \in Seq(Frames(D, L)) /\ s.stack \in Seq(D)
      /\ s.index \in [D -> Nat] /\ s.low \in [D -> Nat] /\ s.next \in Nat
      /\ s.found \in Seq(Seq(D))
  BY <1>0 DEF SearchStates
<1>2. top \in Nat /\ top >= 1 /\ DOMAIN s.frames = 1 .. top
  BY <1>1
<1>3. Open(s) \subseteq D
  BY <1>1 DEF Open, ToSet
<1>4. \A i \in 1 .. top : s.frames[i].node \in Open(s)
  BY <1>0, <1>2 DEF FramesAreOpen
<1>5. \A i \in 1 .. top - 1 : s.index[s.frames[i].node] < s.index[n]
  <2>1. \A i \in 1 .. top - 1 : i \in DOMAIN s.frames /\ top \in DOMAIN s.frames /\ i < top
    BY <1>2
  <2> QED BY <1>0, <2>1 DEF Numbered
<1>6. \A x \in Open(s) : s.index[x] >= s.index[n] => Owns(s, top, x)
  BY <1>1, <1>2, <1>3, <1>4 DEF Owns
<1>7. IsInjective(s.stack)
  <2> SUFFICES ASSUME NEW i \in DOMAIN s.stack, NEW j \in DOMAIN s.stack,
                      s.stack[i] = s.stack[j], i # j
               PROVE  FALSE
    BY DEF IsInjective
  <2>1. i < j \/ j < i
    BY <1>1
  <2>2. s.index[s.stack[i]] \in Nat
    BY <1>1
  <2> QED BY <1>0, <2>1, <2>2 DEF Numbered
<1> QED BY <1>1, <1>2, <1>3, <1>4, <1>5, <1>6, <1>7

\* A node that reaches what was entered before it stays open, in the care of
\* the frame before it.
LEMMA LeaveOpenKeeps ==
  ASSUME NEW D, NEW A, NEW L, IsGraph(D, A, L), NEW s, SearchInv(s, D, A, L, {}),
         NEW top, top = Len(s.frames), s.frames # <<>>, s.frames[top].left = <<>>,
         NEW n, n = s.frames[top].node, s.low[n] # s.index[n], NEW t, t = Leave(s)
  PROVE  /\ SearchInv(t, D, A, L, {}) /\ t.index = s.index
         /\ t.frames = Front(s.frames)
<1> DEFINE rest == Front(s.frames)
           p == s.frames[top - 1].node
<1>0. s \in SearchStates(D, L) /\ Numbered(s, D) /\ FramesAreOpen(s, A)
      /\ EdgesAccountedFor(s, A, {}) /\ ClosedIsClosed(s, D, A)
      /\ OpenIsConnected(s, D, A) /\ FoundAreClasses(s, D, A)
  BY DEF SearchInv
<1>1. /\ s.frames \in Seq(Frames(D, L)) /\ s.stack \in Seq(D) /\ s.found \in Seq(Seq(D))
      /\ s.index \in [D -> Nat] /\ s.low \in [D -> Nat] /\ s.next \in Nat
  BY TopFrame
<1>a. top \in Nat /\ top >= 1 /\ DOMAIN s.frames = 1 .. top
  BY TopFrame
<1>b. n \in Open(s) /\ n \in D /\ Open(s) \subseteq D
  BY TopFrame
<1>c. \A i \in 1 .. top - 1 : /\ s.frames[i].node \in Open(s)
                             /\ s.index[s.frames[i].node] < s.index[n]
  BY TopFrame
<1>d. \A x \in Open(s) : s.index[x] >= s.index[n] => Owns(s, top, x)
  BY TopFrame
<1>e. \A x \in D : s.index[x] \in Nat /\ s.low[x] \in Nat
  BY <1>1
<1>f. ToSet(s.frames[top].left) = {}
  BY DEF ToSet
<1>2. PICK w \in Open(s) : /\ s.low[n] = s.index[w] /\ s.index[w] <= s.index[n]
                           /\ Reaches(D, A, n, w)
  BY <1>0, <1>b DEF OpenIsConnected
<1>3. s.index[w] < s.index[n] /\ s.index[w] \in Nat /\ s.index[n] \in Nat
  BY <1>2, <1>b, <1>e
<1>4. PICK h \in DOMAIN s.frames : /\ s.index[s.frames[h].node] <= s.index[w]
                                   /\ Reaches(D, A, w, s.frames[h].node)
  BY <1>0, <1>2 DEF OpenIsConnected
<1>5. h # top
  BY <1>3, <1>4
<1>6. h \in 1 .. top - 1 /\ top - 1 >= 1 /\ top - 1 \in 1 .. top - 1
  BY <1>4, <1>5, <1>a
<1>7. /\ rest \in Seq(Frames(D, L)) /\ Len(rest) = top - 1 /\ DOMAIN rest = 1 .. top - 1
      /\ \A i \in 1 .. top - 1 : rest[i] = s.frames[i]
  <2>1. /\ rest \in Seq(Frames(D, L)) /\ Len(rest) = top - 1
        /\ \A i \in 1 .. top - 1 : rest[i] = s.frames[i]
    BY <1>1, FrontOf
  <2> HIDE DEF rest
  <2> QED BY <2>1, <1>a
<1> HIDE DEF rest
<1>8. rest # <<>> /\ Last(rest).node = p /\ p \in Open(s) /\ p \in D
      /\ s.index[p] < s.index[n] /\ p # n
  <2>1. p \in Open(s) /\ p \in D /\ s.index[p] < s.index[n] /\ p # n
    BY <1>6, <1>b, <1>c, <1>e
  <2>2. rest # <<>> /\ Last(rest) = s.frames[top - 1]
    BY <1>6, <1>7, <1>a DEF Last
  <2> QED BY <2>1, <2>2
<1>9. Last(s.frames).node = n
  BY DEF Last
<1> HIDE DEF p
<1>10. t = [s EXCEPT !.frames = rest, !.low[p] = Least(@, s.low[n])]
  BY <1>8, <1>9 DEF Leave, rest
<1>11. /\ t.low = [s.low EXCEPT ![p] = Least(s.low[p], s.low[n])]
       /\ t.index = s.index /\ t.frames = rest /\ t.next = s.next
       /\ t.stack = s.stack /\ t.found = s.found
  BY <1>0, <1>10 DEF SearchStates
<1>12. t \in SearchStates(D, L)
  <2>1. t = [index |-> t.index, low |-> t.low, next |-> t.next, stack |-> t.stack,
             frames |-> t.frames, found |-> t.found]
    BY <1>0, <1>10 DEF SearchStates
  <2>2. Least(s.low[p], s.low[n]) \in Nat
    BY <1>8, <1>b, <1>e DEF Least
  <2>3. t.low \in [D -> Nat]
    BY <1>1, <1>11, <2>2
  <2> QED BY <1>1, <1>7, <1>11, <2>1, <2>3 DEF SearchStates
<1>13. /\ t.low[p] <= s.low[p] /\ t.low[p] <= s.low[n] /\ t.low[p] \in {s.low[p], s.low[n]}
       /\ \A x \in D : x # p => t.low[x] = s.low[x]
  <2>1. t.low[p] = Least(s.low[p], s.low[n])
    BY <1>1, <1>8, <1>11
  <2>2. \A x \in D : x # p => t.low[x] = s.low[x]
    BY <1>1, <1>11
  <2>3. s.low[p] \in Nat /\ s.low[n] \in Nat
    BY <1>8, <1>b, <1>e
  <2> QED BY <2>1, <2>2, <2>3 DEF Least
<1>14. \A x \in D : /\ t.low[x] <= s.low[x] /\ t.low[x] \in Nat /\ s.low[x] \in Nat
                    /\ s.index[x] \in Nat
  <2>1. t.low \in [D -> Nat]
    BY <1>12 DEF SearchStates
  <2>2. ASSUME NEW x \in D PROVE t.low[x] <= s.low[x]
    BY <1>8, <1>13, <1>e
  <2> QED BY <1>e, <2>1, <2>2
<1>15. Open(t) = Open(s) /\ Closed(t, D) = Closed(s, D)
  BY <1>11 DEF Open, Closed
<1>16. Numbered(t, D)
  <2>1. \A i \in DOMAIN t.frames : i \in DOMAIN s.frames /\ t.frames[i] = s.frames[i]
    BY <1>7, <1>11, <1>a
  <2> QED BY <1>0, <1>11, <1>15, <2>1 DEF Numbered
<1>17. FramesAreOpen(t, A)
  <2>1. \A i \in DOMAIN t.frames : i \in DOMAIN s.frames /\ t.frames[i] = s.frames[i]
    BY <1>7, <1>11, <1>a
  <2> QED BY <1>0, <1>15, <2>1 DEF FramesAreOpen
<1>18. ASSUME NEW x \in Open(s), NEW m \in ToSet(A[x]), ~Ahead(t, x, m)
       PROVE  LookedAt(t, x, m)
  <2>1. ~Ahead(s, x, m)
    <3>2. \A i \in DOMAIN s.frames : i # top => i \in DOMAIN rest /\ rest[i] = s.frames[i]
      BY <1>7, <1>a
    <3> QED BY <1>11, <1>18, <1>f, <3>2 DEF Ahead
  <2>2. LookedAt(s, x, m)
    BY <1>0, <1>18, <2>1 DEF EdgesAccountedFor
  <2>3. ASSUME m \in Open(s), NEW i \in 1 .. top - 1, Owns(t, i, x),
               s.index[m] < s.index[s.frames[i].node]
        PROVE  t.low[s.frames[i].node] <= s.index[m]
    <3>0. s.frames[i].node \in D /\ m \in D /\ x \in D /\ i \in DOMAIN s.frames
      BY <1>b, <1>c, <1>a, <2>3
    <3>1. CASE Owns(s, i, x)
      <4>1. s.low[s.frames[i].node] <= s.index[m]
        BY <2>2, <2>3, <3>0, <3>1 DEF LookedAt
      <4>2. /\ t.low[s.frames[i].node] <= s.low[s.frames[i].node]
            /\ t.low[s.frames[i].node] \in Nat /\ s.low[s.frames[i].node] \in Nat
        BY <1>14, <3>0
      <4>3. s.index[m] \in Nat
        BY <1>14, <3>0
      <4> QED BY <4>1, <4>2, <4>3
    <3>2. CASE ~Owns(s, i, x)
      <4>1. i = top - 1 /\ s.index[x] >= s.index[n]
        <5>1. s.index[s.frames[i].node] <= s.index[x]
          BY <1>7, <1>11, <2>3 DEF Owns
        <5>2. ~(s.index[x] < s.index[s.frames[i + 1].node])
          BY <3>2, <5>1 DEF Owns
        <5>3. ASSUME i < top - 1 PROVE FALSE
          <6>1. i + 1 \in 1 .. top - 1 /\ i < Len(t.frames)
            BY <1>7, <1>11, <1>a, <5>3
          <6> QED BY <1>7, <1>11, <2>3, <5>2, <6>1 DEF Owns
        <5>4. i = top - 1
          BY <1>a, <5>3
        <5>5. s.frames[i + 1].node = n /\ s.index[x] \in Nat /\ s.index[n] \in Nat
          BY <1>a, <1>b, <1>e, <3>0, <5>4
        <5> QED BY <5>2, <5>4, <5>5
      <4>2. Owns(s, top, x)
        BY <1>d, <4>1
      <4>3. s.index[m] < s.index[n]
        <5>1. s.index[s.frames[i].node] < s.index[n] /\ s.index[s.frames[i].node] \in Nat
          BY <1>c, <1>e, <3>0
        <5>2. s.index[m] \in Nat /\ s.index[n] \in Nat
          BY <1>b, <1>e, <3>0
        <5> QED BY <2>3, <5>1, <5>2
      <4>4. s.low[n] <= s.index[m]
        <5>1. top \in DOMAIN s.frames
          BY <1>a
        <5> QED BY <2>2, <2>3, <4>2, <4>3, <5>1 DEF LookedAt
      <4>5. s.frames[i].node = p /\ t.low[p] <= s.low[n]
        BY <1>13, <4>1 DEF p
      <4>6. t.low[p] \in Nat /\ s.low[n] \in Nat /\ s.index[m] \in Nat
        BY <1>8, <1>14, <1>b, <1>e, <3>0
      <4> QED BY <4>4, <4>5, <4>6
    <3> QED BY <3>1, <3>2
  <2> QED BY <1>7, <1>11, <1>15, <2>2, <2>3 DEF LookedAt
<1>19. EdgesAccountedFor(t, A, {})
  BY <1>15, <1>18 DEF EdgesAccountedFor
<1>20. ClosedIsClosed(t, D, A) /\ FoundAreClasses(t, D, A)
  <2>1. ClosedIsClosed(t, D, A)
    BY <1>0, <1>15 DEF ClosedIsClosed
  <2>2. t.found = s.found /\ Closed(t, D) = Closed(s, D)
    BY <1>11, <1>15
  <2>3. FoundAreClasses(t, D, A)
    BY <1>0, <2>2 DEF FoundAreClasses
  <2> QED BY <2>1, <2>3
<1>21. OpenIsConnected(t, D, A)
  <2>1. ASSUME NEW i \in DOMAIN t.frames, NEW x \in Open(t),
               t.index[x] >= t.index[t.frames[i].node]
        PROVE  Reaches(D, A, t.frames[i].node, x)
    <3>1. i \in DOMAIN s.frames /\ t.frames[i] = s.frames[i]
      BY <1>7, <1>11, <1>a
    <3> QED BY <1>0, <1>11, <1>15, <2>1, <3>1 DEF OpenIsConnected
  <2>2. ASSUME NEW x \in Open(t)
        PROVE  \E i \in DOMAIN t.frames : /\ t.index[t.frames[i].node] <= t.index[x]
                                          /\ Reaches(D, A, x, t.frames[i].node)
    <3>1. PICK i \in DOMAIN s.frames : /\ s.index[s.frames[i].node] <= s.index[x]
                                       /\ Reaches(D, A, x, s.frames[i].node)
      BY <1>0, <1>15 DEF OpenIsConnected
    <3>2. CASE i # top
      <4>1. i \in DOMAIN t.frames /\ t.frames[i] = s.frames[i]
        BY <1>7, <1>11, <1>a, <3>2
      <4> QED BY <1>11, <3>1, <4>1
    <3>3. CASE i = top
      <4>1. h \in DOMAIN t.frames /\ t.frames[h] = s.frames[h]
        BY <1>6, <1>7, <1>11
      <4>2. Reaches(D, A, x, s.frames[h].node)
        BY <1>2, <1>4, <3>1, <3>3, ReachIsAPreorder
      <4>3. s.index[s.frames[h].node] <= s.index[x]
        <5>1. s.frames[h].node \in D /\ x \in D /\ s.index[n] <= s.index[x]
          BY <1>6, <1>15, <1>b, <1>c, <3>1, <3>3
        <5> QED BY <1>3, <1>4, <1>e, <5>1
      <4> QED BY <1>11, <4>1, <4>2, <4>3
    <3> QED BY <3>2, <3>3
  <2>3. ASSUME NEW x \in Open(t)
        PROVE  \E v \in Open(t) : /\ t.low[x] = t.index[v] /\ t.index[v] <= t.index[x]
                                  /\ Reaches(D, A, x, v)
    <3>1. PICK v \in Open(s) : /\ s.low[x] = s.index[v] /\ s.index[v] <= s.index[x]
                               /\ Reaches(D, A, x, v)
      BY <1>0, <1>15 DEF OpenIsConnected
    <3>2. CASE t.low[x] = s.low[x]
      BY <1>11, <1>15, <3>1, <3>2
    <3>3. CASE t.low[x] # s.low[x]
      <4>1. x = p /\ t.low[p] = s.low[n]
        BY <1>13, <1>15, <1>b, <3>3
      <4>2. Reaches(D, A, p, n)
        <5>1. top - 1 \in DOMAIN s.frames /\ s.index[n] >= s.index[p]
          BY <1>6, <1>8, <1>a, <1>b, <1>e
        <5>2. s.frames[top - 1].node = p
          BY DEF p
        <5> QED BY <1>0, <1>b, <5>1, <5>2 DEF OpenIsConnected
      <4>3. Reaches(D, A, p, w)
        BY <1>2, <4>2, ReachIsAPreorder
      <4>4. s.index[w] <= s.index[p]
        <5>1. s.low[n] <= s.low[p] /\ s.low[p] <= s.index[p]
          <6>1. s.low[p] = s.index[v] /\ s.index[v] <= s.index[p]
            BY <3>1, <4>1
          <6> QED BY <1>13, <4>1, <6>1
        <5>2. s.low[n] \in Nat /\ s.low[p] \in Nat /\ s.index[p] \in Nat
          BY <1>8, <1>b, <1>e
        <5> QED BY <1>2, <5>1, <5>2
      <4> QED BY <1>2, <1>11, <1>15, <4>1, <4>3, <4>4
    <3> QED BY <3>2, <3>3
  <2> QED BY <2>1, <2>2, <2>3 DEF OpenIsConnected
<1>22. SearchInv(t, D, A, L, {})
  BY <1>12, <1>16, <1>17, <1>19, <1>20, <1>21 DEF SearchInv
<1> QED BY <1>11, <1>22 DEF rest

\* A node that reaches nothing entered before it is the root of a class: what
\* is above it on the stack is closed, and is what it reaches and is reached by.
LEMMA LeaveRootKeeps ==
  ASSUME NEW D, NEW A, NEW L, IsGraph(D, A, L), NEW s, SearchInv(s, D, A, L, {}),
         NEW top, top = Len(s.frames), s.frames # <<>>, s.frames[top].left = <<>>,
         NEW n, n = s.frames[top].node, s.low[n] = s.index[n], NEW t, t = Leave(s)
  PROVE  /\ SearchInv(t, D, A, L, {}) /\ t.index = s.index
         /\ t.frames = Front(s.frames)
<1> DEFINE rest == Front(s.frames)
           p == s.frames[top - 1].node
           at == CHOOSE k \in DOMAIN s.stack : s.stack[k] = Last(s.frames).node
           below == SubSeq(s.stack, 1, at - 1)
           above == Reverse(SubSeq(s.stack, at, Len(s.stack)))
           P == ToSet(above)
           Z == Closed(s, D) \cup P
<1>0. s \in SearchStates(D, L) /\ Numbered(s, D) /\ FramesAreOpen(s, A)
      /\ EdgesAccountedFor(s, A, {}) /\ ClosedIsClosed(s, D, A)
      /\ OpenIsConnected(s, D, A) /\ FoundAreClasses(s, D, A)
  BY DEF SearchInv
<1>1. /\ s.frames \in Seq(Frames(D, L)) /\ s.stack \in Seq(D) /\ s.found \in Seq(Seq(D))
      /\ s.index \in [D -> Nat] /\ s.low \in [D -> Nat] /\ s.next \in Nat
  BY TopFrame
<1>a. top \in Nat /\ top >= 1 /\ DOMAIN s.frames = 1 .. top
  BY TopFrame
<1>b. n \in Open(s) /\ n \in D /\ Open(s) \subseteq D
  BY TopFrame
<1>c. \A i \in 1 .. top - 1 : /\ s.frames[i].node \in Open(s)
                             /\ s.index[s.frames[i].node] < s.index[n]
  BY TopFrame
<1>d. \A x \in Open(s) : s.index[x] >= s.index[n] => Owns(s, top, x)
  BY TopFrame
<1>e. \A x \in D : s.index[x] \in Nat /\ s.low[x] \in Nat
  BY <1>1
<1>f. ToSet(s.frames[top].left) = {}
  BY DEF ToSet
<1>g. Last(s.frames).node = n
  BY DEF Last
<1>2. at \in DOMAIN s.stack /\ s.stack[at] = n
  BY <1>b, <1>g DEF Open, ToSet
<1>3. IsInjective(s.stack)
  BY TopFrame
<1>h. below = SubSeq(s.stack, 1, at - 1) /\ above = Reverse(SubSeq(s.stack, at, Len(s.stack)))
  OBVIOUS
<1> HIDE DEF at, below, above
<1>4. /\ below \in Seq(D) /\ ToSet(below) = {s.stack[k] : k \in 1 .. at - 1}
      /\ Len(below) = at - 1 /\ DOMAIN below = 1 .. at - 1
      /\ \A i \in 1 .. at - 1 : below[i] = s.stack[i]
      /\ above \in Seq(D) /\ above # <<>> /\ IsInjective(above)
      /\ P = {s.stack[k] : k \in at .. Len(s.stack)}
  <2>1. s.stack \in Seq(D) /\ at \in DOMAIN s.stack /\ IsInjective(s.stack)
    BY <1>1, <1>2, <1>3
  <2> HIDE DEF rest, p
  <2>2. /\ below \in Seq(D) /\ Len(below) = at - 1 /\ DOMAIN below = 1 .. at - 1
        /\ \A i \in 1 .. at - 1 : below[i] = s.stack[i]
        /\ ToSet(below) = {s.stack[k] : k \in 1 .. at - 1}
        /\ above \in Seq(D) /\ above # <<>> /\ IsInjective(above)
        /\ ToSet(above) = {s.stack[k] : k \in at .. Len(s.stack)}
    <3> DEFINE q == s.stack
    <3>1. /\ q \in Seq(D) /\ at \in DOMAIN q /\ IsInjective(q)
          /\ below = SubSeq(q, 1, at - 1) /\ above = Reverse(SubSeq(q, at, Len(q)))
      BY <2>1, <1>h
    <3>2. Parts(D, q, at, below, above)
      <4> HIDE DEF q
      <4> QED BY ONLY <3>1, CutStack
    <3> QED BY <3>2 DEF Parts
  <2> QED BY <2>2
<1>5. /\ rest \in Seq(Frames(D, L)) /\ Len(rest) = top - 1 /\ DOMAIN rest = 1 .. top - 1
      /\ \A i \in 1 .. top - 1 : rest[i] = s.frames[i]
  <2>1. /\ rest \in Seq(Frames(D, L)) /\ Len(rest) = top - 1
        /\ \A i \in 1 .. top - 1 : rest[i] = s.frames[i]
    BY <1>1, FrontOf
  <2> HIDE DEF rest
  <2> QED BY <2>1, <1>a
<1> HIDE DEF rest
<1>6. /\ t.index = s.index /\ t.low = s.low /\ t.next = s.next /\ t.frames = rest
      /\ t.stack = below /\ t.found = Append(s.found, above)
      /\ t = [index |-> t.index, low |-> t.low, next |-> t.next, stack |-> t.stack,
              frames |-> t.frames, found |-> t.found]
  <2> DEFINE shed == [s EXCEPT !.stack = below, !.found = Append(@, above)]
  <2>1. t = IF rest = <<>> THEN [shed EXCEPT !.frames = rest]
            ELSE [shed EXCEPT !.frames = rest,
                              !.low[Last(rest).node] = Least(@, s.low[n])]
    <3> DEFINE q == Last(s.frames).node
               kept == IF s.low[q] # s.index[q] THEN s ELSE shed
    <3>1. t = IF rest = <<>> THEN [kept EXCEPT !.frames = rest]
              ELSE [kept EXCEPT !.frames = rest,
                                !.low[Last(rest).node] = Least(@, s.low[q])]
      BY DEF Leave, at, rest, below, above
    <3>2. q = n /\ kept = shed
      BY <1>g
    <3> HIDE DEF q, kept, shed
    <3> QED BY <3>1, <3>2
  <2>2. CASE rest = <<>>
    BY <1>0, <2>1, <2>2 DEF SearchStates
  <2>3. CASE rest # <<>>
    <3>1. top - 1 \in 1 .. top - 1
      BY <1>5, <1>a, <2>3
    <3>2. Last(rest).node = p /\ p \in D /\ s.index[p] < s.index[n]
      BY <1>5, <1>b, <1>c, <3>1 DEF Last
    <3>3. PICK w \in Open(s) : s.low[p] = s.index[w] /\ s.index[w] <= s.index[p]
      <4>1. p \in Open(s)
        BY <1>c, <3>1
      <4> QED BY <1>0, <4>1 DEF OpenIsConnected
    <3>4. s.low[p] \in Nat /\ s.low[n] \in Nat /\ s.low[p] < s.low[n]
      BY <1>b, <1>e, <3>2, <3>3
    <3>5. Least(s.low[p], s.low[n]) = s.low[p]
      BY <3>4 DEF Least
    <3>6. [s.low EXCEPT ![p] = s.low[p]] = s.low
      BY <1>1, <3>2
    <3> HIDE DEF p
    <3>7. t = [shed EXCEPT !.frames = rest, !.low[p] = Least(@, s.low[n])]
      BY <2>1, <2>3, <3>2
    <3>8. t.low = [s.low EXCEPT ![p] = Least(s.low[p], s.low[n])]
      BY <1>0, <3>7 DEF SearchStates
    <3> QED BY <1>0, <3>5, <3>6, <3>7, <3>8 DEF SearchStates
  <2> QED BY <2>2, <2>3
<1>7. /\ t.found \in Seq(Seq(D)) /\ DOMAIN t.found = DOMAIN s.found \cup {Len(s.found) + 1}
      /\ \A k \in DOMAIN s.found : k \in 1 .. Len(s.found) /\ t.found[k] = s.found[k]
      /\ t.found[Len(s.found) + 1] = above
  <2>1. s.found \in Seq(Seq(D)) /\ above \in Seq(D) /\ t.found = Append(s.found, above)
    BY <1>1, <1>4, <1>6
  <2> QED BY <2>1, AppendGrows
<1>8. t \in SearchStates(D, L)
  BY <1>1, <1>4, <1>5, <1>6, <1>7 DEF SearchStates
<1>9. \A k \in DOMAIN s.stack : k \in Nat /\ s.stack[k] \in Open(s)
  BY <1>1 DEF Open, ToSet
<1>10. /\ Open(s) = Open(t) \cup P
       /\ \A x \in Open(t) : s.index[x] < s.index[n]
       /\ \A x \in P : s.index[x] >= s.index[n]
  <2>1. at \in Nat /\ DOMAIN s.stack = 1 .. Len(s.stack) /\ Len(s.stack) \in Nat
        /\ at <= Len(s.stack) /\ at >= 1
    BY <1>1, <1>2
  <2>2. Open(s) = {s.stack[k] : k \in DOMAIN s.stack}
    BY DEF Open, ToSet
  <2>3. Open(t) = {s.stack[k] : k \in 1 .. at - 1}
    BY <1>4, <1>6 DEF Open
  <2>4. ASSUME NEW k \in 1 .. at - 1 PROVE s.index[s.stack[k]] < s.index[n]
    <3>1. k \in DOMAIN s.stack /\ k < at
      BY <2>1
    <3> QED BY <1>0, <1>2, <3>1 DEF Numbered
  <2>5. ASSUME NEW k \in at .. Len(s.stack) PROVE s.index[s.stack[k]] >= s.index[n]
    <3>1. k \in DOMAIN s.stack /\ (k = at \/ at < k)
      BY <2>1
    <3>2. s.index[s.stack[k]] \in Nat /\ s.index[n] \in Nat
      BY <1>9, <1>b, <1>e, <3>1
    <3>3. CASE k = at
      BY <1>2, <3>2, <3>3
    <3>4. CASE at < k
      <4>1. s.index[n] < s.index[s.stack[k]]
        BY <1>0, <1>2, <3>1, <3>4 DEF Numbered
      <4> QED BY <3>2, <4>1
    <3> QED BY <3>1, <3>3, <3>4
  <2>6. \A k \in DOMAIN s.stack : k \in 1 .. at - 1 \/ k \in at .. Len(s.stack)
    BY <2>1
  <2>7. \A k : k \in 1 .. at - 1 \/ k \in at .. Len(s.stack) => k \in DOMAIN s.stack
    BY <2>1
  <2>8. Open(s) = Open(t) \cup P
    BY <1>4, <2>2, <2>3, <2>6, <2>7
  <2> QED BY <1>4, <2>3, <2>4, <2>5, <2>8
<1> HIDE DEF P
<1>11. P \subseteq Open(s) /\ P \subseteq D /\ Open(t) \subseteq Open(s) /\ Open(t) \subseteq D
  BY <1>10, <1>b
<1>12. P \cap Open(t) = {} /\ n \in P
  <2>1. \A x \in D : ~(s.index[x] < s.index[n] /\ s.index[x] >= s.index[n])
    BY <1>b, <1>e
  <2>2. \A x \in P : x \notin Open(t)
    BY <1>10, <1>11, <2>1
  <2>3. ~(s.index[n] < s.index[n])
    BY <1>b, <2>1, <1>e
  <2>4. n \notin Open(t)
    BY <1>10, <2>3
  <2> QED BY <1>10, <1>b, <2>2, <2>4
<1>13. P \cap Closed(s, D) = {}
  BY <1>11 DEF Closed
<1>14. Closed(t, D) = Z
  <2>1. \A x \in P : s.index[x] > 0
    BY <1>0, <1>11 DEF Numbered
  <2> QED BY <1>6, <1>10, <1>11, <1>12, <2>1 DEF Closed
<1>15. ASSUME NEW x \in P, NEW m \in ToSet(A[x]) PROVE m \in Z
  <2>0. x \in D /\ x \in Open(s) /\ m \in D
    <3>1. x \in D /\ x \in Open(s)
      BY <1>11
    <3>2. A[x] \in Seq(D)
      BY <3>1 DEF IsGraph, Rows
    <3> QED BY <3>1, <3>2 DEF ToSet
  <2>1. ~Ahead(s, x, m)
    <3>1. ASSUME NEW i \in DOMAIN s.frames, s.frames[i].node = x PROVE i = top
      <4>1. ASSUME i \in 1 .. top - 1 PROVE FALSE
        <5>1. s.index[x] < s.index[n] /\ s.index[x] >= s.index[n]
          BY <1>10, <1>c, <3>1, <4>1
        <5> QED BY <1>b, <1>e, <2>0, <5>1
      <4> QED BY <1>a, <4>1
    <3> QED BY <1>f, <3>1 DEF Ahead
  <2>2. LookedAt(s, x, m)
    BY <1>0, <2>0, <2>1 DEF EdgesAccountedFor
  <2>3. s.index[m] > 0
    BY <2>2 DEF LookedAt
  <2>4. ASSUME m \in Open(t) PROVE FALSE
    <3>1. m \in Open(s) /\ s.index[m] < s.index[n]
      BY <1>10, <2>4
    <3>2. Owns(s, top, x) /\ top \in DOMAIN s.frames
      BY <1>10, <1>a, <1>d, <2>0
    <3>3. s.low[n] <= s.index[m]
      BY <2>2, <3>1, <3>2 DEF LookedAt
    <3> QED BY <1>b, <1>e, <2>0, <3>1, <3>3
  <2> QED BY <1>10, <2>0, <2>3, <2>4 DEF Closed
<1>16. Z \in SUBSET D /\ \A x \in Z : ToSet(A[x]) \subseteq Z
  <2>1. Closed(s, D) \subseteq D
    BY DEF Closed
  <2>2. \A x \in Closed(s, D) : ToSet(A[x]) \subseteq Closed(s, D)
    BY <1>0 DEF ClosedIsClosed
  <2> QED BY <1>11, <1>15, <2>1, <2>2
<1>17. ASSUME NEW x \in P PROVE Reaches(D, A, n, x) /\ Reaches(D, A, x, n)
  <2>1. Reaches(D, A, n, x)
    <3>1. top \in DOMAIN s.frames /\ x \in Open(s) /\ s.index[x] >= s.index[n]
      BY <1>10, <1>11, <1>a
    <3> QED BY <1>0, <3>1 DEF OpenIsConnected
  <2>2. PICK i \in DOMAIN s.frames : /\ s.index[s.frames[i].node] <= s.index[x]
                                     /\ Reaches(D, A, x, s.frames[i].node)
    BY <1>0, <1>11 DEF OpenIsConnected
  <2>3. s.frames[i].node \in Z
    BY <1>16, <2>2 DEF Reaches
  <2>4. s.frames[i].node \in Open(s)
    BY <1>0 DEF FramesAreOpen
  <2>5. s.frames[i].node \in P
    BY <2>3, <2>4 DEF Closed
  <2>6. i = top
    <3>1. ASSUME i \in 1 .. top - 1 PROVE FALSE
      <4>1. s.index[s.frames[i].node] < s.index[n] /\ s.index[s.frames[i].node] >= s.index[n]
        BY <1>10, <1>c, <2>5, <3>1
      <4>2. s.frames[i].node \in D
        BY <1>11, <2>5
      <4> QED BY <1>b, <1>e, <4>1, <4>2
    <3> QED BY <1>a, <3>1
  <2> QED BY <2>1, <2>2, <2>6
<1>18. ASSUME NEW x \in P PROVE P = ClassOf(D, A, x)
  <2>1. ASSUME NEW y \in P PROVE y \in ClassOf(D, A, x)
    <3>1. Reaches(D, A, x, y) /\ Reaches(D, A, y, x)
      BY <1>17, ReachIsAPreorder
    <3> QED BY <1>11, <3>1 DEF ClassOf
  <2>2. ASSUME NEW y \in ClassOf(D, A, x) PROVE y \in P
    <3>1. y \in D /\ Reaches(D, A, x, y) /\ Reaches(D, A, y, x)
      BY DEF ClassOf
    <3>2. y \in Z
      BY <1>16, <3>1 DEF Reaches
    <3>3. ASSUME y \in Closed(s, D) PROVE FALSE
      <4>1. Closed(s, D) \in SUBSET D
            /\ \A z \in Closed(s, D) : ToSet(A[z]) \subseteq Closed(s, D)
        BY <1>0 DEF Closed, ClosedIsClosed
      <4>2. x \in Closed(s, D)
        BY <3>1, <3>3, <4>1 DEF Reaches
      <4> QED BY <1>13, <4>2
    <3> QED BY <3>2, <3>3
  <2> QED BY <2>1, <2>2
<1> HIDE DEF Z
<1>19. ClosedIsClosed(t, D, A)
  BY <1>14, <1>16 DEF ClosedIsClosed
<1>20. FoundAreClasses(t, D, A)
  <2>1. \A k \in DOMAIN s.found : ToSet(s.found[k]) \subseteq Closed(s, D)
    <3>1. \A k \in DOMAIN s.found : ToSet(s.found[k]) \subseteq D
      BY <1>1 DEF ToSet
    <3> QED BY <1>0, <3>1 DEF FoundAreClasses
  <2>2. ToSet(t.found[Len(s.found) + 1]) = P
    BY <1>7 DEF P
  <2>3. ASSUME NEW x \in D
        PROVE  x \in Closed(t, D) <=> \E k \in DOMAIN t.found : x \in ToSet(t.found[k])
    <3>1. x \in Closed(s, D) <=> \E k \in DOMAIN s.found : x \in ToSet(s.found[k])
      BY <1>0 DEF FoundAreClasses
    <3> QED BY <1>7, <1>14, <2>2, <3>1 DEF Z
  <2>4. ASSUME NEW k \in DOMAIN t.found, NEW l \in DOMAIN t.found, k # l
        PROVE  ToSet(t.found[k]) \cap ToSet(t.found[l]) = {}
    <3>1. CASE k \in DOMAIN s.found /\ l \in DOMAIN s.found
      BY <1>0, <1>7, <2>4, <3>1 DEF FoundAreClasses
    <3>2. CASE k \in DOMAIN s.found /\ l = Len(s.found) + 1
      BY <1>7, <1>13, <2>1, <2>2, <3>2
    <3>3. CASE k = Len(s.found) + 1 /\ l \in DOMAIN s.found
      BY <1>7, <1>13, <2>1, <2>2, <3>3
    <3> QED BY <1>7, <2>4, <3>1, <3>2, <3>3
  <2>5. ASSUME NEW k \in DOMAIN t.found
        PROVE  /\ t.found[k] # <<>> /\ IsInjective(t.found[k])
               /\ \A x \in ToSet(t.found[k]) : ToSet(t.found[k]) = ClassOf(D, A, x)
    <3>1. CASE k \in DOMAIN s.found
      BY <1>0, <1>7, <3>1 DEF FoundAreClasses
    <3>2. CASE k = Len(s.found) + 1
      BY <1>4, <1>7, <1>18, <2>2, <3>2
    <3> QED BY <1>7, <3>1, <3>2
  <2> QED BY <2>3, <2>4, <2>5 DEF FoundAreClasses
<1>21. \A i \in DOMAIN t.frames : /\ i \in DOMAIN s.frames /\ i \in 1 .. top - 1
                                  /\ t.frames[i] = s.frames[i]
  BY <1>5, <1>6, <1>a
<1>22. Numbered(t, D)
  <2>1. \A i, j \in DOMAIN t.stack : i < j => t.index[t.stack[i]] < t.index[t.stack[j]]
    <3>1. \A i \in DOMAIN t.stack : i \in DOMAIN s.stack /\ t.stack[i] = s.stack[i]
      <4>1. DOMAIN s.stack = 1 .. Len(s.stack) /\ Len(s.stack) \in Nat
        BY <1>1
      <4>2. DOMAIN t.stack = 1 .. at - 1 /\ \A i \in 1 .. at - 1 : t.stack[i] = s.stack[i]
        BY <1>4, <1>6
      <4> QED BY <1>2, <4>1, <4>2
    <3> QED BY <1>0, <1>6, <3>1 DEF Numbered
  <2> QED BY <1>0, <1>6, <1>11, <1>21, <2>1 DEF Numbered
<1>23. \A i \in 1 .. top - 1 : s.frames[i].node \in Open(t)
  <2> SUFFICES ASSUME NEW i \in 1 .. top - 1 PROVE s.frames[i].node \notin P
    BY <1>10, <1>c
  <2>1. s.index[s.frames[i].node] < s.index[n] /\ s.frames[i].node \in D
    BY <1>b, <1>c
  <2> QED BY <1>10, <1>b, <1>e, <2>1
<1>24. FramesAreOpen(t, A)
  BY <1>0, <1>21, <1>23 DEF FramesAreOpen
<1>25. EdgesAccountedFor(t, A, {})
  <2> SUFFICES ASSUME NEW x \in Open(t), NEW m \in ToSet(A[x]), ~Ahead(t, x, m)
               PROVE  LookedAt(t, x, m)
    BY DEF EdgesAccountedFor
  <2>0. x \in D /\ x \in Open(s) /\ s.index[x] < s.index[n]
    BY <1>10, <1>11
  <2>1. ~Ahead(s, x, m)
    <3>1. \A i \in DOMAIN s.frames : i # top => i \in DOMAIN t.frames
                                                /\ t.frames[i] = s.frames[i]
      BY <1>5, <1>6, <1>a
    <3> QED BY <1>f, <3>1 DEF Ahead
  <2>2. LookedAt(s, x, m)
    BY <1>0, <2>0, <2>1 DEF EdgesAccountedFor
  <2>3. ASSUME NEW i \in DOMAIN t.frames, Owns(t, i, x) PROVE Owns(s, i, x)
    <3>1. ASSUME i < Len(s.frames) PROVE s.index[x] < s.index[s.frames[i + 1].node]
      <4>1. CASE i = top - 1
        BY <1>a, <2>0, <4>1
      <4>2. CASE i # top - 1
        <5>1. i + 1 \in DOMAIN t.frames /\ i < Len(t.frames)
          BY <1>5, <1>6, <1>21, <1>a, <4>2
        <5> QED BY <1>6, <1>21, <2>3, <5>1 DEF Owns
      <4> QED BY <4>1, <4>2
    <3> QED BY <1>6, <1>21, <2>3, <3>1 DEF Owns
  <2> QED BY <1>6, <1>11, <1>21, <2>2, <2>3 DEF LookedAt
<1>26. OpenIsConnected(t, D, A)
  <2>1. ASSUME NEW i \in DOMAIN t.frames, NEW x \in Open(t),
               t.index[x] >= t.index[t.frames[i].node]
        PROVE  Reaches(D, A, t.frames[i].node, x)
    BY <1>0, <1>6, <1>11, <1>21, <2>1 DEF OpenIsConnected
  <2>2. ASSUME NEW x \in Open(t)
        PROVE  \E i \in DOMAIN t.frames : /\ t.index[t.frames[i].node] <= t.index[x]
                                          /\ Reaches(D, A, x, t.frames[i].node)
    <3>1. PICK i \in DOMAIN s.frames : /\ s.index[s.frames[i].node] <= s.index[x]
                                       /\ Reaches(D, A, x, s.frames[i].node)
      BY <1>0, <1>11 DEF OpenIsConnected
    <3>2. i # top
      BY <1>10, <1>11, <1>b, <1>e, <3>1
    <3>3. i \in DOMAIN t.frames /\ t.frames[i] = s.frames[i]
      BY <1>5, <1>6, <1>a, <3>2
    <3> QED BY <1>6, <3>1, <3>3
  <2>3. ASSUME NEW x \in Open(t)
        PROVE  \E w \in Open(t) : /\ t.low[x] = t.index[w] /\ t.index[w] <= t.index[x]
                                  /\ Reaches(D, A, x, w)
    <3>1. PICK w \in Open(s) : /\ s.low[x] = s.index[w] /\ s.index[w] <= s.index[x]
                               /\ Reaches(D, A, x, w)
      BY <1>0, <1>11 DEF OpenIsConnected
    <3>2. w \notin P
      <4>1. s.index[w] < s.index[n] /\ w \in D
        BY <1>10, <1>11, <1>b, <1>e, <3>1
      <4> QED BY <1>10, <1>b, <1>e, <4>1
    <3> QED BY <1>6, <1>10, <3>1, <3>2
  <2> QED BY <2>1, <2>2, <2>3 DEF OpenIsConnected
<1>27. SearchInv(t, D, A, L, {})
  BY <1>8, <1>19, <1>20, <1>22, <1>24, <1>25, <1>26 DEF SearchInv
<1> QED BY <1>6, <1>27 DEF rest

----------------------------------------------------------------------------
(* Tarjan's search: every turn keeps the invariant and leaves less to do *)

White(s, D) == {n \in D : s.index[n] = 0}
ToLook(s) == IF s.frames = <<>> THEN 0 ELSE Len(s.frames[Len(s.frames)].left)
Work(s, D, L) ==
  Cardinality(White(s, D)) * (2 * L + 2) + Len(s.frames) * (L + 1) + ToLook(s)
Over(s, D) == s.frames = <<>> /\ White(s, D) = {}

\* What Work is made of.
LEMMA WorkIsCounted ==
  ASSUME NEW D, NEW A, NEW L, IsGraph(D, A, L), NEW s \in SearchStates(D, L)
  PROVE  /\ IsFiniteSet(White(s, D)) /\ Cardinality(White(s, D)) \in Nat
         /\ Len(s.frames) \in Nat /\ ToLook(s) \in Nat /\ ToLook(s) <= L
         /\ s.frames = <<>> => Len(s.frames) = 0
         /\ s.frames # <<>> => Len(s.frames) \in DOMAIN s.frames
         /\ Work(s, D, L) \in Nat
<1>1. IsFiniteSet(White(s, D)) /\ Cardinality(White(s, D)) \in Nat
  <2>1. White(s, D) \subseteq D /\ IsFiniteSet(D)
    BY DEF White, IsGraph
  <2> QED BY <2>1, FS_Subset, FS_CardinalityType
<1>2. s.frames \in Seq(Frames(D, L)) /\ L \in Nat
  BY DEF SearchStates, IsGraph
<1>3. Len(s.frames) \in Nat /\ (s.frames = <<>> => Len(s.frames) = 0)
      /\ (s.frames # <<>> => Len(s.frames) \in DOMAIN s.frames)
  BY <1>2
<1>4. ToLook(s) \in Nat /\ ToLook(s) <= L
  <2>1. CASE s.frames = <<>>
    BY <1>2, <2>1 DEF ToLook
  <2>2. CASE s.frames # <<>>
    <3>1. s.frames[Len(s.frames)] \in Frames(D, L)
      BY <1>2, <1>3, <2>2
    <3>2. s.frames[Len(s.frames)].left \in Rows(D, L)
      BY <3>1 DEF Frames
    <3> QED BY <2>2, <3>2 DEF ToLook, Rows
  <2> QED BY <2>1, <2>2
<1>5. Work(s, D, L) \in Nat
  <2> DEFINE w == Cardinality(White(s, D))
             f == Len(s.frames)
             l == ToLook(s)
  <2>1. w \in Nat /\ f \in Nat /\ l \in Nat
    BY <1>1, <1>3, <1>4
  <2> HIDE DEF w, f, l
  <2>2. w * (2 * L + 2) \in Nat /\ f * (L + 1) \in Nat
    BY <1>2, <2>1
  <2>3. w * (2 * L + 2) + f * (L + 1) + l \in Nat
    BY <2>1, <2>2
  <2> QED BY <2>3 DEF Work, w, f, l
<1> QED BY <1>1, <1>3, <1>4, <1>5

LEMMA EnterWorks ==
  ASSUME NEW D, NEW A, NEW L, IsGraph(D, A, L), NEW s \in SearchStates(D, L), NEW n \in D,
         s.index[n] = 0, s.next > 0, NEW t, t = Enter(s, n, A)
  PROVE  Work(t, D, L) < Work(s, D, L)
<1>0. s \in SearchStates(D, L)
  OBVIOUS
<1>1. /\ t \in SearchStates(D, L)
      /\ t.index = [s.index EXCEPT ![n] = s.next]
      /\ t.low = [s.low EXCEPT ![n] = s.next]
      /\ t.next = s.next + 1
      /\ t.stack = Append(s.stack, n)
      /\ t.frames = Append(s.frames, [node |-> n, left |-> A[n]])
      /\ t.found = s.found
  BY <1>0, EnterDoes
<1>2. s.index \in [D -> Nat] /\ s.next \in Nat /\ s.frames \in Seq(Frames(D, L)) /\ L \in Nat
  BY DEF SearchStates, IsGraph
<1>3. White(t, D) = White(s, D) \ {n} /\ n \in White(s, D)
  BY <1>1, <1>2 DEF White
<1>4. IsFiniteSet(White(s, D)) /\ Cardinality(White(s, D)) \in Nat /\ Len(s.frames) \in Nat
      /\ ToLook(s) \in Nat
  BY WorkIsCounted
<1>5. ToLook(t) \in Nat /\ ToLook(t) <= L /\ Cardinality(White(t, D)) \in Nat
  BY <1>1, WorkIsCounted
<1>6. Cardinality(White(t, D)) = Cardinality(White(s, D)) - 1
  BY <1>3, <1>4, FS_RemoveElement
<1>7. [node |-> n, left |-> A[n]] \in Frames(D, L)
  BY DEF IsGraph, Frames
<1>8. Len(t.frames) = Len(s.frames) + 1
  BY <1>1, <1>2, <1>7, AppendGrows
<1> DEFINE w == Cardinality(White(s, D))
           v == Cardinality(White(t, D))
           f == Len(s.frames)
           l == ToLook(s)
           m == ToLook(t)
<1>9. /\ w \in Nat /\ v \in Nat /\ f \in Nat /\ l \in Nat /\ m \in Nat /\ m <= L /\ w = v + 1
      /\ Work(s, D, L) = w * (2 * L + 2) + f * (L + 1) + l
      /\ Work(t, D, L) = v * (2 * L + 2) + (f + 1) * (L + 1) + m
  BY <1>4, <1>5, <1>6, <1>8 DEF Work
<1> HIDE DEF w, v, f, l, m
<1>10. /\ w * (2 * L + 2) = v * (2 * L + 2) + (2 * L + 2)
       /\ (f + 1) * (L + 1) = f * (L + 1) + (L + 1)
       /\ v * (2 * L + 2) \in Nat /\ f * (L + 1) \in Nat
  BY <1>2, <1>9
<1> DEFINE x == v * (2 * L + 2)
           y == f * (L + 1)
<1>11. x \in Nat /\ y \in Nat
  BY <1>10
<1>12. Work(s, D, L) = x + (2 * L + 2) + y + l /\ Work(t, D, L) = x + (y + (L + 1)) + m
  BY <1>9, <1>10
<1> HIDE DEF x, y
<1> QED BY <1>2, <1>9, <1>11, <1>12

\* A frame that is done goes.
LEMMA LeaveWorks ==
  ASSUME NEW D, NEW A, NEW L, IsGraph(D, A, L), NEW s \in SearchStates(D, L),
         NEW t \in SearchStates(D, L), s.frames # <<>>, t.index = s.index,
         t.frames = Front(s.frames)
  PROVE  Work(t, D, L) < Work(s, D, L)
<1>1. White(t, D) = White(s, D)
  BY DEF White
<1>2. s.frames \in Seq(Frames(D, L)) /\ L \in Nat
  BY DEF SearchStates, IsGraph
<1>3. Len(t.frames) = Len(s.frames) - 1
  BY <1>2, FrontOf
<1>4. Cardinality(White(s, D)) \in Nat /\ Len(s.frames) \in Nat /\ ToLook(s) \in Nat
      /\ Len(s.frames) \in DOMAIN s.frames
  BY WorkIsCounted
<1>5. ToLook(t) \in Nat /\ ToLook(t) <= L /\ Len(t.frames) \in Nat
  BY WorkIsCounted
<1> DEFINE x == Cardinality(White(s, D)) * (2 * L + 2)
           f == Len(t.frames)
           y == f * (L + 1)
<1>6. x \in Nat /\ y \in Nat
  BY <1>2, <1>4, <1>5
<1>7. Len(s.frames) * (L + 1) = y + (L + 1)
  <2>1. Len(s.frames) = f + 1 /\ f \in Nat
    BY <1>3, <1>4, <1>5
  <2> HIDE DEF f
  <2> QED BY <1>2, <2>1
<1>8. Work(s, D, L) = x + (y + (L + 1)) + ToLook(s) /\ Work(t, D, L) = x + y + ToLook(t)
  BY <1>1, <1>7 DEF Work
<1> HIDE DEF x, y
<1> QED BY <1>2, <1>4, <1>5, <1>6, <1>8

LEMMA ProductsAreNatural ==
  ASSUME NEW a \in Nat, NEW b \in Nat PROVE a * b \in Nat
  OBVIOUS

\* A frame looks at its next edge: invariant and work.
LEMMA LookAtKeeps ==
  ASSUME NEW D, NEW A, NEW L, IsGraph(D, A, L), NEW s, SearchInv(s, D, A, L, {}),
         NEW top, top = Len(s.frames), s.frames # <<>>, s.frames[top].left # <<>>,
         NEW n, n = s.frames[top].node, NEW m, m = Head(s.frames[top].left),
         NEW u, u = Looked(s, top), NEW t, t = LookAt(s, m, A)
  PROVE  SearchInv(t, D, A, L, {}) /\ Work(t, D, L) < Work(s, D, L)
<1>0. /\ IsGraph(D, A, L) /\ SearchInv(s, D, A, L, {}) /\ top = Len(s.frames)
      /\ s.frames # <<>> /\ s.frames[top].left # <<>> /\ n = s.frames[top].node
      /\ m = Head(s.frames[top].left) /\ u = Looked(s, top)
  OBVIOUS
<1>1. /\ SearchInv(u, D, A, L, {<<n, m>>})
      /\ n \in D /\ m \in D /\ m \in ToSet(A[n])
      /\ u.index = s.index /\ u.low = s.low /\ u.next = s.next
      /\ u.stack = s.stack /\ u.found = s.found
      /\ Len(u.frames) = top /\ top \in DOMAIN s.frames /\ DOMAIN u.frames = DOMAIN s.frames
      /\ \A i \in DOMAIN s.frames : u.frames[i].node = s.frames[i].node
      /\ Len(u.frames[top].left) = Len(s.frames[top].left) - 1
  <2>1. EdgeTaken(s, u, D, A, L, top, n, m)
    BY <1>0, LookKeeps
  <2> QED BY <2>1 DEF EdgeTaken
<1>2. t = IF s.index[m] = 0 THEN Enter(u, m, A)
          ELSE IF EarlierOpen(s, m) THEN Lowered(u, n, m)
          ELSE u
  BY <1>1 DEF LookAt, Looked, Lowered
<1>3. EarlierOpen(s, m) <=> m \in Open(s)
  <2>1. s.stack \in Seq(D)
    BY DEF SearchInv, SearchStates
  <2>2. DOMAIN s.stack = 1 .. Len(s.stack)
    BY <2>1
  <2> QED BY <2>2 DEF EarlierOpen, Contains, Open, ToSet
<1>4. u.frames # <<>>
  BY <1>1
<1>5. s \in SearchStates(D, L) /\ u \in SearchStates(D, L) /\ L \in Nat
  BY <1>1 DEF SearchInv, IsGraph
<1>6. Work(u, D, L) < Work(s, D, L) /\ Work(u, D, L) \in Nat /\ Work(s, D, L) \in Nat
  <2>1. White(u, D) = White(s, D)
    BY <1>1 DEF White
  <2>2. ToLook(u) = ToLook(s) - 1
    BY <1>1, <1>4 DEF ToLook
  <2>3. Work(u, D, L) \in Nat /\ Work(s, D, L) \in Nat /\ ToLook(s) \in Nat
    BY <1>5, WorkIsCounted
  <2>4. Cardinality(White(s, D)) \in Nat /\ top \in Nat
    BY <1>5, WorkIsCounted
  <2> DEFINE z == Cardinality(White(s, D)) * (2 * L + 2) + top * (L + 1)
  <2>5. z \in Nat
    <3> DEFINE w == Cardinality(White(s, D))
    <3>1. w * (2 * L + 2) \in Nat /\ top * (L + 1) \in Nat
      <4>1. w \in Nat
        BY <2>4
      <4> HIDE DEF w
      <4>2. 2 * L + 2 \in Nat /\ L + 1 \in Nat
        BY <1>5
      <4> QED BY <2>4, <4>1, <4>2, ProductsAreNatural
    <3> HIDE DEF w
    <3> QED BY <3>1 DEF w
  <2>6. Work(s, D, L) = z + ToLook(s) /\ Work(u, D, L) = z + ToLook(u)
    BY <1>1, <2>1 DEF Work
  <2> HIDE DEF z
  <2> QED BY <2>2, <2>3, <2>5, <2>6
<1>7. CASE s.index[m] = 0
  <2>1. \A i \in DOMAIN u.frames : Reaches(D, A, u.frames[i].node, m)
    <3> SUFFICES ASSUME NEW i \in DOMAIN s.frames PROVE Reaches(D, A, s.frames[i].node, m)
      BY <1>1
    <3>1. OpenIsConnected(s, D, A) /\ Numbered(s, D)
      BY DEF SearchInv
    <3>2. s.index[n] >= s.index[s.frames[i].node] /\ n \in Open(s)
      <4>1. /\ top \in Nat /\ DOMAIN s.frames = 1 .. top /\ n \in Open(s)
            /\ \A j \in 1 .. top - 1 : /\ s.frames[j].node \in Open(s)
                                       /\ s.index[s.frames[j].node] < s.index[n]
            /\ s.index \in [D -> Nat] /\ Open(s) \subseteq D
        BY TopFrame
      <4>2. CASE i \in 1 .. top - 1
        <5>1. s.frames[i].node \in D /\ s.index[s.frames[i].node] < s.index[n]
          BY <4>1, <4>2
        <5> QED BY <1>1, <4>1, <5>1
      <4>3. CASE i = top
        <5>1. s.index[n] \in Nat
          BY <1>1, <4>1
        <5> QED BY <4>1, <4>3, <5>1
      <4> QED BY <4>1, <4>2, <4>3
    <3>3. Reaches(D, A, s.frames[i].node, n)
      BY <3>1, <3>2 DEF OpenIsConnected
    <3>4. Reaches(D, A, n, m)
      BY <1>1, EdgesReach
    <3> QED BY <3>3, <3>4, ReachIsAPreorder
  <2>2. t = Enter(u, m, A) /\ u.index[m] = 0 /\ u.next > 0
    BY <1>1, <1>2, <1>7 DEF SearchInv, Numbered
  <2>3. \A e \in {<<n, m>>} : e[2] = m
    OBVIOUS
  <2>4. SearchInv(t, D, A, L, {})
    BY <1>1, <2>1, <2>2, <2>3, EnterKeeps
  <2>5. Work(t, D, L) < Work(u, D, L)
    BY <1>1, <1>5, <2>2, EnterWorks
  <2>6. Work(t, D, L) \in Nat
    <3>1. t \in SearchStates(D, L)
      BY <2>4 DEF SearchInv
    <3> QED BY <3>1, WorkIsCounted
  <2> QED BY <1>6, <2>4, <2>5, <2>6
<1>8. CASE s.index[m] # 0 /\ m \in Open(s)
  <2>1. t = Lowered(u, n, m)
    BY <1>2, <1>3, <1>8
  <2>2. n = u.frames[Len(u.frames)].node /\ m \in Open(u)
    BY <1>1, <1>8 DEF Open
  <2>3. SearchInv(t, D, A, L, {}) /\ t.frames = u.frames /\ t.index = u.index
    BY <1>1, <1>4, <2>1, <2>2, LowerKeeps
  <2>4. Work(t, D, L) = Work(u, D, L)
    BY <2>3 DEF Work, White, ToLook
  <2> QED BY <1>6, <2>3, <2>4
<1>9. CASE s.index[m] # 0 /\ m \notin Open(s)
  <2>1. t = u /\ u.index[m] # 0 /\ m \notin Open(u)
    BY <1>1, <1>2, <1>3, <1>9 DEF Open
  <2>2. u.index[m] > 0
    BY <1>1, <1>5, <2>1 DEF SearchStates
  <2>3. LookedAt(u, n, m)
    BY <2>1, <2>2 DEF LookedAt
  <2>4. EdgesAccountedFor(u, A, {<<n, m>>})
    BY <1>1 DEF SearchInv
  <2>5. EdgesAccountedFor(u, A, {})
    BY <2>3, <2>4 DEF EdgesAccountedFor
  <2>6. SearchInv(u, D, A, L, {})
    BY <1>1, <2>5 DEF SearchInv
  <2> QED BY <1>6, <2>1, <2>6
<1> QED BY <1>7, <1>8, <1>9

\* Every turn of the search keeps the invariant and leaves less to do, until
\* nothing is left.
LEMMA TurnKeeps ==
  ASSUME NEW D, NEW A, NEW L, IsGraph(D, A, L), NEW s, SearchInv(s, D, A, L, {}),
         NEW t, t = Turn(s, A)
  PROVE  /\ SearchInv(t, D, A, L, {})
         /\ Over(s, D) => t = s
         /\ ~Over(s, D) => Work(t, D, L) < Work(s, D, L)
<1>1. DOMAIN A = D
  BY DEF IsGraph
<1>2. s \in SearchStates(D, L)
  BY DEF SearchInv
<1>3. CASE s.frames # <<>>
  <2>1. Last(s.frames) = s.frames[Len(s.frames)]
    BY DEF Last
  <2>2. t = IF s.frames[Len(s.frames)].left = <<>> THEN Leave(s)
            ELSE LookAt(s, Head(s.frames[Len(s.frames)].left), A)
    BY <1>3, <2>1 DEF Turn
  <2>3. CASE s.frames[Len(s.frames)].left # <<>>
    <3>1. t = LookAt(s, Head(s.frames[Len(s.frames)].left), A)
      BY <2>2, <2>3
    <3>2. \A top, n, m, u :
            /\ top = Len(s.frames) /\ n = s.frames[top].node /\ m = Head(s.frames[top].left)
            /\ u = Looked(s, top)
            => SearchInv(t, D, A, L, {}) /\ Work(t, D, L) < Work(s, D, L)
      BY <1>3, <2>3, <3>1, LookAtKeeps
    <3>3. SearchInv(t, D, A, L, {}) /\ Work(t, D, L) < Work(s, D, L)
      BY ONLY <3>2
    <3> QED BY <1>3, <3>3 DEF Over
  <2>4. CASE s.frames[Len(s.frames)].left = <<>>
    <3>1. t = Leave(s)
      BY <2>2, <2>4
    <3> DEFINE n == s.frames[Len(s.frames)].node
    <3>2. SearchInv(t, D, A, L, {}) /\ t.index = s.index /\ t.frames = Front(s.frames)
      <4>1. CASE s.low[n] = s.index[n]
        BY <1>3, <2>4, <3>1, <4>1, LeaveRootKeeps
      <4>2. CASE s.low[n] # s.index[n]
        BY <1>3, <2>4, <3>1, <4>2, LeaveOpenKeeps
      <4> QED BY <4>1, <4>2
    <3>3. t \in SearchStates(D, L)
      BY <3>2 DEF SearchInv
    <3>4. Work(t, D, L) < Work(s, D, L)
      BY <1>2, <1>3, <3>2, <3>3, LeaveWorks
    <3> QED BY <1>3, <3>2, <3>4 DEF Over
  <2> QED BY <2>3, <2>4
<1>4. CASE s.frames = <<>>
  <2>1. White(s, D) = {x \in DOMAIN A : s.index[x] = 0}
    BY <1>1 DEF White
  <2>2. t = IF White(s, D) # {} THEN Enter(s, LeastOf(White(s, D)), A) ELSE s
    BY <1>4, <2>1 DEF Turn
  <2>3. CASE White(s, D) = {}
    BY <1>4, <2>2, <2>3 DEF Over
  <2>4. CASE White(s, D) # {}
    <3> DEFINE n == LeastOf(White(s, D))
    <3>1. n \in White(s, D)
      <4>1. White(s, D) \in SUBSET Nat
        BY DEF White, IsGraph
      <4>2. \E k \in White(s, D) : \A j \in White(s, D) : k <= j
        BY <2>4, <4>1, LeastMark
      <4> QED BY <4>2 DEF LeastOf
    <3>2. n \in D /\ s.index[n] = 0 /\ t = Enter(s, n, A) /\ s.next > 0
      BY <2>2, <2>4, <3>1 DEF White, SearchInv, Numbered
    <3>3. \A i \in DOMAIN s.frames : Reaches(D, A, s.frames[i].node, n)
      BY <1>4
    <3> HIDE DEF n
    <3>4. SearchInv(t, D, A, L, {})
      BY <3>2, <3>3, EnterKeeps
    <3>5. Work(t, D, L) < Work(s, D, L)
      BY <1>2, <3>2, EnterWorks
    <3> QED BY <2>4, <3>4, <3>5 DEF Over
  <2> QED BY <2>3, <2>4
<1> QED BY <1>3, <1>4

Start(D) ==
  [index |-> [n \in D |-> 0], low |-> [n \in D |-> 0], next |-> 1, stack |-> <<>>,
   frames |-> <<>>, found |-> <<>>]

LEMMA SearchStarts ==
  ASSUME NEW D, NEW A, NEW L, IsGraph(D, A, L)
  PROVE  /\ SearchInv(Start(D), D, A, L, {})
         /\ Work(Start(D), D, L) = Cardinality(D) * (2 * L + 2)
<1> DEFINE s == Start(D)
<1>1. /\ s \in SearchStates(D, L) /\ s.frames = <<>> /\ s.stack = <<>> /\ s.found = <<>>
      /\ s.next = 1 /\ \A n \in D : s.index[n] = 0
  BY DEF Start, SearchStates
<1> HIDE DEF s
<1>2. Open(s) = {} /\ Closed(s, D) = {}
  BY <1>1 DEF Open, Closed, ToSet
<1>3. Numbered(s, D) /\ FramesAreOpen(s, A) /\ EdgesAccountedFor(s, A, {})
  BY <1>1, <1>2 DEF Numbered, FramesAreOpen, EdgesAccountedFor
<1>4. ClosedIsClosed(s, D, A) /\ OpenIsConnected(s, D, A) /\ FoundAreClasses(s, D, A)
  BY <1>1, <1>2 DEF ClosedIsClosed, OpenIsConnected, FoundAreClasses
<1>5. White(s, D) = D /\ ToLook(s) = 0 /\ Len(s.frames) = 0
  BY <1>1 DEF White, ToLook
<1>6. Work(s, D, L) = Cardinality(D) * (2 * L + 2)
  <2>1. L \in Nat /\ Cardinality(D) \in Nat
    BY FS_CardinalityType DEF IsGraph
  <2> DEFINE x == Cardinality(D) * (2 * L + 2)
  <2>2. x \in Nat
    <3> DEFINE w == Cardinality(D)
    <3>1. w \in Nat
      BY <2>1
    <3> HIDE DEF w
    <3>2. w * (2 * L + 2) \in Nat
      BY <2>1, <3>1
    <3> QED BY <3>2 DEF w
  <2>3. Work(s, D, L) = x + 0 * (L + 1) + 0
    BY <1>5 DEF Work
  <2> HIDE DEF x
  <2>4. Work(s, D, L) = x
    BY <2>1, <2>2, <2>3
  <2> QED BY <2>4 DEF x
<1>7. SearchInv(s, D, A, L, {})
  BY <1>1, <1>3, <1>4 DEF SearchInv
<1> QED BY <1>6, <1>7 DEF s

\* When nothing is left, what was found is the classes of the graph.
LEMMA OverIsDone ==
  ASSUME NEW D, NEW A, NEW L, IsGraph(D, A, L), NEW s, SearchInv(s, D, A, L, {}), Over(s, D)
  PROVE  \A n \in D : \E k \in DOMAIN s.found : n \in ToSet(s.found[k])
<1>1. s.frames = <<>> /\ White(s, D) = {} /\ s \in SearchStates(D, L)
      /\ OpenIsConnected(s, D, A) /\ FoundAreClasses(s, D, A)
  BY DEF Over, SearchInv
<1>2. Open(s) = {}
  BY <1>1 DEF OpenIsConnected
<1>3. \A n \in D : s.index[n] \in Nat /\ s.index[n] # 0
  BY <1>1 DEF White, SearchStates
<1>4. \A n \in D : n \in Closed(s, D)
  BY <1>2, <1>3 DEF Closed
<1> QED BY <1>1, <1>4 DEF FoundAreClasses

\* The loop ends before it has made as many turns as there was work.
LEMMA SearchEnds ==
  ASSUME NEW D, NEW A, NEW L, IsGraph(D, A, L),
         NEW run, run = [k \in Nat |-> IF k = 0 THEN Start(D) ELSE Turn(run[k - 1], A)]
  PROVE  LET n == Cardinality(D) * (2 * L + 2)
         IN SearchInv(run[n], D, A, L, {}) /\ Over(run[n], D)
<1> DEFINE n == Cardinality(D) * (2 * L + 2)
           P == {k \in Nat : /\ SearchInv(run[k], D, A, L, {})
                             /\ Over(run[k], D) \/ Work(run[k], D, L) + k <= n}
<1>1. \A s : SearchInv(s, D, A, L, {}) => Work(s, D, L) \in Nat
  BY WorkIsCounted DEF SearchInv
<1>2. SearchInv(run[0], D, A, L, {}) /\ Work(run[0], D, L) = n
  <2>1. run[0] = Start(D)
    OBVIOUS
  <2> QED BY <2>1, SearchStarts
<1>3. n \in Nat
  BY <1>1, <1>2
<1> HIDE DEF n
<1>4. 0 \in P
  BY <1>2, <1>3
<1>5. ASSUME NEW k \in P PROVE k + 1 \in P
  <2> DEFINE s == run[k]
             t == run[k + 1]
  <2>1. t = Turn(s, A)
    <3>1. k + 1 \in Nat /\ k + 1 # 0 /\ (k + 1) - 1 = k
      OBVIOUS
    <3> QED BY <3>1
  <2>2. SearchInv(s, D, A, L, {}) /\ (Over(s, D) \/ Work(s, D, L) + k <= n)
    OBVIOUS
  <2> HIDE DEF s, t
  <2>3. /\ SearchInv(t, D, A, L, {}) /\ (Over(s, D) => t = s)
        /\ (~Over(s, D) => Work(t, D, L) < Work(s, D, L))
    BY <2>1, <2>2, TurnKeeps
  <2>4. Work(s, D, L) \in Nat /\ Work(t, D, L) \in Nat
    BY <1>1, <2>2, <2>3
  <2>5. Over(t, D) \/ Work(t, D, L) + (k + 1) <= n
    BY <1>3, <2>2, <2>3, <2>4
  <2> QED BY <2>3, <2>5 DEF t
<1>6. P \in SUBSET Nat
  OBVIOUS
<1> HIDE DEF P
<1>7. n \in P
  BY <1>3, <1>4, <1>5, <1>6, FromThereOn
<1>8. SearchInv(run[n], D, A, L, {}) /\ (Over(run[n], D) \/ Work(run[n], D, L) + n <= n)
  BY <1>7 DEF P
<1>9. Over(run[n], D)
  <2> SUFFICES ASSUME ~Over(run[n], D) PROVE FALSE
    OBVIOUS
  <2> DEFINE t == Turn(run[n], A)
  <2>1. SearchInv(t, D, A, L, {}) /\ Work(t, D, L) < Work(run[n], D, L)
    BY <1>8, TurnKeeps
  <2>2. Work(t, D, L) \in Nat /\ Work(run[n], D, L) \in Nat
    BY <1>1, <1>8, <2>1
  <2> QED BY <1>3, <1>8, <2>1, <2>2
<1> QED BY <1>8, <1>9 DEF n

\* tarjanScc: the components of the adjacency are the classes of its graph,
\* each listed once, for every graph of nodes that can be seen.
THEOREM ComponentsAreClasses ==
  ASSUME GraphIsTyped, NEW D, D = SeenNodes, NEW A, A = Adjacency,
         NEW L, L = Cardinality(Links("supports")), NEW found, found = Components(A)
  PROVE  /\ IsGraph(D, A, L)
         /\ found \in Seq(Seq(D))
         /\ \A n \in D : \E k \in DOMAIN found : n \in ToSet(found[k])
         /\ \A k, l \in DOMAIN found :
              k # l => ToSet(found[k]) \cap ToSet(found[l]) = {}
         /\ \A k \in DOMAIN found :
              /\ found[k] # <<>> /\ IsInjective(found[k])
              /\ \A n \in ToSet(found[k]) : ToSet(found[k]) = ClassOf(D, A, n)
<1>1. IsGraph(D, A, L)
  <2>1. A \in [D -> Seq(D)] /\ \A n \in D : Len(A[n]) <= L
    BY AdjacencyIsRight
  <2>2. A \in [D -> Rows(D, L)]
    BY <2>1 DEF Rows
  <2> QED BY <2>2, AdjacencyIsRight DEF IsGraph
<1> DEFINE G == {s \in SearchStates(D, L) : SearchInv(s, D, A, L, {})}
           F == [s \in G |-> Turn(s, A)]
           Steps(f) == f = [k \in Nat |-> IF k = 0 THEN Start(D) ELSE Turn(f[k - 1], A)]
<1>2. \E f : Steps(f)
  <2>1. \A s \in G : Turn(s, A) \in G
    BY <1>1, TurnKeeps DEF SearchInv
  <2>2. F \in [G -> G] /\ Start(D) \in G
    BY <1>1, <2>1, SearchStarts DEF SearchInv
  <2> HIDE DEF G, F
  <2>3. PICK g \in [Nat -> G] : g = [k \in Nat |-> IF k = 0 THEN Start(D) ELSE F[g[k - 1]]]
    BY <2>2, LoopRuns DEF RunOf
  <2>4. ASSUME NEW k \in Nat PROVE g[k] = IF k = 0 THEN Start(D) ELSE Turn(g[k - 1], A)
    <3>1. CASE k = 0
      BY <2>3, <3>1
    <3>2. CASE k # 0
      <4>1. k - 1 \in Nat
        BY <3>2
      <4>2. g[k - 1] \in G
        BY <2>3, <4>1
      <4>3. F[g[k - 1]] = Turn(g[k - 1], A)
        BY <4>2 DEF F
      <4> QED BY <2>3, <3>2, <4>3
    <3> QED BY <3>1, <3>2
  <2>5. Steps(g)
    BY <2>3, <2>4
  <2> HIDE DEF Steps
  <2> QED BY <2>5
<1> DEFINE run == CHOOSE f : Steps(f)
<1>3. Steps(run)
  <2> HIDE DEF Steps
  <2> QED BY <1>2
<1>4. DOMAIN A = D
  BY <1>1 DEF IsGraph
<1>5. Turns = Cardinality(D) * (2 * L + 2)
  BY DEF Turns, SeenNodes
<1>6. found = run[Turns].found
  BY <1>4 DEF Components, Start
<1> DEFINE s == run[Turns]
<1>7. SearchInv(s, D, A, L, {}) /\ Over(s, D)
  <2>1. run = [k \in Nat |-> IF k = 0 THEN Start(D) ELSE Turn(run[k - 1], A)]
    BY <1>3
  <2> HIDE DEF run
  <2> QED BY <1>1, <1>5, <2>1, SearchEnds
<1> HIDE DEF run
<1>8. found = s.found
  BY <1>6
<1> HIDE DEF s
<1>9. \A n \in D : \E k \in DOMAIN found : n \in ToSet(found[k])
  BY <1>1, <1>7, <1>8, OverIsDone
<1>10. found \in Seq(Seq(D)) /\ FoundAreClasses(s, D, A)
  BY <1>7, <1>8 DEF SearchInv, SearchStates
<1> QED BY <1>1, <1>8, <1>9, <1>10 DEF FoundAreClasses

----------------------------------------------------------------------------
(* Walks *)

\* A node of a larger class has a successor in the class other than itself.
LEMMA ClassesHaveEdges ==
  ASSUME NEW D, NEW A, NEW L, IsGraph(D, A, L), NEW n \in D, NEW y \in ClassOf(D, A, n), y # n
  PROVE  \E m \in ToSet(A[n]) : m \in ClassOf(D, A, n) /\ m # n
<1> SUFFICES ASSUME \A m \in ToSet(A[n]) : m \in ClassOf(D, A, n) => m = n PROVE FALSE
  OBVIOUS
<1> DEFINE S == {n} \cup {x \in D : ~Reaches(D, A, x, n)}
<1>1. ASSUME NEW x \in D, NEW m \in ToSet(A[x]) PROVE m \in D
  <2>1. A[x] \in Seq(D)
    BY DEF IsGraph, Rows
  <2> QED BY <2>1 DEF ToSet
<1>2. ASSUME NEW x \in S, NEW m \in ToSet(A[x]) PROVE m \in S
  <2>1. x \in D /\ m \in D /\ Reaches(D, A, x, m)
    BY <1>1, EdgesReach
  <2>2. CASE x = n
    <3> SUFFICES ASSUME m # n, Reaches(D, A, m, n) PROVE FALSE
      BY <2>1
    <3>1. m \in ClassOf(D, A, n)
      BY <2>1, <2>2 DEF ClassOf
    <3> QED BY <2>2, <3>1
  <2>3. CASE ~Reaches(D, A, x, n)
    <3>1. ~Reaches(D, A, m, n)
      BY <2>1, <2>3, ReachIsAPreorder
    <3> QED BY <2>1, <3>1
  <2> QED BY <2>2, <2>3
<1>3. S \in SUBSET D /\ \A x \in S : ToSet(A[x]) \subseteq S
  BY <1>2
<1>4. Reaches(D, A, n, y) /\ Reaches(D, A, y, n)
  BY DEF ClassOf
<1>5. y \in S
  <2>1. n \in S
    OBVIOUS
  <2> HIDE DEF S
  <2> QED BY <1>3, <1>4, <2>1 DEF Reaches
<1> QED BY <1>4, <1>5

\* The paths a walk through component c goes through.
Paths(c, A) ==
  {p \in Seq(ToSet(c)) :
     /\ Len(p) >= 1 /\ p[1] = c[1]
     /\ Len(p) >= 2 => p[2] \in ToSet(A[c[1]]) /\ p[2] # c[1]}

\* One step of a walk stays in the component, and leaves its first node.
LEMMA OnwardKeeps ==
  ASSUME NEW D, NEW A, NEW L, IsGraph(D, A, L), NEW c \in Seq(D), c # <<>>,
         \A n \in ToSet(c) : ToSet(c) = ClassOf(D, A, n),
         NEW p \in Paths(c, A), NEW q, q = Onward(p, c, A)
  PROVE  /\ q \in Paths(c, A) /\ Len(q) >= Len(p)
         /\ (\E y \in ToSet(c) : y # c[1]) => Len(q) >= 2
<1> DEFINE ways == A[Last(p)]
           open == {k \in DOMAIN ways : Contains(c, ways[k]) /\ ~Contains(p, ways[k])}
<1>1. /\ p \in Seq(ToSet(c)) /\ Len(p) >= 1 /\ p[1] = c[1] /\ Len(p) \in Nat
      /\ Len(p) >= 2 => p[2] \in ToSet(A[c[1]]) /\ p[2] # c[1]
  BY DEF Paths
<1>2. ToSet(c) \subseteq D /\ c[1] \in ToSet(c)
  BY DEF ToSet
<1>3. Last(p) \in ToSet(c) /\ ways \in Seq(D)
  <2>1. Last(p) \in ToSet(c)
    BY <1>1 DEF Last
  <2> QED BY <1>2, <2>1 DEF IsGraph, Rows
<1>4. q = IF open = {} THEN p ELSE Append(p, ways[LeastOf(open)])
  BY DEF Onward
<1>5. CASE open = {}
  <2>1. q = p
    BY <1>4, <1>5
  <2>2. ASSUME NEW y \in ToSet(c), y # c[1], Len(p) = 1 PROVE FALSE
    <3>1. Last(p) = c[1]
      BY <1>1, <2>2 DEF Last
    <3>2. y \in ClassOf(D, A, c[1])
      BY <1>2
    <3>3. PICK m \in ToSet(A[c[1]]) : m \in ClassOf(D, A, c[1]) /\ m # c[1]
      BY <1>2, <2>2, <3>2, ClassesHaveEdges
    <3>4. PICK k \in DOMAIN ways : ways[k] = m
      BY <3>1 DEF ToSet
    <3>5. Contains(c, m)
      <4>1. m \in ToSet(c)
        BY <1>2, <3>3
      <4> QED BY <4>1 DEF ToSet, Contains
    <3>6. ~Contains(p, m)
      BY <1>1, <2>2, <3>3 DEF Contains
    <3> QED BY <1>5, <3>4, <3>5, <3>6
  <2>3. ASSUME NEW y \in ToSet(c), y # c[1] PROVE Len(p) >= 2
    <3>1. Len(p) # 1
      BY <2>2, <2>3
    <3>2. Len(p) \in Nat /\ Len(p) # 0
      BY <1>1
    <3> QED BY ONLY <3>1, <3>2, OneOrMore
  <2> QED BY <1>1, <2>1, <2>3
<1>6. CASE open # {}
  <2> DEFINE k == LeastOf(open)
             m == ways[k]
  <2>1. k \in open
    <3>1. open \in SUBSET Nat
      BY <1>3
    <3> HIDE DEF open
    <3>2. \E i \in open : \A j \in open : i <= j
      BY <1>6, <3>1, LeastMark
    <3> QED BY <3>2 DEF LeastOf
  <2>2. k \in DOMAIN ways /\ Contains(c, m) /\ ~Contains(p, m)
    BY <2>1
  <2>3. q = Append(p, m)
    BY <1>4, <1>6
  <2>4. m \in ToSet(c) /\ m \in ToSet(ways) /\ m # c[1]
    <3> HIDE DEF k
    <3>1. m \in ToSet(c) /\ m \in ToSet(ways)
      BY <2>2 DEF Contains, ToSet
    <3>2. m # p[1]
      BY <1>1, <2>2 DEF Contains
    <3> QED BY <1>1, <3>1, <3>2
  <2>5. Len(p) = 1 => ways = A[c[1]]
    BY <1>1 DEF Last
  <2> HIDE DEF open, k, m, ways
  <2>6. /\ q \in Seq(ToSet(c)) /\ Len(q) = Len(p) + 1
        /\ \A i \in 1 .. Len(p) : q[i] = p[i]
        /\ q[Len(p) + 1] = m
    BY <1>1, <2>3, <2>4, AppendProperties
  <2>7. q[1] = c[1] /\ Len(q) >= 2
    BY <1>1, <2>6
  <2>8. q[2] \in ToSet(A[c[1]]) /\ q[2] # c[1]
    <3>1. CASE Len(p) = 1
      BY <2>4, <2>5, <2>6, <3>1
    <3>2. CASE Len(p) >= 2
      <4>1. q[2] = p[2]
        BY <1>1, <2>6, <3>2
      <4> QED BY <1>1, <3>2, <4>1
    <3>3. Len(p) \in Nat /\ Len(p) # 0
      BY <1>1
    <3>4. Len(p) = 1 \/ Len(p) >= 2
      BY ONLY <3>3, OneOrMore
    <3> QED BY <3>1, <3>2, <3>4
  <2>9. q \in Paths(c, A)
    BY <2>6, <2>7, <2>8 DEF Paths
  <2> QED BY <1>1, <2>6, <2>7, <2>9
<1> QED BY <1>5, <1>6

\* walkSccInAdjacencyOrder: the walk stays in its component, starts at its first
\* node and, if there are others, goes on to one of them along an edge.
LEMMA WalkIsAPath ==
  ASSUME NEW D, NEW A, NEW L, IsGraph(D, A, L), NEW c \in Seq(D), c # <<>>,
         \A n \in ToSet(c) : ToSet(c) = ClassOf(D, A, n),
         NEW p, p = Walk(c, A)
  PROVE  p \in Paths(c, A) /\ ((\E y \in ToSet(c) : y # c[1]) => Len(p) >= 2)
<1> DEFINE W == Paths(c, A)
           F == [q \in W |-> Onward(q, c, A)]
           Steps(f) == f = [k \in Nat |-> IF k = 0 THEN <<c[1]>> ELSE Onward(f[k - 1], c, A)]
<1>1. <<c[1]>> \in W
  <2>1. c[1] \in ToSet(c)
    BY DEF ToSet
  <2> QED BY <2>1 DEF Paths
<1>2. \A q \in W : Onward(q, c, A) \in W
  BY OnwardKeeps
<1>3. \E f : Steps(f)
  <2>1. F \in [W -> W]
    BY <1>2
  <2> DEFINE first == <<c[1]>>
  <2> HIDE DEF W, F, first
  <2>0. first \in W
    BY <1>1 DEF first
  <2>2. PICK g \in [Nat -> W] : RunOf(g, first, F)
    BY <2>0, <2>1, LoopRuns
  <2>a. g = [k \in Nat |-> IF k = 0 THEN first ELSE F[g[k - 1]]]
    BY <2>2 DEF RunOf
  <2>3. ASSUME NEW k \in Nat PROVE g[k] = IF k = 0 THEN first ELSE Onward(g[k - 1], c, A)
    <3>1. CASE k = 0
      BY <2>a, <3>1
    <3>2. CASE k # 0
      <4>1. k - 1 \in Nat
        BY <3>2
      <4>2. g[k - 1] \in W
        BY <2>2, <4>1
      <4>3. F[g[k - 1]] = Onward(g[k - 1], c, A)
        BY <4>2 DEF F
      <4> QED BY <2>a, <3>2, <4>3
    <3> QED BY <3>1, <3>2
  <2>4. Steps(g)
    BY <2>a, <2>3 DEF first
  <2> HIDE DEF Steps
  <2> QED BY <2>4
<1> DEFINE walk == CHOOSE f : Steps(f)
<1>4. Steps(walk)
  <2> HIDE DEF Steps
  <2> QED BY <1>3
<1>5. p = walk[Len(c)]
  BY DEF Walk
<1>6. walk = [k \in Nat |-> IF k = 0 THEN <<c[1]>> ELSE Onward(walk[k - 1], c, A)]
  BY <1>4
<1> HIDE DEF walk
<1> DEFINE P == {k \in Nat : /\ walk[k] \in W
                             /\ (\E y \in ToSet(c) : y # c[1]) /\ k >= 1 => Len(walk[k]) >= 2}
<1>7. 0 \in P
  BY <1>1, <1>6
<1>8. ASSUME NEW k \in P PROVE k + 1 \in P
  <2>1. walk[k] \in W /\ walk[k + 1] = Onward(walk[k], c, A)
    <3>1. k + 1 \in Nat /\ k + 1 # 0 /\ (k + 1) - 1 = k
      OBVIOUS
    <3> QED BY <1>6, <3>1
  <2>2. /\ walk[k + 1] \in W
        /\ (\E y \in ToSet(c) : y # c[1]) => Len(walk[k + 1]) >= 2
    BY <2>1, OnwardKeeps
  <2> QED BY <2>2
<1>9. P \in SUBSET Nat
  OBVIOUS
<1>10. Len(c) \in Nat /\ Len(c) >= 1
  OBVIOUS
<1> HIDE DEF P
<1>11. Len(c) \in P
  BY <1>7, <1>8, <1>9, <1>10, FromThereOn
<1> QED BY <1>5, <1>10, <1>11 DEF P

----------------------------------------------------------------------------
(* Circles of support *)

LEMMA StepsAreEdges ==
  ASSUME GraphIsTyped, NEW D, D = SeenNodes, NEW A, A = Adjacency
  PROVE  /\ \A n, m : <<n, m>> \in Step <=> n \in D /\ m \in ToSet(A[n])
         /\ \A q \in Step : q = <<q[1], q[2]>>
<1>1. \A n \in D : ToSet(A[n]) = Linked(n)
  BY AdjacencyIsRight
<1>2. ASSUME NEW n, NEW m PROVE <<n, m>> \in Step <=> n \in D /\ m \in Linked(n)
  <2>1. ASSUME <<n, m>> \in Step PROVE n \in D /\ m \in Linked(n)
    <3>1. PICK i \in Links("supports") : Fires(i) /\ <<n, m>> = <<edges[i].source, edges[i].target>>
      BY <2>1 DEF Step
    <3>2. n = edges[i].source /\ m = edges[i].target
      BY <3>1
    <3> QED BY <3>1, <3>2 DEF Links, SeenNode, SeenNodes, Linked
  <2>2. ASSUME n \in D, m \in Linked(n) PROVE <<n, m>> \in Step
    BY <2>2 DEF Linked, Step
  <2> QED BY <2>1, <2>2
<1>3. \A q \in Step : q = <<q[1], q[2]>>
  BY DEF Step
<1> QED BY <1>1, <1>2, <1>3

\* A node leads to what its successors reach.
LEMMA LeadsIsReaching ==
  ASSUME GraphIsTyped, NEW D, D = SeenNodes, NEW A, A = Adjacency, NEW n \in Nodes, NEW m \in Nodes
  PROVE  <<n, m>> \in Leads <=>
           n \in D /\ m \in D /\ \E s \in ToSet(A[n]) : Reaches(D, A, s, m)
<1>1. D \subseteq Nodes /\ A \in [D -> Seq(D)]
  BY AdjacencyIsRight DEF SeenNodes
<1>2. \A x \in D : ToSet(A[x]) \subseteq D
  BY <1>1 DEF ToSet
<1> DEFINE Holds(k, S) == \A q \in Step : q[1] \in S \cup {k} => q[2] \in S
<1>3. <<n, m>> \in Leads <=> \A S \in SUBSET Nodes : Holds(n, S) => m \in S
  BY DEF Leads
<1>4. ASSUME NEW S
      PROVE  Holds(n, S) <=>
               \A a, b : a \in D /\ b \in ToSet(A[a]) /\ a \in S \cup {n} => b \in S
  <2>1. /\ \A a, b : <<a, b>> \in Step <=> a \in D /\ b \in ToSet(A[a])
        /\ \A q \in Step : q = <<q[1], q[2]>>
    BY StepsAreEdges
  <2>2. \A a, b : <<a, b>>[1] = a /\ <<a, b>>[2] = b
    OBVIOUS
  <2>3. Holds(n, S) <=> \A a, b : <<a, b>> \in Step /\ a \in S \cup {n} => b \in S
    BY <2>1, <2>2
  <2> HIDE DEF Holds
  <2> QED BY <2>1, <2>3
<1> HIDE DEF Holds
<1>5. ASSUME n \in D, m \in D, NEW s \in ToSet(A[n]), Reaches(D, A, s, m),
             NEW S \in SUBSET Nodes, Holds(n, S)
      PROVE  m \in S
  <2>1. s \in S \cap D /\ S \cap D \in SUBSET D
    BY <1>2, <1>4, <1>5
  <2>2. \A x \in S \cap D : ToSet(A[x]) \subseteq S \cap D
    BY <1>2, <1>4, <1>5
  <2> QED BY <1>5, <2>1, <2>2 DEF Reaches
<1>6. ASSUME \A S \in SUBSET Nodes : Holds(n, S) => m \in S
      PROVE  n \in D /\ m \in D /\ \E s \in ToSet(A[n]) : Reaches(D, A, s, m)
  <2>1. CASE n \notin D
    <3>1. Holds(n, {})
      BY <1>4, <2>1
    <3> QED BY <1>6, <3>1
  <2>2. CASE n \in D
    <3> DEFINE S == {x \in D : \E s \in ToSet(A[n]) : Reaches(D, A, s, x)}
    <3>1. ASSUME NEW a \in D, NEW b \in ToSet(A[a]), a \in S \cup {n} PROVE b \in S
      <4>1. b \in D /\ Reaches(D, A, a, b) /\ Reaches(D, A, b, b)
        BY <1>2, EdgesReach, ReachIsAPreorder
      <4>2. CASE a = n
        BY <4>1, <4>2
      <4>3. CASE a \in S
        <5>1. PICK s \in ToSet(A[n]) : Reaches(D, A, s, a)
          BY <4>3
        <5>2. Reaches(D, A, s, b)
          BY <4>1, <5>1, ReachIsAPreorder
        <5> QED BY <4>1, <5>2
      <4> QED BY <3>1, <4>2, <4>3
    <3>2. S \in SUBSET Nodes
      BY <1>1
    <3>3. Holds(n, S)
      <4> HIDE DEF S
      <4> QED BY <1>4, <3>1
    <3>4. m \in S
      BY <1>6, <3>2, <3>3
    <3> QED BY <2>2, <3>4
  <2> QED BY <2>1, <2>2
<1> QED BY <1>3, <1>5, <1>6

\* Between two nodes, leading and reaching are the same.
LEMMA LeadsApart ==
  ASSUME GraphIsTyped, NEW D, D = SeenNodes, NEW A, A = Adjacency,
         NEW n \in D, NEW m \in D, n # m
  PROVE  <<n, m>> \in Leads <=> Reaches(D, A, n, m)
<1>0. n \in Nodes /\ m \in Nodes /\ A \in [D -> Seq(D)]
  BY AdjacencyIsRight DEF SeenNodes
<1>1. <<n, m>> \in Leads <=> \E s \in ToSet(A[n]) : Reaches(D, A, s, m)
  BY <1>0, LeadsIsReaching
<1>2. \A x \in D : ToSet(A[x]) \subseteq D
  BY <1>0 DEF ToSet
<1>3. ASSUME NEW s \in ToSet(A[n]), Reaches(D, A, s, m) PROVE Reaches(D, A, n, m)
  BY <1>3, EdgesReach, ReachIsAPreorder
<1>4. ASSUME \A s \in ToSet(A[n]) : ~Reaches(D, A, s, m), Reaches(D, A, n, m) PROVE FALSE
  <2> DEFINE S == {n} \cup {x \in D : ~Reaches(D, A, x, m)}
  <2>1. ASSUME NEW x \in S, NEW y \in ToSet(A[x]) PROVE y \in S
    <3>1. x \in D /\ y \in D /\ Reaches(D, A, x, y)
      BY <1>2, EdgesReach
    <3>2. CASE x = n
      BY <1>4, <3>1, <3>2
    <3>3. CASE ~Reaches(D, A, x, m)
      BY <3>1, <3>3, ReachIsAPreorder
    <3> QED BY <3>2, <3>3
  <2>2. S \in SUBSET D /\ n \in S
    OBVIOUS
  <2>3. m \in S
    <3> HIDE DEF S
    <3> QED BY <1>4, <2>1, <2>2 DEF Reaches
  <2> QED BY <2>3, ReachIsAPreorder
<1> QED BY <1>1, <1>3, <1>4

\* A circle is the class of each of its nodes.
LEMMA CircleIsAClass ==
  ASSUME GraphIsTyped, NEW D, D = SeenNodes, NEW A, A = Adjacency,
         NEW n \in Nodes, <<n, n>> \in Leads
  PROVE  /\ n \in D
         /\ {m \in Nodes : <<n, m>> \in Leads /\ <<m, n>> \in Leads} = ClassOf(D, A, n)
<1>1. n \in D
  BY LeadsIsReaching
<1>2. ASSUME NEW m \in Nodes
      PROVE  <<n, m>> \in Leads /\ <<m, n>> \in Leads <=> m \in ClassOf(D, A, n)
  <2>1. CASE m = n
    BY <1>1, <2>1, ReachIsAPreorder DEF ClassOf
  <2>2. CASE m # n /\ m \in D
    BY <1>1, <2>2, LeadsApart DEF ClassOf
  <2>3. CASE m \notin D
    BY <2>3, LeadsIsReaching DEF ClassOf
  <2> QED BY <2>1, <2>2, <2>3
<1>3. ClassOf(D, A, n) \subseteq Nodes
  BY DEF ClassOf, SeenNodes
<1> QED BY <1>1, <1>2, <1>3

Circular(c, A) == Len(c) > 1 \/ Contains(A[c[1]], c[1])

\* A component is reported when each of its nodes leads to itself.
LEMMA CircularLeads ==
  ASSUME GraphIsTyped, NEW D, D = SeenNodes, NEW A, A = Adjacency,
         NEW c \in Seq(D), c # <<>>, IsInjective(c),
         \A x \in ToSet(c) : ToSet(c) = ClassOf(D, A, x), NEW n \in ToSet(c)
  PROVE  <<n, n>> \in Leads <=> Circular(c, A)
<1>0. IsGraph(D, A, Cardinality(Links("supports")))
  BY ComponentsAreClasses
<1>1. n \in D /\ n \in Nodes /\ c[1] \in ToSet(c) /\ A[n] \in Seq(D)
  BY <1>0 DEF ToSet, SeenNodes, IsGraph, Rows
<1>2. <<n, n>> \in Leads <=> \E s \in ToSet(A[n]) : Reaches(D, A, s, n)
  BY <1>1, LeadsIsReaching
<1>3. Len(c) > 1 <=> \E y \in ToSet(c) : y # n
  <2>1. ASSUME Len(c) > 1 PROVE \E y \in ToSet(c) : y # n
    <3>1. 1 \in DOMAIN c /\ 2 \in DOMAIN c
      BY <2>1
    <3>2. c[1] # c[2] /\ c[1] \in ToSet(c) /\ c[2] \in ToSet(c)
      BY <3>1 DEF IsInjective, ToSet
    <3> QED BY <3>2
  <2>2. ASSUME NEW y \in ToSet(c), y # n PROVE Len(c) > 1
    <3>1. PICK i \in DOMAIN c, j \in DOMAIN c : c[i] = y /\ c[j] = n
      BY DEF ToSet
    <3> QED BY <2>2, <3>1
  <2> QED BY <2>1, <2>2
<1>4. Len(c) = 1 => n = c[1]
  BY DEF ToSet
<1>5. Contains(A[n], n) <=> n \in ToSet(A[n])
  BY <1>1 DEF Contains, ToSet
<1>6. ASSUME NEW s \in ToSet(A[n]), Reaches(D, A, s, n) PROVE Circular(c, A)
  <2>0. s \in D
    BY <1>1 DEF ToSet
  <2>1. s \in D /\ Reaches(D, A, n, s)
    BY <1>1, <2>0, EdgesReach
  <2>2. s \in ToSet(c)
    BY <1>6, <2>1 DEF ClassOf
  <2>3. CASE s # n
    BY <1>3, <2>2, <2>3 DEF Circular
  <2>4. CASE s = n /\ Len(c) = 1
    BY <1>4, <1>5, <2>4 DEF Circular
  <2>5. CASE Len(c) # 1
    <3>1. Len(c) > 1
      BY <2>5
    <3> QED BY <3>1 DEF Circular
  <2> QED BY <2>3, <2>4, <2>5
<1>7. ASSUME Circular(c, A) PROVE \E s \in ToSet(A[n]) : Reaches(D, A, s, n)
  <2>1. CASE Len(c) > 1
    <3>1. PICK y \in ToSet(c) : y # n
      BY <1>3, <2>1
    <3>2. y \in ClassOf(D, A, n)
      BY <3>1
    <3>3. PICK m \in ToSet(A[n]) : m \in ClassOf(D, A, n)
      BY <1>0, <1>1, <3>1, <3>2, ClassesHaveEdges
    <3> QED BY <3>3 DEF ClassOf
  <2>2. CASE ~(Len(c) > 1)
    <3>0. Len(c) \in Nat /\ Len(c) # 0
      OBVIOUS
    <3>1. Len(c) = 1 \/ Len(c) >= 2
      BY ONLY <3>0, OneOrMore
    <3>2. ~(Len(c) >= 2)
      BY <2>2, <3>0
    <3>3. Len(c) = 1
      BY <3>1, <3>2
    <3>4. n \in ToSet(A[n])
      BY <1>4, <1>5, <1>7, <2>2, <3>3 DEF Circular
    <3> QED BY <3>4, ReachIsAPreorder
  <2> QED BY <2>1, <2>2
<1> QED BY <1>2, <1>6, <1>7

\* The cycles are the walks through the components that are circular.
LEMMA CyclesAreWalks ==
  ASSUME GraphIsTyped, NEW D, D = SeenNodes, NEW A, A = Adjacency,
         NEW found, found = Components(A)
  PROVE  /\ \A p : p \in Cycles <=>
               \E k \in DOMAIN found : Circular(found[k], A) /\ p = Walk(found[k], A)
         /\ \A k \in DOMAIN found :
              /\ found[k] \in Seq(D) /\ ToSet(found[k]) \subseteq D
              /\ Walk(found[k], A) \in Paths(found[k], A)
              /\ ToSet(Walk(found[k], A)) \subseteq ToSet(found[k])
              /\ found[k][1] \in ToSet(Walk(found[k], A)) \cap ToSet(found[k])
              /\ Len(found[k]) > 1 => Len(Walk(found[k], A)) >= 2
<1> DEFINE L == Cardinality(Links("supports"))
<1>1. /\ IsGraph(D, A, L) /\ found \in Seq(Seq(D))
      /\ \A k \in DOMAIN found :
           /\ found[k] # <<>> /\ IsInjective(found[k])
           /\ \A n \in ToSet(found[k]) : ToSet(found[k]) = ClassOf(D, A, n)
  BY ComponentsAreClasses
<1>2. \A p : p \in Cycles <=> \E c \in ToSet(found) : Circular(c, A) /\ p = Walk(c, A)
  BY DEF Cycles, Circular
<1>3. ToSet(found) = {found[k] : k \in DOMAIN found}
  BY DEF ToSet
<1>4. \A p : p \in Cycles <=>
        \E k \in DOMAIN found : Circular(found[k], A) /\ p = Walk(found[k], A)
  BY <1>2, <1>3
<1>5. ASSUME NEW k \in DOMAIN found, NEW c, c = found[k], NEW p, p = Walk(c, A)
      PROVE  /\ c \in Seq(D) /\ ToSet(c) \subseteq D /\ p \in Paths(c, A)
             /\ ToSet(p) \subseteq ToSet(c) /\ c[1] \in ToSet(p) \cap ToSet(c)
             /\ Len(c) > 1 => Len(p) >= 2
  <2>1. c \in Seq(D) /\ c # <<>> /\ IsInjective(c)
        /\ \A n \in ToSet(c) : ToSet(c) = ClassOf(D, A, n)
    BY <1>1, <1>5
  <2>2. p \in Paths(c, A) /\ ((\E y \in ToSet(c) : y # c[1]) => Len(p) >= 2)
    BY <1>1, <1>5, <2>1, WalkIsAPath
  <2>3. ToSet(c) \subseteq D /\ c[1] \in ToSet(c)
    BY <2>1 DEF ToSet
  <2>4. ToSet(p) \subseteq ToSet(c) /\ c[1] \in ToSet(p)
    BY <2>2 DEF Paths, ToSet
  <2>5. ASSUME Len(c) > 1 PROVE \E y \in ToSet(c) : y # c[1]
    <3>1. 1 \in DOMAIN c /\ 2 \in DOMAIN c
      BY <2>1, <2>5
    <3>2. c[1] # c[2] /\ c[2] \in ToSet(c)
      BY <2>1, <3>1 DEF IsInjective, ToSet
    <3> QED BY <3>2
  <2> QED BY <2>1, <2>2, <2>3, <2>4, <2>5
<1> QED BY <1>4, <1>5

\* Every path of a cycle keeps to the nodes that can be seen.
LEMMA PathsAreSeen ==
  ASSUME GraphIsTyped
  PROVE  \A path \in Cycles : ToSet(path) \subseteq Nodes \ hidden
<1> SUFFICES ASSUME NEW path \in Cycles PROVE ToSet(path) \subseteq Nodes \ hidden
  OBVIOUS
<1> DEFINE found == Components(Adjacency)
<1>1. PICK k \in DOMAIN found : path = Walk(found[k], Adjacency)
  BY CyclesAreWalks
<1>2. ToSet(path) \subseteq ToSet(found[k]) /\ ToSet(found[k]) \subseteq SeenNodes
  BY <1>1, CyclesAreWalks
<1> QED BY <1>2 DEF SeenNodes

----------------------------------------------------------------------------
(* What the detectors name *)

LEMMA EdgesAreTyped ==
  ASSUME GraphIsTyped
  PROVE  /\ Drawn \subseteq EdgeIds
         /\ \A i \in Drawn : /\ edges[i] \in Drawable
                             /\ edges[i].source \in Entities
                             /\ edges[i].target \in Entities
  BY DrawableAssumption DEF GraphIsTyped, Drawn, EdgeIds

\* The edge before a chain's is one of the links between annotations.
LEMMA BeforeIsALink ==
  ASSUME GraphIsTyped, NEW i \in Drawn, Before(i) # 0
  PROVE  Before(i) \in NoteLinks
<1> DEFINE I == {j \in 1 .. Len([k \in Drawn |-> k]) :
                   LET e == [k \in Drawn |-> k][j]
                   IN e # i /\ e \in NoteLinks /\ edges[e].target = edges[i].source}
<1>1. Len([k \in Drawn |-> k]) = Len(edges) /\ \A j \in Drawn : [k \in Drawn |-> k][j] = j
  BY DEF Drawn, GraphIsTyped
<1>2. Before(i) = IF I # {} THEN Min(I) ELSE 0
  BY DEF Before, SelectInSeq
<1>3. I # {} /\ I \in SUBSET Nat
  BY <1>1, <1>2 DEF GraphIsTyped
<1>4. Min(I) \in I
  <2>1. \E m \in I : \A n \in I : m <= n
    BY <1>3, LeastMark
  <2> QED BY <2>1 DEF Min
<1> QED BY <1>1, <1>2, <1>3, <1>4 DEF Drawn

\* What the entries of a diagnosis are: proved for one detector after another.
NamesTheSeen(d) ==
  /\ d.edges \cap broken = {}
  /\ d.nodes \cap hidden \subseteq {Anchor[a] : a \in d.nodes \cap Annotations}

LEMMA CyclesName ==
  ASSUME GraphIsTyped, NEW d, NEW path \in Cycles, d = Cycle(path),
         ToSet(path) \subseteq Nodes \ hidden
  PROVE  Sane(d) /\ NamesTheSeen(d) /\ d.key[1] = "cycle"
  BY DEF Cycle, Entry, Sane, NamesTheSeen, Entities, Severities

LEMMA ContradictionsName ==
  ASSUME GraphIsTyped, NEW d \in Contradictions
  PROVE  /\ Sane(d) /\ NamesTheSeen(d) /\ d.key[1] = "contradiction"
         /\ \A i \in d.edges : i \in Clashing /\ d = Entry(<<"contradiction", Ends(i)>>,
              Ends(i), {j \in Clashing : Ends(j) = Ends(i)}, "blocking")
<1>1. PICK k \in Clashing : d = Entry(<<"contradiction", Ends(k)>>, Ends(k),
                                     {i \in Clashing : Ends(i) = Ends(k)}, "blocking")
  BY DEF Contradictions
<1>2. \A i \in Clashing : /\ i \in Drawn \ broken
                          /\ edges[i].source \in Nodes \ hidden
                          /\ edges[i].target \in Nodes \ hidden
  BY DEF Clashing, Links, SeenEdges, SeenNode
<1>3. d.edges = {i \in Clashing : Ends(i) = Ends(k)} /\ d.nodes = Ends(k)
      /\ d.key = <<"contradiction", Ends(k)>> /\ d.severity = "blocking"
  BY <1>1 DEF Entry
<1>4. Ends(k) \subseteq Nodes \ hidden
  BY <1>2 DEF Ends
<1>5. d.edges \subseteq EdgeIds \ broken
  BY <1>2, <1>3, EdgesAreTyped
<1>6. Sane(d) /\ NamesTheSeen(d)
  BY <1>3, <1>4, <1>5 DEF Sane, NamesTheSeen, Entities, Severities
<1>7. \A i \in d.edges : i \in Clashing /\ Ends(i) = Ends(k)
  BY <1>3
<1>8. \A i \in d.edges : d = Entry(<<"contradiction", Ends(i)>>, Ends(i),
                                  {j \in Clashing : Ends(j) = Ends(i)}, "blocking")
  BY <1>1, <1>7
<1>9. d.key[1] = "contradiction"
  BY <1>3
<1> QED BY <1>6, <1>7, <1>8, <1>9

LEMMA MultiWarrantsName ==
  ASSUME GraphIsTyped, NEW d \in MultiWarrants
  PROVE  /\ Sane(d) /\ NamesTheSeen(d) /\ d.key[1] = "multi-warrant"
         /\ \A n \in d.key[4] : Targets(n, "bridges-from") # {} /\ Targets(n, "bridges-to") # {}
<1>1. PICK p \in Nodes \X Nodes :
        /\ Cardinality(WarrantsOf(p[1], p[2])) > 1
        /\ d = Entry(<<"multi-warrant", p[1], p[2], WarrantsOf(p[1], p[2])>>,
                     {p[1], p[2]} \cup WarrantsOf(p[1], p[2]), {}, "advisory")
  BY DEF MultiWarrants
<1> DEFINE W == WarrantsOf(p[1], p[2])
<1>2. W # {}
  BY <1>1, FS_EmptySet
<1>3. \A n \in W : /\ n \in Nodes
                   /\ p[1] \in Targets(n, "bridges-from")
                   /\ p[2] \in Targets(n, "bridges-to")
  BY DEF WarrantsOf, Licensed
<1>4. \A n, role : \A t \in Targets(n, role) :
        t \in Nodes \ hidden /\ n \in Nodes \ hidden
  BY DEF Targets, Links, SeenNode
<1>5. d.edges = {} /\ d.nodes = {p[1], p[2]} \cup W
      /\ d.key = <<"multi-warrant", p[1], p[2], W>> /\ d.severity = "advisory"
  BY <1>1 DEF Entry
<1>6. d.nodes \subseteq Nodes \ hidden
  BY <1>2, <1>3, <1>4, <1>5
<1>7. Sane(d) /\ NamesTheSeen(d)
  BY <1>5, <1>6 DEF Sane, NamesTheSeen, Entities, Severities
<1> QED BY <1>3, <1>5, <1>7

LEMMA DanglingClaimsName ==
  ASSUME GraphIsTyped, NEW d \in DanglingClaims
  PROVE  Sane(d) /\ NamesTheSeen(d) /\ d.key[1] = "dangling-claim"
  BY DEF DanglingClaims, Entry, Sane, NamesTheSeen, Entities, Severities

LEMMA HalfWarrantsName ==
  ASSUME GraphIsTyped, NEW has, NEW lacks \in {"bridges-to", "bridges-from"},
         NEW d \in HalfWarrants(has, lacks)
  PROVE  /\ Sane(d) /\ NamesTheSeen(d) /\ d.key[1] = lacks
         /\ Targets(d.key[2], lacks) = {}
<1>1. PICK p \in (Nodes \ hidden) \X Nodes :
        /\ p[2] \in Targets(p[1], has) /\ Targets(p[1], lacks) = {}
        /\ d = Entry(<<lacks, p[1], p[2]>>, {p[1], p[2]}, {}, "advisory")
  BY DEF HalfWarrants
<1>2. p[1] \in Nodes \ hidden /\ p[2] \in Nodes \ hidden
  BY <1>1 DEF Targets, Links, SeenNode
<1>3. d.edges = {} /\ d.nodes = {p[1], p[2]} /\ d.key = <<lacks, p[1], p[2]>>
      /\ d.severity = "advisory"
  BY <1>1 DEF Entry
<1>4. Sane(d) /\ NamesTheSeen(d)
  BY <1>2, <1>3 DEF Sane, NamesTheSeen, Entities, Severities
<1>5. d.key[1] = lacks /\ d.key[2] = p[1]
  BY <1>3
<1> QED BY <1>1, <1>4, <1>5

LEMMA SelfContradictsName ==
  ASSUME GraphIsTyped, NEW d \in SelfContradicts
  PROVE  /\ Sane(d) /\ NamesTheSeen(d) /\ d.key[1] = "self-contradicts"
         /\ \A i \in d.edges :
              /\ i \in Links("contradicts") /\ edges[i].source = edges[i].target
              /\ d = Entry(<<"self-contradicts", i>>, {edges[i].source}, {i}, "advisory")
<1>1. PICK i \in Links("contradicts") :
        /\ edges[i].source = edges[i].target
        /\ d = Entry(<<"self-contradicts", i>>, {edges[i].source}, {i}, "advisory")
  BY DEF SelfContradicts
<1>2. i \in Drawn \ broken /\ edges[i].source \in Nodes \ hidden
  BY DEF Links, SeenEdges, SeenNode
<1>3. d.edges = {i} /\ d.nodes = {edges[i].source} /\ d.key = <<"self-contradicts", i>>
      /\ d.severity = "advisory"
  BY <1>1 DEF Entry
<1>4. Sane(d) /\ NamesTheSeen(d)
  BY <1>2, <1>3, EdgesAreTyped DEF Sane, NamesTheSeen, Entities, Severities
<1> QED BY <1>1, <1>3, <1>4

LEMMA ChainsName ==
  ASSUME GraphIsTyped, NEW d \in Chains
  PROVE  Sane(d) /\ NamesTheSeen(d) /\ d.key[1] = "annotation-of-annotation-chain"
<1>1. PICK i \in NoteLinks :
        /\ Before(i) # 0
        /\ d = Entry(<<"annotation-of-annotation-chain", i>>, Ends(i), {i, Before(i)},
                     "advisory")
  BY DEF Chains
<1>2. \A j \in NoteLinks : /\ j \in Drawn \ broken
                           /\ Ends(j) \subseteq Annotations \ hidden
  BY DEF NoteLinks, SeenEdges, SeenNote, Ends
<1>3. Before(i) \in NoteLinks
  BY <1>1, <1>2, BeforeIsALink
<1>4. d.edges = {i, Before(i)} /\ d.nodes = Ends(i)
      /\ d.key = <<"annotation-of-annotation-chain", i>> /\ d.severity = "advisory"
  BY <1>1 DEF Entry
<1>5. Sane(d) /\ NamesTheSeen(d)
  BY <1>2, <1>3, <1>4, EdgesAreTyped DEF Sane, NamesTheSeen, Entities, Severities
<1> QED BY <1>4, <1>5

\* A contradicts edge between a node and an annotation has one reading.
LEMMA MixedNames ==
  ASSUME GraphIsTyped, NEW t \in MixedEnds
  PROVE  /\ t[1] \in Drawn \ broken /\ edges[t[1]].role = "contradicts"
         /\ t[2] \in Nodes \ hidden /\ t[3] \in Annotations \ hidden
         /\ Ends(t[1]) = {t[2], t[3]}
         /\ Anchor[t[3]] \in Nodes \cup {NoNode}
         /\ \A u \in MixedEnds : u[1] = t[1] => u = t
         /\ t[1] \notin Links("contradicts")
<1>1. \A u \in MixedEnds : /\ u \in SeenEdges \X Nodes \X Annotations
                           /\ Mixed(u[1], u[2], u[3])
  BY DEF MixedEnds
<1>2. \A u \in MixedEnds : /\ u[1] \in Drawn \ broken /\ edges[u[1]].role = "contradicts"
                           /\ u[2] \in Nodes \ hidden /\ u[3] \in Annotations \ hidden
                           /\ Ends(u[1]) = {u[2], u[3]}
  BY <1>1 DEF Mixed, SeenEdges, SeenNode, SeenNote
<1>3. ASSUME NEW u \in MixedEnds, u[1] = t[1] PROVE u = t
  <2>1. {u[2], u[3]} = {t[2], t[3]}
    BY <1>2, <1>3
  <2>2. u[2] = t[2] /\ u[3] = t[3]
    BY <1>2, <2>1, KindsAssumption
  <2> QED BY <1>1, <1>3, <2>2
<1>4. t[1] \notin Links("contradicts")
  BY <1>2, KindsAssumption DEF Links, SeenNode, Ends
<1> QED BY <1>2, <1>3, <1>4, AnchorAssumption

LEMMA SelfReferentialNames ==
  ASSUME GraphIsTyped, NEW d \in SelfReferential
  PROVE  /\ Sane(d) /\ NamesTheSeen(d)
         /\ d.key[1] = "self-referential-annotation-contradicts"
         /\ \E t \in MixedEnds :
              /\ Anchor[t[3]] = t[2] /\ d.edges = {t[1]}
              /\ d = Entry(<<"self-referential-annotation-contradicts", t[1]>>,
                           {t[2], t[3]}, {t[1]}, "advisory")
<1>1. PICK t \in MixedEnds :
        /\ Anchor[t[3]] = t[2]
        /\ d = Entry(<<"self-referential-annotation-contradicts", t[1]>>,
                     {t[2], t[3]}, {t[1]}, "advisory")
  BY DEF SelfReferential
<1>2. /\ d.edges = {t[1]} /\ d.nodes = {t[2], t[3]} /\ d.severity = "advisory"
      /\ d.key = <<"self-referential-annotation-contradicts", t[1]>>
  BY <1>1 DEF Entry
<1>3. Sane(d) /\ NamesTheSeen(d)
  BY <1>2, MixedNames, EdgesAreTyped DEF Sane, NamesTheSeen, Entities, Severities
<1>4. d.key[1] = "self-referential-annotation-contradicts"
  BY <1>2
<1> QED BY <1>1, <1>2, <1>3, <1>4

LEMMA CrossAnchorNames ==
  ASSUME GraphIsTyped, NEW d \in CrossAnchor
  PROVE  /\ Sane(d) /\ NamesTheSeen(d)
         /\ d.key[1] = "non-self-referential-annotation-contradicts"
         /\ \E t \in MixedEnds :
              /\ Crosses(t) /\ d.edges = {t[1]}
              /\ d = Entry(<<"non-self-referential-annotation-contradicts", t[1]>>,
                           {t[2], t[3], Anchor[t[3]]}, {t[1]}, "advisory")
<1>1. PICK t \in MixedEnds :
        /\ Crosses(t)
        /\ d = Entry(<<"non-self-referential-annotation-contradicts", t[1]>>,
                     {t[2], t[3], Anchor[t[3]]}, {t[1]}, "advisory")
  BY DEF CrossAnchor
<1>2. /\ d.edges = {t[1]} /\ d.nodes = {t[2], t[3], Anchor[t[3]]} /\ d.severity = "advisory"
      /\ d.key = <<"non-self-referential-annotation-contradicts", t[1]>>
  BY <1>1 DEF Entry
<1>3. Anchor[t[3]] \in Nodes
  BY <1>1, MixedNames DEF Crosses
<1>4. Sane(d)
  BY <1>2, <1>3, MixedNames, EdgesAreTyped DEF Sane, Entities, Severities
<1>5. d.nodes \cap hidden \subseteq {Anchor[t[3]]} /\ t[3] \in d.nodes \cap Annotations
      /\ d.edges \cap broken = {}
  BY <1>2, MixedNames
<1>6. NamesTheSeen(d)
  BY <1>5 DEF NamesTheSeen
<1>7. d.key[1] = "non-self-referential-annotation-contradicts"
  BY <1>2
<1> QED BY <1>1, <1>2, <1>4, <1>6, <1>7

\* Every entry is sane, names what is seen, and comes from its own detector.
LEMMA DiagnosisIsSane ==
  ASSUME GraphIsTyped, NEW d \in Diagnosis
  PROVE  /\ Sane(d) /\ NamesTheSeen(d)
         /\ d.key[1] = "multi-warrant" => d \in MultiWarrants
         /\ d.key[1] \in {"bridges-to", "bridges-from"} =>
              \E has : d \in HalfWarrants(has, d.key[1])
         /\ d.key[1] = "cycle" => \E path \in Cycles : d = Cycle(path)
         /\ d.key[1] = "contradiction" => d \in Contradictions
         /\ d.key[1] = "self-contradicts" => d \in SelfContradicts
         /\ d.key[1] = "self-referential-annotation-contradicts" => d \in SelfReferential
         /\ d.key[1] = "non-self-referential-annotation-contradicts" => d \in CrossAnchor
<1>1. CASE \E path \in Cycles : d = Cycle(path)
  BY <1>1, CyclesName, PathsAreSeen
<1>2. CASE d \in Contradictions
  BY <1>2, ContradictionsName
<1>3. CASE d \in MultiWarrants
  BY <1>3, MultiWarrantsName
<1>4. CASE d \in DanglingClaims
  BY <1>4, DanglingClaimsName
<1>5. CASE d \in HalfWarrants("bridges-from", "bridges-to")
  <2>1. Sane(d) /\ NamesTheSeen(d) /\ d.key[1] = "bridges-to"
    BY <1>5, HalfWarrantsName
  <2> QED BY <1>5, <2>1
<1>6. CASE d \in HalfWarrants("bridges-to", "bridges-from")
  <2>1. Sane(d) /\ NamesTheSeen(d) /\ d.key[1] = "bridges-from"
    BY <1>6, HalfWarrantsName
  <2> QED BY <1>6, <2>1
<1>7. CASE d \in SelfContradicts
  BY <1>7, SelfContradictsName
<1>8. CASE d \in Chains
  BY <1>8, ChainsName
<1>9. CASE d \in SelfReferential
  BY <1>9, SelfReferentialNames
<1>10. CASE d \in CrossAnchor
  BY <1>10, CrossAnchorNames
<1> QED BY <1>1, <1>2, <1>3, <1>4, <1>5, <1>6, <1>7, <1>8, <1>9, <1>10 DEF Diagnosis

\* The readings of a contradicts edge in a diagnosis of the present graph.
Opposing ==
  {"contradiction", "self-contradicts", "self-referential-annotation-contradicts",
   "non-self-referential-annotation-contradicts"}
ReadingsOf(i) == {d \in Diagnosis : d.key[1] \in Opposing /\ i \in d.edges}

\* What each of the four makes of edge i.
LEMMA FourReadings ==
  ASSUME GraphIsTyped, NEW i, NEW d \in ReadingsOf(i)
  PROVE  \/ /\ i \in Links("contradicts") /\ edges[i].source # edges[i].target
            /\ d = Entry(<<"contradiction", Ends(i)>>, Ends(i),
                         {j \in Clashing : Ends(j) = Ends(i)}, "blocking")
         \/ /\ i \in Links("contradicts") /\ edges[i].source = edges[i].target
            /\ d = Entry(<<"self-contradicts", i>>, {edges[i].source}, {i}, "advisory")
         \/ \E t \in MixedEnds :
              /\ t[1] = i /\ Anchor[t[3]] = t[2]
              /\ d = Entry(<<"self-referential-annotation-contradicts", t[1]>>,
                           {t[2], t[3]}, {t[1]}, "advisory")
         \/ \E t \in MixedEnds :
              /\ t[1] = i /\ Crosses(t)
              /\ d = Entry(<<"non-self-referential-annotation-contradicts", t[1]>>,
                           {t[2], t[3], Anchor[t[3]]}, {t[1]}, "advisory")
<1>0. d \in Diagnosis /\ d.key[1] \in Opposing /\ i \in d.edges
  BY DEF ReadingsOf
<1>1. CASE d \in Contradictions
  <2>1. i \in Clashing /\ d = Entry(<<"contradiction", Ends(i)>>, Ends(i),
                                    {j \in Clashing : Ends(j) = Ends(i)}, "blocking")
    BY <1>0, <1>1, ContradictionsName
  <2> QED BY <2>1 DEF Clashing
<1>2. CASE d \in SelfContradicts
  BY <1>0, <1>2, SelfContradictsName
<1>3. CASE d \in SelfReferential
  <2>1. PICK t \in MixedEnds :
          /\ Anchor[t[3]] = t[2] /\ d.edges = {t[1]}
          /\ d = Entry(<<"self-referential-annotation-contradicts", t[1]>>,
                       {t[2], t[3]}, {t[1]}, "advisory")
    BY <1>3, SelfReferentialNames
  <2> QED BY <1>0, <2>1
<1>4. CASE d \in CrossAnchor
  <2>1. PICK t \in MixedEnds :
          /\ Crosses(t) /\ d.edges = {t[1]}
          /\ d = Entry(<<"non-self-referential-annotation-contradicts", t[1]>>,
                       {t[2], t[3], Anchor[t[3]]}, {t[1]}, "advisory")
    BY <1>4, CrossAnchorNames
  <2> QED BY <1>0, <2>1
<1> QED BY <1>0, <1>1, <1>2, <1>3, <1>4, DiagnosisIsSane DEF Opposing

LEMMA OneReading ==
  ASSUME GraphIsTyped, NEW i, NEW d \in ReadingsOf(i), NEW e \in ReadingsOf(i)
  PROVE  d = e
<1>1. CASE i \in Links("contradicts")
  <2>1. \A t \in MixedEnds : t[1] # i
    BY <1>1, MixedNames
  <2>2. CASE edges[i].source = edges[i].target
    <3>1. d = Entry(<<"self-contradicts", i>>, {edges[i].source}, {i}, "advisory")
      BY <2>1, <2>2, FourReadings
    <3>2. e = Entry(<<"self-contradicts", i>>, {edges[i].source}, {i}, "advisory")
      BY <2>1, <2>2, FourReadings
    <3> QED BY <3>1, <3>2
  <2>3. CASE edges[i].source # edges[i].target
    <3>1. d = Entry(<<"contradiction", Ends(i)>>, Ends(i),
                    {j \in Clashing : Ends(j) = Ends(i)}, "blocking")
      BY <2>1, <2>3, FourReadings
    <3>2. e = Entry(<<"contradiction", Ends(i)>>, Ends(i),
                    {j \in Clashing : Ends(j) = Ends(i)}, "blocking")
      BY <2>1, <2>3, FourReadings
    <3> QED BY <3>1, <3>2
  <2> QED BY <2>2, <2>3
<1>2. CASE i \notin Links("contradicts")
  <2>1. PICK t \in MixedEnds : t[1] = i
    BY <1>2, FourReadings
  <2>2. \A u \in MixedEnds : u[1] = i => u = t
    BY <2>1, MixedNames
  <2>3. CASE Anchor[t[3]] = t[2]
    <3>0. ~Crosses(t)
      BY <2>3 DEF Crosses
    <3>1. d = Entry(<<"self-referential-annotation-contradicts", t[1]>>,
                    {t[2], t[3]}, {t[1]}, "advisory")
      BY <1>2, <2>2, <3>0, FourReadings
    <3>2. e = Entry(<<"self-referential-annotation-contradicts", t[1]>>,
                    {t[2], t[3]}, {t[1]}, "advisory")
      BY <1>2, <2>2, <3>0, FourReadings
    <3> QED BY <3>1, <3>2
  <2>4. CASE Anchor[t[3]] # t[2]
    <3>1. d = Entry(<<"non-self-referential-annotation-contradicts", t[1]>>,
                    {t[2], t[3], Anchor[t[3]]}, {t[1]}, "advisory")
      BY <1>2, <2>2, <2>4, FourReadings
    <3>2. e = Entry(<<"non-self-referential-annotation-contradicts", t[1]>>,
                    {t[2], t[3], Anchor[t[3]]}, {t[1]}, "advisory")
      BY <1>2, <2>2, <2>4, FourReadings
    <3> QED BY <3>1, <3>2
  <2> QED BY <2>3, <2>4
<1> QED BY <1>1, <1>2

\* An edge between a visible node and an annotation of a node is read.
LEMMA MixedIsRead ==
  ASSUME GraphIsTyped, NEW t \in MixedEnds, Anchor[t[3]] # NoNode
  PROVE  ReadingsOf(t[1]) # {}
<1>1. CASE Anchor[t[3]] = t[2]
  <2> DEFINE d == Entry(<<"self-referential-annotation-contradicts", t[1]>>,
                        {t[2], t[3]}, {t[1]}, "advisory")
  <2>1. d \in Diagnosis
    BY <1>1 DEF SelfReferential, Diagnosis
  <2>2. d.key[1] \in Opposing /\ t[1] \in d.edges
    BY DEF Entry, Opposing
  <2> QED BY <2>1, <2>2 DEF ReadingsOf
<1>2. CASE Anchor[t[3]] # t[2]
  <2> DEFINE d == Entry(<<"non-self-referential-annotation-contradicts", t[1]>>,
                        {t[2], t[3], Anchor[t[3]]}, {t[1]}, "advisory")
  <2>1. d \in Diagnosis
    BY <1>2 DEF CrossAnchor, Crosses, Diagnosis
  <2>2. d.key[1] \in Opposing /\ t[1] \in d.edges
    BY DEF Entry, Opposing
  <2> QED BY <2>1, <2>2 DEF ReadingsOf
<1> QED BY <1>1, <1>2

LEMMA CountedOnce ==
  ASSUME NEW S, \A x, y \in S : x = y
  PROVE  Cardinality(S) <= 1
<1>1. CASE S = {}
  BY <1>1, FS_EmptySet
<1>2. CASE S # {}
  <2>1. PICK x \in S : S = {x}
    BY <1>2
  <2> QED BY <2>1, FS_Singleton
<1> QED BY <1>1, <1>2

----------------------------------------------------------------------------
(* The invariant *)

\* Applying a difference to what stood before gives what stands now.
LEMMA AppliedKeys ==
  ASSUME NEW held, NEW prev, NEW next, Keys(held) = Keys(prev), NEW news,
         news = Difference(prev, next)
  PROVE  Keys(Applied(held, news.fired, news.cleared)) = Keys(next)
<1> DEFINE F == Keys(news.fired)
           C == Keys(news.cleared)
           A == Applied(held, news.fired, news.cleared)
<1>1. F = Keys(next) \ Keys(prev) /\ C = Keys(prev) \ Keys(next)
  BY DEF Difference, Keys
<1>2. Keys(A) = (Keys(held) \ (F \cup C)) \cup (F \ C)
  BY DEF Applied, Keys
<1> QED BY <1>1, <1>2

LEMMA DiagStarts == Init => DiagInv
<1> SUFFICES ASSUME Init PROVE DiagInv
  OBVIOUS
<1>1. GraphIsTyped
  BY DrawableAssumption, DebatedAssumption
     DEF Init, GraphIsTyped, Facets, Fresh, Settled, Values, Statuses
<1>2. \A d \in Diagnosis : Sane(d)
  BY <1>1, DiagnosisIsSane
<1> QED BY <1>1, <1>2 DEF Init, DiagInv

LEMMA ChangeKeeps ==
  ASSUME DiagInv, Change, GraphIsTyped'
  PROVE  DiagInv'
<1>1. (reported \cup screen)' = reported \cup screen /\ due'
  BY DEF Change
<1>2. (\A d \in reported \cup screen : Sane(d))'
  BY <1>1 DEF DiagInv, Sane, Entities, EdgeIds, Severities
<1>3. (Keys(screen) = Keys(reported))'
  BY DEF DiagInv, Change, Keys
<1> QED BY <1>1, <1>2, <1>3 DEF DiagInv

\* A diagnosis depends on the graph alone.
LEMMA CyclesStay ==
  ASSUME UNCHANGED <<edges, hidden, broken, facet>>
  PROVE  Cycles' = Cycles
<1>1. \A role : Links(role)' = Links(role)
  BY DEF Links, SeenEdges, Drawn, SeenNode
<1>2. Adjacency' = Adjacency
  BY <1>1 DEF Adjacency, Successors, Fires, Stands
<1>3. Turns' = Turns
  BY <1>1 DEF Turns
<1>4. Components(Adjacency)' = Components(Adjacency)
  BY <1>2, <1>3 DEF Components
<1>5. QED
  BY <1>2, <1>4 DEF Cycles

LEMMA DiagnosisStays ==
  ASSUME UNCHANGED <<edges, hidden, broken, facet>>
  PROVE  Diagnosis' = Diagnosis
<1>1. \A role : Links(role)' = Links(role)
  BY DEF Links, SeenEdges, Drawn, SeenNode
<1>2. {Cycle(path) : path \in Cycles}' = {Cycle(path) : path \in Cycles}
  BY CyclesStay DEF Cycle, Entry
<1>3. Contradictions' = Contradictions
  BY <1>1 DEF Contradictions, Clashing, Fires, Stands, Ends, Entry
<1>4. \A n, role : Targets(n, role)' = Targets(n, role)
  BY <1>1 DEF Targets
<1>5. MultiWarrants' = MultiWarrants
  <2>1. \A data, claim : WarrantsOf(data, claim)' = WarrantsOf(data, claim)
    BY <1>4 DEF WarrantsOf, Licensed
  <2> QED BY <2>1 DEF MultiWarrants, Entry
<1>6. DanglingClaims' = DanglingClaims
  BY DEF DanglingClaims, Incoming, SeenEdges, Drawn, SeenNode, Entry
<1>7. \A has, lacks : HalfWarrants(has, lacks)' = HalfWarrants(has, lacks)
  BY <1>4 DEF HalfWarrants, Entry
<1>8. SelfContradicts' = SelfContradicts
  BY <1>1 DEF SelfContradicts, Entry
<1>9. Chains' = Chains
  <2>1. NoteLinks' = NoteLinks /\ Drawn' = Drawn
    BY DEF NoteLinks, SeenEdges, Drawn, SeenNote
  <2>2. \A i : Before(i)' = Before(i)
    BY <2>1 DEF Before, SelectInSeq
  <2> QED BY <2>1, <2>2 DEF Chains, Ends, Entry
<1>10. SelfReferential' = SelfReferential /\ CrossAnchor' = CrossAnchor
  BY DEF SelfReferential, CrossAnchor, Crosses, MixedEnds, Mixed, SeenEdges, Drawn,
         SeenNode, SeenNote, Ends, Entry
<1> QED
  BY <1>2, <1>3, <1>5, <1>6, <1>7, <1>8, <1>9, <1>10 DEF Diagnosis

LEMMA NotifyKeeps ==
  ASSUME DiagInv, Notify
  PROVE  DiagInv'
<1> DEFINE news == Difference(reported, Diagnosis)
<1>1. /\ due' = FALSE /\ reported' = Diagnosis
      /\ screen' = Applied(screen, news.fired, news.cleared)
      /\ UNCHANGED <<edges, hidden, broken, facet>>
  BY DEF Notify
<1>2. GraphIsTyped'
  BY <1>1 DEF DiagInv, GraphIsTyped, Drawn
<1>3. Diagnosis' = Diagnosis
  BY <1>1, DiagnosisStays
<1>4. \A d \in reported \cup screen \cup Diagnosis : Sane(d)
  BY DiagnosisIsSane DEF DiagInv
<1>5. screen' \subseteq screen \cup Diagnosis
  BY <1>1 DEF Applied, Difference
<1>6. (\A d \in reported \cup screen : Sane(d))'
  BY <1>1, <1>4, <1>5 DEF Sane, Entities, EdgeIds, Severities
<1>7. Keys(screen') = Keys(reported')
  BY <1>1, AppliedKeys DEF DiagInv
<1> QED BY <1>1, <1>2, <1>3, <1>6, <1>7 DEF DiagInv, Keys

\* No step takes the graph out of its types.
LEMMA GraphStaysTyped ==
  ASSUME DiagInv, Next, ~Notify
  PROVE  GraphIsTyped' /\ Change
<1>0. GraphIsTyped
  BY DEF DiagInv
<1>1. ASSUME NEW e \in Drawable, Draw(e) PROVE GraphIsTyped' /\ Change
  <2>1. edges' = Append(edges, e) /\ Len(edges) < MaxEdges /\ Change
        /\ UNCHANGED <<hidden, broken, facet>>
    BY <1>1 DEF Draw
  <2>2. edges' \in Seq(Drawable) /\ Len(edges') = Len(edges) + 1
    BY <1>0, <2>1 DEF GraphIsTyped
  <2>3. Len(edges') <= MaxEdges /\ Drawn \subseteq Drawn'
    BY <1>0, <2>1, <2>2, DrawableAssumption DEF GraphIsTyped, Drawn
  <2> QED BY <1>0, <2>1, <2>2, <2>3 DEF GraphIsTyped, Change
<1>2. ASSUME NEW x \in Entities, Hide(x) PROVE GraphIsTyped' /\ Change
  BY <1>0, <1>2 DEF Hide, GraphIsTyped, Change, Drawn
<1>3. ASSUME NEW i \in Drawn, Break(i) PROVE GraphIsTyped' /\ Change
  BY <1>0, <1>3 DEF Break, GraphIsTyped, Change, Drawn
<1>4. ASSUME NEW n \in Debated, NEW v \in Values, Propose(n, v) PROVE GraphIsTyped' /\ Change
  <2>1. PICK voted \in {"open"} \cup {s \in {"committed"} : facet[n].decided = v} :
          facet' = [facet EXCEPT ![n] = [@ EXCEPT !.offered = v, !.status = voted]]
    BY <1>4 DEF Propose
  <2>2. facet[n] \in Facets /\ voted \in Statuses
    BY <1>0, DebatedAssumption DEF GraphIsTyped, Statuses
  <2>3. [facet[n] EXCEPT !.offered = v, !.status = voted] \in Facets
    BY <2>2 DEF Facets
  <2>4. facet' \in [Nodes -> Facets]
    BY <1>0, <2>1, <2>3 DEF GraphIsTyped
  <2> QED BY <1>0, <1>4, <2>4 DEF Propose, GraphIsTyped, Change, Drawn
<1>5. ASSUME NEW n \in Debated, NEW s \in Statuses \ {"committed"}, Poll(n, s)
      PROVE  GraphIsTyped' /\ Change
  <2>1. facet' = [facet EXCEPT ![n].status = s]
    BY <1>5 DEF Poll
  <2>2. facet' \in [Nodes -> Facets]
    BY <1>0, <2>1, DebatedAssumption DEF GraphIsTyped, Facets
  <2> QED BY <1>0, <1>5, <2>2 DEF Poll, GraphIsTyped, Change, Drawn
<1>6. ASSUME NEW n \in Debated, Commit(n) PROVE GraphIsTyped' /\ Change
  <2>1. facet' = [facet EXCEPT ![n] = [@ EXCEPT !.decided = facet[n].offered,
                                                !.status = "committed"]]
    BY <1>6 DEF Commit
  <2>2. facet[n] \in Facets
    BY <1>0, DebatedAssumption DEF GraphIsTyped
  <2>3. [facet[n] EXCEPT !.decided = facet[n].offered, !.status = "committed"] \in Facets
    BY <2>2 DEF Facets, Statuses
  <2>4. facet' \in [Nodes -> Facets]
    BY <1>0, <2>1, <2>3 DEF GraphIsTyped
  <2> QED BY <1>0, <1>6, <2>4 DEF Commit, GraphIsTyped, Change, Drawn
<1> QED BY <1>1, <1>2, <1>3, <1>4, <1>5, <1>6 DEF Next

LEMMA DiagStep == DiagInv /\ [Next]_vars => DiagInv'
<1> SUFFICES ASSUME DiagInv, [Next]_vars PROVE DiagInv'
  OBVIOUS
<1>1. CASE Notify
  BY <1>1, NotifyKeeps
<1>2. CASE Next /\ ~Notify
  BY <1>2, GraphStaysTyped, ChangeKeeps
<1>3. CASE UNCHANGED vars
  <2>1. Diagnosis' = Diagnosis
    BY <1>3, DiagnosisStays DEF vars
  <2>2. GraphIsTyped'
    BY <1>3 DEF vars, DiagInv, GraphIsTyped, Drawn
  <2>3. (\A d \in reported \cup screen : Sane(d))'
    BY <1>3 DEF vars, DiagInv, Sane, Entities, EdgeIds, Severities
  <2> QED BY <1>3, <2>1, <2>2, <2>3 DEF vars, DiagInv, Keys
<1> QED BY <1>1, <1>2, <1>3

\* The invariant holds whatever is drawn, hidden, proposed and committed.
THEOREM DiagnosesAreSane == Spec => []DiagInv
<1>1. Init => DiagInv
  BY DiagStarts
<1>2. DiagInv /\ [Next]_vars => DiagInv'
  BY DiagStep
<1> QED BY <1>1, <1>2, PTL DEF Spec

\* A client that applies what fired and what cleared holds the diagnoses last
\* reported, and what a blocking one names is marked as blocking even where an
\* advisory one names it too (diffDiagnostics, applyDiagnostic,
\* projectDiagnosticHighlights).
THEOREM TheScreenShowsTheGraph == Spec => []ScreenShowsTheGraph
<1>1. DiagInv => ScreenFollowsGraph
  BY DEF DiagInv, ScreenFollowsGraph
<1>2. ASSUME DiagInv PROVE BlockedIsMarked
  <2> SUFFICES ASSUME NEW d \in reported, d.severity = "blocking", NEW n \in d.nodes
               PROVE  Mark(n) = "blocking"
    BY DEF BlockedIsMarked
  <2>1. PICK e \in screen : e.key = d.key
    BY <1>2 DEF DiagInv, Keys
  <2>2. Sane(d) /\ Sane(e)
    BY <1>2 DEF DiagInv
  <2>3. e.severity = "blocking" /\ e.nodes = d.nodes
    BY <2>1, <2>2 DEF Sane
  <2> QED BY <2>3 DEF Mark
<1>3. DiagInv => ScreenShowsTheGraph
  BY <1>1, <1>2 DEF ScreenShowsTheGraph
<1> QED BY <1>3, DiagnosesAreSane, PTL

\* Diagnoses name what can be seen, call no warrant they count incomplete, and
\* give a contradicts edge one reading and no more (detectMultiWarrants,
\* detectIncompleteWarrants..., detectContradictions, detectSelfContradicts and
\* the two detectors of annotations that contradict).
THEOREM ReadingsStayRight == Spec => []ReadingsAreRight
<1>1. DiagInv => TypeOK
  BY DEF DiagInv, GraphIsTyped, Facets, Sane, TypeOK
<1>2. ASSUME DiagInv PROVE OnlyTheVisibleIsNamed
  BY <1>2, DiagnosisIsSane DEF DiagInv, NamesTheSeen, OnlyTheVisibleIsNamed
<1>3. ASSUME DiagInv PROVE CountedWarrantsAreWhole
  <2> SUFFICES ASSUME NEW d \in Reported({"multi-warrant"}),
                      NEW h \in Reported({"bridges-to", "bridges-from"}),
                      h.key[2] \in d.key[4]
               PROVE  FALSE
    BY DEF CountedWarrantsAreWhole
  <2>1. GraphIsTyped /\ d \in Diagnosis /\ h \in Diagnosis
    BY <1>3 DEF DiagInv, Reported
  <2>2. d \in MultiWarrants
    BY <2>1, DiagnosisIsSane DEF Reported
  <2>3. Targets(h.key[2], "bridges-from") # {} /\ Targets(h.key[2], "bridges-to") # {}
    BY <2>1, <2>2, MultiWarrantsName
  <2>4. h.key[1] \in {"bridges-to", "bridges-from"}
    BY DEF Reported
  <2>5. PICK has : h \in HalfWarrants(has, h.key[1])
    BY <2>1, <2>4, DiagnosisIsSane
  <2>6. Targets(h.key[2], h.key[1]) = {}
    BY <2>1, <2>4, <2>5, HalfWarrantsName
  <2> QED BY <2>3, <2>4, <2>6
<1>4. ASSUME DiagInv PROVE OneReadingPerContradiction
  <2> SUFFICES ASSUME ~due PROVE OneReadingPerContradiction
    BY DEF OneReadingPerContradiction
  <2>1. GraphIsTyped /\ reported = Diagnosis
    BY <1>4 DEF DiagInv
  <2>2. \A i : {d \in Reported(Opposing) : i \in d.edges} = ReadingsOf(i)
    BY <2>1 DEF Reported, ReadingsOf
  <2>3. \A i : Cardinality(ReadingsOf(i)) <= 1
    BY <2>1, OneReading, CountedOnce
  <2>4. \A t \in MixedEnds : Anchor[t[3]] # NoNode => ReadingsOf(t[1]) # {}
    BY <2>1, MixedIsRead
  <2> QED BY <2>2, <2>3, <2>4 DEF OneReadingPerContradiction, Opposing
<1>5. DiagInv => ReadingsAreRight
  BY <1>1, <1>2, <1>3, <1>4 DEF ReadingsAreRight
<1> QED BY <1>5, DiagnosesAreSane, PTL

LEMMA CycleReports ==
  ASSUME DiagInv, ~due, NEW found, found = Components(Adjacency)
  PROVE  Reported({"cycle"}) =
           {Cycle(Walk(found[k], Adjacency)) :
              k \in {l \in DOMAIN found : Circular(found[l], Adjacency)}}
<1>1. GraphIsTyped /\ reported = Diagnosis
  BY DEF DiagInv
<1>2. Reported({"cycle"}) = {Cycle(p) : p \in Cycles}
  <2>1. \A p : Cycle(p).key[1] = "cycle"
    BY DEF Cycle, Entry
  <2>2. \A d \in Diagnosis : d.key[1] = "cycle" => \E p \in Cycles : d = Cycle(p)
    BY <1>1, DiagnosisIsSane
  <2>3. \A p \in Cycles : Cycle(p) \in Diagnosis
    BY DEF Diagnosis
  <2> HIDE DEF Diagnosis
  <2> QED BY <1>1, <2>1, <2>2, <2>3 DEF Reported
<1>3. \A p : p \in Cycles <=>
        \E k \in DOMAIN found : Circular(found[k], Adjacency) /\ p = Walk(found[k], Adjacency)
  BY <1>1, CyclesAreWalks
<1> QED BY <1>2, <1>3

LEMMA CirclesReported == ASSUME DiagInv PROVE CirclesAreReported
<1> SUFFICES ASSUME ~due
             PROVE  /\ \A d \in Reported({"cycle"}) : \E c \in Circles : d.nodes \subseteq c
                    /\ \A c \in Circles :
                         Cardinality({d \in Reported({"cycle"}) : d.nodes \cap c # {}}) = 1
  BY DEF CirclesAreReported
<1> DEFINE D == SeenNodes
           A == Adjacency
           found == Components(A)
           report(k) == Cycle(Walk(found[k], A))
<1>0. GraphIsTyped
  BY DEF DiagInv
<1>1. Reported({"cycle"}) = {report(k) : k \in {l \in DOMAIN found : Circular(found[l], A)}}
  BY CycleReports
<1>2. /\ found \in Seq(Seq(D))
      /\ \A n \in D : \E k \in DOMAIN found : n \in ToSet(found[k])
      /\ \A k, l \in DOMAIN found : k # l => ToSet(found[k]) \cap ToSet(found[l]) = {}
      /\ \A k \in DOMAIN found :
           /\ found[k] # <<>> /\ IsInjective(found[k])
           /\ \A n \in ToSet(found[k]) : ToSet(found[k]) = ClassOf(D, A, n)
  BY <1>0, ComponentsAreClasses
<1>3. \A k \in DOMAIN found :
        /\ found[k] \in Seq(D) /\ ToSet(found[k]) \subseteq D
        /\ ToSet(Walk(found[k], A)) \subseteq ToSet(found[k])
        /\ found[k][1] \in ToSet(Walk(found[k], A)) \cap ToSet(found[k])
  BY <1>0, CyclesAreWalks
<1>4. \A k : report(k).nodes = ToSet(Walk(found[k], A))
  BY DEF Cycle, Entry
<1>5. Circles = {{m \in Nodes : <<n, m>> \in Leads /\ <<m, n>> \in Leads} :
                   n \in {k \in Nodes : <<k, k>> \in Leads}}
  BY DEF Circles
<1>6. ASSUME NEW k \in DOMAIN found, NEW n \in ToSet(found[k])
      PROVE  <<n, n>> \in Leads <=> Circular(found[k], A)
  <2> DEFINE c == found[k]
  <2>1. /\ c \in Seq(D) /\ c # <<>> /\ IsInjective(c)
        /\ \A x \in ToSet(c) : ToSet(c) = ClassOf(D, A, x)
        /\ n \in ToSet(c)
    BY <1>2, <1>3
  <2> HIDE DEF c, found
  <2>2. <<n, n>> \in Leads <=> Circular(c, A)
    BY <1>0, <2>1, CircularLeads
  <2> QED BY <2>2 DEF c
<1> HIDE DEF D, A, found
<1>7. ASSUME NEW d \in Reported({"cycle"}) PROVE \E c \in Circles : d.nodes \subseteq c
  <2>1. PICK k \in DOMAIN found : Circular(found[k], A) /\ d = report(k)
    BY <1>1
  <2> DEFINE n == found[k][1]
  <2>2. n \in ToSet(found[k]) /\ n \in D /\ n \in Nodes
    BY <1>3 DEF D, SeenNodes
  <2>3. <<n, n>> \in Leads /\ ToSet(found[k]) = ClassOf(D, A, n)
    BY <1>2, <1>6, <2>1, <2>2
  <2> HIDE DEF n
  <2>4. {m \in Nodes : <<n, m>> \in Leads /\ <<m, n>> \in Leads} = ToSet(found[k])
    BY <1>0, <2>2, <2>3, CircleIsAClass DEF D, A
  <2>5. ToSet(found[k]) \in Circles
    BY <1>5, <2>2, <2>3, <2>4
  <2> QED BY <1>3, <1>4, <2>1, <2>5
<1>8. ASSUME NEW c \in Circles
      PROVE  Cardinality({d \in Reported({"cycle"}) : d.nodes \cap c # {}}) = 1
  <2>1. PICK n \in Nodes : /\ <<n, n>> \in Leads
                           /\ c = {m \in Nodes : <<n, m>> \in Leads /\ <<m, n>> \in Leads}
    BY <1>5
  <2>2. n \in D /\ c = ClassOf(D, A, n)
    BY <1>0, <2>1, CircleIsAClass DEF D, A
  <2>3. PICK k \in DOMAIN found : n \in ToSet(found[k])
    BY <1>2, <2>2
  <2>4. c = ToSet(found[k]) /\ Circular(found[k], A)
    BY <1>2, <1>6, <2>1, <2>2, <2>3
  <2>5. report(k) \in Reported({"cycle"}) /\ report(k).nodes \cap c # {}
    BY <1>1, <1>3, <1>4, <2>4
  <2>6. ASSUME NEW d \in Reported({"cycle"}), d.nodes \cap c # {} PROVE d = report(k)
    <3>1. PICK l \in DOMAIN found : d = report(l)
      BY <1>1
    <3>2. ToSet(found[l]) \cap ToSet(found[k]) # {}
      BY <1>3, <1>4, <2>4, <2>6, <3>1
    <3> QED BY <1>2, <3>1, <3>2
  <2> HIDE DEF report
  <2>7. {d \in Reported({"cycle"}) : d.nodes \cap c # {}} = {report(k)}
    BY <2>5, <2>6
  <2> QED BY <2>7, FS_Singleton
<1> QED BY <1>7, <1>8

LEMMA BreakingHelpsThen == ASSUME DiagInv PROVE BreakingHelps
<1> SUFFICES ASSUME NEW d \in Reported({"cycle"})
             PROVE  \E i \in CandidateBreakEdges(d.nodes) :
                      Fires(i) /\ <<edges[i].target, edges[i].source>> \in Leads
  BY DEF BreakingHelps
<1> DEFINE D == SeenNodes
           A == Adjacency
           found == Components(A)
<1>0. GraphIsTyped /\ ~due
  BY DEF DiagInv, Reported
<1>1. PICK k \in DOMAIN found : /\ Circular(found[k], A)
                                /\ d = Cycle(Walk(found[k], A))
  BY <1>0, CycleReports
<1> DEFINE c == found[k]
           p == Walk(c, A)
           n == c[1]
<1>2. /\ c \in Seq(D) /\ ToSet(c) \subseteq D /\ p \in Paths(c, A)
      /\ ToSet(p) \subseteq ToSet(c) /\ n \in ToSet(p) \cap ToSet(c)
      /\ Len(c) > 1 => Len(p) >= 2
  BY <1>0, CyclesAreWalks
<1>3. /\ c # <<>> /\ IsInjective(c)
      /\ \A x \in ToSet(c) : ToSet(c) = ClassOf(D, A, x)
  BY <1>0, ComponentsAreClasses
<1>4. <<n, n>> \in Leads
  BY <1>0, <1>1, <1>2, <1>3, CircularLeads
<1>5. d.nodes = ToSet(p) /\ Circular(c, A)
  BY <1>1 DEF Cycle, Entry
<1>6. n \in D /\ A[n] \in Seq(D) /\ ToSet(A[n]) = Linked(n)
  BY <1>0, <1>2, AdjacencyIsRight
<1> HIDE DEF D, A, found, c, p, n
<1>7. ASSUME NEW m \in ToSet(A[n]), m \in ToSet(p), <<m, n>> \in Leads
      PROVE  \E i \in CandidateBreakEdges(d.nodes) :
               Fires(i) /\ <<edges[i].target, edges[i].source>> \in Leads
  <2>1. PICK i \in Links("supports") : edges[i].source = n /\ Fires(i) /\ edges[i].target = m
    BY <1>6 DEF Linked
  <2>2. Ends(i) \subseteq d.nodes
    BY <1>2, <1>5, <1>7, <2>1 DEF Ends
  <2> QED BY <1>7, <2>1, <2>2 DEF CandidateBreakEdges
<1>8. CASE Len(c) > 1
  <2>1. p[2] \in ToSet(A[n]) /\ p[2] # n /\ p[2] \in ToSet(p)
    BY <1>2, <1>8 DEF Paths, ToSet, n
  <2>2. p[2] \in D /\ p[2] \in ClassOf(D, A, n)
    BY <1>2, <1>3, <2>1
  <2>3. <<p[2], n>> \in Leads
    BY <1>0, <1>6, <2>1, <2>2, LeadsApart DEF ClassOf, D, A
  <2> QED BY <1>7, <2>1, <2>3
<1>9. CASE ~(Len(c) > 1)
  <2>1. Contains(A[n], n)
    BY <1>5, <1>9 DEF Circular, n
  <2>2. n \in ToSet(A[n])
    BY <1>6, <2>1 DEF Contains, ToSet
  <2> QED BY <1>2, <1>4, <1>7, <2>2
<1> QED BY <1>8, <1>9

\* Every circle of firing support is reported exactly once and nothing else is,
\* whatever the order in which its edges were drawn, and one of the edges the
\* moderator is offered for breaking fires and lies on it (tarjanScc,
\* walkSccInAdjacencyOrder, detectSupportsCycles, candidateBreakEdges).
THEOREM EveryCircleIsFound == Spec => []CirclesAreFound
<1>1. DiagInv => CirclesAreFound
  BY CirclesReported, BreakingHelpsThen DEF CirclesAreFound
<1> QED BY <1>1, DiagnosesAreSane, PTL

\* A defeater wakes up: an edge listed as a pending consequence fires in the
\* step after which the participants agree that its source holds
\* (detectPendingConsequences, isEdgeActive).
THEOREM DefeatersWakeUp == Spec => DefeatersActivate
<1> DEFINE Woken(i) ==
      /\ i \in SeenEdges' /\ SeenNode(edges[i].source)'
      /\ facet[edges[i].source].decided = NoValue
      /\ (facet[edges[i].source].status = "agreed")'
      /\ (facet[edges[i].source].offered = "agreed")'
<1>1. ASSUME DiagInv, [Next]_vars, NEW i \in Pending, Woken(i)
      PROVE  Fires(i)'
  <2> DEFINE n == edges[i].source
  <2>1. i \in Drawn /\ n \in Nodes /\ GraphIsTyped
    BY <1>1 DEF Pending, SeenEdges, SeenNode, DiagInv
  <2>2. edges'[i] = edges[i]
    <3>1. CASE \E e \in Drawable : edges' = Append(edges, e)
      BY <2>1, <3>1 DEF GraphIsTyped, Drawn
    <3>2. CASE UNCHANGED edges
      BY <3>2
    <3> QED
      BY <1>1, <3>1, <3>2 DEF Next, Notify, Draw, Hide, Break, Propose, Poll, Commit, vars
  <2>3. facet'[n].status = "agreed" /\ facet'[n].offered = "agreed"
        /\ facet[n].decided = NoValue
    BY <1>1, <2>2
  <2>4. facet'[n].decided = NoValue
    <3>1. CASE \E m \in Debated : Commit(m)
      <4>1. PICK m \in Debated : Commit(m)
        BY <3>1
      <4>2. m # n
        BY <2>1, <2>3, <4>1 DEF Commit, GraphIsTyped
      <4> QED BY <2>1, <2>3, <4>1, <4>2 DEF Commit, GraphIsTyped
    <3>2. CASE \E m \in Debated, v \in Values : Propose(m, v)
      <4>1. PICK m \in Debated, v \in Values : Propose(m, v)
        BY <3>2
      <4>2. PICK voted : facet' = [facet EXCEPT ![m] =
                                     [@ EXCEPT !.offered = v, !.status = voted]]
        BY <4>1 DEF Propose
      <4> QED BY <2>1, <2>3, <4>2 DEF GraphIsTyped
    <3>3. CASE \E m \in Debated, s \in Statuses \ {"committed"} : Poll(m, s)
      <4>1. PICK m \in Debated, s \in Statuses : facet' = [facet EXCEPT ![m].status = s]
        BY <3>3 DEF Poll
      <4> QED BY <2>1, <2>3, <4>1 DEF GraphIsTyped
    <3>4. CASE UNCHANGED facet
      BY <2>3, <3>4
    <3> QED BY <1>1, <3>1, <3>2, <3>3, <3>4 DEF Next, Notify, Draw, Hide, Break, vars
  <2> QED BY <2>2, <2>3, <2>4 DEF Fires, Stands, Established, Resolved
<1>2. DiagInv /\ [Next]_vars =>
        [\A i \in Pending : Woken(i) => Fires(i)']_vars
  BY <1>1
<1> QED BY <1>2, DiagnosesAreSane, PTL DEF Spec, DefeatersActivate
============================================================================
