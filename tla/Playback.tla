------------------------------ MODULE Playback ------------------------------
(* Looking back at a debate: the audience's replay player and the test-mode *)
(* scrubber.  Both page through the persisted log over REST while the       *)
(* debate may still go on, keep the copy they read, and move a position     *)
(* over it; the chapters, the diagnostics and the exported state come from  *)
(* further requests, answered from a log that may have grown since.         *)
(*                                                                          *)
(* An event is its sequence number and whether it is a chapter (a labelled  *)
(* snapshot).  A fetch is a record in `flights`; `live` is the negation of  *)
(* the `cancelled` flag of the effect that made it.  React's work between   *)
(* two events (render, effect cleanup, effect) is one step.                 *)
EXTENDS Integers, Sequences, FiniteSets, SequencesExt

CONSTANTS Sessions, Surfaces, Viewers, \* "replay"/"scrubber"; "member"/"visitor"
          PageLimit,    \* events in one page of the log
          MaxLog,       \* bound: events in all the logs
          MaxGestures   \* bound: what viewer and moderator do

ASSUME SessionsAssumption == Sessions # {}
ASSUME PageLimitAssumption == PageLimit \in Nat \ {0}
ASSUME BoundsAssumption == MaxLog \in Nat /\ MaxGestures \in Nat

VARIABLES log, public,                            \* the server
          flights,                                \* requests and answers
          surface, viewer, wanted, gestures,      \* who looks, and where
          route, status, events,                  \* useSessionEventLog
          position, playing,                      \* the player
          chapters,                               \* useSessionSnapshots
          panels,                                 \* diagnostics, exported state
          opened    \* history: the log's length when the load began

server == <<log, public>>
setting == <<surface, viewer, wanted>>
page == <<route, opened>>
replayVars == <<log, public, flights, surface, viewer, wanted, gestures, route,
                status, events, position, playing, chapters, panels, opened>>

Kinds == {"plain", "chapter"}
PanelNames == {"diagnostics", "state"}
None == <<>>

(* Messages.  Code 0 stands for no answer yet, 500 for any failed fetch. *)
Unanswered == [code |-> 0, items |-> <<>>, next |-> 0]
Refused(code) == [Unanswered EXCEPT !.code = code]
Found(items, next) == [code |-> 200, items |-> items, next |-> next]
Fetch(what, s, at, collected) ==
  [what |-> what, session |-> s, at |-> at, collected |-> collected,
   live |-> TRUE, answer |-> Unanswered]

-----------------------------------------------------------------------------
(* The server *)

Visible(s) == viewer = "member" \/ public[s]

\* One page: the events after the cursor, and the cursor of the next page
\* unless the look-ahead row is missing.
Page(s, after) ==
  LET hasMore == Len(log[s]) - after > PageLimit
      size    == IF hasMore THEN PageLimit ELSE Len(log[s]) - after
  IN  Found([i \in 1..size |-> after + i], IF hasMore THEN after + size ELSE 0)

Snapshots(s) == Found(SetToSeq({n \in 1..Len(log[s]) : log[s][n] = "chapter"}), 0)

\* Diagnostics and state are computed by replaying the log to a position.
AtPosition(s, at) == IF at \in 0..Len(log[s]) THEN Found(<<at>>, 0) ELSE Refused(400)

Response(f) ==
  IF f.what = "page"
  THEN IF Visible(f.session) THEN Page(f.session, f.at) ELSE Refused(404)
  ELSE IF viewer = "visitor" THEN Refused(401)
       ELSE IF ~Visible(f.session) THEN Refused(404)
            ELSE IF f.what = "chapters" THEN Snapshots(f.session)
                 ELSE AtPosition(f.session, f.at)

RoomInLogs == FoldFunctionOnSet(LAMBDA l, n : Len(l) + n, 0, log, Sessions) < MaxLog

AppendEvent(s) ==
  /\ RoomInLogs
  /\ \E kind \in Kinds : log' = [log EXCEPT ![s] = Append(@, kind)]
  /\ UNCHANGED <<public, flights, setting, gestures, page, status, events,
                 position, playing, chapters, panels>>

Answer(f) ==
  /\ f.answer = Unanswered
  /\ \E answer \in {Response(f)} \cup IF f.live THEN {Refused(500)} ELSE {} :
       flights' = (flights \ {f}) \cup {[f EXCEPT !.answer = answer]}
  /\ UNCHANGED <<server, setting, gestures, page, status, events, position,
                 playing, chapters, panels>>

-----------------------------------------------------------------------------
(* The page *)

HeadSequence == Len(events)   \* replayHeadSequence of a contiguous log
Mounted == status = "ready" /\ (surface = "scrubber" => events # <<>>)

Clamp(value) == IF value < 0 THEN 0 ELSE IF value > HeadSequence THEN HeadSequence ELSE value
\* Mutant: the button stops one short of the end.
ForwardShort(p) == IF p < HeadSequence - 1 THEN p + 1 ELSE p

Forward(p) == IF p < HeadSequence THEN p + 1 ELSE HeadSequence
Back(p) == IF p > 0 THEN p - 1 ELSE 0
Marks == ToSet(chapters.marks)
Later == {m \in Marks : m > position}
Earlier == {m \in Marks : m < position}
NextChapter == IF Later = {} THEN None ELSE <<CHOOSE m \in Later : \A n \in Later : m <= n>>
PrevChapter == IF Earlier = {} THEN None ELSE <<CHOOSE m \in Earlier : \A n \in Earlier : n <= m>>

CancelledNever(fs, whats) == fs

\* The cleanup of an effect cancels the requests it made.
Cancelled(fs, whats) ==
  {IF f.what \in whats THEN [f EXCEPT !.live = FALSE] ELSE f : f \in fs}

Blank == [status |-> "loading", marks |-> <<>>]
Panel(st, about) == [status |-> st, about |-> about]
NoPanels == [diagnostics |-> Panel("loading", None), state |-> Panel("idle", None)]

\* The load effect: everything below the route unmounts.
Load(s) ==
  /\ route' = s
  /\ opened' = Len(log[s])
  /\ status' = "loading"
  /\ events' = <<>>
  /\ flights' = Cancelled(flights, {"page", "chapters", "diagnostics", "state"})
                  \cup {Fetch("page", s, 0, <<>>)}
  /\ position' = 0
  /\ playing' = FALSE
  /\ chapters' = Blank
  /\ panels' = NoPanels

Gesture == gestures < MaxGestures /\ gestures' = gestures + 1

\* The privacy route.  Only a visitor, of the session on screen, can notice.
FlipPrivacy(s) ==
  /\ viewer = "visitor" /\ s = route
  /\ Gesture
  /\ public' = [public EXCEPT ![s] = ~@]
  /\ UNCHANGED <<log, flights, setting, page, status, events, position, playing,
                 chapters, panels>>

Navigate(s) ==
  /\ s # route
  /\ Gesture
  /\ Load(s)
  /\ UNCHANGED <<server, setting>>

RetryLoad ==
  /\ status = "error"
  /\ Gesture
  /\ Load(route)
  /\ UNCHANGED <<server, setting>>

\* The log is complete: the player or the scrubber mounts on it.
Mount(f, all) ==
  LET mounts == surface = "replay" \/ all # <<>>
      start  == IF surface = "replay" /\ wanted # None
                THEN IF wanted[1] > Len(all) THEN Len(all) ELSE wanted[1]
                ELSE Len(all)
      asked  == {Fetch("chapters", route, 0, <<>>)}
                \cup IF surface = "scrubber"
                     THEN {Fetch("diagnostics", route, start, <<>>)} ELSE {}
  IN /\ status' = "ready"
     /\ events' = all
     /\ position' = start
     /\ flights' = (flights \ {f}) \cup IF mounts THEN asked ELSE {}

Drop(f) ==
  /\ flights' = flights \ {f}
  /\ UNCHANGED <<status, events, position, chapters, panels>>

Heard(f) == f.answer # Unanswered

\* The events of session s with these sequence numbers.
EventsOf(s, numbers) == [i \in DOMAIN numbers |-> <<s, numbers[i]>>]

ReceivePage(f) ==
  LET all == f.collected \o EventsOf(f.session, f.answer.items)
  IN /\ f.what = "page" /\ Heard(f)
     /\ \/ ~f.live /\ Drop(f)
        \/ /\ f.live /\ f.answer.code = 200 /\ f.answer.next # 0
           /\ flights' = (flights \ {f})
                           \cup {Fetch("page", f.session, f.answer.next, all)}
           /\ UNCHANGED <<status, events, position, chapters, panels>>
        \/ /\ f.live /\ f.answer.code = 200 /\ f.answer.next = 0
           /\ Mount(f, all)
           /\ UNCHANGED <<chapters, panels>>
        \/ /\ f.live /\ f.answer.code # 200
           /\ status' = IF f.answer.code = 404 THEN "not-found" ELSE "error"
           /\ flights' = flights \ {f}
           /\ UNCHANGED <<events, position, chapters, panels>>
     /\ UNCHANGED <<server, setting, gestures, page, playing>>

ReceiveChapters(f) ==
  /\ f.what = "chapters" /\ Heard(f)
  /\ \/ ~f.live /\ Drop(f)
     \/ /\ f.live
        /\ chapters' = IF f.answer.code = 200
                       THEN [status |-> "ready", marks |-> f.answer.items]
                       ELSE [chapters EXCEPT !.status = "error"]
        /\ flights' = flights \ {f}
        /\ UNCHANGED <<status, events, position, panels>>
  /\ UNCHANGED <<server, setting, gestures, page, playing>>

ReceivePanel(f) ==
  /\ f.what \in PanelNames /\ Heard(f)
  /\ \/ ~f.live /\ Drop(f)
     \/ /\ f.live
        /\ panels' = [panels EXCEPT ![f.what] =
                        IF f.answer.code = 200
                        THEN Panel("ready", <<f.session, f.answer.items[1]>>)
                        ELSE [@ EXCEPT !.status = "error"]]
        /\ flights' = flights \ {f}
        /\ UNCHANGED <<status, events, position, chapters>>
  /\ UNCHANGED <<server, setting, gestures, page, playing>>

RetryChapters ==
  /\ Mounted /\ chapters.status = "error"
  /\ Gesture
  /\ chapters' = Blank
  /\ flights' = flights \cup {Fetch("chapters", route, 0, <<>>)}
  /\ UNCHANGED <<server, setting, page, status, events, position, playing, panels>>

-----------------------------------------------------------------------------
(* Moving over the log *)

SetPositionKeepingFlights(p) ==
  /\ position' = p
  /\ IF surface = "scrubber" /\ p # position
     THEN /\ flights' = flights \cup {Fetch("diagnostics", route, p, <<>>)}
          /\ panels' = NoPanels
     ELSE UNCHANGED <<flights, panels>>

\* Under the scrubber, leaving a position asks for the new one's diagnostics
\* and clears the export.
SetPosition(p) ==
  /\ position' = p
  /\ IF surface = "scrubber" /\ p # position
     THEN /\ flights' = Cancelled(flights, PanelNames)
                          \cup {Fetch("diagnostics", route, p, <<>>)}
          /\ panels' = NoPanels
     ELSE UNCHANGED <<flights, panels>>

Move(p) ==
  /\ Mounted
  /\ Gesture
  /\ SetPosition(Clamp(p))
  /\ UNCHANGED <<server, setting, page, status, events, playing, chapters>>

StepForward == position # HeadSequence /\ Move(Forward(position))
StepBack == position # 0 /\ Move(Back(position))
Scrub == \E p \in (0..HeadSequence) \ {position} : Move(p)
JumpToChapter == \E m \in Marks : Move(m)
GoNextChapter == surface = "replay" /\ NextChapter # None /\ Move(NextChapter[1])
GoPrevChapter == surface = "replay" /\ PrevChapter # None /\ Move(PrevChapter[1])

Play ==
  /\ Mounted /\ surface = "replay" /\ ~playing
  /\ Gesture
  /\ playing' = TRUE
  /\ position' = IF position = HeadSequence THEN 0 ELSE position
  /\ UNCHANGED <<server, setting, flights, page, status, events, chapters, panels>>

Pause ==
  /\ Mounted /\ playing
  /\ Gesture
  /\ playing' = FALSE
  /\ UNCHANGED <<server, setting, flights, page, status, events, position, chapters, panels>>

Tick ==
  /\ Mounted /\ playing
  /\ position' = Forward(position)
  /\ playing' = (position' # HeadSequence)
  /\ UNCHANGED <<server, setting, gestures, flights, page, status, events, chapters, panels>>

\* The Export button and the retry of its error ask for the position on show.
RequestExport ==
  /\ Mounted /\ surface = "scrubber" /\ panels["state"].status \in {"idle", "error"}
  /\ Gesture
  /\ panels' = [panels EXCEPT !["state"] = Panel("loading", None)]
  /\ flights' = flights \cup {Fetch("state", route, position, <<>>)}
  /\ UNCHANGED <<server, setting, page, status, events, position, playing, chapters>>

RetryDiagnostics ==
  /\ Mounted /\ surface = "scrubber" /\ panels["diagnostics"].status = "error"
  /\ Gesture
  /\ panels' = [panels EXCEPT !["diagnostics"] = Panel("loading", None)]
  /\ flights' = flights \cup {Fetch("diagnostics", route, position, <<>>)}
  /\ UNCHANGED <<server, setting, page, status, events, position, playing, chapters>>

-----------------------------------------------------------------------------
ReplayInit ==
  /\ log = [s \in Sessions |-> <<>>]
  /\ public = [s \in Sessions |-> TRUE]
  /\ surface \in Surfaces
  /\ viewer \in Viewers
  /\ wanted \in IF surface = "replay" THEN {None, <<1>>, <<MaxLog + 1>>} ELSE {None}
  /\ gestures = 0
  /\ route = CHOOSE s \in Sessions : TRUE   \* no session is like no other
  /\ opened = 0
  /\ status = "loading"
  /\ events = <<>>
  /\ flights = {Fetch("page", route, 0, <<>>)}
  /\ position = 0
  /\ playing = FALSE
  /\ chapters = Blank
  /\ panels = NoPanels

Receive == \E f \in flights : ReceivePage(f) \/ ReceiveChapters(f) \/ ReceivePanel(f)
Respond == \E f \in flights : Answer(f)

ReplayNext ==
  \/ \E s \in Sessions : AppendEvent(s) \/ FlipPrivacy(s) \/ Navigate(s)
  \/ Respond
  \/ Receive
  \/ RetryLoad \/ RetryChapters \/ RetryDiagnostics \/ RequestExport
  \/ StepForward \/ StepBack \/ Scrub \/ JumpToChapter
  \/ GoNextChapter \/ GoPrevChapter
  \/ Play \/ Pause \/ Tick

\* Every request is answered or fails, every answer is handled, and the
\* interval timer of a playing player fires.
Fairness == WF_replayVars(Respond) /\ WF_replayVars(Receive) /\ WF_replayVars(Tick)

ReplaySpec == ReplayInit /\ [][ReplayNext]_replayVars /\ Fairness

-----------------------------------------------------------------------------
(* Properties *)

\* Types.  A request asks for a place its session's log has, and the position
\* on screen is a stop of the loaded log, so the navigation helpers never throw
\* ReplayPositionError.
ReplayTypeOK ==
  /\ log \in [Sessions -> Seq(Kinds)]
  /\ public \in [Sessions -> BOOLEAN]
  /\ \A f \in flights :
       /\ f.what \in {"page", "chapters"} \cup PanelNames
       /\ f.session \in Sessions /\ f.at \in 0..Len(log[f.session])
       /\ f.live \in BOOLEAN
  /\ route \in Sessions
  /\ status \in {"loading", "ready", "not-found", "error"}
  /\ gestures \in 0..MaxGestures
  /\ position \in 0..HeadSequence /\ playing \in BOOLEAN
  /\ chapters.status \in {"loading", "ready", "error"}
  /\ \A p \in PanelNames : panels[p].status \in {"idle", "loading", "ready", "error"}

\* What is on screen is the log of the session in the address bar, from its
\* first event to at least the last one committed when the page was opened,
\* without a hole or a double, although the pages are read one by one from a
\* log that grows and the person may leave in the middle (useSessionEventLog's
\* paging loop and its cancelled flag).
ShowsThisLog ==
  status = "ready" =>
    /\ Len(events) \in opened..Len(log[route])
    /\ \A n \in 1..Len(events) : events[n] = <<route, n>>

\* Every position the page asks about, from whatever copy of the log it holds,
\* exists in the log the server replays: no request is refused as out of range.
PositionsExist == \A f \in flights : f.answer.code # 400

\* The diagnostics and the exported state on screen are those of this session
\* at this position, whatever order the answers came in ("never show a stale
\* projection", useStateAtPosition).
ReadoutsAreCurrent ==
  \A p \in PanelNames :
    panels[p].status = "ready" => panels[p].about = <<route, position>>

\* The chapter index, asked for after the log, names every chapter of it.
IndexCoversTheLog ==
  chapters.status = "ready" =>
    \A n \in 1..Len(events) : log[route][n] = "chapter" => n \in Marks

\* The player shows one session's log, whole, with its chapters, and never asks
\* for a position outside it.
PlayerShowsTheLog == ReplayTypeOK /\ ShowsThisLog /\ PositionsExist /\ IndexCoversTheLog

\* Every load comes to an end, even against a growing log.
LoadsSettle == (status = "loading") ~> (status # "loading")

\* Whatever is scrubbed and stepped meanwhile, a started playback stops.
PlaybackEnds == playing ~> ~playing

\* Neither a growing log nor a hand on the scrubber keeps the player busy for
\* ever.
EveryWaitEnds == LoadsSettle /\ PlaybackEnds
=============================================================================
