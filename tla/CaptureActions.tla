--------------------------- MODULE CaptureActions ---------------------------
(***************************************************************************)
(* What the moderator sends: the hooks under apps/moderator/src/layout     *)
(* that propose the draft of CaptureStore (a statement, a decomposition, a *)
(* split, a defeater, a meta-move) and the hooks of both applications      *)
(* that send one gesture about one thing (commit, vote, withdraw, axiom    *)
(* mark, reword, break an edge, ...), here the members of Slots.           *)
(*                                                                         *)
(* A gesture takes its lock - the one `proposing` flag for all five        *)
(* drafts, a flag per slot for the rest - sends one request and waits.     *)
(* The request ends by an ack, an error, the client's timeout or the loss  *)
(* of the socket; the server may still handle it after the client gave it  *)
(* up.  Meanwhile the moderator goes on typing and changing modes.         *)
(***************************************************************************)
EXTENDS CaptureStore

CONSTANTS
    Slots,       \* entity facets, proposals, edges ... a gesture can be about
    MaxGestures, \* bound on the edits of the draft and the requests together
    MaxSends,    \* bound on the requests
    MaxLog       \* bound on the session's log

Panels == {"capture-defeater", "meta-move"} \* what stays on screen while it is out
Flows == {"statement"} \cup RowModes \cup Panels

ASSUME GestureAssumption ==
    /\ Slots \cap Flows = {}
    /\ MaxGestures \in Nat /\ MaxSends \in Nat /\ MaxLog \in Nat

Gestures == Flows \cup Slots

\* What a hook saves of the draft; the fields it does not touch stay empty.
Snapshots == [text : Texts \cup {Blank}, target : Nodes \cup Edges \cup {Nothing},
              role : BOOLEAN, on : Nodes \cup {Nothing}, rows : Rows]
Empty == [text |-> Blank, target |-> Nothing, role |-> FALSE, on |-> Nothing, rows |-> <<>>]

VARIABLES
    draft,    \* the capture store
    busy,     \* slots whose in-flight flag is up
    error,    \* gestures whose last error is on record
    baseline, \* the draft a mounted hook compares with before it dismisses its
              \* error, as a set: empty when it compares with nothing
    waiting,  \* requests the client waits on
    wire,     \* requests the server has not handled
    answers,  \* answers on their way
    open,     \* the connection's status is open
    log,      \* the session's log: the gesture behind each event, and how
              \* much of the log its sender had applied
    applied,  \* lastAppliedSequence
    edits, sent \* counters for the bounds

requests == <<waiting, wire, answers, sent>>
session == <<log, applied>>
screen == <<draft, busy, error, baseline>>
vars == <<screen, requests, session, open, edits>>

Requests == [id : 1..MaxSends, of : Gestures, expected : 0..MaxLog, saved : Snapshots]

\* The part of the draft a hook proposes, saves and watches.
Slice(d, f) ==
    CASE f = "statement" ->
           [Empty EXCEPT !.text = d.text, !.target = d.target, !.role = d.role]
      [] f \in RowModes -> [Empty EXCEPT !.on = d.on[f], !.rows = d.rows[f]]
      [] f = "capture-defeater" -> [Empty EXCEPT !.text = d.text]
      [] f = "meta-move" -> [Empty EXCEPT !.text = d.text, !.target = d.target]

\* The route keeps useProposeAction mounted; the other four hooks live in
\* panels that exist only in their mode.
Mounted(d, f) == f = "statement" \/ d.mode = f

\* One render and its effects: a hook that sees its error appear remembers the
\* draft, and dismisses the error once the draft differs.
Remembered(d, e, f) ==
    IF ~Mounted(draft, f) \/ ~Mounted(d, f) THEN {}
    ELSE IF f \in error THEN baseline[f] ELSE {Slice(d, f)}

Dismisses(d, e, f) == \E was \in Remembered(d, e, f) : was # Slice(d, f)

Show(d, e) ==
    LET kept == {g \in e : g \in Flows => ~Dismisses(d, e, g)}
    IN  /\ draft' = d
        /\ error' = kept
        /\ baseline' = [f \in Flows |-> IF f \in kept THEN Remembered(d, e, f) ELSE {}]

Init ==
    /\ draft = Initial /\ busy = {} /\ error = {}
    /\ baseline = [f \in Flows |-> {}]
    /\ waiting = {} /\ wire = {} /\ answers = {}
    /\ open = TRUE
    /\ log = <<>> /\ applied = 0
    /\ edits = 0 /\ sent = 0

-----------------------------------------------------------------------------
\* The moderator at the capture pane.

Edit(d) ==
    /\ edits + sent < MaxGestures
    /\ d # draft
    /\ Show(d, error)
    /\ edits' = edits + 1
    /\ UNCHANGED <<busy, requests, session, open>>

EnterMode(m, n) == Edit(Enter(draft, m, n))

ExitMode(m) == draft.mode = m /\ Edit(Exit(draft, m))

EnterMetaMode == Edit(EnterMeta(draft))

\* The button keeps the target; Escape may reach the target's chip as well.
ExitMetaMode(clear) ==
    /\ draft.mode = "meta-move"
    /\ Edit([draft EXCEPT !.mode = "idle",
                          !.target = IF clear THEN Nothing ELSE draft.target,
                          !.role = IF clear THEN FALSE ELSE draft.role])

Type(t) ==
    /\ draft.mode \in {"idle", "capture-defeater", "meta-move"}
    /\ Edit([draft EXCEPT !.text = t])

\* The chip of the target stages what was selected last; a click on an edge
\* stages it in meta-move mode only.
Stage(n) ==
    /\ draft.mode \in {"idle", "meta-move"} /\ draft.target \notin Edges
    /\ Edit([draft EXCEPT !.target = n])

StageEdge(e) == draft.mode = "meta-move" /\ Edit([draft EXCEPT !.target = e])

ClearTarget ==
    /\ draft.mode \in {"idle", "meta-move"}
    /\ Edit([draft EXCEPT !.target = Nothing, !.role = FALSE])

PickRole(on) ==
    /\ draft.mode = "idle" /\ draft.target # Nothing
    /\ Edit([draft EXCEPT !.role = on])

WriteRow(m, i, t) ==
    /\ draft.mode = m /\ i \in DOMAIN draft.rows[m]
    /\ Edit([draft EXCEPT !.rows = [draft.rows EXCEPT ![m] = [draft.rows[m] EXCEPT ![i] = t]]])

AddRowTo(m) ==
    /\ draft.mode = m
    /\ Edit([draft EXCEPT !.rows = [draft.rows EXCEPT ![m] = AddRow(draft.rows[m])]])

RemoveRowFrom(m, i) ==
    /\ draft.mode = m /\ i \in DOMAIN draft.rows[m]
    /\ Edit([draft EXCEPT !.rows = [draft.rows EXCEPT ![m] = RemoveRow(draft.rows[m], i)]])

-----------------------------------------------------------------------------
\* Sending.

Ready(f) ==
    /\ open /\ draft.mode = (IF f = "statement" THEN "idle" ELSE f)
    /\ f \in RowModes => draft.on[f] # Nothing /\ Proposable(draft.rows[f])
    /\ f \notin RowModes => draft.text # Blank
    /\ f = "statement" => /\ (draft.target # Nothing) = draft.role
                          /\ draft.target \notin Edges
    /\ f = "capture-defeater" => draft.on[f] # Nothing
    /\ f = "meta-move" => draft.target # Nothing

Request(g, saved) ==
    /\ sent < MaxSends /\ edits + sent < MaxGestures
    /\ LET r == [id |-> sent + 1, of |-> g, expected |-> applied, saved |-> saved]
       IN  /\ waiting' = waiting \cup {r}
           /\ wire' = wire \cup {r}
    /\ sent' = sent + 1
    /\ UNCHANGED answers

\* The statement and the lists leave the screen at once; `proposing` goes up
\* after that.
Out(f) ==
    CASE f = "statement" -> [Reset EXCEPT !.proposing = TRUE]
      [] f \in RowModes -> [Exit(draft, f) EXCEPT !.proposing = TRUE]
      [] f \in Panels -> [draft EXCEPT !.proposing = TRUE]

Propose(f) ==
    /\ ~draft.proposing
    /\ Ready(f)
    /\ Request(f, Slice(draft, f))
    /\ Show(Out(f), error)
    /\ UNCHANGED <<busy, session, open, edits>>

\* castVote, sendCommit, dispatchBreakEdgeProposal ...: none asks whether the
\* connection is open; a send without a socket is rejected at once.
Gesture(s) ==
    /\ s \notin busy
    /\ IF open
       THEN /\ Request(s, Empty)
            /\ busy' = busy \cup {s} /\ error' = error \ {s}
       ELSE /\ error' = error \cup {s}
            /\ UNCHANGED <<busy, requests>>
    /\ UNCHANGED <<draft, baseline, session, open, edits>>

\* What the end of a request does to the draft, whatever is on it by now.
Success(f) ==
    CASE f = "capture-defeater" -> [Exit(draft, f) EXCEPT !.text = Blank, !.proposing = FALSE]
      [] f = "meta-move" ->
           [draft EXCEPT !.text = Blank, !.target = Nothing, !.proposing = FALSE]
      [] f \notin Panels -> [draft EXCEPT !.proposing = FALSE]

Restored(f, saved) ==
    LET back == Enter(draft, f, saved.on)
    IN  [back EXCEPT !.rows = [back.rows EXCEPT ![f] = Refilled(back.rows[f], saved.rows)],
                     !.proposing = FALSE]
Failure(f, saved) ==
    CASE f = "statement" -> [draft EXCEPT !.text = saved.text, !.target = saved.target,
                                          !.role = saved.role, !.proposing = FALSE]
      [] f \in RowModes -> Restored(f, saved)
      [] f = "capture-defeater" -> [draft EXCEPT !.text = saved.text, !.proposing = FALSE]
      [] f = "meta-move" -> [draft EXCEPT !.text = saved.text, !.target = saved.target,
                                          !.proposing = FALSE]

\* The part of a request's end that is the hook's: `ok` is an ack.
Land(r, ok) ==
    IF r.of \in Slots
    THEN /\ busy' = busy \ {r.of}
         /\ error' = IF ok THEN error \ {r.of} ELSE error \cup {r.of}
         /\ UNCHANGED <<draft, baseline>>
    ELSE /\ Show(IF ok THEN Success(r.of) ELSE Failure(r.of, r.saved),
                 IF ok THEN error \ {r.of} ELSE error \cup {r.of})
         /\ UNCHANGED busy

-----------------------------------------------------------------------------
\* The server and the connection.

\* Mutant: the handler does not look at the position the client expects.
HandleWithoutChecking(r) ==
    /\ r \in wire
    /\ wire' = wire \ {r}
    /\ \E sound \in BOOLEAN :
         /\ sound => Len(log) < MaxLog
         /\ log' = IF sound THEN Append(log, [of |-> r.of, seen |-> r.expected]) ELSE log
         /\ answers' = answers \cup {[id |-> r.id, ok |-> sound]}
    /\ UNCHANGED <<screen, waiting, sent, applied, open, edits>>

\* A write handler: the sequence the client expects must be the log's own;
\* the methodology may still say no.
Handle(r) ==
    /\ r \in wire
    /\ wire' = wire \ {r}
    /\ \E sound \in BOOLEAN :
         /\ sound => r.expected = Len(log) /\ Len(log) < MaxLog
         /\ log' = IF sound THEN Append(log, [of |-> r.of, seen |-> r.expected]) ELSE log
         /\ answers' = answers \cup {[id |-> r.id, ok |-> sound]}
    /\ UNCHANGED <<screen, waiting, sent, applied, open, edits>>

\* Somebody else writes.
Others ==
    /\ Len(log) < MaxLog
    /\ log' = Append(log, [of |-> "others", seen |-> Len(log)])
    /\ UNCHANGED <<screen, requests, applied, open, edits>>

\* The next event, broadcast or caught up with, reaches the store.
Apply ==
    /\ open /\ applied < Len(log)
    /\ applied' = applied + 1
    /\ UNCHANGED <<screen, requests, log, open, edits>>

\* An answer nobody waits on is dropped.
Answer(a) ==
    /\ a \in answers
    /\ answers' = answers \ {a}
    /\ waiting' = {r \in waiting : r.id # a.id}
    /\ IF \E r \in waiting : r.id = a.id
       THEN Land(CHOOSE r \in waiting : r.id = a.id, a.ok)
       ELSE UNCHANGED screen
    /\ UNCHANGED <<wire, sent, session, open, edits>>

\* The client's timer, started when the frame was sent.
Timeout(r) ==
    /\ r \in waiting
    /\ waiting' = waiting \ {r}
    /\ Land(r, FALSE)
    /\ UNCHANGED <<wire, answers, sent, session, open, edits>>

\* The socket is gone: every request fails, one after another, before anything
\* else runs; the server may or may not have read them.
Disconnect ==
    /\ open
    /\ open' = FALSE
    /\ wire' \in SUBSET wire
    /\ answers' = {}
    /\ waiting' = {}
    /\ busy' = busy \ {r.of : r \in waiting}
    /\ LET failed == {r \in waiting : r.of \in Flows}
           lost == error \cup {r.of : r \in waiting}
       IN  IF failed = {} THEN Show(draft, lost)
           ELSE \E r \in failed : Show(Failure(r.of, r.saved), lost)
    /\ UNCHANGED <<sent, session, edits>>

Reconnect ==
    /\ ~open
    /\ open' = TRUE
    /\ UNCHANGED <<screen, requests, session, edits>>

Drafting ==
    \/ \E m \in NodeModes : ExitMode(m)
    \/ EnterMetaMode
    \/ \E clear \in BOOLEAN : ExitMetaMode(clear)
    \/ \E t \in Texts \cup {Blank} : Type(t)
    \/ \E n \in Nodes : Stage(n)
    \/ \E e \in Edges : StageEdge(e)
    \/ ClearTarget
    \/ \E on \in BOOLEAN : PickRole(on)
    \/ \E m \in RowModes, i \in 1..MaxRows, t \in Texts \cup {Blank} : WriteRow(m, i, t)
    \/ \E m \in RowModes : AddRowTo(m)
    \/ \E m \in RowModes, i \in 1..MaxRows : RemoveRowFrom(m, i)

Editing == Drafting \/ \E m \in NodeModes, n \in Nodes : EnterMode(m, n)

Next ==
    \/ Editing
    \/ \E f \in Flows : Propose(f)
    \/ \E s \in Slots : Gesture(s)
    \/ \E r \in wire : Handle(r)
    \/ Others
    \/ Apply
    \/ \E a \in answers : Answer(a)
    \/ \E r \in waiting : Timeout(r)
    \/ Disconnect
    \/ Reconnect

\* The client's timer fires for every request it waits on.
Fairness == WF_vars(\E r \in waiting : Timeout(r))

Spec == Init /\ [][Next]_vars /\ Fairness

-----------------------------------------------------------------------------
TypeOK ==
    /\ draft \in Drafts
    /\ busy \in SUBSET Slots /\ error \in SUBSET Gestures
    /\ baseline \in [Flows -> SUBSET Snapshots]
    /\ waiting \in SUBSET Requests /\ wire \in SUBSET Requests
    /\ answers \in SUBSET [id : 1..MaxSends, ok : BOOLEAN]
    /\ open \in BOOLEAN
    /\ log \in Seq([of : Gestures \cup {"others"}, seen : 0..MaxLog])
    /\ applied \in 0..Len(log) /\ Len(log) <= MaxLog
    /\ edits \in 0..MaxGestures /\ sent \in 0..MaxSends

\* Two presses, a shortcut and a button, or two panels racing on the one
\* `proposing` flag never have two requests out under one lock, and a lock is
\* never left up or put down while its request is out.
OneRequestPerLock ==
    /\ \A r1, r2 \in waiting : (r1.of = r2.of \/ {r1.of, r2.of} \subseteq Flows) => r1 = r2
    /\ draft.proposing <=> \E r \in waiting : r.of \in Flows
    /\ \A s \in Slots : s \in busy <=> \E r \in waiting : r.of = s

\* Whatever lands while the moderator is elsewhere, a mode on screen has the
\* node it is about and, where it shows a list, between the fewest and the
\* most rows that can be proposed.
ModeHasItsNode ==
    /\ draft.mode \in NodeModes => draft.on[draft.mode] \in Nodes
    /\ \A m \in RowModes : draft.mode = m => Len(draft.rows[m]) \in MinRows..MaxRows

\* The error under the statement speaks of the statement on screen: a hook
\* that sees the text, the target or the role differ from what failed has
\* dismissed it.
ErrorIsAboutTheStatement ==
    "statement" \in error => baseline["statement"] = {Slice(draft, "statement")}

\* A proposal the client gave up on is back on the draft, whole, with every
\* row it had, unless the socket's loss or an answer says otherwise.
FailedDraftsComeBack ==
    [][\A r \in waiting :
         (r \notin waiting' /\ r.of \in Flows /\ r.of \in error')
             => Slice(draft', r.of) = r.saved]_vars

\* A second gesture of the same lock lands only after its sender has applied
\* the first: retrying after a timeout, while the first request may still be
\* on its way, never lands the two of them unseen.
RetriesAreSighted ==
    \A i, j \in DOMAIN log :
        (i < j /\ log[i].of = log[j].of /\ log[i].of # "others") => log[j].seen >= i

\* One lock, one request, and never a second one blind to the first.
LocksHold == OneRequestPerLock /\ RetriesAreSighted

\* What is on the pane belongs together: a mode with its node, an error with
\* its statement.
PaneIsCoherent == ModeHasItsNode /\ ErrorIsAboutTheStatement

\* A gesture always ends: its lock comes down.
LocksComeDown ==
    /\ draft.proposing ~> ~draft.proposing
    /\ \A s \in Slots : (s \in busy) ~> (s \notin busy)
=============================================================================
