---------------------------- MODULE DevtoolsBridge ----------------------------
(***************************************************************************)
(* Between a page and the devtools panel of the browser extension: the     *)
(* bridge a page has (lib/core/devtoolsBridge.ts) and the session that     *)
(* polls it (extensions/src/remote.ts).  The operators take the page's     *)
(* bridge or the panel to what a call leaves of it; Devtools is the        *)
(* machine that calls them.                                                *)
(*                                                                         *)
(* A page has one Figbird instance.  Rows stand for the queries, the       *)
(* relational queries and the cache, which are sent the same way; the      *)
(* sizes of payloads, the text on the wire, edits of the cache and the     *)
(* element inspector are left out.                                         *)
(***************************************************************************)
EXTENDS Naturals, Sequences, FiniteSets, SequencesExt, TLC

CONSTANT FrameLimit  \* EVENT_LIMIT: of the events a session or a capture keeps

ASSUME FrameLimitAssumption == FrameLimit \in Nat \ {0}

NoSession == 0

Capped(events, more) ==
    LET all == events \o more
    IN  SubSeq(all, IF Len(all) > FrameLimit THEN Len(all) - FrameLimit + 1 ELSE 1, Len(all))

-----------------------------------------------------------------------------
(* The page.                                                               *)

\* marker is what sessionStorage says to the next page that loads.
NewPage(marker) ==
    [instance |-> FALSE, sessions |-> << >>, capturing |-> FALSE, captured |-> << >>,
     marker |-> marker]

\* register: events are captured from the start if a panel was there lately.
Registered(page, capturing) == [page EXCEPT !.instance = TRUE, !.capturing = capturing]

\* closeStartupCapture
CaptureClosed(page) == [page EXCEPT !.capturing = FALSE, !.captured = << >>]

\* What the listeners of every session, and of a capture, do.
Heard(session, events, changed) ==
    [session EXCEPT !.events = Capped(@, events),
                    !.rowsDirty = @ \/ changed,
                    !.version = @ + Len(events) + (IF changed THEN 1 ELSE 0)]

Told(page, events, changed) ==
    [page EXCEPT !.sessions = [id \in DOMAIN @ |-> Heard(@[id], events, changed)],
                 !.captured = IF page.capturing THEN Capped(@, events) ELSE @]

\* connect, of a page with an instance
Connected(page, id) ==
    [CaptureClosed(page) EXCEPT
        !.marker = TRUE,
        !.sessions = (id :> [events |-> page.captured, rowsDirty |-> TRUE, version |-> 1]) @@ @]

\* closeSession; the id of a session that has ended does nothing.
Closed(page, id) ==
    [page EXCEPT !.sessions = [i \in DOMAIN @ \ {id} |-> @[i]]]

\* disconnect
Disconnected(page, id) ==
    IF id \in DOMAIN page.sessions /\ Cardinality(DOMAIN page.sessions) = 1
    THEN [CaptureClosed(Closed(page, id)) EXCEPT !.marker = FALSE]
    ELSE Closed(page, id)

\* readJson: what has happened since the last read, or nothing when the
\* version is the reader's.
Frame(session, version, rows) ==
    [version |-> session.version,
     events  |-> IF version = session.version THEN << >> ELSE session.events,
     rows    |-> IF version # session.version /\ session.rowsDirty THEN {rows} ELSE {}]

ReadBy(page, id, version) ==
    IF version = page.sessions[id].version THEN [page EXCEPT !.marker = TRUE]
    ELSE [page EXCEPT !.marker = TRUE,
                      !.sessions[id].events = << >>, !.sessions[id].rowsDirty = FALSE]

-----------------------------------------------------------------------------
(* The panel.                                                              *)

Idle == [gen |-> 0, stage |-> "none"]

NewPanel ==
    [running |-> FALSE, gen |-> 0, timer |-> FALSE, poll |-> Idle,
     session |-> NoSession, version |-> 0]

Polling(panel) == panel.poll.stage # "none"

\* What a poll that has the page to itself asks first.
FirstStage(panel) == IF panel.session = NoSession THEN "connect" ELSE "read"

Request(op, session, version) == [op |-> op, session |-> session, version |-> version]

\* #poll, up to its first await
Begun(panel) ==
    [panel EXCEPT !.timer = FALSE, !.poll = [gen |-> panel.gen, stage |-> FirstStage(panel)]]

FirstRequest(panel) == Request(FirstStage(panel), panel.session, panel.version)

\* The end of #poll: only the current generation goes on.
Done(panel) ==
    [panel EXCEPT !.poll = Idle, !.timer = @ \/ panel.poll.gen = panel.gen]

\* #dropConnection
DroppedConnection(panel) == [panel EXCEPT !.session = NoSession, !.version = 0]

\* Mutant: a poll under way is taken for the new run's.
ShownWaiting(panel) == [panel EXCEPT !.running = TRUE, !.gen = @ + 1]

\* start: a poll of an earlier run that still waits is let finish first.
Shown(panel) == [panel EXCEPT !.running = TRUE, !.gen = @ + 1, !.timer = Polling(panel)]

\* stop
Hidden(panel) ==
    [panel EXCEPT !.running = FALSE, !.gen = @ + 1, !.timer = FALSE,
                  !.session = NoSession, !.version = 0]

=============================================================================
