-------------------------- MODULE ConversationEvents --------------------------
(***************************************************************************)
(* The journal of conversation events and its live stream                  *)
(* (services/conversations.rs, api/conversations.rs), as a chat page sees  *)
(* it (ui api.ts, ChatPage.tsx): handlers that commit a row, journal an    *)
(* event about it and broadcast it, in three steps; the snapshot with its  *)
(* replay boundary; the stream that subscribes, replays and goes live; and *)
(* lag, disconnects and restarts of the orchestrator.                      *)
(*                                                                         *)
(* One user, one conversation.  An event is named by its id; the row it is *)
(* about, a message or a run, by the writer and the writer's count.        *)
(***************************************************************************)
EXTENDS Naturals, Sequences

CONSTANTS
  Writers,       \* handlers that publish at the same time
  MaxRows,       \* bound on the rows written by one handler
  ReplayLimit,   \* events a replay returns at most (500)
  Capacity,      \* events the broadcast channel holds (512)
  MaxFetches,    \* bound on the snapshots fetched
  MaxFaults      \* bound on disconnects and restarts

\* A replay may be empty; a broadcast channel holds at least one event.
StreamAssumption == MaxRows \in Nat /\ ReplayLimit \in Nat /\ Capacity \in Nat \ {0}

VARIABLES
  written,       \* rows each writer has committed
  journal,       \* conversation_events: the row that event n is about
  writer,        \* each publishing handler, between its steps
  late,          \* ids broadcast after a higher id
  stream,        \* the server's side of the connection
  given,         \* ids this connection has sent to the page
  page,          \* the page: rows in its cache, its cursor, a fetch under way
  fetches, faults

connection == <<stream, given>>
tables == <<written, journal>>
vars == <<tables, writer, late, connection, page, fetches, faults>>

Closed == [pc |-> "closed"]
Idle == [pc |-> "idle"]
Rows == {<<w, n>> : w \in Writers, n \in 1..MaxRows}
Committed == {r \in Rows : r[2] <= written[r[1]]}
LastId == Len(journal)
Pending == {writer[w].id : w \in {v \in Writers : writer[v].pc = "persisted"}}

Init ==
  /\ written = [w \in Writers |-> 0]
  /\ journal = <<>>
  /\ writer = [w \in Writers |-> Idle]
  /\ late = {}
  /\ stream = Closed /\ given = <<>>
  /\ page = [pc |-> "new", shown |-> {}, cursor |-> 0, raced |-> FALSE,
             boundary |-> 0, got |-> {}]
  /\ fetches = 0 /\ faults = 0

-----------------------------------------------------------------------------
(* Publishing                                                               *)

Commit(w) ==
  /\ writer[w] = Idle
  /\ written[w] < MaxRows
  /\ written' = [written EXCEPT ![w] = @ + 1]
  /\ writer' = [writer EXCEPT ![w] = [pc |-> "committed"]]
  /\ UNCHANGED <<journal, late, connection, page, fetches, faults>>

Persist(w) ==
  /\ writer[w].pc = "committed"
  /\ journal' = Append(journal, <<w, written[w]>>)
  /\ writer' = [writer EXCEPT ![w] = [pc |-> "persisted", id |-> LastId + 1]]
  /\ UNCHANGED <<written, late, connection, page, fetches, faults>>

\* A receiver that is full loses its oldest event and learns that it lags.
Broadcast(w) ==
  LET id == writer[w].id IN
  /\ writer[w].pc = "persisted"
  /\ writer' = [writer EXCEPT ![w] = Idle]
  /\ late' = IF \E n \in id + 1 .. LastId : n \notin Pending THEN late \cup {id} ELSE late
  /\ IF stream = Closed
     THEN UNCHANGED stream
     ELSE stream' = [stream EXCEPT
            !.buffer = Append(IF Len(@) = Capacity THEN Tail(@) ELSE @, id),
            !.lagged = @ \/ Len(stream.buffer) = Capacity]
  /\ UNCHANGED <<tables, given, page, fetches, faults>>

-----------------------------------------------------------------------------
(* The snapshot and the page that shows it                                  *)

Fetching(pc) ==
  page.pc = pc /\ UNCHANGED <<tables, writer, late, faults>>

ReadBoundary ==
  /\ Fetching("ready") \/ Fetching("new")
  /\ fetches < MaxFetches /\ fetches' = fetches + 1
  /\ page' = [page EXCEPT !.pc = "boundary", !.boundary = LastId]
  /\ UNCHANGED connection

ReadRows ==
  /\ Fetching("boundary")
  /\ page' = [page EXCEPT !.pc = "read", !.got = Committed]
  /\ UNCHANGED <<connection, fetches>>

\* The cache is replaced.  A new cursor closes the connection; under the old
\* one it goes on, and rows that it brought meanwhile vanish from the cache.
Replace(cursor) ==
  /\ Fetching("read")
  /\ page' = [page EXCEPT !.pc = "ready", !.shown = page.got, !.cursor = cursor,
        !.raced = page.cursor = cursor /\ ~(page.shown \subseteq page.got)]
  /\ IF page.cursor = cursor THEN UNCHANGED connection
     ELSE stream' = Closed /\ given' = <<>>
  /\ UNCHANGED fetches

\* Mutant: the boundary is read after the rows.
ArriveWithLatest == Replace(LastId)

Arrive == Replace(page.boundary)

-----------------------------------------------------------------------------
(* The stream: subscribe, replay, go live                                   *)

Streaming(pc) ==
  stream.pc = pc /\ UNCHANGED <<tables, writer, late, fetches, faults>>

\* The browser connects, and connects again, with the cursor of the page.
Subscribe ==
  /\ Streaming("closed") /\ page.pc # "new"
  /\ stream' = [pc |-> "subscribed", after |-> page.cursor, cursor |-> page.cursor,
                queued |-> <<>>, buffer |-> <<>>, lagged |-> FALSE, full |-> FALSE]
  /\ UNCHANGED <<given, page>>

\* list_events: the oldest events after the cursor.
Listed ==
  LET missed == LastId - stream.after
  IN  [i \in 1 .. (IF missed < ReplayLimit THEN missed ELSE ReplayLimit) |-> stream.after + i]

Listening(buffer, cursor) ==
  [stream EXCEPT !.pc = "live", !.queued = Listed, !.buffer = buffer,
                 !.cursor = cursor, !.full = Len(Listed) = ReplayLimit]

Replay ==
  /\ Streaming("subscribed")
  /\ stream' = Listening(stream.buffer, stream.after + Len(Listed))
  /\ given' = <<>>
  /\ UNCHANGED page

\* The page merges the row into its cache.
Give(id) ==
  /\ given' = Append(given, id)
  /\ page' = [page EXCEPT !.shown = @ \cup {journal[id]}]

GiveQueued ==
  /\ Streaming("live")
  /\ stream.queued # <<>>
  /\ Give(Head(stream.queued))
  /\ stream' = [stream EXCEPT !.queued = Tail(@)]

NextLive == stream.queued = <<>> /\ stream.buffer # <<>>

GiveLive ==
  /\ Streaming("live") /\ NextLive
  /\ Head(stream.buffer) > stream.cursor
  /\ Give(Head(stream.buffer))
  /\ stream' = [stream EXCEPT !.buffer = Tail(@), !.cursor = Head(stream.buffer)]

\* What the replay has supplied is suppressed, and what comes out of order.
Suppress ==
  /\ Streaming("live") /\ NextLive
  /\ Head(stream.buffer) <= stream.cursor
  /\ stream' = [stream EXCEPT !.buffer = Tail(@)]
  /\ UNCHANGED <<given, page>>

-----------------------------------------------------------------------------
(* Disturbances, and the whole                                              *)

Disconnect ==
  /\ stream # Closed
  /\ faults < MaxFaults /\ faults' = faults + 1
  /\ stream' = Closed
  /\ UNCHANGED <<tables, writer, late, given, page, fetches>>

\* A handler stops where it is; an event it has not broadcast never is.
Restart ==
  /\ faults < MaxFaults /\ faults' = faults + 1
  /\ writer' = [w \in Writers |-> Idle]
  /\ stream' = Closed
  /\ UNCHANGED <<tables, late, given, page, fetches>>

Next ==
  \/ \E w \in Writers : Commit(w) \/ Persist(w) \/ Broadcast(w)
  \/ ReadBoundary \/ ReadRows \/ Arrive
  \/ Subscribe \/ Replay \/ GiveQueued \/ GiveLive \/ Suppress
  \/ Disconnect \/ Restart

Spec == Init /\ [][Next]_vars

-----------------------------------------------------------------------------
(* Properties                                                               *)

InFlight(id) == \E s \in {stream.queued, stream.buffer} : \E i \in DOMAIN s : s[i] = id

(* Of the rows whose event was broadcast, or left behind by a restart, a    *)
(* page with a live stream shows each or is about to be sent it.  The code  *)
(* gives this up in four cases and in no other: the stream lagged, its      *)
(* replay was cut off by the limit, the event was broadcast after a later   *)
(* one, or a snapshot fetched with an unchanged cursor replaced the cache.  *)
NothingMissed ==
  stream.pc = "live" /\ ~stream.lagged /\ ~stream.full /\ ~page.raced =>
    \A id \in (1..LastId) \ (Pending \cup late) :
       journal[id] \in page.shown \/ InFlight(id)

(* A connection sends its events in the order of their ids, each once,      *)
(* however replay and broadcast overlap: the page appends the pieces of a   *)
(* reply as they come.                                                      *)
SentInOrder == \A i, j \in DOMAIN given : i < j => given[i] < given[j]

(* What the page shows is the journal, in its order.                        *)
PageFollowsJournal == NothingMissed /\ SentInOrder
=============================================================================
