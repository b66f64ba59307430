---------------------------- MODULE WhatsAppBridge ----------------------------
(***************************************************************************)
(* sidecars/whatsapp-bridge/src/index.js: one Node process between         *)
(* WhatsApp and a webhook pipe of the orchestrator.  Its handlers run one  *)
(* at a time and interleave at every await: socket events, the reconnect   *)
(* timer, HTTP requests.                                                   *)
(*                                                                         *)
(* A reconnect makes a new socket and never ends the old one, so WhatsApp  *)
(* may deliver a message through several sockets, and the events of a      *)
(* replaced socket still write the state of the process.  An id is          *)
(* remembered for thirty seconds after it was last seen, and no longer: a  *)
(* copy that comes later is posted again.                                  *)
(*                                                                         *)
(* An address is a chat and, once a message of it was seen, its phone; a   *)
(* reply goes to the first address that takes all of it.                   *)
(***************************************************************************)
EXTENDS Naturals, FiniteSets, Sequences

CONSTANTS Chats,        \* chats WhatsApp knows
          Messages,     \* inbound messages
          Requests,     \* outbound requests of the orchestrator
          MaxSockets,   \* bound: sockets made
          MaxForgets,   \* bound: times a message is forgotten
          MaxFaults     \* bound: failed starts, posts and sends

ForgetsAssumption == MaxForgets \in Nat

VARIABLES sockets,      \* socket -> "connecting", "open", "closed", in the order they were made
          state,        \* connectionState
          qr,           \* QR codes being drawn
          starts,       \* startSocket calls that wait: due timers and running calls
          from,         \* message -> its chat
          batch,        \* upsert handlers at work, each the messages left of its event
          processed,    \* recentProcessedInbound: ids seen in the last thirty seconds
          forgotten,    \* history: message -> times it was forgotten
          forwarded,    \* history: message, times forgotten before it was taken -> times posted
          known,        \* chats whose phone is known
          request,      \* outbound requests
          faults

socketVars == <<sockets, state, qr, starts>>
inboundVars == <<from, batch, processed, forgotten, forwarded, known>>
vars == <<socketVars, inboundVars, request, faults>>

Waiting == [pc |-> "none", to |-> <<>>, text |-> FALSE, files |-> 0, left |-> 0, sent |-> FALSE, got |-> {}]

Init == /\ sockets = <<>> /\ state = "starting" /\ qr = 0 /\ starts = 1
        /\ from \in [Messages -> Chats]
        /\ batch = {} /\ processed = {} /\ known = {}
        /\ forgotten = [m \in Messages |-> 0]
        /\ forwarded = [p \in Messages \X (0 .. MaxForgets) |-> 0]
        /\ request = [r \in Requests |-> Waiting]
        /\ faults = 0

Fault == faults < MaxFaults /\ faults' = faults + 1

-----------------------------------------------------------------------------
(***************************************************************************)
(* The connection.                                                         *)
(***************************************************************************)

\* startSocket, after its two awaits.
StartSocket ==
    /\ starts > 0 /\ Len(sockets) < MaxSockets
    /\ sockets' = Append(sockets, "connecting")
    /\ starts' = starts - 1
    /\ UNCHANGED <<state, qr, inboundVars, request, faults>>

\* It throws: the state says so, and nothing tries again.
StartFails ==
    /\ starts > 0 /\ Fault
    /\ starts' = starts - 1
    /\ state' = "error"
    /\ UNCHANGED <<sockets, qr, inboundVars, request>>

\* connection.update with a code; the state is written after it is drawn.
ShowQr(i) ==
    /\ sockets[i] = "connecting" /\ qr = 0
    /\ qr' = 1
    /\ UNCHANGED <<sockets, state, starts, inboundVars, request, faults>>

QrDrawn ==
    /\ qr = 1
    /\ qr' = 0 /\ state' = "qr_required"
    /\ UNCHANGED <<sockets, starts, inboundVars, request, faults>>

Opens(i) ==
    /\ sockets[i] = "connecting"
    /\ sockets' = [sockets EXCEPT ![i] = "open"]
    /\ state' = "connected"
    /\ UNCHANGED <<qr, starts, inboundVars, request, faults>>

\* Any socket that closes, a replaced one too, starts another, unless the device was
\* logged out.
Closes(i) ==
    /\ sockets[i] # "closed"
    /\ sockets' = [sockets EXCEPT ![i] = "closed"]
    /\ \/ state' = "logged_out" /\ UNCHANGED starts
       \/ starts + Len(sockets) < MaxSockets /\ state' = "reconnecting" /\ starts' = starts + 1
    /\ UNCHANGED <<qr, inboundVars, request, faults>>

\* POST /session/reconnect.
Reconnect ==
    /\ starts + Len(sockets) < MaxSockets
    /\ starts' = starts + 1
    /\ UNCHANGED <<sockets, state, qr, inboundVars, request, faults>>

-----------------------------------------------------------------------------
(***************************************************************************)
(* Inbound messages.                                                       *)
(***************************************************************************)

\* messages.upsert: an event of one or several messages, from any open socket, in
\* whatever state the handlers of other events are.
Upsert(h, ms) ==
    /\ ms # <<>>
    /\ \E i \in DOMAIN sockets : sockets[i] = "open"
    /\ \A b \in batch : b.by # h
    /\ batch' = batch \cup {[by |-> h, pc |-> "next", left |-> ms, copy |-> 0]}
    /\ UNCHANGED <<socketVars, from, processed, forgotten, forwarded, known, request, faults>>

First(b) == Head(b.left)

\* What is left of an event after its first message.
Rest(b) == IF Len(b.left) = 1 THEN {} ELSE {[b EXCEPT !.pc = "next", !.left = Tail(@)]}

\* A copy that is no duplicate: its media is fetched.
Fetch(b) == batch' = (batch \ {b}) \cup {[b EXCEPT !.pc = "media", !.copy = forgotten[First(b)]]}

\* Mutant: the id is remembered when the message was posted.
TakeUnmarked(b) ==
    /\ b.pc = "next" /\ Fetch(b)
    /\ UNCHANGED <<socketVars, from, processed, forgotten, forwarded, known, request, faults>>

\* shouldSkipDuplicateInbound, for the first message of the event. A duplicate is
\* remembered for another thirty seconds.
Take(b) ==
    /\ b.pc = "next" /\ First(b) \notin processed /\ Fetch(b)
    /\ processed' = processed \cup {First(b)}
    /\ UNCHANGED <<socketVars, from, forgotten, forwarded, known, request, faults>>

SkipDuplicate(b) ==
    /\ b.pc = "next" /\ First(b) \in processed
    /\ batch' = (batch \ {b}) \cup Rest(b)
    /\ UNCHANGED <<socketVars, from, processed, forgotten, forwarded, known, request, faults>>

\* A message without text and media, or one's own, is left out; another one is
\* remembered with its addresses, and posted.
Ignore(b) ==
    /\ b.pc = "media"
    /\ batch' = (batch \ {b}) \cup Rest(b)
    /\ UNCHANGED <<socketVars, from, processed, forgotten, forwarded, known, request, faults>>

\* upsertKnownChat and rememberMessageRefs
Remember(c) == known' = known \cup {c}

Forward(b) ==
    /\ b.pc = "media"
    /\ batch' = (batch \ {b}) \cup {[b EXCEPT !.pc = "posting"]}
    /\ Remember(from[First(b)])
    /\ forwarded' = [forwarded EXCEPT ![<<First(b), b.copy>>] = @ + 1]
    /\ UNCHANGED <<socketVars, from, processed, forgotten, request, faults>>

\* postInbound returned, whatever the orchestrator answered.
Posted(b) ==
    /\ b.pc = "posting"
    /\ batch' = (batch \ {b}) \cup Rest(b)
    /\ UNCHANGED <<socketVars, from, processed, forgotten, forwarded, known, request, faults>>

\* It throws: the handler ends, and with it the other messages of the event.
PostFails(b) ==
    /\ b.pc = "posting" /\ Fault
    /\ batch' = batch \ {b}
    /\ UNCHANGED <<socketVars, from, processed, forgotten, forwarded, known, request>>

\* No copy came for thirty seconds, though the media of the last one may still be on
\* their way, or its post.
Forget(m) ==
    /\ m \in processed /\ forgotten[m] < MaxForgets
    /\ processed' = processed \ {m}
    /\ forgotten' = [forgotten EXCEPT ![m] = @ + 1]
    /\ UNCHANGED <<socketVars, from, batch, forwarded, known, request, faults>>

-----------------------------------------------------------------------------
(***************************************************************************)
(* Outbound requests.                                                      *)
(***************************************************************************)

\* recipientCandidates and quotedRecipientCandidates.
Candidates(c) == IF c \in known THEN <<[phone |-> c], [chat |-> c]>> ELSE <<[chat |-> c]>>

\* POST /webhooks/selu/outbound with a text, files or both.
Outbound(r) ==
    /\ request[r].pc = "none" /\ sockets # <<>>
    /\ \E c \in Chats, text \in BOOLEAN, files \in 0 .. 1 :
         /\ text \/ files > 0
         /\ request' = [request EXCEPT ![r] = [Waiting EXCEPT !.pc = "try", !.to = Candidates(c),
                                                              !.text = text, !.files = files]]
    /\ UNCHANGED <<socketVars, inboundVars, faults>>

\* The next address: first the text, then every file.
Try(r) ==
    /\ request[r].pc = "try" /\ request[r].to # <<>>
    /\ request' = [request EXCEPT ![r].pc = IF request[r].text THEN "text" ELSE "file",
                                  ![r].left = request[r].files]
    /\ UNCHANGED <<socketVars, inboundVars, faults>>

Sent(r, what) == [request[r] EXCEPT !.sent = TRUE, !.got = @ \cup {what}]

SendText(r) ==
    /\ request[r].pc = "text"
    /\ request' = [request EXCEPT ![r] = [Sent(r, "text") EXCEPT !.pc = "file"]]
    /\ UNCHANGED <<socketVars, inboundVars, faults>>

SendFile(r) ==
    /\ request[r].pc = "file" /\ request[r].left > 0
    /\ request' = [request EXCEPT ![r] = [Sent(r, "file") EXCEPT !.left = @ - 1]]
    /\ UNCHANGED <<socketVars, inboundVars, faults>>

\* The socket refuses the text or a file: on to the next address.
SendFails(r) ==
    /\ Fault
    /\ request[r].pc = "text" \/ (request[r].pc = "file" /\ request[r].left > 0)
    /\ request' = [request EXCEPT ![r].pc = "try", ![r].to = Tail(@)]
    /\ UNCHANGED <<socketVars, inboundVars>>

\* All of it was taken: the answer names the last message.
AnswerOk(r) ==
    /\ request[r].pc = "file" /\ request[r].left = 0
    /\ request' = [request EXCEPT ![r].pc = "ok"]
    /\ UNCHANGED <<socketVars, inboundVars, faults>>

\* No address is left: what was sent to any of them still counts.
AnswerAtEnd(r) ==
    /\ request[r].pc = "try" /\ request[r].to = <<>>
    /\ request' = [request EXCEPT ![r].pc = IF request[r].sent THEN "ok" ELSE "error"]
    /\ UNCHANGED <<socketVars, inboundVars, faults>>

-----------------------------------------------------------------------------

Handlers == 1 .. 2
Events == {<<m>> : m \in Messages} \cup {e \in Messages \X Messages : e[1] # e[2]}

Next ==
    \/ StartSocket \/ StartFails \/ QrDrawn \/ Reconnect
    \/ \E i \in DOMAIN sockets : ShowQr(i) \/ Opens(i) \/ Closes(i)
    \/ \E h \in Handlers, ms \in Events : Upsert(h, ms)
    \/ \E b \in batch : Take(b) \/ SkipDuplicate(b) \/ Ignore(b) \/ Forward(b) \/ Posted(b) \/ PostFails(b)
    \/ \E m \in Messages : Forget(m)
    \/ \E r \in Requests : Outbound(r) \/ Try(r) \/ SendText(r) \/ SendFile(r) \/ SendFails(r)
                              \/ AnswerOk(r) \/ AnswerAtEnd(r)

Spec == Init /\ [][Next]_vars

-----------------------------------------------------------------------------
(***************************************************************************)
(* Properties.                                                             *)
(***************************************************************************)

\* Two sockets may deliver one message while the media of the first copy is fetched: of
\* the copies that follow one another within thirty seconds, one reaches the
\* orchestrator, which would run a turn for each, whatever becomes of it there and
\* however its handler meets those of other copies. A copy that comes later is posted
\* again, once.
ForwardedOnce == \A m \in Messages, n \in 0 .. MaxForgets : forwarded[<<m, n>>] <= 1

\* The orchestrator records the answer's message for replies, and reports an error as
\* a message that was not sent: "ok" means that the text arrived somewhere, an error
\* that nothing did, whichever address failed at which part.
AnswerTellsTruth ==
    \A r \in Requests :
        /\ request[r].pc = "ok" => request[r].got # {} /\ (request[r].text => "text" \in request[r].got)
        /\ request[r].pc = "error" => request[r].got = {}

\* Either way through the bridge, what the two sides believe is what happened.
DeliveredAsTold == ForwardedOnce /\ AnswerTellsTruth
=============================================================================
