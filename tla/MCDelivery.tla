------------------------------- MODULE MCDelivery -------------------------------
(* Messages on their way to an agent and back to people, for TLC: the channels,  *)
(* the WhatsApp bridge and the live stream of the app.  They run side by side    *)
(* without shared state, so each behaviour is one of a single part, chosen at    *)
(* the start.  Messages of channels may be permuted.                             *)
EXTENDS Channels, TLC

CONSTANTS m1, m2, m3,
          Chats, BridgeMessages, Requests, MaxSockets, MaxForgets, MaxBridgeFaults,
          Writers, MaxRows, ReplayLimit, Capacity, MaxFetches, MaxStreamFaults

VARIABLES part,
          sockets, state, qr, starts, from, batch, processed, forgotten, forwarded, known, request, bridgeFaults,
          written, journal, writer, late, stream, given, page, fetches, streamFaults

Bridge == INSTANCE WhatsAppBridge
              WITH Messages <- BridgeMessages, MaxFaults <- MaxBridgeFaults, faults <- bridgeFaults
Stream == INSTANCE ConversationEvents WITH MaxFaults <- MaxStreamFaults, faults <- streamFaults

ASSUME BridgeBounds == Bridge!ForgetsAssumption
ASSUME StreamBounds == Stream!StreamAssumption

bridgeVars ==
    <<sockets, state, qr, starts, from, batch, processed, forgotten, forwarded, known, request, bridgeFaults>>
streamVars == <<written, journal, writer, late, stream, given, page, fetches, streamFaults>>
allVars == <<part, vars, bridgeVars, streamVars>>

MCInit ==
    /\ part \in {"channels", "bridge", "stream"}
    /\ Init /\ Bridge!Init /\ Stream!Init
    /\ part # "channels" => transport = "webhook"

MCNext ==
    \/ part = "channels" /\ Next /\ UNCHANGED <<part, bridgeVars, streamVars>>
    \/ part = "bridge" /\ Bridge!Next /\ UNCHANGED <<part, vars, streamVars>>
    \/ part = "stream" /\ Stream!Next /\ UNCHANGED <<part, vars, bridgeVars>>

MCSpec == MCInit /\ [][MCNext]_allVars

AllTransports == {"webhook", "silent", "bluebubbles", "telegram"}
MessageSymmetry == Permutations({m1, m2, m3})

\* Of WhatsAppBridge.
DeliveredAsTold == Bridge!DeliveredAsTold

\* Of ConversationEvents.
PageFollowsJournal == Stream!PageFollowsJournal
=============================================================================
