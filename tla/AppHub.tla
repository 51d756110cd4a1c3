------------------------------- MODULE AppHub -------------------------------
(***************************************************************************)
(* WebSocket hubs: example 04 (clients that join and leave rooms) and the  *)
(* realtime module of example 08 (a client belongs to its workspace, and   *)
(* domain events are broadcast to it).  Run is one goroutine that takes    *)
(* registrations, departures and messages from channels; each client has a *)
(* reading and a writing goroutine and a buffered send channel.  Messages  *)
(* are their destination: a room, or All.                                  *)
(***************************************************************************)
EXTENDS Naturals, Sequences, FiniteSets, SequencesExt

CONSTANTS
  HubClients,
  Rooms,         \* rooms of 04, workspaces of 08
  All,           \* the destination of a message without a room
  HubSetups      \* version; capacity of a send channel and of broadcast; messages

ASSUME HubAssumption ==
  /\ All \notin Rooms
  /\ HubSetups \subseteq [version : {"04", "08"}, cap : Nat, bcap : Nat, messages : Nat]

VARIABLES
  hset,      \* the setup
  hub,       \* registered clients, members of rooms, pending broadcasts, Run's state
  peer       \* each client: its reader, messages in its send channel, its writer

hvars == <<hset, hub, peer>>

NoPeer == [reader |-> "none", room |-> All, queued |-> 0, closed |-> FALSE, writing |-> FALSE]

HubInit ==
  /\ hset \in HubSetups
  /\ hub = [clients |-> {}, rooms |-> [r \in Rooms |-> {}], broadcast |-> <<>>,
            pc |-> "run", sent |-> 0]
  /\ peer = [c \in HubClients |-> NoPeer]

HubRuns == hub.pc = "run"

-----------------------------------------------------------------------------
(* Clients                                                                 *)

\* HandleWebSocket: the client is handed to Run, then its goroutines start.
HandleWebSocket(c, r) ==
  /\ peer[c].reader = "none"
  /\ peer' = [peer EXCEPT ![c] = [NoPeer EXCEPT !.reader = "register",
                                                !.room = IF hset.version = "08" THEN r ELSE All]]
  /\ UNCHANGED <<hset, hub>>

Live(c) == peer[c].reader = "read"

\* handleMessage: join and leave work on the rooms directly, under the mutex.
JoinRoom(c, r) ==
  /\ hset.version = "04" /\ Live(c) /\ c \notin hub.rooms[r]
  /\ hub' = [hub EXCEPT !.rooms[r] = @ \cup {c}]
  /\ UNCHANGED <<hset, peer>>

LeaveRoom(c, r) ==
  /\ hset.version = "04" /\ Live(c) /\ c \in hub.rooms[r]
  /\ hub' = [hub EXCEPT !.rooms[r] = @ \ {c}]
  /\ UNCHANGED <<hset, peer>>

\* A full broadcast channel blocks the sender.
SendBroadcast(to) ==
  /\ hub.sent < hset.messages
  /\ Len(hub.broadcast) < hset.bcap
  /\ hub' = [hub EXCEPT !.broadcast = Append(@, to), !.sent = @ + 1]
  /\ UNCHANGED <<hset, peer>>

\* readPump: a message for a room or for all; 08 overrides it with the workspace.
ReadMessage(c) ==
  /\ Live(c)
  /\ \E to \in IF hset.version = "08" THEN {peer[c].room} ELSE Rooms \cup {All} : SendBroadcast(to)

\* The answer to a ping, dropped when the channel is full.
Pong(c) ==
  /\ hset.version = "04" /\ Live(c) /\ peer[c].queued < hset.cap
  /\ peer' = [peer EXCEPT ![c].queued = @ + 1]
  /\ UNCHANGED <<hset, hub>>

\* The domain events of 08: handleTaskEvent.
handleTaskEvent(r) == hset.version = "08" /\ SendBroadcast(r)

\* The comment events, the same way.
handleCommentEvent(r) == hset.version = "08" /\ SendBroadcast(r)

\* readPump ends: it waits for Run to take its departure.
ReadFails(c) ==
  /\ Live(c)
  /\ peer' = [peer EXCEPT ![c].reader = "unregister"]
  /\ UNCHANGED <<hset, hub>>

\* writePump: a message goes out; the end of the channel, or an error, ends it and
\* closes the connection, which ends the reader.
WriteMessage(c) ==
  /\ peer[c].writing
  /\ \/ /\ peer[c].queued > 0
        /\ peer' = [peer EXCEPT ![c].queued = @ - 1]
     \/ /\ peer[c].queued = 0 /\ peer[c].closed
        /\ peer' = [peer EXCEPT ![c].writing = FALSE]
     \/ /\ ~peer[c].closed
        /\ peer' = [peer EXCEPT ![c].writing = FALSE,
                                ![c].reader = IF Live(c) THEN "unregister" ELSE @]
  /\ UNCHANGED <<hset, hub>>

-----------------------------------------------------------------------------
(* Hub.Run                                                                 *)

\* registerClient of 08; 04 only notes the client.
RegisterClient(c) ==
  /\ HubRuns /\ peer[c].reader = "register"
  /\ hub' = [hub EXCEPT !.clients = @ \cup {c},
                        !.rooms = [r \in Rooms |-> IF r = peer[c].room THEN @[r] \cup {c} ELSE @[r]]]
  /\ peer' = [peer EXCEPT ![c].reader = "read", ![c].writing = TRUE]
  /\ UNCHANGED hset

\* The client leaves the hub and every room.
WithoutClient(c) ==
  [hub EXCEPT !.clients = @ \ {c}, !.rooms = [r \in Rooms |-> @[r] \ {c}]]

UnregisterClient(c) ==
  /\ HubRuns /\ peer[c].reader = "unregister"
  /\ hub' = WithoutClient(c)
  /\ peer' = [peer EXCEPT ![c].reader = "gone", ![c].closed = TRUE]
  /\ UNCHANGED hset

Targets(to) == IF to = All THEN hub.clients ELSE hub.rooms[to]

\* Under the read lock.  A client whose channel is full is skipped in 04; in 08
\* broadcastMessage calls unregisterClient, which waits for the write lock that
\* the same goroutine's read lock keeps away: Run never goes on.
BroadcastMessage ==
  /\ HubRuns /\ hub.broadcast # <<>>
  /\ LET to == Targets(Head(hub.broadcast))
         full == {c \in to : peer[c].queued >= hset.cap}
         stuck == hset.version = "08" /\ full # {}
     IN \E reached \in IF stuck THEN SUBSET (to \ full) ELSE {to \ full} :
          /\ hub' = [hub EXCEPT !.broadcast = Tail(@),
                                !.pc = IF \E c \in to : peer[c].closed THEN "panic"
                                       ELSE IF stuck THEN "stuck" ELSE @]
          /\ peer' = [c \in HubClients |-> IF c \in reached THEN [peer[c] EXCEPT !.queued = @ + 1]
                                            ELSE peer[c]]
  /\ UNCHANGED hset

HubNext ==
  \/ \E c \in HubClients :
       \/ \E r \in Rooms : HandleWebSocket(c, r) \/ JoinRoom(c, r) \/ LeaveRoom(c, r)
       \/ ReadMessage(c) \/ Pong(c) \/ ReadFails(c) \/ WriteMessage(c)
       \/ RegisterClient(c) \/ UnregisterClient(c)
  \/ \E r \in Rooms : handleTaskEvent(r) \/ handleCommentEvent(r)
  \/ BroadcastMessage

HubSpec == HubInit /\ [][HubNext]_hvars

-----------------------------------------------------------------------------
(* Properties                                                              *)

\* Run never sends on a send channel it has closed, which would panic: whatever the
\* order of joins, departures, slow writers and broadcasts, a client with a closed
\* channel is in no room, and every room member is a registered client.
NoSendOnClosed ==
  /\ hub.pc # "panic"
  /\ \A r \in Rooms : hub.rooms[r] \subseteq hub.clients
  /\ \A c \in hub.clients : ~peer[c].closed
=============================================================================
