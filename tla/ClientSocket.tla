---------------------------- MODULE ClientSocket ----------------------------
(***************************************************************************)
(* The socket of the tab and its two users, which come and go with the     *)
(* layout of the signed-in pages: the navbar, with its indicator and its   *)
(* list of incidents (useRealtime), and the assistant's panel (useChat).   *)
(* With it the server's side: the handshake that puts a socket in its      *)
(* user's room, and the answers streamed to it (server.socket.js,          *)
(* chat.socket.js).  What is emitted to a socket that is not connected is  *)
(* lost; what the tab emits meanwhile is kept by the library.              *)
(***************************************************************************)
EXTENDS ClientStore

CONSTANTS Pieces   \* the number of chunks of an answer of the assistant

ASSUME PiecesAssumption == Pieces \in Nat \ {0}

VARIABLES conn,       \* the socket: state, retry (after a loss), as (who it shook hands as)
          indicator,  \* ConnectionState shown by the navbar, "off" without navbar
          connectedBefore,  \* hasConnectedBefore of the navbar's hook
          badge,      \* the incidents the navbar lists
          asked,      \* messages sent to the assistant so far; they are numbered
          outbox,     \* those the library keeps until there is a connection
          streams,    \* at the server: the answers under way, and what they said
          bubbles,    \* in the panel: the text of each answer
          typing,
          owed,       \* history: incidents open at the last reconnection
          strayed     \* history: a session ended or changed in a way the socket missed

socketVars == <<conn, indicator, connectedBefore, badge, asked, outbox, streams,
                bubbles, typing, owed, strayed>>
chatVars == <<asked, outbox, streams, bubbles, typing>>

Idle == [state |-> "idle", retry |-> FALSE, as |-> None]

\* connectSocket(): nothing to do when it is connected or about to be.
ConnectSocket(c) == IF c.state = "idle" THEN [c EXCEPT !.state = "connecting"] ELSE c

\* Faulty variant: the connection outlives the session.
DisconnectSocket_never(c) == c

\* disconnectSocket(): only when it is connected.
DisconnectSocket(c) == IF c.state = "up" THEN Idle ELSE c

SocketInit ==
  /\ conn = Idle /\ indicator = "off" /\ connectedBefore = FALSE /\ badge = <<>>
  /\ asked = 0 /\ outbox = {} /\ streams = <<>> /\ bubbles = <<>> /\ typing = FALSE
  /\ owed = {} /\ strayed = FALSE

ShellShown == indicator # "off"
Shows(state) == indicator' = IF ShellShown THEN state ELSE "off"

\* The layout appears: both hooks start afresh, on the socket there is.
MountShell(c) ==
  /\ conn' = ConnectSocket(c)
  /\ indicator' = "connecting" /\ connectedBefore' = FALSE /\ badge' = <<>>
  /\ bubbles' = <<>> /\ typing' = FALSE /\ owed' = {}

\* It goes, and their listeners with it.
UnmountShell(c) ==
  /\ conn' = c
  /\ indicator' = "off" /\ connectedBefore' = FALSE /\ badge' = <<>>
  /\ bubbles' = <<>> /\ typing' = FALSE /\ owed' = {}

LoadBadge(as) == Request("list", "incidents", "bell", as)

\* load() of the navbar: on failure the list is emptied.
BadgeAfter(r) == IF ~r.ok THEN <<>> ELSE r.data

------------------------------------------------------------------------------
(* The connection *)

\* An attempt; the cookie goes with it.  `reconnect_attempt` is told of retries.
Handshake ==
  /\ conn.state = "connecting"
  /\ conn' = [conn EXCEPT !.state = "shaking", !.as = cookie]
  /\ IF conn.retry THEN Shows("reconnecting") ELSE UNCHANGED indicator
  /\ UNCHANGED <<dataVars, connectedBefore, badge, chatVars, owed, strayed>>

\* An answer begins: `full` of the handler, and whether the model was asked again.
NoText == [full |-> <<>>, again |-> FALSE]

\* What the library kept is sent, and its answers begin.
Begin(ids) == [id \in DOMAIN streams \union ids |->
                 IF id \in ids THEN NoText ELSE streams[id]]

\* Faulty variant: every connection is taken for the first.
Resyncs_never == FALSE

\* handleConnect: only a connection after the first needs a resync.
Resyncs == ShellShown /\ connectedBefore

\* The server has verified the token and joined the socket to its user's room.
Established ==
  /\ conn.state = "shaking" /\ conn.as # None
  /\ conn' = [conn EXCEPT !.state = "up", !.retry = FALSE]
  /\ Shows("connected")
  /\ connectedBefore' = ShellShown
  /\ owed' = IF ShellShown /\ connectedBefore THEN Mine("incidents", conn.as) ELSE owed
  /\ Send(net, IF Resyncs THEN <<LoadBadge(cookie)>> ELSE <<>>, {})
  /\ streams' = Begin(outbox) /\ outbox' = {}
  /\ typing' = (typing \/ (ShellShown /\ outbox # {}))
  /\ UNCHANGED <<server, cookie, me, signedIn, store, upsets, badge, asked,
                 bubbles, strayed>>

\* No token: handleConnectError gives up (so does the library, after a refusal).
Refused ==
  /\ conn.state = "shaking" /\ conn.as = None
  /\ conn' = Idle
  /\ Shows("unauthorized")
  /\ UNCHANGED <<dataVars, connectedBefore, badge, chatVars, owed, strayed>>

\* handleDisconnect and handleConnectError, for a reason that is not terminal.
Lost == Shows("reconnecting")

\* The transport closes, or the attempt fails: the library tries again.
Drop ==
  /\ conn.state \in {"up", "shaking"} /\ Upset
  /\ conn' = [state |-> "connecting", retry |-> TRUE, as |-> None]
  /\ Lost
  /\ streams' = <<>>
  /\ UNCHANGED <<server, cookie, me, signedIn, store, net, messy, connectedBefore,
                 badge, asked, outbox, bubbles, typing, owed, strayed>>

\* The browser says offline, whatever the socket and the indicator know.
Offline ==
  /\ ShellShown /\ Upset
  /\ Shows("reconnecting")
  /\ UNCHANGED <<server, cookie, me, signedIn, store, net, messy, conn,
                 connectedBefore, badge, chatVars, owed, strayed>>

\* `online` connects, and leaves the indicator; retryNow, the button of an indicator that
\* says reconnecting, says connecting even when there is nothing to connect.
Retry(says) ==
  /\ ShellShown
  /\ says = indicator \/ indicator = "reconnecting"
  /\ conn' = ConnectSocket(conn)
  /\ indicator' = says
  /\ UNCHANGED <<dataVars, connectedBefore, badge, chatVars, owed, strayed>>

\* The tab is looked at again, or the bell is opened: the list is fetched.
LookAtBadge ==
  /\ ShellShown
  /\ Send(net, <<LoadBadge(cookie)>>, {})
  /\ UNCHANGED <<server, cookie, me, signedIn, store, upsets, socketVars>>

\* An incident is opened; the event goes to the room and no page listens to it.
IncidentOpens(i) ==
  /\ Kind[i] = "incidents" /\ server[i] = "absent"
  /\ server' = [server EXCEPT ![i] = "on"]
  /\ UNCHANGED <<cookie, me, signedIn, store, net, upsets, messy, socketVars>>

------------------------------------------------------------------------------
(* The assistant *)

\* send(): emitted on a socket that is connected, else kept for the next connection.
Say ==
  LET id == asked + 1
  IN  /\ ShellShown /\ asked' = id
      /\ conn' = ConnectSocket(conn)
      /\ IF conn.state = "up"
         THEN streams' = Begin({id}) /\ typing' = TRUE /\ UNCHANGED outbox
         ELSE outbox' = outbox \union {id} /\ UNCHANGED <<streams, typing>>
      /\ UNCHANGED <<dataVars, indicator, connectedBefore, badge, bubbles, owed, strayed>>

Piece(id, k) == <<id, k>>
Whole(id) == [k \in 1..Pieces |-> Piece(id, k)]

\* Faulty variant: a chunk goes to the answer begun last.
Upsert_last(id, text) ==
  LET last == IF bubbles = <<>> THEN id ELSE CHOOSE i \in DOMAIN bubbles :
                                               \A j \in DOMAIN bubbles : j <= i
  IN  IF last \in DOMAIN bubbles THEN [bubbles EXCEPT ![last] = @ \o text]
      ELSE Put(bubbles, id, text)

\* upsertAssistant: the chunk goes to the message with its id.
Upsert(id, text) ==
  IF id \in DOMAIN bubbles THEN [bubbles EXCEPT ![id] = @ \o text]
  ELSE Put(bubbles, id, text)

\* chat:chunk with this text, which handler and page both append.
Hand(id, text, again) ==
  /\ streams' = [streams EXCEPT ![id] = [full |-> @.full \o text, again |-> again]]
  /\ bubbles' = IF ShellShown THEN Upsert(id, text) ELSE bubbles
  /\ UNCHANGED typing

\* A chunk of the stream.
Chunk(id) ==
  /\ Len(streams[id].full) < Pieces
  /\ Hand(id, <<Piece(id, Len(streams[id].full) + 1)>>, FALSE)
  /\ UNCHANGED upsets

\* The stream fails and the model is asked again, in one piece: the text handed on
\* so far is not taken back.
FallBack(id) ==
  /\ ~streams[id].again /\ Upset
  /\ Hand(id, Whole(id), TRUE)

\* chat:reply replaces the chunks by all that was handed on; typing is off.
Reply(id) ==
  /\ Len(streams[id].full) >= Pieces
  /\ bubbles' = IF ShellShown THEN Put(bubbles, id, streams[id].full) ELSE bubbles
  /\ streams' = Without(streams, id) /\ typing' = FALSE
  /\ UNCHANGED upsets

\* The model fails for good: chat:error, and typing is off.
ChatError(id) ==
  /\ Upset
  /\ streams' = Without(streams, id) /\ typing' = FALSE
  /\ UNCHANGED bubbles

Emit(id) ==
  /\ id \in DOMAIN streams /\ conn.state = "up"
  /\ Chunk(id) \/ FallBack(id) \/ Reply(id) \/ ChatError(id)
  /\ UNCHANGED <<server, cookie, me, signedIn, store, net, messy, conn, indicator,
                 connectedBefore, badge, asked, outbox, owed, strayed>>
==============================================================================
