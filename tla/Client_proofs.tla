----------------------------- MODULE Client_proofs -----------------------------
(***************************************************************************)
(* One browser tab, for any accounts, documents, gestures and disturbances:*)
(* whose room its socket is in, what the assistant's panel shows, which    *)
(* monitor the dashboard's panels are about, whose documents are shown,    *)
(* that the incidents open at a reconnection get listed, and that at rest  *)
(* the lists show what the server has.                                     *)
(***************************************************************************)
EXTENDS Client, SequenceTheorems, FiniteSetTheorems, WellFoundedInduction, TLAPS

-----------------------------------------------------------------------------
(* Definitions *)

\* The layout is there on a signed-in page only; without a session there is no socket,
\* and a socket is its session's, unless the session ended while it was being made.
RoomInv ==
  /\ DOMAIN conn = {"state", "retry", "as"}
  /\ conn.state \in {"idle", "connecting", "shaking", "up"}
  /\ signedIn \in BOOLEAN /\ initializing \in BOOLEAN /\ strayed \in BOOLEAN
  /\ ~initializing /\ route \in Protected => signedIn
  /\ ShellShown => route \in Protected /\ signedIn
  /\ ~strayed /\ ~signedIn => conn.state = "idle"
  /\ ~strayed /\ conn.state \in {"shaking", "up"} => conn.as = cookie

Piecewise == Seq(Nat \X Nat)

\* The k-th piece of an answer that was begun again after `said` pieces.
Nth(id, said, k) == Piece(id, IF k <= said THEN k ELSE k - said)

\* The text so far of answer id is its beginning.
StreamOK(id, s) ==
  /\ DOMAIN s = {"full", "again"} /\ s.full \in Piecewise /\ s.again \in BOOLEAN
  /\ ~s.again => /\ Len(s.full) <= Pieces
                 /\ \A k \in 1..Len(s.full) : s.full[k] = Piece(id, k)
  /\ s.again => \E said \in 0..Pieces :
                  /\ Len(s.full) = said + Pieces
                  /\ \A k \in 1..Len(s.full) : s.full[k] = Nth(id, said, k)

\* What is shown of answer id is a part of it without gaps.
PartOK(id, b) ==
  /\ b \in Piecewise /\ Len(b) >= 1
  /\ \E said \in 0..Pieces, off \in Nat :
       /\ off + Len(b) <= said + Pieces
       /\ \A k \in 1..Len(b) : b[k] = Nth(id, said, off + k)

\* What is shown of an answer under way is the end of what was said of it.
TailOK(b, s) ==
  \E off \in Nat : /\ off + Len(b) = Len(s.full)
                   /\ \A k \in 1..Len(b) : b[k] = s.full[off + k]

\* The answers under way, those shown and those waiting for a connection are numbered by
\* what was asked; those that wait are neither of the others.
ReplyInv ==
  /\ asked \in Nat /\ outbox \subseteq 1..asked
  /\ streams = [id \in DOMAIN streams |-> streams[id]] /\ DOMAIN streams \subseteq 1..asked
  /\ bubbles = [id \in DOMAIN bubbles |-> bubbles[id]] /\ DOMAIN bubbles \subseteq 1..asked
  /\ outbox \intersect (DOMAIN streams \union DOMAIN bubbles) = {}
  /\ ~ShellShown => DOMAIN bubbles = {}
  /\ \A id \in DOMAIN streams : StreamOK(id, streams[id])
  /\ \A id \in DOMAIN bubbles : PartOK(id, bubbles[id])
  /\ \A id \in DOMAIN streams \intersect DOMAIN bubbles : TailOK(bubbles[id], streams[id])

-----------------------------------------------------------------------------
(* The room *)

\* A connection fit for the session there then is.
FitConn(c, in, as, astray) ==
  /\ DOMAIN c = {"state", "retry", "as"}
  /\ c.state \in {"idle", "connecting", "shaking", "up"}
  /\ ~astray /\ ~in => c.state = "idle"
  /\ ~astray /\ c.state \in {"shaking", "up"} => c.as = as

\* connectSocket() and disconnectSocket() by the fields of the socket.
LEMMA SocketFields ==
  ASSUME NEW c, DOMAIN c = {"state", "retry", "as"}
  PROVE  /\ DOMAIN ConnectSocket(c) = {"state", "retry", "as"}
         /\ c.state = "idle" => ConnectSocket(c).state = "connecting"
         /\ c.state # "idle" => ConnectSocket(c) = c
         /\ DOMAIN DisconnectSocket(c) = {"state", "retry", "as"}
         /\ c.state = "up" => DisconnectSocket(c).state = "idle"
         /\ c.state # "up" => DisconnectSocket(c) = c
BY DEF ConnectSocket, DisconnectSocket, Idle

\* A page that is shown keeps the layout to signed-in pages, and connects for these only.
LEMMA ShowKeepsRoom ==
  ASSUME NEW rt, NEW subject, NEW st, NEW n, NEW c, NEW u, NEW as, NEW late,
         NEW remount \in BOOLEAN, Show(rt, subject, st, n, c, u, as, late, remount),
         signedIn' \in BOOLEAN, initializing' \in BOOLEAN, strayed' \in BOOLEAN,
         rt \in Protected => signedIn',
         FitConn(c, signedIn', cookie', strayed')
  PROVE  RoomInv'
<1>1. route' = rt
  BY DEF Show
<1>2. rt \in Protected => conn' = c \/ conn' = ConnectSocket(c)
  BY DEF Show, MountShell
<1>3. rt \notin Protected => conn' = c /\ indicator' = "off"
  BY DEF Show, UnmountShell
<1>4. FitConn(conn', signedIn', cookie', strayed')
  BY <1>2, <1>3, SocketFields DEF FitConn
<1>5. ShellShown' => rt \in Protected
  BY <1>3 DEF ShellShown
<1> QED
  BY <1>1, <1>4, <1>5 DEF RoomInv, FitConn

\* What touches neither the session, the page nor the socket leaves the room alone.
LEMMA RoomUntouched ==
  ASSUME RoomInv,
         UNCHANGED <<conn, signedIn, initializing, strayed, route, indicator, cookie>>
  PROVE  RoomInv'
BY DEF RoomInv, ShellShown

\* The session after an answer, if it is for the session.
LEMMA SessionEffect ==
  ASSUME NEW r, SessionAfter(r), signedIn \in BOOLEAN
  PROVE  /\ signedIn' \in BOOLEAN
         /\ r.op = "logout" => ~signedIn'
         /\ r.op = "profile" => cookie' = cookie /\ (signedIn => signedIn')
         /\ r.op = "login" => (~signedIn' => cookie' = cookie) /\ (signedIn => signedIn')
BY DEF SessionAfter

\* Answers leave the room right, late ones too.
LEMMA SettleKeepsRoom ==
  ASSUME RoomInv, NEW r, SettleAnswered(r)
  PROVE  RoomInv'
<1>1. CASE SettleStore(r) \/ SettleBell(r) \/ SettlePage(r) \/ SettleGone(r)
  <2>1. UNCHANGED <<conn, signedIn, initializing, strayed, route, indicator, cookie>>
    BY <1>1 DEF SettleStore, SettleBell, SettlePage, SettleGone, socketVars, pageVars
  <2> QED
    BY <2>1, RoomUntouched
<1>2. CASE SettleFirstProfile(r)
  <2>1. r.op = "profile" /\ SessionAfter(r) /\ initializing' = FALSE /\ strayed' = strayed
    BY <1>2 DEF SettleFirstProfile
  <2>2. signedIn' \in BOOLEAN /\ cookie' = cookie /\ (signedIn => signedIn')
    BY <2>1, SessionEffect DEF RoomInv
  <2>3. PICK rt, s, n : /\ rt = Redirected(route, signedIn')
                        /\ Show(rt, s, store, n, conn, me', cookie, {}, FALSE)
    BY <1>2 DEF SettleFirstProfile
  <2>4. rt \in Protected => signedIn'
    BY <2>3 DEF Redirected, Protected, PageKind
  <2>5. FitConn(conn, signedIn', cookie', strayed')
    BY <2>1, <2>2 DEF RoomInv, FitConn
  <2> QED
    BY <2>1, <2>2, <2>3, <2>4, <2>5, ShowKeepsRoom DEF RoomInv
<1>3. CASE SettleSignIn(r)
  <2>1. r.op \in {"profile", "login"} /\ SessionAfter(r) /\ ~initializing
        /\ initializing' = initializing
    BY <1>3 DEF SettleSignIn
  <2>2. strayed' = (strayed \/ (r.op = "login" /\ signedIn))
    BY <1>3 DEF SettleSignIn
  <2>3. signedIn' \in BOOLEAN /\ (signedIn => signedIn')
        /\ (~signedIn' => cookie' = cookie) /\ (r.op = "profile" => cookie' = cookie)
    BY <2>1, SessionEffect DEF RoomInv
  <2>4. strayed' \in BOOLEAN /\ initializing' \in BOOLEAN
    BY <2>1, <2>2 DEF RoomInv
  <2>5. FitConn(conn, signedIn', cookie', strayed')
    BY <2>1, <2>2, <2>3 DEF RoomInv, FitConn
  <2>6. CASE route = "login" /\ signedIn'
    <3>1. PICK s, n : Show("dashboard", s, store, n, conn, me', cookie', {}, FALSE)
      BY <1>3, <2>6 DEF SettleSignIn
    <3> QED
      BY <3>1, <2>3, <2>4, <2>5, <2>6, ShowKeepsRoom
  <2>7. CASE ~(route = "login" /\ signedIn')
    <3>1. route' = route /\ conn' = conn /\ indicator' = indicator
      BY <1>3, <2>7 DEF SettleSignIn
    <3> QED
      BY <3>1, <2>1, <2>3, <2>4, <2>5 DEF RoomInv, FitConn, ShellShown
  <2> QED
    BY <2>6, <2>7
<1>4. CASE SettleLogout(r)
  <2>1. r.op = "logout" /\ SessionAfter(r) /\ initializing' = initializing
    BY <1>4 DEF SettleLogout
  <2>2. ~signedIn' /\ signedIn' \in BOOLEAN
    BY <2>1, SessionEffect DEF RoomInv
  <2>3. strayed' \in BOOLEAN
        /\ (strayed \/ conn.state \in {"connecting", "shaking"} => strayed')
    BY <1>4 DEF SettleLogout
  <2>4. PICK c : c = DisconnectSocket(conn)
    OBVIOUS
  <2>5. FitConn(c, signedIn', cookie', strayed')
    BY <2>2, <2>3, <2>4, SocketFields DEF RoomInv, FitConn
  <2>6. CASE route \in Protected
    <3>1. PICK n, late : Show("login", None, Wiped, n, c, None, None, late, FALSE)
      BY <1>4, <2>4, <2>6 DEF SettleLogout
    <3>2. "login" \notin Protected
      BY DEF Protected, PageKind
    <3> QED
      BY <3>1, <3>2, <2>1, <2>2, <2>3, <2>5, ShowKeepsRoom DEF RoomInv
  <2>7. CASE route \notin Protected
    <3>1. route' = route /\ conn' = c /\ indicator' = indicator
      BY <1>4, <2>4, <2>7 DEF SettleLogout
    <3> QED
      BY <3>1, <2>1, <2>2, <2>3, <2>5, <2>7 DEF RoomInv, FitConn, ShellShown
  <2> QED
    BY <2>6, <2>7
<1> QED
  BY <1>1, <1>2, <1>3, <1>4 DEF SettleAnswered

\* The socket's own steps keep it in the room of the session.
LEMMA SocketKeepsRoom ==
  ASSUME RoomInv, OfSocket
  PROVE  RoomInv'
<1>1. UNCHANGED <<initializing, route>>
  BY DEF OfSocket, pageVars
<1>2. CASE Handshake
  <2>1. /\ conn.state = "connecting" /\ conn' = [conn EXCEPT !.state = "shaking", !.as = cookie]
        /\ UNCHANGED <<signedIn, cookie, strayed>>
    BY <1>2 DEF Handshake, dataVars
  <2>2. DOMAIN conn' = {"state", "retry", "as"} /\ conn'.state = "shaking" /\ conn'.as = cookie
    BY <2>1 DEF RoomInv
  <2>3. ShellShown' => ShellShown
    BY <1>2 DEF Handshake, Shows, ShellShown
  <2> QED
    BY <1>1, <2>1, <2>2, <2>3 DEF RoomInv
<1>3. CASE Established
  <2>1. /\ conn.state = "shaking" /\ conn' = [conn EXCEPT !.state = "up", !.retry = FALSE]
        /\ UNCHANGED <<signedIn, cookie, strayed>>
    BY <1>3 DEF Established
  <2>2. DOMAIN conn' = {"state", "retry", "as"} /\ conn'.state = "up" /\ conn'.as = conn.as
    BY <2>1 DEF RoomInv
  <2>3. ShellShown' => ShellShown
    BY <1>3 DEF Established, Shows, ShellShown
  <2> QED
    BY <1>1, <2>1, <2>2, <2>3 DEF RoomInv
<1>4. CASE Refused
  <2>1. conn' = Idle /\ UNCHANGED <<signedIn, cookie, strayed>>
    BY <1>4 DEF Refused, dataVars
  <2>2. DOMAIN conn' = {"state", "retry", "as"} /\ conn'.state = "idle"
    BY <2>1 DEF Idle
  <2>3. ShellShown' => ShellShown
    BY <1>4 DEF Refused, Shows, ShellShown
  <2> QED
    BY <1>1, <2>1, <2>2, <2>3 DEF RoomInv
<1>5. CASE Drop
  <2>1. /\ conn.state \in {"up", "shaking"} /\ UNCHANGED <<signedIn, cookie, strayed>>
        /\ conn' = [state |-> "connecting", retry |-> TRUE, as |-> None]
    BY <1>5 DEF Drop
  <2>2. DOMAIN conn' = {"state", "retry", "as"} /\ conn'.state = "connecting"
    BY <2>1
  <2>3. ShellShown' => ShellShown
    BY <1>5 DEF Drop, Lost, Shows, ShellShown
  <2> QED
    BY <1>1, <2>1, <2>2, <2>3 DEF RoomInv
<1>6. CASE Offline
  <2>1. UNCHANGED <<conn, signedIn, cookie, strayed>>
    BY <1>6 DEF Offline
  <2>2. ShellShown' => ShellShown
    BY <1>6 DEF Offline, Shows, ShellShown
  <2> QED
    BY <1>1, <2>1, <2>2 DEF RoomInv
<1>7. CASE \E id \in DOMAIN streams : Emit(id)
  <2>1. UNCHANGED <<conn, signedIn, strayed, indicator, cookie>>
    BY <1>7 DEF Emit
  <2> QED
    BY <1>1, <2>1, RoomUntouched
<1> QED
  BY <1>2, <1>3, <1>4, <1>5, <1>6, <1>7 DEF OfSocket

\* Hands on the shell connect for a session only.
LEMMA ShellKeepsRoom ==
  ASSUME RoomInv, OnShell
  PROVE  RoomInv'
<1>1. UNCHANGED <<initializing, route>>
  BY DEF OnShell
<1>2. CASE LookAtBadge \/ \E i \in Item : IncidentOpens(i)
  <2>1. UNCHANGED <<conn, signedIn, strayed, indicator, cookie>>
    BY <1>2 DEF LookAtBadge, IncidentOpens, socketVars
  <2> QED
    BY <1>1, <2>1, RoomUntouched
<1>3. CASE Say \/ Retry("connecting") \/ Retry(indicator)
  <2>1. ShellShown /\ conn' = ConnectSocket(conn) /\ UNCHANGED <<signedIn, strayed, cookie>>
    BY <1>3 DEF Say, Retry, dataVars
  <2> QED
    BY <1>1, <2>1, SocketFields DEF RoomInv
<1> QED
  BY <1>2, <1>3 DEF OnShell

\* What is done on the pages changes the page at most.
LEMMA UserKeepsRoom ==
  ASSUME RoomInv, OfUser
  PROVE  RoomInv'
<1>1. CASE LogoutClick
  <2>1. route \in Protected /\ ~initializing /\ UNCHANGED <<signedIn, initializing, strayed, cookie>>
    BY <1>1 DEF LogoutClick, Gesture
  <2>2. PICK s, n : Show("dashboard", s, store, n, conn, me, cookie, {}, TRUE)
    BY <1>1 DEF LogoutClick
  <2>3. FitConn(conn, signedIn', cookie', strayed')
    BY <2>1 DEF RoomInv, FitConn
  <2> QED
    BY <2>1, <2>2, <2>3, ShowKeepsRoom DEF RoomInv
<1>2. ASSUME NEW rt \in (Protected \union Open) \ {route}, Navigate(rt)
      PROVE  RoomInv'
  <2>1. (signedIn \/ rt \in Open) /\ UNCHANGED <<signedIn, initializing, strayed, cookie>>
    BY <1>2 DEF Navigate
  <2>2. PICK s : Show(rt, s, store, net, conn, me, cookie, {}, FALSE)
    BY <1>2 DEF Navigate
  <2>3. FitConn(conn, signedIn', cookie', strayed')
    BY <2>1 DEF RoomInv, FitConn
  <2>4. rt \in Protected => signedIn'
    BY <2>1 DEF Open, Protected, PageKind
  <2> QED
    BY <2>1, <2>2, <2>3, <2>4, ShowKeepsRoom DEF RoomInv
<1>3. ASSUME OnPage \/ \E u \in User : SignIn(u)
      PROVE  StoreUnchanged
  BY <1>3 DEF OnPage, Reload, RefreshMonitors, Poll, Select, AddMonitor, AddChannel, AddPage,
              RemoveMonitor, RemoveChannel, RemovePage, TestChannel, ToggleChannel, TogglePref,
              EditPage, SignIn, Act, ActOnStore
<1>4. CASE OnPage \/ \E u \in User : SignIn(u)
  <2>1. UNCHANGED <<conn, signedIn, initializing, strayed, route, indicator, cookie>>
    BY <1>3, <1>4 DEF StoreUnchanged, socketVars
  <2> QED
    BY <2>1, RoomUntouched
<1> QED
  BY <1>1, <1>2, <1>4 DEF OfUser

\* Every step keeps the room.
LEMMA RoomStep == RoomInv /\ [Next]_vars => RoomInv'
<1> SUFFICES ASSUME RoomInv, [Next]_vars PROVE RoomInv'
  OBVIOUS
<1>1. CASE UNCHANGED vars
  <2>1. UNCHANGED <<conn, signedIn, initializing, strayed, route, indicator, cookie>>
    BY <1>1 DEF vars, dataVars, socketVars, pageVars
  <2> QED
    BY <2>1, RoomUntouched
<1>2. ASSUME NEW r \in net, Settle(r)
      PROVE  RoomInv'
  BY <1>2, SettleKeepsRoom DEF Settle
<1>3. CASE OfNet \/ (Gesture /\ GrowStale /\ UNCHANGED <<socketVars, initializing, route, view>>)
  <2>1. UNCHANGED <<conn, signedIn, initializing, strayed, route, indicator, cookie>>
    BY <1>3 DEF OfNet, Serve, Lose, GrowStale, socketVars, pageVars
  <2> QED
    BY <2>1, RoomUntouched
<1> QED
  BY <1>1, <1>2, <1>3, SocketKeepsRoom, ShellKeepsRoom, UserKeepsRoom DEF Next

\* A tab is opened without a socket.
LEMMA RoomInit == Init => RoomInv
<1> SUFFICES ASSUME Init PROVE RoomInv
  OBVIOUS
<1>1. conn = Idle /\ indicator = "off" /\ strayed = FALSE
  BY DEF Init, SocketInit
<1>2. signedIn = FALSE /\ initializing = TRUE
  BY DEF Init, DataInit
<1>3. DOMAIN conn = {"state", "retry", "as"} /\ conn.state = "idle"
  BY <1>1 DEF Idle
<1> QED
  BY <1>1, <1>2, <1>3 DEF RoomInv, ShellShown

\* Sockets, layout and session agree in every run (socket.service.js, Sidebar.jsx,
\* server.socket.js).
THEOREM RoomInvariant == Spec => []RoomInv
BY RoomInit, RoomStep, PTL DEF Spec

\* The socket of a signed-in tab is in the room of its user, whoever was signed in before,
\* but for a tab that has strayed: one that logged out in mid-handshake or before an
\* answer for its session, or that signed in on top of a session.
THEOREM SocketsAreInTheirRoom == Spec => []RoomIsOwn
<1>1. RoomInv => RoomIsOwn
  BY DEF RoomInv, RoomIsOwn
<1> QED
  BY <1>1, RoomInvariant, PTL

-----------------------------------------------------------------------------
(* The answers of the assistant *)

\* Connections and panels may go, and what they held with them.
LEMMA FewerReplies ==
  ASSUME ReplyInv, asked' = asked, outbox' = outbox,
         streams' = streams \/ streams' = <<>>,
         bubbles' = bubbles \/ bubbles' = <<>>,
         ~ShellShown' => DOMAIN bubbles' = {}
  PROVE  ReplyInv'
<1>1. /\ streams' = [id \in DOMAIN streams' |-> streams'[id]] /\ DOMAIN streams' \subseteq DOMAIN streams
      /\ \A id \in DOMAIN streams' : streams'[id] = streams[id]
  <2>1. CASE streams' = streams
    BY <2>1 DEF ReplyInv
  <2>2. CASE streams' = <<>>
    <3>1. DOMAIN streams' = {}
      BY <2>2
    <3>2. <<>> = [id \in {} |-> streams'[id]]
      OBVIOUS
    <3> QED
      BY <2>2, <3>1, <3>2
  <2> QED
    BY <2>1, <2>2
<1>2. /\ bubbles' = [id \in DOMAIN bubbles' |-> bubbles'[id]] /\ DOMAIN bubbles' \subseteq DOMAIN bubbles
      /\ \A id \in DOMAIN bubbles' : bubbles'[id] = bubbles[id]
  <2>1. CASE bubbles' = bubbles
    BY <2>1 DEF ReplyInv
  <2>2. CASE bubbles' = <<>>
    <3>1. DOMAIN bubbles' = {}
      BY <2>2
    <3>2. <<>> = [id \in {} |-> bubbles'[id]]
      OBVIOUS
    <3> QED
      BY <2>2, <3>1, <3>2
  <2> QED
    BY <2>1, <2>2
<1>3. \A id \in DOMAIN streams' : StreamOK(id, streams'[id])
  BY <1>1 DEF ReplyInv
<1>4. \A id \in DOMAIN bubbles' : PartOK(id, bubbles'[id])
  BY <1>2 DEF ReplyInv
<1>5. \A id \in DOMAIN streams' \intersect DOMAIN bubbles' : TailOK(bubbles'[id], streams'[id])
  BY <1>1, <1>2 DEF ReplyInv
<1> QED
  BY <1>1, <1>2, <1>3, <1>4, <1>5 DEF ReplyInv

\* The layout goes with what the panel showed, or stays with it.
LEMMA ShowKeepsPanel ==
  ASSUME ReplyInv, NEW rt, NEW subject, NEW st, NEW n, NEW c, NEW u, NEW as, NEW late,
         NEW remount, Show(rt, subject, st, n, c, u, as, late, remount)
  PROVE  /\ bubbles' = bubbles \/ bubbles' = <<>>
         /\ ~ShellShown' => DOMAIN bubbles' = {}
<1>1. CASE indicator' = indicator /\ bubbles' = bubbles
  BY <1>1 DEF ReplyInv, ShellShown
<1>2. CASE bubbles' = <<>>
  BY <1>2
<1> QED
  BY <1>1, <1>2 DEF Show, MountShell, UnmountShell

\* The end of what was said is a part of the answer.
LEMMA TailIsPart ==
  ASSUME NEW id \in Nat, NEW s, StreamOK(id, s), NEW b \in Piecewise, Len(b) >= 1, TailOK(b, s)
  PROVE  PartOK(id, b)
<1>1. Pieces \in Nat \ {0} /\ Len(b) \in Nat /\ Len(s.full) \in Nat
  BY PiecesAssumption DEF StreamOK, Piecewise
<1>2. PICK off \in Nat : /\ off + Len(b) = Len(s.full)
                         /\ \A k \in 1..Len(b) : b[k] = s.full[off + k]
  BY DEF TailOK
<1>3. \A k \in 1..Len(b) : off + k \in 1..Len(s.full)
  BY <1>1, <1>2
<1>4. CASE ~s.again
  <2>1. Len(s.full) <= Pieces /\ \A k \in 1..Len(s.full) : s.full[k] = Piece(id, k)
    BY <1>4 DEF StreamOK
  <2>2. ASSUME NEW k \in 1..Len(b)
        PROVE  b[k] = Nth(id, Pieces, off + k)
    <3>1. b[k] = s.full[off + k] /\ off + k \in 1..Len(s.full)
      BY <1>2, <1>3
    <3>2. off + k <= Pieces
      BY <3>1, <2>1, <1>1
    <3> QED
      BY <3>1, <3>2, <2>1 DEF Nth
  <2>3. off + Len(b) <= Pieces + Pieces /\ Pieces \in 0..Pieces
    BY <1>1, <1>2, <2>1
  <2> QED
    BY <2>2, <2>3 DEF PartOK
<1>5. CASE s.again
  <2>1. PICK said \in 0..Pieces : /\ Len(s.full) = said + Pieces
                                  /\ \A k \in 1..Len(s.full) : s.full[k] = Nth(id, said, k)
    BY <1>5 DEF StreamOK
  <2>2. \A k \in 1..Len(b) : b[k] = Nth(id, said, off + k)
    BY <1>2, <1>3, <2>1
  <2>3. off + Len(b) <= said + Pieces
    BY <1>1, <1>2, <2>1
  <2> QED
    BY <2>2, <2>3 DEF PartOK
<1> QED
  BY <1>4, <1>5 DEF StreamOK

\* What is handed on is appended by the handler and by the panel alike.
LEMMA HandKeepsReplies ==
  ASSUME ReplyInv, NEW id \in DOMAIN streams, NEW text \in Piecewise, Len(text) >= 1,
         NEW again, Hand(id, text, again),
         UNCHANGED <<asked, outbox, indicator>>,
         StreamOK(id, [full |-> streams[id].full \o text, again |-> again])
  PROVE  ReplyInv'
<1>1. PICK s : s = [full |-> streams[id].full \o text, again |-> again]
  OBVIOUS
<1>2. PICK f : f = streams[id].full
  OBVIOUS
<1>3. PICK g : g = f \o text
  OBVIOUS
<1>4. f \in Piecewise /\ StreamOK(id, s) /\ s.full = g
  BY <1>1, <1>2, <1>3 DEF ReplyInv, StreamOK
<1>5. PICK n \in Nat : n = Len(f)
  BY <1>4 DEF Piecewise
<1>6. PICK t \in Nat : t = Len(text) /\ t >= 1
  BY DEF Piecewise
<1>7. /\ g \in Piecewise /\ Len(g) = n + t
      /\ \A k \in 1..n : g[k] = f[k]
      /\ \A k \in 1..t : g[n + k] = text[k]
  BY <1>3, <1>4, <1>5, <1>6 DEF Piecewise
<1>8. streams' = [i \in DOMAIN streams |-> IF i = id THEN s ELSE streams[i]]
  BY <1>1 DEF Hand, ReplyInv
<1>9. \A i \in DOMAIN streams' : StreamOK(i, streams'[i])
  BY <1>4, <1>8 DEF ReplyInv
<1>10. id \in Nat /\ id \in 1..asked /\ id \notin outbox
  BY DEF ReplyInv
<1>11. CASE ~ShellShown
  <2>1. bubbles' = bubbles /\ DOMAIN bubbles = {} /\ ~ShellShown'
    BY <1>11 DEF Hand, ReplyInv, ShellShown
  <2>2. \A i \in DOMAIN bubbles' : PartOK(i, bubbles'[i])
    BY <2>1
  <2> QED
    BY <1>8, <1>9, <2>1, <2>2 DEF ReplyInv
<1>12. CASE ShellShown
  <2>1. ShellShown' /\ bubbles' = Upsert(id, text)
    BY <1>12 DEF Hand, ShellShown
  <2>2. PICK b : b = IF id \in DOMAIN bubbles THEN bubbles[id] \o text ELSE text
    OBVIOUS
  <2>3. bubbles' = [i \in DOMAIN bubbles \union {id} |-> IF i = id THEN b ELSE bubbles[i]]
    BY <2>1, <2>2 DEF Upsert, Put, ReplyInv
  <2>4. b \in Piecewise /\ Len(b) >= 1 /\ TailOK(b, s)
    <3>1. CASE id \in DOMAIN bubbles
      <4>1. PICK c : c = bubbles[id]
        OBVIOUS
      <4>2. c \in Piecewise /\ TailOK(c, streams[id]) /\ b = c \o text
        <5>1. PartOK(id, c) /\ TailOK(c, streams[id])
          BY <3>1, <4>1 DEF ReplyInv
        <5>2. c \in Piecewise
          BY <5>1 DEF PartOK
        <5> QED
          BY <2>2, <3>1, <4>1, <5>1, <5>2
      <4>3. PICK m \in Nat : m = Len(c)
        BY <4>2 DEF Piecewise
      <4>4. PICK off \in Nat : off + m = n /\ \A k \in 1..m : c[k] = f[off + k]
        BY <4>2, <4>3, <1>2, <1>5 DEF TailOK
      <4>5. /\ b \in Piecewise /\ Len(b) = m + t
            /\ \A k \in 1..m : b[k] = c[k]
            /\ \A k \in 1..t : b[m + k] = text[k]
        BY <4>2, <4>3, <1>6 DEF Piecewise
      <4>6. off + Len(b) = Len(g)
        BY <1>7, <4>4, <4>5
      <4>7. ASSUME NEW k \in 1..(m + t)
            PROVE  b[k] = g[off + k]
        <5>1. CASE k <= m
          <6>1. k \in 1..m /\ off + k \in 1..n
            BY <5>1, <4>4
          <6> QED
            BY <6>1, <4>4, <4>5, <1>7
        <5>2. CASE k > m
          <6>1. PICK j \in 1..t : k = m + j
            <7>1. k - m \in 1..t /\ k = m + (k - m)
              BY <5>2
            <7> QED
              BY <7>1
          <6>2. off + k = n + j
            BY <6>1, <4>4
          <6> QED
            BY <6>1, <6>2, <4>5, <1>7
        <5> QED
          BY <5>1, <5>2
      <4>8. TailOK(b, s)
        BY <4>5, <4>6, <4>7, <1>4 DEF TailOK
      <4> QED
        BY <4>5, <4>8, <1>6
    <3>2. CASE id \notin DOMAIN bubbles
      <4>1. b = text
        BY <2>2, <3>2
      <4>2. n + Len(b) = Len(g) /\ \A k \in 1..Len(b) : b[k] = g[n + k]
        BY <4>1, <1>6, <1>7
      <4>3. TailOK(b, s)
        BY <4>2, <1>4 DEF TailOK
      <4> QED
        BY <4>1, <4>3, <1>6
    <3> QED
      BY <3>1, <3>2
  <2>5. PartOK(id, b)
    BY <2>4, <1>4, <1>10, TailIsPart
  <2>6. \A i \in DOMAIN bubbles' : PartOK(i, bubbles'[i])
    BY <2>3, <2>5 DEF ReplyInv
  <2>7. \A i \in DOMAIN streams' \intersect DOMAIN bubbles' : TailOK(bubbles'[i], streams'[i])
    BY <1>8, <2>3, <2>4 DEF ReplyInv
  <2> QED
    BY <1>8, <1>9, <1>10, <2>1, <2>3, <2>6, <2>7 DEF ReplyInv
<1> QED
  BY <1>11, <1>12

\* A whole answer, piece by piece.
LEMMA WholeByPieces ==
  ASSUME NEW id \in Nat
  PROVE  /\ Whole(id) \in Piecewise /\ Len(Whole(id)) = Pieces
         /\ \A k \in 1..Pieces : Whole(id)[k] = Piece(id, k)
<1>1. Pieces \in Nat
  BY PiecesAssumption
<1>2. \A k \in 1..Pieces : Piece(id, k) \in Nat \X Nat
  BY <1>1 DEF Piece
<1> QED
  BY <1>1, <1>2 DEF Whole, Piecewise

\* A chunk continues the answer; a model that is asked again repeats it from its beginning.
LEMMA EmitKeepsReplies ==
  ASSUME ReplyInv, NEW id \in DOMAIN streams, Emit(id)
  PROVE  ReplyInv'
<1>1. UNCHANGED <<asked, outbox, indicator>>
  BY DEF Emit
<1>2. id \in Nat /\ StreamOK(id, streams[id]) /\ Pieces \in Nat \ {0}
  BY PiecesAssumption DEF ReplyInv
<1>3. PICK f : f = streams[id].full
  OBVIOUS
<1>4. PICK n \in Nat : f \in Piecewise /\ n = Len(f)
  BY <1>2, <1>3 DEF StreamOK, Piecewise
<1>5. CASE Chunk(id)
  <2>1. PICK text : text = <<Piece(id, n + 1)>>
    OBVIOUS
  <2>2. Hand(id, text, FALSE) /\ n < Pieces
    BY <1>3, <1>4, <1>5, <2>1 DEF Chunk
  <2>3. text \in Piecewise /\ Len(text) = 1 /\ text[1] = Piece(id, n + 1)
    <3>1. Piece(id, n + 1) \in Nat \X Nat
      BY <1>2 DEF Piece
    <3> QED
      BY <2>1, <3>1 DEF Piecewise
  <2>4. ~streams[id].again /\ \A k \in 1..n : f[k] = Piece(id, k)
    BY <1>2, <1>3, <1>4, <2>2 DEF StreamOK
  <2>5. PICK g : g = f \o text
    OBVIOUS
  <2>6. g \in Piecewise /\ Len(g) = n + 1 /\ \A k \in 1..(n + 1) : g[k] = Piece(id, k)
    <3>1. g \in Piecewise /\ Len(g) = n + 1
          /\ \A k \in 1..(n + 1) : g[k] = IF k <= n THEN f[k] ELSE text[k - n]
      <4>1. f \in Seq(Nat \X Nat) /\ text \in Seq(Nat \X Nat)
        BY <1>4, <2>3 DEF Piecewise
      <4>2. /\ g \in Seq(Nat \X Nat) /\ Len(g) = Len(f) + Len(text)
            /\ \A k \in 1..(Len(f) + Len(text)) :
                 g[k] = IF k <= Len(f) THEN f[k] ELSE text[k - Len(f)]
        BY <4>1, <2>5, ConcatProperties
      <4> QED
        BY <4>2, <1>4, <2>3 DEF Piecewise
    <3>2. ASSUME NEW k \in 1..(n + 1)
          PROVE  g[k] = Piece(id, k)
      <4>1. CASE k \in 1..n
        BY <4>1, <3>1, <2>4
      <4>2. CASE k = n + 1
        <5>1. k - n = 1 /\ ~(k <= n)
          BY <4>2
        <5> QED
          BY <4>2, <5>1, <3>1, <2>3
      <4> QED
        BY <4>1, <4>2
    <3> QED
      BY <3>1, <3>2
  <2>7. PICK s : s = [full |-> streams[id].full \o text, again |-> FALSE]
    OBVIOUS
  <2>8. DOMAIN s = {"full", "again"} /\ s.full = g
    BY <1>3, <2>5, <2>7
  <2>9. s.again \in BOOLEAN /\ ~s.again
    BY <2>7
  <2>10. Len(g) <= Pieces /\ Len(g) = n + 1
    BY <1>2, <2>2, <2>6
  <2>11. StreamOK(id, s)
    BY <2>6, <2>8, <2>9, <2>10 DEF StreamOK
  <2>12. StreamOK(id, [full |-> streams[id].full \o text, again |-> FALSE])
    BY <2>7, <2>11
  <2>13. Len(text) >= 1
    BY <2>3
  <2> QED
    BY <1>1, <2>2, <2>3, <2>12, <2>13, HandKeepsReplies
<1>6. CASE FallBack(id)
  <2>1. PICK text : text = Whole(id)
    OBVIOUS
  <2>2. Hand(id, text, TRUE) /\ ~streams[id].again
    BY <1>6, <2>1 DEF FallBack
  <2>3. text \in Piecewise /\ Len(text) = Pieces
        /\ \A k \in 1..Pieces : text[k] = Piece(id, k)
    BY <1>2, <2>1, WholeByPieces
  <2>4. n <= Pieces /\ \A k \in 1..n : f[k] = Piece(id, k)
    BY <1>2, <1>3, <1>4, <2>2 DEF StreamOK
  <2>5. PICK g : g = f \o text
    OBVIOUS
  <2>6. g \in Piecewise /\ Len(g) = n + Pieces
        /\ \A k \in 1..(n + Pieces) : g[k] = IF k <= n THEN f[k] ELSE text[k - n]
    BY <1>2, <1>4, <2>3, <2>5, ConcatProperties DEF Piecewise
  <2>7. \A k \in 1..Len(g) : g[k] = Nth(id, n, k)
    <3> SUFFICES ASSUME NEW k \in 1..(n + Pieces) PROVE g[k] = Nth(id, n, k)
      BY <2>6
    <3>1. CASE k <= n
      <4>1. k \in 1..n
        BY <3>1
      <4> QED
        BY <3>1, <4>1, <2>4, <2>6 DEF Nth
    <3>2. CASE k > n
      <4>1. k - n \in 1..Pieces
        BY <3>2, <1>2
      <4>2. text[k - n] = Piece(id, k - n) /\ g[k] = text[k - n]
        BY <4>1, <3>2, <2>3, <2>6
      <4> QED
        BY <4>2, <3>2 DEF Nth
    <3> QED
      BY <3>1, <3>2, <1>2
  <2>8. PICK s : s = [full |-> streams[id].full \o text, again |-> TRUE]
    OBVIOUS
  <2>9. DOMAIN s = {"full", "again"} /\ s.full = g /\ s.again = TRUE
    BY <1>3, <2>5, <2>8
  <2>10. n \in 0..Pieces
    BY <1>2, <2>4
  <2>11. StreamOK(id, s)
    BY <2>6, <2>7, <2>9, <2>10 DEF StreamOK
  <2>12. StreamOK(id, [full |-> streams[id].full \o text, again |-> TRUE])
    BY <2>8, <2>11
  <2>13. Len(text) >= 1
    BY <1>2, <2>3
  <2> QED
    BY <1>1, <2>2, <2>3, <2>12, <2>13, HandKeepsReplies
<1>7. CASE Reply(id)
  <2>1. n >= Pieces /\ streams' = Without(streams, id)
        /\ bubbles' = IF ShellShown THEN Put(bubbles, id, f) ELSE bubbles
    BY <1>3, <1>4, <1>7 DEF Reply
  <2>2. /\ streams' = [i \in DOMAIN streams \ {id} |-> streams[i]]
        /\ \A i \in DOMAIN streams' : StreamOK(i, streams'[i])
    BY <2>1 DEF Without, ReplyInv
  <2>3. PartOK(id, f)
    <3>1. TailOK(f, streams[id])
      <4>1. 0 \in Nat /\ 0 + Len(f) = Len(f) /\ \A k \in 1..Len(f) : f[k] = f[0 + k]
        BY <1>4
      <4> QED
        BY <4>1, <1>3 DEF TailOK
    <3> QED
      BY <3>1, <1>2, <1>4, <2>1, TailIsPart
  <2>4. CASE ~ShellShown
    <3>1. bubbles' = bubbles /\ DOMAIN bubbles = {} /\ ~ShellShown'
      BY <1>1, <2>1, <2>4 DEF ReplyInv, ShellShown
    <3>2. \A i \in DOMAIN bubbles' : PartOK(i, bubbles'[i])
      BY <3>1
    <3> QED
      BY <1>1, <2>2, <3>1, <3>2 DEF ReplyInv
  <2>5. CASE ShellShown
    <3>1. bubbles' = [i \in DOMAIN bubbles \union {id} |-> IF i = id THEN f ELSE bubbles[i]]
      BY <2>1, <2>5 DEF Put
    <3>2. \A i \in DOMAIN bubbles' : PartOK(i, bubbles'[i])
      BY <2>3, <3>1 DEF ReplyInv
    <3>3. \A i \in DOMAIN streams' \intersect DOMAIN bubbles' : TailOK(bubbles'[i], streams'[i])
      BY <2>2, <3>1 DEF ReplyInv
    <3>4. id \in 1..asked /\ id \notin outbox /\ ShellShown'
      BY <1>1, <2>5 DEF ReplyInv, ShellShown
    <3> QED
      BY <1>1, <2>2, <3>1, <3>2, <3>3, <3>4 DEF ReplyInv
  <2> QED
    BY <2>4, <2>5
<1>8. CASE ChatError(id)
  <2>1. streams' = [i \in DOMAIN streams \ {id} |-> streams[i]] /\ bubbles' = bubbles
    BY <1>8 DEF ChatError, Without
  <2>2. \A i \in DOMAIN streams' : StreamOK(i, streams'[i])
    BY <2>1 DEF ReplyInv
  <2>3. \A i \in DOMAIN streams' \intersect DOMAIN bubbles' : TailOK(bubbles'[i], streams'[i])
    BY <2>1 DEF ReplyInv
  <2> QED
    BY <1>1, <2>1, <2>2, <2>3 DEF ReplyInv, ShellShown
<1> QED
  BY <1>5, <1>6, <1>7, <1>8 DEF Emit

\* Answers that begin have no text yet, in a panel that shows nothing of them.
LEMMA BeginKeepsReplies ==
  ASSUME ReplyInv, NEW ids, streams' = Begin(ids), bubbles' = bubbles,
         ShellShown' <=> ShellShown,
         asked' \in Nat, asked <= asked', ids \subseteq 1..asked',
         ids \intersect DOMAIN bubbles = {},
         outbox' \subseteq 1..asked', outbox' \intersect ids = {}, outbox' \subseteq outbox
  PROVE  ReplyInv'
<1>1. streams' = [i \in DOMAIN streams \union ids |-> IF i \in ids THEN NoText ELSE streams[i]]
  BY DEF Begin
<1>2. \A i : StreamOK(i, NoText)
  <2>1. DOMAIN NoText = {"full", "again"} /\ NoText.full = <<>> /\ NoText.again = FALSE
    BY DEF NoText
  <2>2. <<>> \in Piecewise /\ Len(<<>>) = 0 /\ Pieces \in Nat
    BY PiecesAssumption DEF Piecewise
  <2>3. NoText.full \in Piecewise /\ Len(NoText.full) = 0 /\ NoText.again \in BOOLEAN
        /\ ~NoText.again
    BY <2>1, <2>2
  <2> SUFFICES ASSUME NEW i PROVE StreamOK(i, NoText)
    OBVIOUS
  <2> QED
    BY <2>1, <2>2, <2>3 DEF StreamOK
<1>3. \A i \in DOMAIN streams' : StreamOK(i, streams'[i])
  BY <1>1, <1>2 DEF ReplyInv
<1>4. \A i \in DOMAIN streams' \intersect DOMAIN bubbles' : TailOK(bubbles'[i], streams'[i])
  BY <1>1 DEF ReplyInv
<1>5. 1..asked \subseteq 1..asked'
  BY DEF ReplyInv
<1>6. streams' = [i \in DOMAIN streams' |-> streams'[i]] /\ DOMAIN streams' \subseteq 1..asked'
  BY <1>1, <1>5 DEF ReplyInv
<1>7. outbox' \intersect (DOMAIN streams' \union DOMAIN bubbles') = {}
  BY <1>1 DEF ReplyInv
<1> QED
  BY <1>3, <1>4, <1>5, <1>6, <1>7 DEF ReplyInv

\* Answers to requests say nothing in the panel.
LEMMA SettleKeepsReplies ==
  ASSUME ReplyInv, NEW r, SettleAnswered(r)
  PROVE  ReplyInv'
<1>1. asked' = asked /\ outbox' = outbox /\ (streams' = streams \/ streams' = <<>>)
  BY DEF SettleAnswered, SettleStore, SettleBell, SettlePage, SettleGone, SettleFirstProfile,
         SettleSignIn, SettleLogout, socketVars, chatVars
<1>2. \/ UNCHANGED <<bubbles, indicator>>
      \/ \E rt, subject, st, n, c, u, as, late, remount :
           Show(rt, subject, st, n, c, u, as, late, remount)
  <2>1. CASE SettleStore(r) \/ SettleBell(r) \/ SettlePage(r) \/ SettleGone(r)
    BY <2>1 DEF SettleStore, SettleBell, SettlePage, SettleGone, socketVars, chatVars
  <2>2. CASE SettleFirstProfile(r)
    BY <2>2 DEF SettleFirstProfile
  <2>3. CASE SettleSignIn(r)
    BY <2>3 DEF SettleSignIn
  <2>4. CASE SettleLogout(r)
    BY <2>4 DEF SettleLogout
  <2> QED
    BY <2>1, <2>2, <2>3, <2>4 DEF SettleAnswered
<1>3. /\ bubbles' = bubbles \/ bubbles' = <<>>
      /\ ~ShellShown' => DOMAIN bubbles' = {}
  <2>1. CASE UNCHANGED <<bubbles, indicator>>
    BY <2>1 DEF ReplyInv, ShellShown
  <2> QED
    BY <1>2, <2>1, ShowKeepsPanel
<1> QED
  BY <1>1, <1>3, FewerReplies

\* A connection begins what was kept for it, and ends what it carried.
LEMMA SocketKeepsReplies ==
  ASSUME ReplyInv, OfSocket
  PROVE  ReplyInv'
<1>1. CASE Handshake \/ Refused \/ Drop \/ Offline
  <2>1. asked' = asked /\ outbox' = outbox /\ bubbles' = bubbles
        /\ (streams' = streams \/ streams' = <<>>)
    BY <1>1 DEF Handshake, Refused, Drop, Offline, chatVars
  <2>2. ~ShellShown' => ~ShellShown
    BY <1>1 DEF Handshake, Refused, Drop, Offline, Lost, Shows, ShellShown
  <2>3. ~ShellShown' => DOMAIN bubbles' = {}
    BY <2>1, <2>2 DEF ReplyInv
  <2> QED
    BY <2>1, <2>3, FewerReplies
<1>2. CASE Established
  <2>1. streams' = Begin(outbox) /\ outbox' = {} /\ bubbles' = bubbles /\ asked' = asked
    BY <1>2 DEF Established
  <2>2. ShellShown' <=> ShellShown
    BY <1>2 DEF Established, Shows, ShellShown
  <2> QED
    BY <2>1, <2>2, BeginKeepsReplies DEF ReplyInv
<1> QED
  BY <1>1, <1>2, EmitKeepsReplies DEF OfSocket

\* A message is numbered, and its answer begun or kept waiting.
LEMMA SayKeepsReplies ==
  ASSUME ReplyInv, Say
  PROVE  ReplyInv'
<1>1. asked' = asked + 1 /\ asked \in Nat /\ bubbles' = bubbles /\ indicator' = indicator
  BY DEF Say, ReplyInv
<1>2. asked + 1 \notin DOMAIN bubbles /\ asked + 1 \notin DOMAIN streams
      /\ asked + 1 \notin outbox
  BY <1>1 DEF ReplyInv
<1>3. 1..asked \subseteq 1..(asked + 1) /\ asked + 1 \in 1..(asked + 1)
  BY <1>1
<1>4. CASE conn.state = "up"
  <2>1. streams' = Begin({asked + 1}) /\ outbox' = outbox
    BY <1>4 DEF Say
  <2>2. outbox \subseteq 1..asked
    BY DEF ReplyInv
  <2> QED
    BY <1>1, <1>2, <1>3, <2>1, <2>2, BeginKeepsReplies DEF ShellShown
<1>5. CASE conn.state # "up"
  <2>1. streams' = streams /\ outbox' = outbox \union {asked + 1}
    BY <1>5 DEF Say
  <2> QED
    BY <1>1, <1>2, <1>3, <2>1 DEF ReplyInv, ShellShown
<1> QED
  BY <1>4, <1>5

\* What is done in the tab says nothing for the assistant.
LEMMA UserKeepsReplies ==
  ASSUME ReplyInv, OfUser
  PROVE  ReplyInv'
<1>1. CASE LogoutClick \/ \E rt \in (Protected \union Open) \ {route} : Navigate(rt)
  <2>1. UNCHANGED <<asked, outbox, streams>>
    BY <1>1 DEF LogoutClick, Navigate
  <2>2. \E rt, subject, st, n, c, u, as, late, remount :
          Show(rt, subject, st, n, c, u, as, late, remount)
    BY <1>1 DEF LogoutClick, Navigate
  <2>3. /\ bubbles' = bubbles \/ bubbles' = <<>>
        /\ ~ShellShown' => DOMAIN bubbles' = {}
    BY <2>2, ShowKeepsPanel
  <2> QED
    BY <2>1, <2>3, FewerReplies
<1>2. CASE OnPage \/ \E u \in User : SignIn(u)
  <2>1. StoreUnchanged
    BY <1>2 DEF OnPage, Reload, RefreshMonitors, Poll, Select, AddMonitor, AddChannel, AddPage,
                RemoveMonitor, RemoveChannel, RemovePage, TestChannel, ToggleChannel, TogglePref,
                EditPage, SignIn, Act, ActOnStore
  <2>2. UNCHANGED <<asked, outbox, streams, bubbles, indicator>>
    BY <2>1 DEF StoreUnchanged, socketVars
  <2>3. ~ShellShown' => DOMAIN bubbles' = {}
    BY <2>2 DEF ReplyInv, ShellShown
  <2> QED
    BY <2>2, <2>3, FewerReplies
<1> QED
  BY <1>1, <1>2 DEF OfUser

\* Every step keeps the answers in order.
LEMMA ReplyStep == ReplyInv /\ [Next]_vars => ReplyInv'
<1> SUFFICES ASSUME ReplyInv, [Next]_vars PROVE ReplyInv'
  OBVIOUS
<1>1. ASSUME UNCHANGED <<asked, outbox, streams, bubbles, indicator>>
      PROVE  ReplyInv'
  <2>1. ~ShellShown' => DOMAIN bubbles' = {}
    BY <1>1 DEF ReplyInv, ShellShown
  <2> QED
    BY <1>1, <2>1, FewerReplies
<1>2. ASSUME NEW r \in net, Settle(r)
      PROVE  ReplyInv'
  BY <1>2, SettleKeepsReplies DEF Settle
<1>3. CASE OnShell
  <2>1. CASE LookAtBadge \/ \E i \in Item : IncidentOpens(i)
    BY <1>1, <2>1 DEF LookAtBadge, IncidentOpens, socketVars
  <2>2. CASE Retry("connecting") \/ Retry(indicator)
    <3>1. asked' = asked /\ outbox' = outbox /\ streams' = streams /\ bubbles' = bubbles
      BY <2>2 DEF Retry, chatVars
    <3>2. ShellShown /\ ShellShown'
      BY <2>2 DEF Retry, ShellShown
    <3> QED
      BY <3>1, <3>2, FewerReplies
  <2> QED
    BY <1>3, <2>1, <2>2, SayKeepsReplies DEF OnShell
<1>4. CASE OfNet \/ (Gesture /\ GrowStale /\ UNCHANGED <<socketVars, initializing, route, view>>)
           \/ UNCHANGED vars
  BY <1>1, <1>4 DEF OfNet, socketVars, vars
<1> QED
  BY <1>2, <1>3, <1>4, SocketKeepsReplies, UserKeepsReplies DEF Next

\* A tab is opened before anything is asked.
LEMMA ReplyInit == Init => ReplyInv
<1> SUFFICES ASSUME Init PROVE ReplyInv
  OBVIOUS
<1>1. asked = 0 /\ outbox = {} /\ streams = <<>> /\ bubbles = <<>>
  BY DEF Init, SocketInit
<1>2. DOMAIN streams = {} /\ DOMAIN bubbles = {}
  BY <1>1
<1>3. streams = [id \in DOMAIN streams |-> streams[id]]
      /\ bubbles = [id \in DOMAIN bubbles |-> bubbles[id]]
  BY <1>1
<1>4. \A id : id \notin DOMAIN streams /\ id \notin DOMAIN bubbles
  BY <1>2
<1> QED
  BY <1>1, <1>2, <1>3, <1>4 DEF ReplyInv

\* What is shown of an answer is what the answer says there.
LEMMA PartIsText ==
  ASSUME NEW id \in Nat, NEW b, PartOK(id, b)
  PROVE  \E said \in 0..Pieces :
           LET text == SubSeq(Whole(id), 1, said) \o Whole(id)
           IN  \E first, last \in DOMAIN text : b = SubSeq(text, first, last)
<1>1. b \in Piecewise /\ Pieces \in Nat
  BY PiecesAssumption DEF PartOK
<1>2. PICK n \in Nat : n = Len(b) /\ n >= 1
  BY <1>1 DEF PartOK, Piecewise
<1>3. PICK said \in 0..Pieces, off \in Nat :
        /\ off + n <= said + Pieces
        /\ \A k \in 1..n : b[k] = Nth(id, said, off + k)
  BY <1>2 DEF PartOK
<1>4. PICK whole : whole = Whole(id)
  OBVIOUS
<1>5. whole \in Piecewise /\ Len(whole) = Pieces /\ \A k \in 1..Pieces : whole[k] = Piece(id, k)
  BY <1>4, WholeByPieces
<1>6. PICK head : head = SubSeq(whole, 1, said)
  OBVIOUS
<1>7. head \in Seq(Nat \X Nat) /\ Len(head) = said /\ \A k \in 1..said : head[k] = Piece(id, k)
  <2>1. \A k \in 1..said : whole[k] \in Nat \X Nat /\ whole[k] = Piece(id, k)
    BY <1>1, <1>5 DEF Piecewise
  <2>2. /\ head \in Seq(Nat \X Nat) /\ Len(head) = IF 1 <= said THEN said - 1 + 1 ELSE 0
        /\ \A k \in 1..(said - 1 + 1) : head[k] = whole[1 + k - 1]
    BY <1>6, <2>1, SubSeqProperties
  <2>3. said - 1 + 1 = said /\ said \in Nat /\ \A k \in 1..said : 1 + k - 1 = k
    BY <1>1
  <2> QED
    BY <2>1, <2>2, <2>3
<1>8. PICK text : text = head \o whole
  OBVIOUS
<1>9. text \in Seq(Nat \X Nat) /\ Len(text) = said + Pieces
      /\ \A k \in 1..(said + Pieces) : text[k] = Nth(id, said, k)
  <2>1. whole \in Seq(Nat \X Nat)
    BY <1>5 DEF Piecewise
  <2>2. /\ text \in Seq(Nat \X Nat) /\ Len(text) = said + Pieces
        /\ \A k \in 1..(said + Pieces) : text[k] = IF k <= said THEN head[k] ELSE whole[k - said]
    BY <1>5, <1>7, <1>8, <2>1, ConcatProperties
  <2>3. ASSUME NEW k \in 1..(said + Pieces)
        PROVE  text[k] = Nth(id, said, k)
    <3>1. CASE k <= said
      <4>1. k \in 1..said
        BY <3>1
      <4> QED
        BY <3>1, <4>1, <1>7, <2>2 DEF Nth
    <3>2. CASE k > said
      <4>1. k - said \in 1..Pieces /\ ~(k <= said)
        BY <3>2, <1>1
      <4> QED
        BY <4>1, <1>5, <2>2 DEF Nth
    <3> QED
      BY <3>1, <3>2, <1>1
  <2> QED
    BY <2>2, <2>3
<1>10. PICK first, last : first = off + 1 /\ last = off + n
  OBVIOUS
<1>11. first \in DOMAIN text /\ last \in DOMAIN text /\ first \in Int /\ last \in Int
  <2>1. first \in 1..(said + Pieces) /\ last \in 1..(said + Pieces)
    BY <1>1, <1>2, <1>3, <1>10
  <2> QED
    BY <2>1, <1>9
<1>12. b = SubSeq(text, first, last)
  <2>1. \A k \in first..last : text[k] \in Nat \X Nat
    BY <1>1, <1>2, <1>3, <1>9, <1>10
  <2>2. PICK c : c = SubSeq(text, first, last)
    OBVIOUS
  <2>3. /\ c \in Seq(Nat \X Nat) /\ Len(c) = IF first <= last THEN last - first + 1 ELSE 0
        /\ \A k \in 1..(last - first + 1) : c[k] = text[first + k - 1]
    BY <2>1, <2>2, <1>11, SubSeqProperties
  <2>4. last - first + 1 = n /\ first <= last /\ \A k \in 1..n : first + k - 1 = off + k
    BY <1>2, <1>3, <1>10
  <2>5. \A k \in 1..n : c[k] = b[k]
    <3> SUFFICES ASSUME NEW k \in 1..n PROVE c[k] = b[k]
      OBVIOUS
    <3>1. c[k] = text[off + k]
      BY <2>3, <2>4
    <3>2. off + k \in 1..(said + Pieces)
      BY <1>1, <1>2, <1>3
    <3> QED
      BY <3>1, <3>2, <1>3, <1>9
  <2>6. Len(c) = Len(b) /\ b \in Seq(Nat \X Nat)
    BY <2>3, <2>4, <1>1, <1>2 DEF Piecewise
  <2>7. b = c
    BY <2>3, <2>5, <2>6, <1>2, SeqEqual
  <2> QED
    BY <2>2, <2>7
<1>13. text = SubSeq(Whole(id), 1, said) \o Whole(id)
  BY <1>4, <1>6, <1>8
<1> QED
  BY <1>11, <1>12, <1>13

\* The answers under way, waiting and shown fit together in every run (chat.socket.js,
\* useChat.js).
THEOREM ReplyInvariant == Spec => []ReplyInv
BY ReplyInit, ReplyStep, PTL DEF Spec

\* The text of an answer is its own, in order and without gaps, however many are streamed,
\* whichever were cut off, and whenever the panel was opened.
THEOREM AnswersAreWhole == Spec => []RepliesAreWhole
<1>1. ReplyInv => RepliesAreWhole
  <2> SUFFICES ASSUME ReplyInv, NEW id \in DOMAIN bubbles
               PROVE  \E said \in 0..Pieces :
                        LET text == SubSeq(Whole(id), 1, said) \o Whole(id)
                        IN  \E first, last \in DOMAIN text : bubbles[id] = SubSeq(text, first, last)
    BY DEF RepliesAreWhole
  <2>1. id \in Nat /\ PartOK(id, bubbles[id])
    BY DEF ReplyInv
  <2> QED
    BY <2>1, PartIsText
<1> QED
  BY <1>1, ReplyInvariant, PTL

-----------------------------------------------------------------------------
(* The panels of the dashboard *)

RequestFields == {"op", "what", "by", "as", "value", "old", "stage", "ok", "data", "tag"}
ViewFields == {"list", "loaded", "loading", "busy", "saving", "sel", "panel"}

\* A request is whole, a page asks for what it waits for, and on the dashboard a panel is
\* asked for the monitor that is selected.
PanelRow(x, rt, s) ==
  /\ DOMAIN x = RequestFields
  /\ x.by = "page" => x.op \in {"list", "panel", "set", "create", "delete", "test"}
  /\ x.op = "panel" => x.by = "page" /\ (rt = "dashboard" => x.what = s)

\* What the panels show is the monitor that is selected, and so is what they wait for.
PanelInv ==
  /\ DOMAIN view = ViewFields
  /\ \A x \in net : PanelRow(x, route, view.sel)
  /\ route = "dashboard" => view.panel \in {None, "loading", "error", view.sel}

\* A request is sent with its own fields, and a tag.
LEMMA SendRows ==
  ASSUME NEW n, NEW requests, NEW late, Send(n, requests, late), NEW rt, NEW s,
         \A x \in n : PanelRow(x, rt, s),
         \A k \in DOMAIN requests : PanelRow(requests[k], rt, s)
  PROVE  \A x \in net' : PanelRow(x, rt, s)
<1> SUFFICES ASSUME NEW x \in net' PROVE PanelRow(x, rt, s)
  OBVIOUS
<1>1. x \in n \/ \E k \in DOMAIN requests : x = [requests[k] EXCEPT !.tag = FreeTag(n, k)]
  BY DEF Send, PostAll
<1>2. ASSUME NEW k \in DOMAIN requests, x = [requests[k] EXCEPT !.tag = FreeTag(n, k)]
      PROVE  PanelRow(x, rt, s)
  <2>1. PICK q : q = requests[k] /\ PanelRow(q, rt, s)
    OBVIOUS
  <2>2. DOMAIN q = RequestFields
    BY <2>1 DEF PanelRow
  <2>3. PICK t : x = [q EXCEPT !.tag = t]
    BY <1>2, <2>1
  <2>4. DOMAIN x = RequestFields /\ x.op = q.op /\ x.by = q.by /\ x.what = q.what
    BY <2>2, <2>3 DEF RequestFields
  <2> QED
    BY <2>1, <2>4 DEF PanelRow
<1> QED
  BY <1>1, <1>2

\* A single request is posted likewise.
LEMMA PostRows ==
  ASSUME NEW n, NEW r, NEW rt, NEW s,
         \A x \in n : PanelRow(x, rt, s), PanelRow(r, rt, s)
  PROVE  \A x \in Post(n, r) : PanelRow(x, rt, s)
<1> SUFFICES ASSUME NEW x \in Post(n, r) PROVE PanelRow(x, rt, s)
  OBVIOUS
<1>1. x \in n \/ \E t : x = [r EXCEPT !.tag = t]
  BY DEF Post, PostAll
<1>2. ASSUME NEW t, x = [r EXCEPT !.tag = t]
      PROVE  PanelRow(x, rt, s)
  <2>1. DOMAIN r = RequestFields
    BY DEF PanelRow
  <2>2. DOMAIN x = RequestFields /\ x.op = r.op /\ x.by = r.by /\ x.what = r.what
    BY <1>2, <2>1 DEF RequestFields
  <2> QED
    BY <2>2 DEF PanelRow
<1> QED
  BY <1>1, <1>2

\* Lists are no panels.
LEMMA ListRow ==
  ASSUME NEW what, NEW by, NEW as, NEW rt, NEW s
  PROVE  PanelRow(Request("list", what, by, as), rt, s)
<1>1. PICK q : q = Request("list", what, by, as)
  OBVIOUS
<1>2. DOMAIN q = RequestFields /\ q.op = "list"
  BY <1>1 DEF Request, RequestFields
<1> QED
  BY <1>1, <1>2 DEF PanelRow

\* The panel that is asked for is that of the subject.
LEMMA SubjectRow ==
  ASSUME NEW subject, NEW as, NEW rt
  PROVE  PanelRow(Request("panel", subject, "page", as), rt, subject)
<1>1. PICK q : q = Request("panel", subject, "page", as)
  OBVIOUS
<1>2. DOMAIN q = RequestFields /\ q.op = "panel" /\ q.by = "page" /\ q.what = subject
  BY <1>1 DEF Request, RequestFields
<1> QED
  BY <1>1, <1>2 DEF PanelRow

\* What a page may ask for when it is shown.
Opened(rt, subject, as) ==
  (IF rt \in {"dashboard", "monitors"} THEN {Request("list", "monitors", "store", as)} ELSE {})
    \union (IF rt \in DOMAIN PageKind THEN {Request("list", PageKind[rt], "page", as)} ELSE {})
    \union {Request("panel", subject, "page", as)}
    \union (IF rt \in Protected THEN {LoadBadge(as)} ELSE {})

\* A page asks for lists, and the panel of its subject, when it is shown.
LEMMA OpeningAsks ==
  ASSUME NEW rt, NEW subject, NEW st, NEW as, NEW bell \in BOOLEAN, bell => rt \in Protected,
         NEW requests, requests = Opening(rt, subject, st, as)
                                    \o (IF bell THEN <<LoadBadge(as)>> ELSE <<>>)
  PROVE  requests \in Seq(Opened(rt, subject, as))
<1>1. PICK p : p = Request("list", "monitors", "store", as)
  OBVIOUS
<1>2. PICK q : q = Request("list", PageKind[rt], "page", as)
  OBVIOUS
<1>3. PICK r : r = Request("panel", subject, "page", as)
  OBVIOUS
<1>4. PICK l : l = LoadBadge(as)
  OBVIOUS
<1>5. PICK S : S = Opened(rt, subject, as)
  OBVIOUS
<1>6. /\ rt \in {"dashboard", "monitors"} => p \in S
      /\ rt \in DOMAIN PageKind => q \in S
      /\ r \in S
      /\ bell => l \in S
  BY <1>1, <1>2, <1>3, <1>4, <1>5 DEF Opened
<1>7. PICK a : a = IF rt \in {"dashboard", "monitors"} THEN FetchMonitors(st, as) ELSE <<>>
  OBVIOUS
<1>8. PICK b : b = IF rt \in DOMAIN PageKind
                   THEN <<Request("list", PageKind[rt], "page", as)>> ELSE <<>>
  OBVIOUS
<1>9. PICK c : c = PanelRequest(subject, as)
  OBVIOUS
<1>10. PICK d : d = IF bell THEN <<LoadBadge(as)>> ELSE <<>>
  OBVIOUS
<1>11. \A x \in S : <<x>> \in Seq(S)
  OBVIOUS
<1>12. <<>> \in Seq(S)
  OBVIOUS
<1>13. a \in Seq(S)
  <2>1. a = <<>> \/ (a = <<p>> /\ p \in S)
    BY <1>1, <1>6, <1>7 DEF FetchMonitors
  <2> QED
    BY <2>1, <1>11, <1>12
<1>14. b \in Seq(S)
  <2>1. b = <<>> \/ (b = <<q>> /\ q \in S)
    BY <1>2, <1>6, <1>8
  <2> QED
    BY <2>1, <1>11, <1>12
<1>15. c \in Seq(S)
  <2>1. c = <<>> \/ (c = <<r>> /\ r \in S)
    BY <1>3, <1>6, <1>9 DEF PanelRequest
  <2> QED
    BY <2>1, <1>11, <1>12
<1>16. d \in Seq(S)
  <2>1. d = <<>> \/ (d = <<l>> /\ l \in S)
    BY <1>4, <1>6, <1>10
  <2> QED
    BY <2>1, <1>11, <1>12
<1>17. requests = ((a \o b) \o c) \o d
  BY <1>7, <1>8, <1>9, <1>10 DEF Opening
<1>18. PICK ab : ab = a \o b
  OBVIOUS
<1>19. ab \in Seq(S)
  BY <1>13, <1>14, <1>18, ConcatProperties
<1>20. PICK abc : abc = ab \o c
  OBVIOUS
<1>21. abc \in Seq(S)
  BY <1>15, <1>19, <1>20, ConcatProperties
<1>22. abc \o d \in Seq(S)
  BY <1>16, <1>21, ConcatProperties
<1> QED
  BY <1>5, <1>17, <1>18, <1>20, <1>22

\* None of these but that of the subject is a panel.
LEMMA OpeningRows ==
  ASSUME NEW rt, NEW subject, NEW as, NEW requests \in Seq(Opened(rt, subject, as))
  PROVE  \A k \in DOMAIN requests : PanelRow(requests[k], rt, subject)
<1>1. PICK S : S = Opened(rt, subject, as)
  OBVIOUS
<1>2. ASSUME NEW x \in S PROVE PanelRow(x, rt, subject)
  <2>1. \/ x = Request("list", "monitors", "store", as)
        \/ x = Request("list", PageKind[rt], "page", as)
        \/ x = Request("panel", subject, "page", as)
        \/ x = Request("list", "incidents", "bell", as)
    BY <1>1 DEF Opened, LoadBadge
  <2> QED
    BY <2>1, ListRow, SubjectRow
<1>3. ASSUME NEW k \in DOMAIN requests PROVE requests[k] \in S
  <2>1. requests \in Seq(S) /\ DOMAIN requests = 1..Len(requests)
    BY <1>1, LenProperties
  <2> QED
    BY <2>1, <1>3, ElementOfSeq
<1> QED
  BY <1>2, <1>3

\* When a page goes nobody waits for its panels any more.
LEMMA LeftRows ==
  ASSUME NEW n, NEW stays, NEW rt, NEW s, NEW rt2, NEW s2,
         \A x \in n : PanelRow(x, rt2, s2)
  PROVE  \A x \in Left(n, stays) : PanelRow(x, rt, s)
<1> SUFFICES ASSUME NEW x \in Left(n, stays) PROVE PanelRow(x, rt, s)
  OBVIOUS
<1>1. PICK r \in n : /\ r.by = "page" => r.op \in {"create", "set", "delete"}
                     /\ x = IF r.by = "page" THEN [r EXCEPT !.by = "gone"] ELSE r
  BY DEF Left
<1>2. DOMAIN r = RequestFields /\ r.op # "panel"
  BY <1>1 DEF PanelRow
<1>3. DOMAIN x = RequestFields /\ x.op = r.op /\ x.by # "page"
  BY <1>1, <1>2 DEF RequestFields
<1> QED
  BY <1>2, <1>3 DEF PanelRow

\* A page is shown with its subject selected, and waits for that.
LEMMA ShowKeepsPanels ==
  ASSUME NEW rt, NEW subject, NEW st, NEW n, NEW c, NEW u, NEW as, NEW late,
         NEW remount \in BOOLEAN, Show(rt, subject, st, n, c, u, as, late, remount),
         NEW rt2, NEW s2, \A x \in n : PanelRow(x, rt2, s2)
  PROVE  PanelInv'
<1>1. route' = rt /\ view' = Fresh(rt, subject, u)
  BY DEF Show
<1>2. DOMAIN view' = ViewFields /\ view'.sel = subject /\ view'.panel \in {None, "loading"}
  BY <1>1 DEF Fresh, ViewFields
<1>3. PICK stays \in BOOLEAN : stays = (rt \in Protected /\ ShellShown /\ ~remount)
  OBVIOUS
<1>4. PICK bell \in BOOLEAN : bell = (rt \in Protected /\ ~stays)
  OBVIOUS
<1>5. PICK requests : requests = Opening(rt, subject, st, as)
                                   \o (IF bell THEN <<LoadBadge(as)>> ELSE <<>>)
  OBVIOUS
<1>6. Send(Left(n, stays), requests, late)
  BY <1>3, <1>4, <1>5 DEF Show
<1>7. \A x \in net' : PanelRow(x, rt, subject)
  <2>1. requests \in Seq(Opened(rt, subject, as))
    BY <1>4, <1>5, OpeningAsks
  <2> QED
    BY <1>6, <2>1, LeftRows, OpeningRows, SendRows
<1> QED
  BY <1>1, <1>2, <1>7 DEF PanelInv

\* What the rows and the invariant say does not depend on the rest of a request.
LEMMA LikeRow ==
  ASSUME NEW x, NEW r, NEW rt, NEW s, PanelRow(r, rt, s), DOMAIN x = DOMAIN r,
         x.op = r.op, x.by = r.by, x.what = r.what
  PROVE  PanelRow(x, rt, s)
BY DEF PanelRow

\* A request that is answered, or fails, is the same request.
LEMMA AnsweredRow ==
  ASSUME NEW r, NEW rt, NEW s, PanelRow(r, rt, s)
  PROVE  /\ PanelRow(Answered(r), rt, s)
         /\ PanelRow([r EXCEPT !.stage = "answered", !.ok = FALSE, !.data = None], rt, s)
<1>1. DOMAIN r = RequestFields
  BY DEF PanelRow
<1>2. PICK g : g = Granted(r)
  OBVIOUS
<1>3. PICK a : a = Answer(r)
  OBVIOUS
<1>4. PICK x : x = [r EXCEPT !.stage = "answered", !.ok = g, !.data = a]
  OBVIOUS
<1>5. DOMAIN x = DOMAIN r /\ x.op = r.op /\ x.by = r.by /\ x.what = r.what
  BY <1>1, <1>4 DEF RequestFields
<1>6. PanelRow(x, rt, s)
  BY <1>5, LikeRow
<1>7. Answered(r) = x
  BY <1>2, <1>3, <1>4 DEF Answered
<1>8. PICK y : y = [r EXCEPT !.stage = "answered", !.ok = FALSE, !.data = None]
  OBVIOUS
<1>9. DOMAIN y = DOMAIN r /\ y.op = r.op /\ y.by = r.by /\ y.what = r.what
  BY <1>1, <1>8 DEF RequestFields
<1>10. PanelRow(y, rt, s)
  BY <1>9, LikeRow
<1> QED
  BY <1>6, <1>7, <1>8, <1>10

\* Requests of the session, the store and the bell ask for no panel.
LEMMA OtherRow ==
  ASSUME NEW op, NEW what, NEW by, NEW as, NEW rt, NEW s, op # "panel", by # "page"
  PROVE  PanelRow(Request(op, what, by, as), rt, s)
<1>1. PICK q : q = Request(op, what, by, as)
  OBVIOUS
<1>2. DOMAIN q = RequestFields /\ q.op = op /\ q.by = by
  BY <1>1 DEF Request, RequestFields
<1> QED
  BY <1>1, <1>2 DEF PanelRow

\* Sending one request, or none.
LEMMA SendOneRow ==
  ASSUME NEW n, NEW q, NEW requests, requests = <<q>> \/ requests = <<>>,
         NEW late, Send(n, requests, late), NEW rt, NEW s,
         \A x \in n : PanelRow(x, rt, s), requests = <<q>> => PanelRow(q, rt, s)
  PROVE  \A x \in net' : PanelRow(x, rt, s)
<1>1. \A k \in DOMAIN requests : PanelRow(requests[k], rt, s)
  <2>1. CASE requests = <<>>
    BY <2>1
  <2>2. CASE requests = <<q>>
    <3>1. DOMAIN requests = {1} /\ requests[1] = q
      BY <2>2
    <3> QED
      BY <2>2, <3>1
  <2> QED
    BY <2>1, <2>2
<1> QED
  BY <1>1, SendRows

\* Sending nothing.
LEMMA SendNoRow ==
  ASSUME NEW n, NEW late, Send(n, <<>>, late), NEW rt, NEW s,
         \A x \in n : PanelRow(x, rt, s)
  PROVE  \A x \in net' : PanelRow(x, rt, s)
<1>1. \A k \in DOMAIN <<>> : PanelRow(<<>>[k], rt, s)
  OBVIOUS
<1> QED
  BY <1>1, SendRows

\* A step that keeps the page, its subject and its panel.
LEMMA SamePage ==
  ASSUME PanelInv, route' = route, DOMAIN view' = ViewFields, view'.sel = view.sel,
         view'.panel = view.panel, \A x \in net' : PanelRow(x, route, view.sel)
  PROVE  PanelInv'
BY DEF PanelInv

\* A step that keeps the page, its subject, and sends nothing.
LEMMA QuietPage ==
  ASSUME PanelInv, UNCHANGED <<route, view, net>>
  PROVE  PanelInv'
BY DEF PanelInv

\* Another subject: the requests for the one before are withdrawn, on the dashboard.
LEMMA FocusKeepsPanels ==
  ASSUME PanelInv, NEW s, NEW n, n \subseteq net, NEW late, Focus(s, n, late),
         route' = route
  PROVE  PanelInv'
<1>1. DOMAIN view' = ViewFields /\ view'.sel = s /\ view'.panel \in {None, "loading"}
  BY DEF Focus, PanelInv, ViewFields
<1>2. \A x \in Withdrawn(n) : PanelRow(x, route, s)
  BY DEF Withdrawn, PanelInv, PanelRow
<1>3. PICK q : q = Request("panel", s, "page", cookie)
  OBVIOUS
<1>4. PICK requests : requests = PanelRequest(s, cookie)
  OBVIOUS
<1>5. requests = <<q>> \/ requests = <<>>
  BY <1>3, <1>4 DEF PanelRequest
<1>6. PanelRow(q, route, s)
  BY <1>3, SubjectRow
<1>7. Send(Withdrawn(n), requests, late)
  BY <1>4 DEF Focus
<1>8. \A x \in net' : PanelRow(x, route, s)
  BY <1>2, <1>5, <1>6, <1>7, SendOneRow
<1> QED
  BY <1>1, <1>8 DEF PanelInv

\* An answer leaves the selection alone, and the panel but for an answer about it.
LEMMA ViewAfterFields ==
  ASSUME DOMAIN view = ViewFields, NEW r,
         r.op \in {"list", "panel", "set", "create", "delete", "test"}, NEW v, v = ViewAfter(r)
  PROVE  /\ DOMAIN v = ViewFields /\ v.sel = view.sel
         /\ v.panel = view.panel \/ (r.op = "panel" /\ v.panel \in {r.what, "error"})
<1>1. CASE r.op = "list"
  <2>1. v = Loaded(r)
    BY <1>1 DEF ViewAfter
  <2> QED
    BY <2>1 DEF Loaded, ViewFields
<1>2. CASE r.op = "panel"
  <2>1. PICK w : w = PanelAfter(r)
    OBVIOUS
  <2>2. DOMAIN w = ViewFields /\ w.sel = view.sel /\ w.panel \in {r.what, "error"}
    BY <2>1 DEF PanelAfter, ViewFields
  <2>3. v = w \/ v = [w EXCEPT !.loading = FALSE]
    BY <1>2, <2>1 DEF ViewAfter, DetailAfter, PublicAfter
  <2> QED
    BY <1>2, <2>2, <2>3 DEF ViewFields
<1>3. CASE r.op = "set"
  <2>1. v = ChannelSwitched(r) \/ v = PrefSaved(r) \/ v = PageSaved(r)
    BY <1>3 DEF ViewAfter
  <2>2. CASE v = ChannelSwitched(r)
    BY <2>2 DEF ChannelSwitched, ViewFields
  <2>3. CASE v = PrefSaved(r)
    BY <2>3 DEF PrefSaved, ViewFields
  <2>4. CASE v = PageSaved(r)
    BY <2>4 DEF PageSaved, ViewFields
  <2> QED
    BY <2>1, <2>2, <2>3, <2>4
<1>4. CASE r.op = "create"
  <2>1. v = PageSaved(r)
    BY <1>4 DEF ViewAfter
  <2> QED
    BY <2>1 DEF PageSaved, ViewFields
<1>5. CASE r.op = "delete"
  <2>1. v = Removed(r)
    BY <1>5 DEF ViewAfter
  <2> QED
    BY <2>1 DEF Removed, ViewFields
<1>6. CASE r.op = "test"
  <2>1. v = Tested(r)
    BY <1>6 DEF ViewAfter
  <2> QED
    BY <2>1 DEF Tested, ViewFields
<1> QED
  BY <1>1, <1>2, <1>3, <1>4, <1>5, <1>6

\* An answer for the page.
LEMMA PageAnswerKeepsPanels ==
  ASSUME PanelInv, NEW r, PanelRow(r, route, view.sel), SettlePage(r)
  PROVE  PanelInv'
<1>1. route' = route /\ DOMAIN view = ViewFields
  BY DEF SettlePage, PanelInv
<1>2. r.op \in {"list", "panel", "set", "create", "delete", "test"}
  BY DEF SettlePage, PanelRow
<1>3. PICK v : v = ViewAfter(r)
  OBVIOUS
<1>4. /\ DOMAIN v = ViewFields /\ v.sel = view.sel
      /\ v.panel = view.panel \/ (r.op = "panel" /\ v.panel \in {r.what, "error"})
  BY <1>1, <1>2, <1>3, ViewAfterFields
<1>5. view' = v \/ view' = [v EXCEPT !.loading = TRUE]
  BY <1>3 DEF SettlePage
<1>6. DOMAIN view' = ViewFields /\ view'.sel = v.sel /\ view'.panel = v.panel
  BY <1>4, <1>5 DEF ViewFields
<1>7. route = "dashboard" => view'.panel \in {None, "loading", "error", view'.sel}
  BY <1>4, <1>6 DEF PanelInv, PanelRow
<1>8. PICK q : q = Request("list", PageKind[route], "page", cookie)
  OBVIOUS
<1>9. PICK requests : requests = IF Reloads(r) THEN <<q>> ELSE <<>>
  OBVIOUS
<1>10. PanelRow(q, route, view.sel)
  BY <1>8, ListRow
<1>11. Send(Done(net, r), requests, Missed(r))
  BY <1>8, <1>9 DEF SettlePage
<1>12. \A x \in Done(net, r) : PanelRow(x, route, view.sel)
  BY DEF Done, PanelInv
<1>13. \A x \in net' : PanelRow(x, route, view.sel)
  BY <1>9, <1>10, <1>11, <1>12, SendOneRow
<1> QED
  BY <1>1, <1>4, <1>6, <1>7, <1>13 DEF PanelInv

\* An answer for a hook of the store: the selection follows the list.
LEMMA StoreAnswerKeepsPanels ==
  ASSUME PanelInv, NEW r, SettleStore(r)
  PROVE  PanelInv'
<1>1. route' = route /\ DOMAIN view = ViewFields
  BY DEF SettleStore, PanelInv
<1>2. PICK s : IF s # view.sel THEN Focus(s, Done(net, r), Missed(r))
               ELSE /\ view' = IF r.op = "delete" /\ view.busy = r.what
                               THEN [view EXCEPT !.busy = None] ELSE view
                    /\ Send(Done(net, r), <<>>, Missed(r))
  BY DEF SettleStore
<1>3. Done(net, r) \subseteq net
  BY DEF Done
<1>4. CASE s # view.sel
  BY <1>1, <1>2, <1>3, <1>4, FocusKeepsPanels
<1>5. CASE s = view.sel
  <2>1. DOMAIN view' = ViewFields /\ view'.sel = view.sel /\ view'.panel = view.panel
    BY <1>1, <1>2, <1>5 DEF ViewFields
  <2>2. \A x \in Done(net, r) : PanelRow(x, route, view.sel)
    BY <1>3 DEF PanelInv
  <2>3. \A x \in net' : PanelRow(x, route, view.sel)
    BY <1>2, <1>5, <2>2, SendNoRow
  <2> QED
    BY <1>1, <2>1, <2>3, SamePage
<1> QED
  BY <1>4, <1>5

\* Settings takes the preferences, nothing else.
LEMMA WithUserFields ==
  ASSUME NEW u, DOMAIN view = ViewFields
  PROVE  /\ DOMAIN WithUser(u) = ViewFields
         /\ WithUser(u).sel = view.sel /\ WithUser(u).panel = view.panel
BY DEF WithUser, ViewFields

\* Answers for the session.
LEMMA SessionAnswerKeepsPanels ==
  ASSUME PanelInv, NEW r, SettleFirstProfile(r) \/ SettleSignIn(r) \/ SettleLogout(r)
  PROVE  PanelInv'
<1>1. \A x \in Done(net, r) : PanelRow(x, route, view.sel)
  BY DEF Done, PanelInv
<1>2. DOMAIN view = ViewFields
  BY DEF PanelInv
<1>3. CASE SettleFirstProfile(r)
  <2>1. PICK q : q = Request("profile", None, "session", cookie)
    OBVIOUS
  <2>2. PanelRow(q, route, view.sel)
    BY <2>1, OtherRow
  <2>3. PICK n : n = Post(Done(net, r), q)
    OBVIOUS
  <2>4. \A x \in n : PanelRow(x, route, view.sel)
    BY <1>1, <2>2, <2>3, PostRows
  <2>5. PICK rt, s, u : Show(rt, s, store, n, conn, u, cookie, {}, FALSE)
    BY <1>3, <2>1, <2>3 DEF SettleFirstProfile
  <2> QED
    BY <2>4, <2>5, ShowKeepsPanels
<1>4. CASE SettleSignIn(r)
  <2>1. CASE route = "login" /\ signedIn'
    <3>1. PICK s, u, as : Show("dashboard", s, store, Done(net, r), conn, u, as, {}, FALSE)
      BY <1>4, <2>1 DEF SettleSignIn
    <3> QED
      BY <1>1, <3>1, ShowKeepsPanels
  <2>2. CASE ~(route = "login" /\ signedIn')
    <3>1. PICK late : Send(Done(net, r), <<>>, late)
      BY <1>4, <2>2 DEF SettleSignIn
    <3>2. \A x \in net' : PanelRow(x, route, view.sel)
      BY <1>1, <3>1, SendNoRow
    <3>3. /\ route' = route
          /\ \/ \E u : view' = WithUser(u)
             \/ view' = [view EXCEPT !.saving = FALSE] \/ view' = view
      BY <1>4, <2>2 DEF SettleSignIn
    <3>4. DOMAIN view' = ViewFields /\ view'.sel = view.sel /\ view'.panel = view.panel
      BY <1>2, <3>3, WithUserFields DEF ViewFields
    <3> QED
      BY <3>2, <3>3, <3>4, SamePage
  <2> QED
    BY <2>1, <2>2
<1>5. CASE SettleLogout(r)
  <2>1. CASE route \in Protected
    <3>1. PICK c, late : Show("login", None, Wiped, Done(net, r), c, None, None, late, FALSE)
      BY <1>5, <2>1 DEF SettleLogout
    <3> QED
      BY <1>1, <3>1, ShowKeepsPanels
  <2>2. CASE route \notin Protected
    <3>1. PICK late : Send(Done(net, r), <<>>, late)
      BY <1>5, <2>2 DEF SettleLogout
    <3>2. \A x \in net' : PanelRow(x, route, view.sel)
      BY <1>1, <3>1, SendNoRow
    <3>3. route' = route /\ view' = [view EXCEPT !.saving = FALSE]
      BY <1>5, <2>2 DEF SettleLogout
    <3>4. DOMAIN view' = ViewFields /\ view'.sel = view.sel /\ view'.panel = view.panel
      BY <1>2, <3>3 DEF ViewFields
    <3> QED
      BY <3>2, <3>3, <3>4, SamePage
  <2> QED
    BY <2>1, <2>2
<1> QED
  BY <1>3, <1>4, <1>5

\* Any answer.
LEMMA AnswerKeepsPanels ==
  ASSUME PanelInv, NEW r, PanelRow(r, route, view.sel), SettleAnswered(r)
  PROVE  PanelInv'
<1>1. DOMAIN view = ViewFields /\ \A x \in Done(net, r) : PanelRow(x, route, view.sel)
  BY DEF Done, PanelInv
<1>2. CASE SettleBell(r)
  <2>1. Send(Done(net, r), <<>>, Missed(r)) /\ UNCHANGED <<route, view>>
    BY <1>2 DEF SettleBell, pageVars
  <2>2. \A x \in net' : PanelRow(x, route, view.sel)
    BY <1>1, <2>1, SendNoRow
  <2> QED
    BY <1>1, <2>1, <2>2, SamePage
<1>3. CASE SettleGone(r)
  <2>1. Send(Done(net, r), <<>>, {}) /\ route' = route
    BY <1>3 DEF SettleGone
  <2>2. view' = view \/ view' = WithUser(r.data)
    BY <1>3 DEF SettleGone
  <2>3. DOMAIN view' = ViewFields /\ view'.sel = view.sel /\ view'.panel = view.panel
    BY <1>1, <2>2, WithUserFields
  <2>4. \A x \in net' : PanelRow(x, route, view.sel)
    BY <1>1, <2>1, SendNoRow
  <2> QED
    BY <2>1, <2>3, <2>4, SamePage
<1> QED
  BY <1>2, <1>3, PageAnswerKeepsPanels, StoreAnswerKeepsPanels, SessionAnswerKeepsPanels
     DEF SettleAnswered

\* The server handles a request, or its answer is lost.
LEMMA NetKeepsPanels ==
  ASSUME PanelInv, OfNet
  PROVE  PanelInv'
<1>1. UNCHANGED <<route, view>>
  BY DEF OfNet, pageVars
<1>2. PICK r \in net : Serve(r) \/ Lose(r)
  BY DEF OfNet
<1>3. DOMAIN view = ViewFields /\ PanelRow(r, route, view.sel)
  BY DEF PanelInv
<1>4. \A x \in net \ {r} : PanelRow(x, route, view.sel)
  BY DEF PanelInv
<1>5. CASE Serve(r)
  <2>1. PanelRow(Answered(r), route, view.sel)
    BY <1>3, AnsweredRow
  <2>2. net' = (net \ {r}) \union {Answered(r)}
    BY <1>5 DEF Serve
  <2>3. \A x \in net' : PanelRow(x, route, view.sel)
    BY <1>4, <2>1, <2>2
  <2> QED
    BY <1>1, <1>3, <2>3, SamePage
<1>6. CASE Lose(r)
  <2>1. PICK failed : failed = [r EXCEPT !.stage = "answered", !.ok = FALSE, !.data = None]
    OBVIOUS
  <2>2. PICK n : n = (net \ {r}) \union {failed}
    OBVIOUS
  <2>3. \A x \in n : PanelRow(x, route, view.sel)
    <3>1. PanelRow(failed, route, view.sel)
      BY <1>3, <2>1, AnsweredRow
    <3> QED
      BY <1>4, <2>2, <3>1
  <2>4. PICK g : g = [r EXCEPT !.by = "gone"]
    OBVIOUS
  <2>5. net' = n \/ (r.op \in {"create", "set", "delete"} /\ net' = Post(n, g))
    BY <1>6, <2>1, <2>2, <2>4 DEF Lose
  <2>6. ASSUME r.op \in {"create", "set", "delete"} PROVE PanelRow(g, route, view.sel)
    <3>1. DOMAIN g = RequestFields /\ g.op = r.op /\ g.by = "gone"
      BY <1>3, <2>4 DEF PanelRow, RequestFields
    <3> QED
      BY <2>6, <3>1 DEF PanelRow
  <2>7. \A x \in net' : PanelRow(x, route, view.sel)
    BY <2>3, <2>5, <2>6, PostRows
  <2> QED
    BY <1>1, <1>3, <2>7, SamePage
<1> QED
  BY <1>2, <1>5, <1>6

\* The socket and the navbar may fetch the list of incidents, no panel.
LEMMA ShellKeepsPanels ==
  ASSUME PanelInv, OfSocket \/ OnShell
  PROVE  PanelInv'
<1>1. UNCHANGED <<route, view>>
  BY DEF OfSocket, OnShell, pageVars
<1>2. DOMAIN view = ViewFields
  BY DEF PanelInv
<1>3. PICK q : q = LoadBadge(cookie)
  OBVIOUS
<1>4. PanelRow(q, route, view.sel)
  BY <1>3, ListRow DEF LoadBadge
<1>5. CASE Established \/ LookAtBadge
  <2>1. PICK requests : Send(net, requests, {}) /\ (requests = <<q>> \/ requests = <<>>)
    BY <1>3, <1>5 DEF Established, LookAtBadge
  <2>2. \A x \in net : PanelRow(x, route, view.sel)
    BY DEF PanelInv
  <2>3. \A x \in net' : PanelRow(x, route, view.sel)
    BY <1>4, <2>1, <2>2, SendOneRow
  <2> QED
    BY <1>1, <1>2, <2>3, SamePage
<1>6. CASE Handshake \/ Refused \/ Drop \/ Offline \/ (\E id \in DOMAIN streams : Emit(id))
  <2>1. net' = net
    BY <1>6 DEF Handshake, Refused, Drop, Offline, Emit, dataVars
  <2> QED
    BY <1>1, <2>1, QuietPage
<1>7. CASE Say \/ Retry("connecting") \/ Retry(indicator) \/ (\E i \in Item : IncidentOpens(i))
  <2>1. net' = net
    BY <1>7 DEF Say, Retry, IncidentOpens, dataVars
  <2> QED
    BY <1>1, <2>1, QuietPage
<1> QED
  BY <1>5, <1>6, <1>7 DEF OfSocket, OnShell

\* A hand on the page that sends a request and keeps the subject.
LEMMA ActKeepsPanels ==
  ASSUME PanelInv, NEW q, NEW page, Act(q, page) \/ \E op, i : /\ ActOnStore(op, i, page)
                                                             /\ op # "panel"
                                                             /\ q = Request(op, i, "store", cookie),
         PanelRow(q, route, view.sel), DOMAIN page = ViewFields,
         page.sel = view.sel, page.panel = view.panel
  PROVE  PanelInv'
<1>1. view' = page /\ route' = route /\ Send(net, <<q>>, {})
  BY DEF Act, ActOnStore, StoreUnchanged
<1>2. \A x \in net : PanelRow(x, route, view.sel)
  BY DEF PanelInv
<1>3. \A x \in net' : PanelRow(x, route, view.sel)
  BY <1>1, <1>2, SendOneRow
<1> QED
  BY <1>1, <1>3, SamePage

\* A page asks for something other than a panel.
LEMMA PageRow ==
  ASSUME NEW op \in {"list", "set", "create", "delete", "test"}, NEW i, NEW q,
         q = ForPage(op, i) \/ (op = "set" /\ q = Switch(i)), NEW rt, NEW s
  PROVE  PanelRow(q, rt, s)
<1>1. PICK p : p = Request(op, i, "page", cookie)
  OBVIOUS
<1>2. DOMAIN p = RequestFields /\ p.op = op /\ p.by = "page"
  BY <1>1 DEF Request, RequestFields
<1>3. q = p \/ \E v, o : q = [p EXCEPT !.value = v, !.old = o]
  BY <1>1 DEF ForPage, Switch
<1>4. DOMAIN q = RequestFields /\ q.op = op /\ q.by = "page"
  BY <1>2, <1>3 DEF RequestFields
<1> QED
  BY <1>4 DEF PanelRow

\* The same view, but for buttons, spinners and rows.
LikeView(v) == DOMAIN v = ViewFields /\ v.sel = view.sel /\ v.panel = view.panel

\* The buttons and the spinner are none of the panels.
LEMMA Buttons ==
  ASSUME DOMAIN view = ViewFields
  PROVE  /\ LikeView(view)
         /\ \A b : /\ LikeView([view EXCEPT !.loading = b])
                   /\ LikeView([view EXCEPT !.saving = b])
                   /\ LikeView([view EXCEPT !.busy = b])
BY DEF LikeView, ViewFields

\* What the user does on a page.
LEMMA PageKeepsPanels ==
  ASSUME PanelInv, OnPage
  PROVE  PanelInv'
<1>1. DOMAIN view = ViewFields
  BY DEF PanelInv
<1>2. LikeView(view)
  BY <1>1, Buttons
<1>3. ASSUME NEW q, NEW page, Act(q, page), LikeView(page), PanelRow(q, route, view.sel)
      PROVE  PanelInv'
  BY <1>3, ActKeepsPanels DEF LikeView
<1>4. ASSUME NEW op, NEW i, NEW page, op # "panel", ActOnStore(op, i, page), LikeView(page)
      PROVE  PanelInv'
  <2>1. PICK q : q = Request(op, i, "store", cookie)
    OBVIOUS
  <2>2. PanelRow(q, route, view.sel)
    BY <1>4, <2>1, OtherRow
  <2> QED
    BY <1>4, <2>1, <2>2, ActKeepsPanels DEF LikeView
<1>5. CASE Reload
  <2>1. PICK q : q = ForPage("list", PageKind[route])
    OBVIOUS
  <2>2. PanelRow(q, route, view.sel)
    BY <2>1, PageRow
  <2> QED
    BY <1>1, <1>3, <1>5, <2>1, <2>2, Buttons DEF Reload
<1>6. CASE RefreshMonitors
  <2>1. PICK q : q = Request("list", "monitors", "store", cookie)
    OBVIOUS
  <2>2. PICK requests : Send(net, requests, {}) /\ (requests = <<q>> \/ requests = <<>>)
    BY <1>6, <2>1 DEF RefreshMonitors, FetchMonitors
  <2>3. PanelRow(q, route, view.sel)
    BY <2>1, ListRow
  <2>4. \A x \in net : PanelRow(x, route, view.sel)
    BY DEF PanelInv
  <2>5. \A x \in net' : PanelRow(x, route, view.sel)
    BY <2>2, <2>3, <2>4, SendOneRow
  <2>6. UNCHANGED <<route, view>>
    BY <1>6 DEF RefreshMonitors, StoreUnchanged
  <2> QED
    BY <1>1, <2>5, <2>6, SamePage
<1>7. CASE Poll
  <2>1. PICK q : q = ForPage("panel", view.sel)
    OBVIOUS
  <2>2. PanelRow(q, route, view.sel)
    BY <2>1, SubjectRow DEF ForPage
  <2> QED
    BY <1>2, <1>3, <1>7, <2>1, <2>2 DEF Poll
<1>8. ASSUME NEW i \in Item, Select(i) PROVE PanelInv'
  BY <1>8, FocusKeepsPanels DEF Select, StoreUnchanged
<1>9. ASSUME NEW i \in Item, AddMonitor(i) \/ RemoveMonitor(i) PROVE PanelInv'
  <2>1. CASE AddMonitor(i)
    BY <1>2, <1>4, <2>1 DEF AddMonitor
  <2>2. CASE RemoveMonitor(i)
    <3>1. PICK page : page = [view EXCEPT !.busy = i]
      OBVIOUS
    <3>2. LikeView(page)
      BY <1>1, <3>1, Buttons
    <3>3. ActOnStore("delete", i, page)
      BY <2>2, <3>1 DEF RemoveMonitor
    <3> QED
      BY <1>4, <3>2, <3>3
  <2> QED
    BY <1>9, <2>1, <2>2
<1>10. ASSUME NEW i \in Item, AddChannel(i) \/ AddPage(i) PROVE PanelInv'
  <2>1. PanelRow(ForPage("create", i), route, view.sel)
    BY PageRow
  <2>2. LikeView([view EXCEPT !.saving = TRUE])
    BY <1>1, Buttons
  <2>3. Act(ForPage("create", i), [view EXCEPT !.saving = TRUE])
    BY <1>10 DEF AddChannel, AddPage
  <2> QED
    BY <1>3, <2>1, <2>2, <2>3
<1>11. ASSUME NEW i \in Item, RemoveChannel(i) \/ RemovePage(i) \/ TestChannel(i)
       PROVE  PanelInv'
  <2>1. PICK op \in {"delete", "test"} : Act(ForPage(op, i), [view EXCEPT !.busy = i])
    BY <1>11 DEF RemoveChannel, RemovePage, TestChannel
  <2>2. PanelRow(ForPage(op, i), route, view.sel)
    BY PageRow
  <2>3. LikeView([view EXCEPT !.busy = i])
    BY <1>1, Buttons
  <2> QED
    BY <1>3, <2>1, <2>2, <2>3
<1>12. ASSUME NEW i \in Item, ToggleChannel(i) \/ TogglePref(i) \/ EditPage(i)
       PROVE  PanelInv'
  <2>1. PICK v : v = Switch(i).value
    OBVIOUS
  <2>2. PICK q : q = Switch(i)
    OBVIOUS
  <2>3. PICK page : /\ Act(q, page)
                    /\ \/ page = [view EXCEPT !.list[i] = v]
                       \/ page = [view EXCEPT !.list[i] = v, !.busy = i]
                       \/ page = [view EXCEPT !.saving = TRUE]
    BY <1>12, <2>1, <2>2 DEF ToggleChannel, TogglePref, EditPage
  <2>4. LikeView(page)
    BY <1>1, <2>3 DEF LikeView, ViewFields
  <2>5. PanelRow(q, route, view.sel)
    BY <2>2, PageRow
  <2> QED
    BY <1>3, <2>3, <2>4, <2>5
<1> QED
  BY <1>5, <1>6, <1>7, <1>8, <1>9, <1>10, <1>11, <1>12 DEF OnPage

\* What the user does at all.
LEMMA UserKeepsPanels ==
  ASSUME PanelInv, OfUser
  PROVE  PanelInv'
<1>1. DOMAIN view = ViewFields /\ \A x \in net : PanelRow(x, route, view.sel)
  BY DEF PanelInv
<1>2. CASE LogoutClick
  <2>1. PICK q : q = Request("logout", None, "session", cookie)
    OBVIOUS
  <2>2. PanelRow(q, route, view.sel)
    BY <2>1, OtherRow
  <2>3. PICK n : n = Post(net, q)
    OBVIOUS
  <2>4. \A x \in n : PanelRow(x, route, view.sel)
    BY <1>1, <2>2, <2>3, PostRows
  <2>5. PICK s : Show("dashboard", s, store, n, conn, me, cookie, {}, TRUE)
    BY <1>2, <2>1, <2>3 DEF LogoutClick
  <2> QED
    BY <2>4, <2>5, ShowKeepsPanels
<1>3. ASSUME NEW rt, Navigate(rt) PROVE PanelInv'
  <2>1. PICK s : Show(rt, s, store, net, conn, me, cookie, {}, FALSE)
    BY <1>3 DEF Navigate
  <2> QED
    BY <1>1, <2>1, ShowKeepsPanels
<1>4. ASSUME NEW u \in User, SignIn(u) PROVE PanelInv'
  <2>1. PICK q : q = Request("login", u, "session", cookie)
    OBVIOUS
  <2>2. PanelRow(q, route, view.sel)
    BY <2>1, OtherRow
  <2>3. Send(net, <<q>>, {}) /\ route' = route
    BY <1>4, <2>1 DEF SignIn, StoreUnchanged
  <2>4. \A x \in net' : PanelRow(x, route, view.sel)
    BY <1>1, <2>2, <2>3, SendOneRow
  <2>5. DOMAIN view' = ViewFields /\ view'.sel = view.sel /\ view'.panel = view.panel
    BY <1>1, <1>4 DEF SignIn, ViewFields
  <2> QED
    BY <2>3, <2>4, <2>5, SamePage
<1> QED
  BY <1>2, <1>3, <1>4, PageKeepsPanels DEF OfUser

\* Every step keeps the panels.
LEMMA PanelStep == PanelInv /\ [Next]_vars => PanelInv'
<1> SUFFICES ASSUME PanelInv, [Next]_vars PROVE PanelInv'
  OBVIOUS
<1>1. CASE UNCHANGED vars
  BY <1>1, QuietPage DEF vars, dataVars, pageVars
<1>2. ASSUME NEW r \in net, Settle(r) PROVE PanelInv'
  <2>1. PanelRow(r, route, view.sel) /\ PanelRow(Answered(r), route, view.sel)
    BY AnsweredRow DEF PanelInv
  <2> QED
    BY <1>2, <2>1, AnswerKeepsPanels DEF Settle
<1>3. CASE Gesture /\ GrowStale /\ UNCHANGED <<socketVars, initializing, route, view>>
  BY <1>3, QuietPage DEF GrowStale
<1> QED
  BY <1>1, <1>2, <1>3, NetKeepsPanels, ShellKeepsPanels, UserKeepsPanels DEF Next

\* A tab is opened with nothing selected.
LEMMA PanelInit == Init => PanelInv
<1> SUFFICES ASSUME Init PROVE PanelInv
  OBVIOUS
<1>1. view = Fresh("login", None, None)
  BY DEF Init
<1>2. DOMAIN view = ViewFields /\ view.panel = None
  BY <1>1 DEF Fresh, ViewFields
<1>3. PICK q : q = Request("profile", None, "session", cookie)
  OBVIOUS
<1>4. DOMAIN q = RequestFields /\ q.op = "profile" /\ q.by = "session"
  BY <1>3 DEF Request, RequestFields
<1>5. PICK x : x = [q EXCEPT !.tag = 1]
  OBVIOUS
<1>6. DOMAIN x = RequestFields /\ x.op = "profile" /\ x.by = "session"
  BY <1>4, <1>5 DEF RequestFields
<1>7. net = {x}
  BY <1>3, <1>5 DEF Init, DataInit
<1>8. PanelRow(x, route, view.sel)
  BY <1>6 DEF PanelRow
<1> QED
  BY <1>2, <1>7, <1>8 DEF PanelInv

\* What the panels of the dashboard show and wait for is the selected monitor, in every
\* run (Dashboard.jsx, UptimeWindows.jsx, ResponseTimeHistory.jsx).
THEOREM PanelInvariant == Spec => []PanelInv
BY PanelInit, PanelStep, PTL DEF Spec

\* The panels of the dashboard never show the numbers of a monitor that was selected
\* before (the `cancelled` flags of UptimeWindows.jsx and ResponseTimeHistory.jsx).
THEOREM PanelsShowTheSelected == Spec => []ShownIsSelected
<1>1. PanelInv => ShownIsSelected
  <2> SUFFICES ASSUME PanelInv, route = "dashboard", Screen \in Item PROVE Screen = view.sel
    BY DEF ShownIsSelected
  <2>1. /\ "loading" \notin Item /\ "error" \notin Item /\ "spinner" \notin Item
        /\ "nothing yet" \notin Item /\ None \notin Item
    BY ClientAssumption
  <2>2. Screen = DashboardScreen
    BY DEF Screen
  <2>3. Screen \in {"nothing yet", "spinner", view.panel}
    BY <2>2 DEF DashboardScreen, Thing
  <2>4. view.panel \in {None, "loading", "error", view.sel}
    BY DEF PanelInv
  <2> QED
    BY <2>1, <2>3, <2>4
<1> QED
  BY <1>1, PanelInvariant, PTL

-----------------------------------------------------------------------------
(* Whose documents are shown *)

\* The kind of the items on the list of a page.
KindOf(rt) ==
  IF rt = "settings" THEN "prefs" ELSE IF rt \in DOMAIN PageKind THEN PageKind[rt] ELSE "none"

\* What each place asks for; a page asks about the items that it lists.
AskRow(x, rt) ==
  /\ DOMAIN x = RequestFields
  /\ x.by \in {"store", "bell", "session", "page", "gone"}
  /\ x.op \in {"create", "delete", "set"} => x.what \in Item
  /\ x.op = "panel" => x.by = "page"
  /\ x.by = "session" <=> x.op \in {"profile", "login", "logout"}
  /\ x.by = "gone" => x.op \in {"create", "set", "delete"}
  /\ x.by = "bell" => x.op = "list" /\ x.what = "incidents"
  /\ x.by = "store" => \/ x.op = "list" /\ x.what = "monitors"
                       \/ x.op \in {"create", "delete"} /\ Kind[x.what] = "monitors"
  /\ x.by = "page" =>
       \/ x.op = "panel"
       \/ x.op = "list" /\ rt \in DOMAIN PageKind /\ x.what = PageKind[rt]
       \/ /\ x.op \in {"create", "set", "delete", "test"} /\ Kind[x.what] = KindOf(rt)
          /\ rt \in {"alerts", "status-pages", "settings"} /\ (rt = "settings" => x.op = "set")
          /\ x.op = "set" => DOMAIN x.old \subseteq Of(KindOf(rt))

\* The answer is about the account the request came from, or that signed in.
SaidRow(x) ==
  x.stage = "answered" /\ x.ok =>
    /\ x.op = "list" => \A i \in DOMAIN x.data : i \in Of(x.what) /\ Owner[i] = x.as
    /\ x.op = "create" => Owner[x.what] = x.as
    /\ x.op = "login" => x.data.id = x.what /\ DOMAIN x.data.prefs \subseteq Of("prefs")
    /\ x.op = "profile" \/ (x.op = "set" /\ Kind[x.what] = "prefs") =>
         x.data.id = x.as /\ DOMAIN x.data.prefs \subseteq Of("prefs")

\* Two requests for the same items disturb them, but for lists for two places.
Apart(x, y, m) ==
  \/ x.op = "list" /\ y.op = "list" /\ x.by # y.by
  \/ Touched(x) \intersect Touched(y) \subseteq m

\* A request is of this session, or what it touches is disturbed.
SessionRow(x, m, as, in) ==
  Touched(x) \subseteq m \/ (x.as = as /\ (in \/ x.by = "session"))

RowsFit(n, rt, m, as, in) ==
  /\ \A x \in n : AskRow(x, rt) /\ SaidRow(x) /\ SessionRow(x, m, as, in)
  /\ \A x, y \in n : x # y => Apart(x, y, m)

\* Until the first answer there is only that request; the monitors in the store and the
\* user document are those of the session, or were disturbed.
ShownInv ==
  /\ initializing => ~signedIn /\ \A x, y \in net : x.op = "profile" /\ x = y
  /\ ~initializing /\ route = "login" => ~signedIn
  /\ DOMAIN store = {"list", "fresh", "loading"}
  /\ DOMAIN view.list \subseteq Of(KindOf(route))
  /\ me # None => DOMAIN me.prefs \subseteq Of("prefs")
  /\ signedIn => me.id = cookie \/ Of("prefs") \subseteq messy
  /\ \A i \in DOMAIN store.list : /\ i \in Of("monitors")
                                  /\ i \in messy \/ (signedIn /\ Owner[i] = cookie)

StrangerInv ==
  /\ RowsFit(net, route, messy, cookie, signedIn)
  /\ ShownInv

\* Whatever is in the state, a request touches items.
LEMMA TouchedItems ==
  ASSUME NEW x, NEW rt, AskRow(x, rt)
  PROVE  Touched(x) \subseteq Item
BY DEF AskRow, Touched, Of

\* The tag, the answer and the progress of a request do not change what it touches.
LEMMA SameTouched ==
  ASSUME NEW x, NEW y, x.op = y.op, x.what = y.what
  PROVE  Touched(x) = Touched(y)
BY DEF Touched

\* More disturbed items, and fewer requests, do no harm.
LEMMA FitLess ==
  ASSUME NEW n, NEW rt, NEW m, NEW as, NEW in, RowsFit(n, rt, m, as, in),
         NEW n2 \in SUBSET n, NEW m2, m \subseteq m2
  PROVE  RowsFit(n2, rt, m2, as, in)
<1>1. \A x \in n2 : AskRow(x, rt) /\ SaidRow(x) /\ SessionRow(x, m2, as, in)
  BY DEF RowsFit, SessionRow
<1>2. \A x, y \in n2 : x # y => Apart(x, y, m2)
  BY DEF RowsFit, Apart
<1> QED
  BY <1>1, <1>2 DEF RowsFit

\* A request that is sent: it has no answer yet, and is of the session.
Sent(q, rt, as, in) ==
  /\ AskRow(q, rt) /\ q.stage = "sent"
  /\ Touched(q) = {} \/ (q.as = as /\ (in \/ q.by = "session"))

\* Requests that are sent fit: what they overlap with becomes disturbed.
LEMMA SendFits ==
  ASSUME NEW n, NEW S, NEW requests \in Seq(S), NEW late, Send(n, requests, late),
         NEW rt, NEW as, NEW in, RowsFit(n, rt, messy \union late, as, in),
         \A q \in S : Sent(q, rt, as, in)
  PROVE  RowsFit(net', rt, messy', as, in)
<1> DEFINE Tagged(k) == [requests[k] EXCEPT !.tag = FreeTag(n, k)]
<1>1. net' = n \union {Tagged(k) : k \in DOMAIN requests}
  BY DEF Send, PostAll
<1>2. messy' = messy \union late \union DisturbedAll(n, requests)
  BY DEF Send
<1>3. \A k \in DOMAIN requests : k \in Nat /\ requests[k] \in S
  <2>1. DOMAIN requests = 1..Len(requests) /\ Len(requests) \in Nat
    BY LenProperties
  <2> QED
    BY <2>1, ElementOfSeq
<1>4. \A k \in DOMAIN requests :
        /\ DOMAIN Tagged(k) = RequestFields /\ Touched(Tagged(k)) = Touched(requests[k])
        /\ Tagged(k).op = requests[k].op /\ Tagged(k).by = requests[k].by
  <2> SUFFICES ASSUME NEW k \in DOMAIN requests
               PROVE  /\ DOMAIN Tagged(k) = RequestFields
                      /\ Touched(Tagged(k)) = Touched(requests[k])
                      /\ Tagged(k).op = requests[k].op /\ Tagged(k).by = requests[k].by
    OBVIOUS
  <2>1. PICK q : q = requests[k] /\ Sent(q, rt, as, in)
    BY <1>3
  <2>2. PICK x : x = Tagged(k)
    OBVIOUS
  <2>3. PICK t : x = [q EXCEPT !.tag = t]
    BY <2>1, <2>2
  <2>4. DOMAIN q = RequestFields
    BY <2>1 DEF Sent, AskRow
  <2> HIDE DEF Tagged
  <2>5. DOMAIN x = RequestFields /\ x.op = q.op /\ x.what = q.what /\ x.by = q.by
    BY <2>3, <2>4 DEF RequestFields
  <2>6. Touched(x) = Touched(q)
    BY <2>5, SameTouched
  <2> QED
    BY <2>1, <2>2, <2>5, <2>6
<1>5. ASSUME NEW k \in DOMAIN requests
      PROVE  AskRow(Tagged(k), rt) /\ SaidRow(Tagged(k)) /\ SessionRow(Tagged(k), messy', as, in)
  <2>1. PICK q : q = requests[k] /\ Sent(q, rt, as, in)
    BY <1>3
  <2>2. PICK x : x = Tagged(k)
    OBVIOUS
  <2>3. PICK t : x = [q EXCEPT !.tag = t]
    BY <2>1, <2>2
  <2> HIDE DEF Tagged
  <2>4. /\ DOMAIN x = RequestFields /\ Touched(x) = Touched(q)
        /\ x.op = q.op /\ x.what = q.what /\ x.by = q.by /\ x.as = q.as /\ x.old = q.old
        /\ x.stage = q.stage
    <3>1. DOMAIN q = RequestFields
      BY <2>1 DEF Sent, AskRow
    <3>2. /\ DOMAIN x = RequestFields
          /\ x.op = q.op /\ x.what = q.what /\ x.by = q.by /\ x.as = q.as /\ x.old = q.old
          /\ x.stage = q.stage
      BY <2>3, <3>1 DEF RequestFields
    <3> QED
      BY <3>2, SameTouched
  <2>5. AskRow(x, rt)
    BY <2>1, <2>4 DEF Sent, AskRow
  <2>6. SaidRow(x)
    BY <2>1, <2>4 DEF Sent, SaidRow
  <2>7. SessionRow(x, messy', as, in)
    BY <2>1, <2>4 DEF Sent, SessionRow
  <2> QED
    BY <2>2, <2>5, <2>6, <2>7
<1>6. ASSUME NEW k \in DOMAIN requests, NEW y,
             y \in n \/ \E j \in DOMAIN requests : j < k /\ y = Tagged(j)
      PROVE  /\ Apart(Tagged(k), y, messy')
             /\ Apart(y, Tagged(k), messy')
  <2>1. PICK before : before = SubSeq(requests, 1, k - 1)
    OBVIOUS
  <2>2. PICK N : N = PostAll(n, before)
    OBVIOUS
  <2>3. y \in N
    <3>1. CASE y \in n
      BY <2>2, <3>1 DEF PostAll
    <3>2. CASE \E j \in DOMAIN requests : j < k /\ y = Tagged(j)
      <4>1. PICK j \in DOMAIN requests : j < k /\ y = Tagged(j)
        BY <3>2
      <4>2. j \in 1..(k - 1) /\ k - 1 \in Nat /\ k - 1 <= Len(requests)
        <5>1. DOMAIN requests = 1..Len(requests) /\ Len(requests) \in Nat
          BY LenProperties
        <5> QED
          BY <4>1, <5>1
      <4>3. DOMAIN before = 1..(k - 1) /\ before[j] = requests[j]
        BY <2>1, <4>2, SubSeqProperties
      <4> QED
        BY <2>2, <4>1, <4>2, <4>3 DEF PostAll
    <3> QED
      BY <1>6, <3>1, <3>2
  <2>4. Disturbed(requests[k], N) \subseteq messy'
    BY <1>2, <2>1, <2>2 DEF DisturbedAll
  <2>5. PICK q : q = requests[k]
    OBVIOUS
  <2>6. PICK x : x = Tagged(k)
    OBVIOUS
  <2>7. x.op = q.op /\ x.by = q.by /\ Touched(x) = Touched(q)
    BY <1>4, <2>5, <2>6
  <2> HIDE DEF Tagged
  <2>8. \/ y.op = "list" /\ q.op = "list" /\ y.by # q.by
        \/ Touched(q) \intersect Touched(y) \subseteq messy'
    BY <2>3, <2>4, <2>5 DEF Disturbed
  <2>9. Apart(x, y, messy') /\ Apart(y, x, messy')
    BY <2>7, <2>8 DEF Apart
  <2> QED
    BY <2>6, <2>9
<1>7. RowsFit(n, rt, messy', as, in)
  BY <1>2, FitLess
<1> HIDE DEF Tagged
<1>8. \A x \in net' : AskRow(x, rt) /\ SaidRow(x) /\ SessionRow(x, messy', as, in)
  BY <1>1, <1>5, <1>7 DEF RowsFit
<1>9. \A x, y \in net' : x # y => Apart(x, y, messy')
  <2> SUFFICES ASSUME NEW x \in net', NEW y \in net', x # y PROVE Apart(x, y, messy')
    OBVIOUS
  <2>1. CASE x \in n /\ y \in n
    BY <1>7, <2>1 DEF RowsFit
  <2>2. CASE x \in n /\ y \notin n
    BY <1>1, <1>6, <2>2
  <2>3. CASE x \notin n /\ y \in n
    BY <1>1, <1>6, <2>3
  <2>4. CASE x \notin n /\ y \notin n
    <3>1. PICK k \in DOMAIN requests, j \in DOMAIN requests : x = Tagged(k) /\ y = Tagged(j)
      BY <1>1, <2>4
    <3>2. j < k \/ k < j
      BY <1>3, <3>1
    <3> QED
      BY <1>6, <3>1, <3>2
  <2> QED
    BY <2>1, <2>2, <2>3, <2>4
<1> QED
  BY <1>8, <1>9 DEF RowsFit
\* A list is asked for in a session.
LEMMA ListIsSent ==
  ASSUME NEW q, NEW rt, NEW as, NEW by, NEW what, q = Request("list", what, by, as),
         \/ by = "store" /\ what = "monitors"
         \/ by = "bell" /\ what = "incidents"
         \/ by = "page" /\ rt \in DOMAIN PageKind /\ what = PageKind[rt]
  PROVE  Sent(q, rt, as, TRUE)
<1>1. /\ DOMAIN q = RequestFields /\ q.stage = "sent" /\ q.op = "list"
      /\ q.what = what /\ q.by = by /\ q.as = as
  BY DEF Request, RequestFields
<1> QED
  BY <1>1 DEF Sent, AskRow

\* A panel, and the session, may be asked for without one.
LEMMA FreeIsSent ==
  ASSUME NEW q, NEW rt, NEW as, NEW by, NEW what, NEW op, q = Request(op, what, by, as),
         \/ by = "page" /\ op = "panel"
         \/ by = "session" /\ op \in {"profile", "login", "logout"},
         NEW in
  PROVE  Sent(q, rt, as, in)
<1>1. /\ DOMAIN q = RequestFields /\ q.stage = "sent" /\ q.op = op
      /\ q.what = what /\ q.by = by /\ q.as = as
  BY DEF Request, RequestFields
<1>2. AskRow(q, rt)
  BY <1>1 DEF AskRow
<1>3. op = "panel" => Touched(q) = {}
  BY <1>1 DEF Touched
<1> QED
  BY <1>1, <1>2, <1>3 DEF Sent

\* What a page asks for when it is shown, in a session if it needs one.
LEMMA OpenedIsSent ==
  ASSUME NEW rt, NEW subject, NEW as, NEW in \in BOOLEAN, rt \in Protected => in,
         NEW q \in Opened(rt, subject, as)
  PROVE  Sent(q, rt, as, in)
<1>1. \/ q = Request("panel", subject, "page", as)
      \/ /\ rt \in Protected
         /\ \/ q = Request("list", "monitors", "store", as)
            \/ rt \in DOMAIN PageKind /\ q = Request("list", PageKind[rt], "page", as)
            \/ q = Request("list", "incidents", "bell", as)
  BY DEF Opened, LoadBadge, Protected
<1>2. CASE q = Request("panel", subject, "page", as)
  BY <1>2, FreeIsSent
<1>3. CASE rt \in Protected /\ q = Request("list", "monitors", "store", as)
  <2>1. Sent(q, rt, as, TRUE) /\ in = TRUE
    BY <1>3, ListIsSent
  <2> QED
    BY <2>1
<1>4. CASE /\ rt \in Protected
           /\ rt \in DOMAIN PageKind /\ q = Request("list", PageKind[rt], "page", as)
  <2>1. Sent(q, rt, as, TRUE) /\ in = TRUE
    BY <1>4, ListIsSent
  <2> QED
    BY <2>1
<1>5. CASE rt \in Protected /\ q = Request("list", "incidents", "bell", as)
  <2>1. Sent(q, rt, as, TRUE) /\ in = TRUE
    BY <1>5, ListIsSent
  <2> QED
    BY <2>1
<1> QED
  BY <1>1, <1>2, <1>3, <1>4, <1>5

\* The requests that still matter when the page goes.
LEMMA LeftFits ==
  ASSUME NEW n, NEW rt, NEW m, NEW as, NEW in, RowsFit(n, rt, m, as, in),
         NEW stays, NEW rt2
  PROVE  RowsFit(Left(n, stays), rt2, m, as, in)
<1> DEFINE From(x, r) == /\ r \in n
                         /\ r.by = "page" => r.op \in {"create", "set", "delete"}
                         /\ x = IF r.by = "page" THEN [r EXCEPT !.by = "gone"] ELSE r
<1>1. \A x \in Left(n, stays) : \E r : From(x, r)
  BY DEF Left
<1>2. ASSUME NEW x, NEW r, From(x, r)
      PROVE  /\ Touched(x) = Touched(r) /\ x.op = r.op
             /\ x.by = r.by \/ (x.op # "list" /\ r.op # "list")
             /\ AskRow(x, rt2) /\ SaidRow(x) /\ SessionRow(x, m, as, in)
  <2>1. AskRow(r, rt) /\ SaidRow(r) /\ SessionRow(r, m, as, in)
    BY <1>2 DEF RowsFit
  <2>2. CASE r.by = "page"
    <3>1. /\ r.op \in {"create", "set", "delete"} /\ x = [r EXCEPT !.by = "gone"]
          /\ DOMAIN r = RequestFields
      BY <1>2, <2>1, <2>2 DEF AskRow
    <3>2. /\ DOMAIN x = RequestFields /\ x.op = r.op /\ x.what = r.what /\ x.by = "gone"
          /\ x.as = r.as /\ x.stage = r.stage /\ x.ok = r.ok /\ x.data = r.data
      BY <3>1 DEF RequestFields
    <3>3. Touched(x) = Touched(r)
      BY <3>2, SameTouched
    <3>4. AskRow(x, rt2)
      BY <2>1, <3>1, <3>2 DEF AskRow
    <3>5. SaidRow(x)
      BY <2>1, <3>2 DEF SaidRow
    <3>6. SessionRow(x, m, as, in)
      BY <2>1, <2>2, <3>2, <3>3 DEF SessionRow
    <3> QED
      BY <3>1, <3>2, <3>3, <3>4, <3>5, <3>6
  <2>3. CASE r.by # "page"
    <3>1. x = r
      BY <1>2, <2>3
    <3>2. AskRow(r, rt2)
      BY <2>1, <2>3 DEF AskRow
    <3> QED
      BY <2>1, <3>1, <3>2
  <2> QED
    BY <2>2, <2>3
<1>3. ASSUME NEW x \in Left(n, stays), NEW y \in Left(n, stays), x # y
      PROVE  Apart(x, y, m)
  <2>1. PICK r, s : From(x, r) /\ From(y, s)
    BY <1>1
  <2>2. r # s /\ r \in n /\ s \in n
    BY <1>3, <2>1
  <2>3. Apart(r, s, m)
    BY <2>2 DEF RowsFit
  <2>4. /\ Touched(x) = Touched(r) /\ x.op = r.op
        /\ x.by = r.by \/ (x.op # "list" /\ r.op # "list")
    BY <1>2, <2>1
  <2>5. /\ Touched(y) = Touched(s) /\ y.op = s.op
        /\ y.by = s.by \/ (y.op # "list" /\ s.op # "list")
    BY <1>2, <2>1
  <2> HIDE DEF From
  <2> QED
    BY <2>3, <2>4, <2>5 DEF Apart
<1> HIDE DEF From
<1> QED
  BY <1>1, <1>2, <1>3 DEF RowsFit

\* A page is shown: the requests of the one before, and its own.
LEMMA ShowFits ==
  ASSUME NEW rt, NEW subject, NEW st, NEW n, NEW c, NEW u, NEW as, NEW late,
         NEW remount, Show(rt, subject, st, n, c, u, as, late, remount),
         NEW rt2, NEW ck, NEW in, in = TRUE \/ in = FALSE, RowsFit(n, rt2, messy \union late, ck, in),
         rt \in Protected => in, in => as = ck
  PROVE  RowsFit(net', rt, messy', ck, in)
<1>1. PICK stays \in BOOLEAN : stays = (rt \in Protected /\ ShellShown /\ ~remount)
  OBVIOUS
<1>2. PICK bell \in BOOLEAN : bell = (rt \in Protected /\ ~stays)
  OBVIOUS
<1>3. PICK requests : requests = Opening(rt, subject, st, as)
                                   \o (IF bell THEN <<LoadBadge(as)>> ELSE <<>>)
  OBVIOUS
<1>4. Send(Left(n, stays), requests, late)
  BY <1>1, <1>2, <1>3 DEF Show
<1>5. requests \in Seq(Opened(rt, subject, as))
  BY <1>2, <1>3, OpeningAsks
<1>6. RowsFit(Left(n, stays), rt, messy \union late, ck, in)
  BY LeftFits
<1>7. \A q \in Opened(rt, subject, as) : Sent(q, rt, ck, in)
  <2> SUFFICES ASSUME NEW q \in Opened(rt, subject, as) PROVE Sent(q, rt, ck, in)
    OBVIOUS
  <2>1. Sent(q, rt, as, in)
    BY OpenedIsSent
  <2>2. CASE in
    BY <2>1, <2>2
  <2>3. CASE ~in
    <3>1. q = Request("panel", subject, "page", as)
      BY <2>3 DEF Opened, Protected
    <3>2. q.op = "panel"
      BY <3>1 DEF Request
    <3>3. Touched(q) = {}
      BY <3>2 DEF Touched
    <3> QED
      BY <2>1, <3>3 DEF Sent
  <2> QED
    BY <2>2, <2>3
<1> QED
  BY <1>4, <1>5, <1>6, <1>7, SendFits

\* One request is sent, or none.
LEMMA SendOneFits ==
  ASSUME NEW n, NEW q, NEW requests, requests = <<q>> \/ requests = <<>>,
         NEW late, Send(n, requests, late), NEW rt, NEW as, NEW in,
         RowsFit(n, rt, messy \union late, as, in), requests = <<q>> => Sent(q, rt, as, in)
  PROVE  RowsFit(net', rt, messy', as, in)
<1>1. CASE requests = <<q>>
  <2>1. PICK S : S = {q}
    OBVIOUS
  <2>2. requests \in Seq(S) /\ \A x \in S : Sent(x, rt, as, in)
    BY <1>1, <2>1
  <2> QED
    BY <2>2, SendFits
<1>2. CASE requests = <<>>
  <2>1. PICK S : S = {}
    OBVIOUS
  <2>2. <<>> \in Seq(S)
    OBVIOUS
  <2>3. requests \in Seq(S) /\ \A x \in S : Sent(x, rt, as, in)
    BY <1>2, <2>1, <2>2
  <2> QED
    BY <2>3, SendFits
<1> QED
  BY <1>1, <1>2

\* Nothing is sent.
LEMMA SendNoneFits ==
  ASSUME NEW n, NEW late, Send(n, <<>>, late), NEW rt, NEW as, NEW in,
         RowsFit(n, rt, messy \union late, as, in)
  PROVE  RowsFit(net', rt, messy', as, in)
<1>1. PICK S : S = {}
  OBVIOUS
<1>2. <<>> \in Seq(S)
  OBVIOUS
<1>3. \A x \in S : Sent(x, rt, as, in)
  BY <1>1
<1> QED
  BY <1>2, <1>3, SendFits
\* What is heard: the answer of a request there was, and what else is under way.
Heard(r) ==
  /\ AskRow(r, route) /\ SaidRow(r) /\ SessionRow(r, messy, cookie, signedIn)
  /\ r.stage = "answered"
  /\ \A x \in Done(net, r) : Apart(r, x, messy)
  /\ initializing => r.op = "profile" /\ Done(net, r) = {}

\* An answer goes to who asked, and is about the account it was asked for.
LEMMA AnsweredFits ==
  ASSUME NEW q, NEW rt, AskRow(q, rt), NEW x, x = Answered(q)
  PROVE  /\ AskRow(x, rt) /\ SaidRow(x) /\ Touched(x) = Touched(q)
         /\ x.stage = "answered" /\ x.tag = q.tag /\ x.op = q.op /\ x.by = q.by /\ x.as = q.as
<1>1. DOMAIN q = RequestFields
  BY DEF AskRow
<1>2. PICK g : g = Granted(q)
  OBVIOUS
<1>3. PICK a : a = Answer(q)
  OBVIOUS
<1>4. x = [q EXCEPT !.stage = "answered", !.ok = g, !.data = a]
  BY <1>2, <1>3 DEF Answered
<1>5. /\ DOMAIN x = RequestFields
      /\ x.op = q.op /\ x.what = q.what /\ x.by = q.by /\ x.as = q.as /\ x.old = q.old
      /\ x.stage = "answered" /\ x.ok = g /\ x.data = a /\ x.tag = q.tag
  BY <1>1, <1>4 DEF RequestFields
<1>6. AskRow(x, rt)
  BY <1>5 DEF AskRow
<1>7. Touched(x) = Touched(q)
  BY <1>5, SameTouched
<1>8. SaidRow(x)
  <2> SUFFICES ASSUME Granted(q) PROVE SaidRow(x)
    BY <1>2, <1>5 DEF SaidRow
  <2>1. CASE q.op = "list"
    <3>1. a = Documents(q.what, q.as)
      BY <1>3, <2>1 DEF Answer
    <3>2. DOMAIN a = Mine(q.what, q.as)
      BY <3>1 DEF Documents
    <3> QED
      BY <1>5, <2>1, <3>2 DEF SaidRow, Mine
  <2>2. CASE q.op = "create"
    <3>1. q.as = Owner[q.what]
      BY <2>2 DEF Granted
    <3> QED
      BY <1>5, <2>2, <3>1 DEF SaidRow
  <2>3. CASE q.op \in {"profile", "login"}
    <3>1. PICK u : u = IF q.op = "login" THEN q.what ELSE q.as
      OBVIOUS
    <3>2. a = UserDoc(u)
      BY <1>3, <2>3, <3>1 DEF Answer
    <3>3. a.id = u /\ DOMAIN a.prefs \subseteq Of("prefs")
      BY <3>2 DEF UserDoc, Documents, Mine
    <3> QED
      BY <1>5, <2>3, <3>1, <3>3 DEF SaidRow
  <2>4. CASE q.op = "set" /\ Kind[q.what] = "prefs"
    <3>1. a = [id |-> q.as, prefs |-> Put(Documents("prefs", q.as), q.what, q.value)]
      BY <1>3, <2>4 DEF Answer
    <3>2. q.what \in Of("prefs")
      BY <2>4 DEF AskRow, Of
    <3>3. DOMAIN Put(Documents("prefs", q.as), q.what, q.value) \subseteq Of("prefs")
      BY <3>2 DEF Put, Documents, Mine
    <3>4. a.id = q.as /\ DOMAIN a.prefs \subseteq Of("prefs")
      BY <3>1, <3>3
    <3> QED
      BY <1>5, <2>4, <3>4 DEF SaidRow
  <2>5. CASE /\ q.op \notin {"list", "create", "profile", "login"}
             /\ ~(q.op = "set" /\ Kind[q.what] = "prefs")
    BY <1>5, <2>5 DEF SaidRow
  <2> QED
    BY <2>1, <2>2, <2>3, <2>4, <2>5
<1> QED
  BY <1>5, <1>6, <1>7, <1>8

\* What is settled is an answer that fits.
LEMMA SettledIsHeard ==
  ASSUME StrangerInv, NEW q \in net, NEW r,
         \/ q.stage = "answered" /\ r = q
         \/ q.stage = "sent" /\ r = Answered(q)
  PROVE  Heard(r)
<1>1. AskRow(q, route) /\ SaidRow(q) /\ SessionRow(q, messy, cookie, signedIn)
  BY DEF StrangerInv, RowsFit
<1>2. /\ AskRow(r, route) /\ SaidRow(r) /\ Touched(r) = Touched(q)
      /\ r.stage = "answered" /\ r.tag = q.tag /\ r.op = q.op /\ r.by = q.by /\ r.as = q.as
  BY <1>1, AnsweredFits
<1>3. SessionRow(r, messy, cookie, signedIn)
  BY <1>1, <1>2 DEF SessionRow
<1>4. \A x \in Done(net, r) : x \in net /\ x # q
  BY <1>2 DEF Done
<1>5. \A x \in Done(net, r) : Apart(q, x, messy)
  BY <1>4 DEF StrangerInv, RowsFit
<1>6. \A x \in Done(net, r) : Apart(r, x, messy)
  BY <1>2, <1>5 DEF Apart
<1>7. initializing => r.op = "profile" /\ Done(net, r) = {}
  BY <1>2, <1>4 DEF StrangerInv, ShownInv
<1> QED
  BY <1>2, <1>3, <1>6, <1>7 DEF Heard

\* The requests that remain still fit.
LEMMA DoneFits ==
  ASSUME StrangerInv, NEW r, NEW m, messy \subseteq m
  PROVE  RowsFit(Done(net, r), route, m, cookie, signedIn)
<1>1. Done(net, r) \in SUBSET net
  BY DEF Done
<1> QED
  BY <1>1, FitLess DEF StrangerInv

\* The monitors in the store after an answer for its hooks.
LEMMA StoreAfterFits ==
  ASSUME StrangerInv, NEW r, Heard(r), r.by = "store", NEW st, st = StoreAfter(r)
  PROVE  /\ DOMAIN st = {"list", "fresh", "loading"}
         /\ \A i \in DOMAIN st.list : /\ i \in Of("monitors")
                                      /\ i \in messy \/ (signedIn /\ Owner[i] = cookie)
<1>1. /\ DOMAIN store = {"list", "fresh", "loading"}
      /\ \A i \in DOMAIN store.list : /\ i \in Of("monitors")
                                      /\ i \in messy \/ (signedIn /\ Owner[i] = cookie)
  BY DEF StrangerInv, ShownInv
<1>2. PICK s : s = [store EXCEPT !.loading = FALSE]
  OBVIOUS
<1>3. DOMAIN s = {"list", "fresh", "loading"} /\ s.list = store.list
  BY <1>1, <1>2
<1>4. /\ r.op \in {"list", "create", "delete"}
      /\ Touched(r) \subseteq messy \/ (r.as = cookie /\ signedIn)
  BY DEF Heard, AskRow, SessionRow
<1>5. CASE ~r.ok
  <2>1. st = s
    BY <1>2, <1>5 DEF StoreAfter
  <2> QED
    BY <1>1, <1>3, <2>1
<1>6. CASE r.ok /\ r.op = "list"
  <2>1. st = [s EXCEPT !.list = r.data, !.fresh = TRUE]
    BY <1>2, <1>6 DEF StoreAfter
  <2>2. DOMAIN st = {"list", "fresh", "loading"} /\ st.list = r.data
    BY <1>3, <2>1
  <2>3. r.what = "monitors" /\ \A i \in DOMAIN r.data : i \in Of(r.what) /\ Owner[i] = r.as
    BY <1>6 DEF Heard, AskRow, SaidRow
  <2>4. Touched(r) = Of("monitors")
    BY <1>6, <2>3 DEF Touched
  <2> QED
    BY <1>4, <2>2, <2>3, <2>4
<1>7. CASE r.ok /\ r.op = "create"
  <2>1. st = [s EXCEPT !.list = Put(s.list, r.what, "on")]
    BY <1>2, <1>7 DEF StoreAfter
  <2>2. DOMAIN st = {"list", "fresh", "loading"} /\ DOMAIN st.list = DOMAIN s.list \union {r.what}
    BY <1>3, <2>1 DEF Put
  <2>3. r.what \in Of("monitors") /\ Owner[r.what] = r.as
    BY <1>7 DEF Heard, AskRow, SaidRow, Of
  <2>4. r.what \in Touched(r)
    BY <1>7, <2>3 DEF Touched, Of
  <2> QED
    BY <1>1, <1>3, <1>4, <2>2, <2>3, <2>4
<1>8. CASE r.ok /\ r.op = "delete"
  <2>1. st = [s EXCEPT !.list = Without(s.list, r.what)]
    BY <1>2, <1>8 DEF StoreAfter
  <2>2. DOMAIN st = {"list", "fresh", "loading"} /\ DOMAIN st.list \subseteq DOMAIN s.list
    BY <1>3, <2>1 DEF Without
  <2> QED
    BY <1>1, <1>3, <2>2
<1> QED
  BY <1>4, <1>5, <1>6, <1>7, <1>8

\* The rows of a page after an answer for it are of its kind.
LEMMA ViewAfterFits ==
  ASSUME StrangerInv, DOMAIN view = ViewFields, NEW r, Heard(r), r.by = "page",
         NEW v, v = ViewAfter(r)
  PROVE  DOMAIN v.list \subseteq Of(KindOf(route))
<1>1. DOMAIN view.list \subseteq Of(KindOf(route))
  BY DEF StrangerInv, ShownInv
<1>2. /\ r.op \in {"list", "panel", "set", "create", "delete", "test"}
      /\ r.op = "list" => route \in DOMAIN PageKind /\ r.what = PageKind[route]
      /\ r.op = "set" => /\ Kind[r.what] = KindOf(route)
                         /\ DOMAIN r.old \subseteq Of(KindOf(route))
  BY DEF Heard, AskRow
<1>3. CASE r.op = "list"
  <2>1. v = Loaded(r)
    BY <1>3 DEF ViewAfter
  <2>2. CASE ~r.ok
    BY <1>1, <2>1, <2>2 DEF Loaded, ViewFields
  <2>3. CASE r.ok
    <3>1. v.list = r.data
      BY <2>1, <2>3 DEF Loaded, ViewFields
    <3>2. \A i \in DOMAIN r.data : i \in Of(r.what)
      BY <1>3, <2>3 DEF Heard, SaidRow
    <3>3. KindOf(route) = r.what
      BY <1>2, <1>3 DEF KindOf, PageKind
    <3> QED
      BY <3>1, <3>2, <3>3
  <2> QED
    BY <2>2, <2>3
<1>4. CASE r.op = "panel"
  <2>1. v \in {PanelAfter(r), DetailAfter(r), PublicAfter(r)}
    BY <1>4 DEF ViewAfter
  <2>2. PICK w : w = PanelAfter(r)
    OBVIOUS
  <2>3. DOMAIN w = ViewFields /\ w.list = view.list
    BY <2>2 DEF PanelAfter, ViewFields
  <2>4. v = w \/ v = [w EXCEPT !.loading = FALSE]
    BY <2>1, <2>2 DEF DetailAfter, PublicAfter
  <2>5. v.list = view.list
    BY <2>3, <2>4 DEF ViewFields
  <2> QED
    BY <1>1, <2>5
<1>5. CASE r.op = "set" /\ route = "alerts"
  <2>1. v = ChannelSwitched(r)
    BY <1>5 DEF ViewAfter
  <2>2. v.list = view.list \/ v.list = Reverted(r)
    BY <2>1 DEF ChannelSwitched, ViewFields
  <2>3. DOMAIN Reverted(r) \subseteq DOMAIN view.list
    BY <1>5 DEF Reverted, Put
  <2> QED
    BY <1>1, <2>2, <2>3
<1>6. CASE r.op = "set" /\ route = "settings"
  <2>1. v = PrefSaved(r)
    BY <1>6 DEF ViewAfter
  <2>2. v.list = IF r.ok THEN r.data.prefs ELSE Reverted(r)
    BY <2>1 DEF PrefSaved, ViewFields
  <2>3. KindOf(route) = "prefs"
    BY <1>6 DEF KindOf
  <2>4. r.ok => DOMAIN r.data.prefs \subseteq Of("prefs")
    BY <1>2, <1>6, <2>3 DEF Heard, SaidRow
  <2>5. Reverted(r) = r.old
    BY <1>6 DEF Reverted
  <2> QED
    BY <1>2, <1>6, <2>2, <2>3, <2>4, <2>5
<1>7. CASE r.op = "set" /\ route \notin {"alerts", "settings"}
  <2>1. v = PageSaved(r)
    BY <1>7 DEF ViewAfter
  <2> QED
    BY <1>1, <2>1 DEF PageSaved, ViewFields
<1>8. CASE r.op = "create"
  <2>1. v = PageSaved(r)
    BY <1>8 DEF ViewAfter
  <2> QED
    BY <1>1, <2>1 DEF PageSaved, ViewFields
<1>9. CASE r.op = "delete"
  <2>1. v = Removed(r)
    BY <1>9 DEF ViewAfter
  <2>2. v.list = IF r.ok THEN Without(view.list, r.what) ELSE view.list
    BY <2>1 DEF Removed, ViewFields
  <2> QED
    BY <1>1, <2>2 DEF Without
<1>10. CASE r.op = "test"
  <2>1. v = Tested(r)
    BY <1>10 DEF ViewAfter
  <2> QED
    BY <1>1, <2>1 DEF Tested, ViewFields
<1> QED
  BY <1>2, <1>3, <1>4, <1>5, <1>6, <1>7, <1>8, <1>9, <1>10
\* Sending never takes anything back.
LEMMA SendDisturbs ==
  ASSUME NEW n, NEW requests, NEW late, Send(n, requests, late)
  PROVE  messy \subseteq messy' /\ late \subseteq messy'
BY DEF Send

\* Another subject: its panel is asked for, the rows stay.
LEMMA FocusFits ==
  ASSUME NEW s, NEW n, NEW late, Focus(s, n, late), DOMAIN view = ViewFields,
         RowsFit(n, route, messy \union late, cookie, signedIn)
  PROVE  /\ RowsFit(net', route, messy', cookie, signedIn)
         /\ messy \subseteq messy' /\ view'.list = view.list
<1>1. PICK q : q = Request("panel", s, "page", cookie)
  OBVIOUS
<1>2. PICK requests : requests = PanelRequest(s, cookie)
  OBVIOUS
<1>3. requests = <<q>> \/ requests = <<>>
  BY <1>1, <1>2 DEF PanelRequest
<1>4. Sent(q, route, cookie, signedIn)
  BY <1>1, FreeIsSent
<1>5. PICK w : w = Withdrawn(n)
  OBVIOUS
<1>6. Send(w, requests, late)
  BY <1>2, <1>5 DEF Focus
<1>7. w \in SUBSET n
  BY <1>5 DEF Withdrawn
<1>8. RowsFit(w, route, messy \union late, cookie, signedIn)
  BY <1>7, FitLess
<1>9. RowsFit(net', route, messy', cookie, signedIn)
  BY <1>3, <1>4, <1>6, <1>8, SendOneFits
<1>10. view'.list = view.list
  BY DEF Focus, ViewFields
<1>11. messy \subseteq messy'
  BY <1>6, SendDisturbs
<1> QED
  BY <1>9, <1>10, <1>11

\* A step in the same session, on the same page.
LEMMA SameSession ==
  ASSUME StrangerInv, RowsFit(net', route, messy', cookie, signedIn),
         UNCHANGED <<cookie, me, signedIn, initializing, route>>, messy \subseteq messy',
         ~initializing \/ \A x, y \in net' : x.op = "profile" /\ x = y,
         DOMAIN view'.list \subseteq Of(KindOf(route)),
         DOMAIN store' = {"list", "fresh", "loading"},
         \A i \in DOMAIN store'.list : /\ i \in Of("monitors")
                                       /\ i \in messy \/ (signedIn /\ Owner[i] = cookie)
  PROVE  StrangerInv'
<1>1. RowsFit(net, route, messy, cookie, signedIn)'
  OBVIOUS
<1>2. ShownInv'
  BY DEF StrangerInv, ShownInv
<1> QED
  BY <1>1, <1>2 DEF StrangerInv

\* The same, when the store and the rows of the page stay as well.
LEMMA SameLists ==
  ASSUME StrangerInv, RowsFit(net', route, messy', cookie, signedIn),
         UNCHANGED <<cookie, me, signedIn, initializing, route>>, messy \subseteq messy',
         ~initializing \/ \A x, y \in net' : x.op = "profile" /\ x = y,
         DOMAIN view'.list \subseteq Of(KindOf(route)),
         DOMAIN store' = DOMAIN store, store'.list = store.list
  PROVE  StrangerInv'
<1>1. /\ DOMAIN store' = {"list", "fresh", "loading"}
      /\ \A i \in DOMAIN store'.list : /\ i \in Of("monitors")
                                       /\ i \in messy \/ (signedIn /\ Owner[i] = cookie)
  BY DEF StrangerInv, ShownInv
<1> QED
  BY <1>1, SameSession

\* An answer for a hook of the store.
LEMMA StoreAnswerKeepsOwn ==
  ASSUME StrangerInv, DOMAIN view = ViewFields, NEW r, Heard(r), SettleStore(r)
  PROVE  StrangerInv'
<1>1. /\ r.by = "store" /\ store' = StoreAfter(r) /\ ~initializing
      /\ UNCHANGED <<cookie, me, signedIn, initializing, route>>
  BY DEF SettleStore, Heard, AskRow
<1>2. /\ DOMAIN store' = {"list", "fresh", "loading"}
      /\ \A i \in DOMAIN store'.list : /\ i \in Of("monitors")
                                       /\ i \in messy \/ (signedIn /\ Owner[i] = cookie)
  BY <1>1, StoreAfterFits
<1>3. PICK late : late = Missed(r)
  OBVIOUS
<1>4. PICK n : n = Done(net, r)
  OBVIOUS
<1>5. RowsFit(n, route, messy \union late, cookie, signedIn)
  BY <1>4, DoneFits
<1>6. PICK s : IF s # view.sel THEN Focus(s, n, late)
               ELSE /\ view' = IF r.op = "delete" /\ view.busy = r.what
                               THEN [view EXCEPT !.busy = None] ELSE view
                    /\ Send(n, <<>>, late)
  BY <1>3, <1>4 DEF SettleStore
<1>7. /\ RowsFit(net', route, messy', cookie, signedIn)
      /\ messy \subseteq messy' /\ view'.list = view.list
  <2>1. CASE s # view.sel
    BY <1>5, <1>6, <2>1, FocusFits
  <2>2. CASE s = view.sel
    <3>1. Send(n, <<>>, late) /\ (view' = view \/ view' = [view EXCEPT !.busy = None])
      BY <1>6, <2>2
    <3>2. view'.list = view.list
      BY <3>1 DEF ViewFields
    <3>3. RowsFit(net', route, messy', cookie, signedIn)
      BY <1>5, <3>1, SendNoneFits
    <3>4. messy \subseteq messy'
      BY <3>1, SendDisturbs
    <3> QED
      BY <3>2, <3>3, <3>4
  <2> QED
    BY <2>1, <2>2
<1>8. DOMAIN view'.list \subseteq Of(KindOf(route))
  BY <1>7 DEF StrangerInv, ShownInv
<1> QED
  BY <1>1, <1>2, <1>7, <1>8, SameSession

\* An answer for the navbar.
LEMMA BellAnswerKeepsOwn ==
  ASSUME StrangerInv, NEW r, Heard(r), SettleBell(r)
  PROVE  StrangerInv'
<1>1. /\ r.by = "bell" /\ Send(Done(net, r), <<>>, Missed(r)) /\ ~initializing
      /\ UNCHANGED <<cookie, me, signedIn, store, initializing, route, view>>
  BY DEF SettleBell, pageVars, Heard, AskRow
<1>2. PICK late : late = Missed(r)
  OBVIOUS
<1>3. RowsFit(Done(net, r), route, messy \union late, cookie, signedIn)
  BY DoneFits
<1>4. RowsFit(net', route, messy', cookie, signedIn)
  BY <1>1, <1>2, <1>3, SendNoneFits
<1>5. messy \subseteq messy'
  BY <1>1, SendDisturbs
<1>6. DOMAIN view'.list \subseteq Of(KindOf(route))
  BY <1>1 DEF StrangerInv, ShownInv
<1> QED
  BY <1>1, <1>4, <1>5, <1>6, SameLists

\* The user document that comes with a preference is that of the session.
LEMMA PrefIsOwn ==
  ASSUME NEW r, Heard(r), r.ok, r.op = "set", Kind[r.what] = "prefs"
  PROVE  /\ DOMAIN r.data.prefs \subseteq Of("prefs")
         /\ r.data.id = cookie \/ Of("prefs") \subseteq messy
<1>1. r.data.id = r.as /\ DOMAIN r.data.prefs \subseteq Of("prefs")
  BY DEF Heard, SaidRow
<1>2. Touched(r) = Of("prefs")
  BY DEF Touched
<1> QED
  BY <1>1, <1>2 DEF Heard, SessionRow

\* A step in the same session that may change the user document.
LEMMA SameStore ==
  ASSUME StrangerInv, RowsFit(net', route, messy', cookie, signedIn),
         UNCHANGED <<cookie, signedIn, store, initializing, route>>, messy \subseteq messy',
         ~initializing, DOMAIN view'.list \subseteq Of(KindOf(route)),
         me' = me \/ (/\ DOMAIN me'.prefs \subseteq Of("prefs")
                      /\ me'.id = cookie \/ Of("prefs") \subseteq messy)
  PROVE  StrangerInv'
<1>1. RowsFit(net, route, messy, cookie, signedIn)'
  OBVIOUS
<1>2. /\ me' # None => DOMAIN me'.prefs \subseteq Of("prefs")
      /\ signedIn => me'.id = cookie \/ Of("prefs") \subseteq messy'
  BY DEF StrangerInv, ShownInv
<1>3. \A i \in DOMAIN store'.list : /\ i \in Of("monitors")
                                    /\ i \in messy' \/ (signedIn /\ Owner[i] = cookie)
  BY DEF StrangerInv, ShownInv
<1>4. ShownInv'
  BY <1>2, <1>3 DEF StrangerInv, ShownInv
<1> QED
  BY <1>1, <1>4 DEF StrangerInv

\* An answer for the page.
LEMMA PageAnswerKeepsOwn ==
  ASSUME StrangerInv, RoomInv, DOMAIN view = ViewFields, NEW r, Heard(r), SettlePage(r)
  PROVE  StrangerInv'
<1>1. /\ r.by = "page" /\ ~initializing
      /\ UNCHANGED <<cookie, signedIn, store, initializing, route>>
  BY DEF SettlePage, Heard, AskRow
<1>2. PICK v : v = ViewAfter(r)
  OBVIOUS
<1>3. DOMAIN v.list \subseteq Of(KindOf(route)) /\ DOMAIN v = ViewFields
  <2>1. DOMAIN v.list \subseteq Of(KindOf(route))
    BY <1>1, <1>2, ViewAfterFits
  <2>2. r.op \in {"list", "panel", "set", "create", "delete", "test"}
    BY <1>1 DEF Heard, AskRow
  <2>3. DOMAIN v = ViewFields
    BY <1>2, <2>2, ViewAfterFields
  <2> QED
    BY <2>1, <2>3
<1>4. view' = v \/ view' = [v EXCEPT !.loading = TRUE]
  BY <1>2 DEF SettlePage
<1>5. DOMAIN view'.list \subseteq Of(KindOf(route))
  BY <1>3, <1>4 DEF ViewFields
<1>6. PICK q : q = Request("list", PageKind[route], "page", cookie)
  OBVIOUS
<1>7. PICK requests : requests = IF Reloads(r) THEN <<q>> ELSE <<>>
  OBVIOUS
<1>8. ASSUME Reloads(r) PROVE Sent(q, route, cookie, signedIn)
  <2>1. r.op \in {"create", "test"} \/ (r.op = "set" /\ route = "status-pages")
    BY <1>8 DEF Reloads
  <2>2. route \in {"alerts", "status-pages"}
    BY <1>1, <2>1 DEF Heard, AskRow
  <2>3. route \in DOMAIN PageKind /\ signedIn = TRUE
    BY <1>1, <2>2 DEF RoomInv, PageKind, Protected
  <2>4. Sent(q, route, cookie, TRUE)
    BY <1>6, <2>3, ListIsSent
  <2> QED
    BY <2>3, <2>4
<1>9. PICK late : late = Missed(r)
  OBVIOUS
<1>10. Send(Done(net, r), requests, late)
  BY <1>6, <1>7, <1>9 DEF SettlePage
<1>11. RowsFit(Done(net, r), route, messy \union late, cookie, signedIn)
  BY DoneFits
<1>12. RowsFit(net', route, messy', cookie, signedIn)
  BY <1>7, <1>8, <1>10, <1>11, SendOneFits
<1>13. messy \subseteq messy'
  BY <1>10, SendDisturbs
<1>14. me' = me \/ (/\ DOMAIN me'.prefs \subseteq Of("prefs")
                    /\ me'.id = cookie \/ Of("prefs") \subseteq messy)
  <2> SUFFICES ASSUME me' # me
               PROVE  /\ DOMAIN me'.prefs \subseteq Of("prefs")
                      /\ me'.id = cookie \/ Of("prefs") \subseteq messy
    OBVIOUS
  <2>1. r.op = "set" /\ route = "settings" /\ r.ok /\ me' = r.data
    BY DEF SettlePage
  <2>2. Kind[r.what] = "prefs"
    BY <1>1, <2>1 DEF Heard, AskRow, KindOf
  <2> QED
    BY <2>1, <2>2, PrefIsOwn
<1> QED
  BY <1>1, <1>5, <1>12, <1>13, <1>14, SameStore

\* The rows of Settings are preferences.
LEMMA WithUserFits ==
  ASSUME NEW u, DOMAIN view = ViewFields, DOMAIN view.list \subseteq Of(KindOf(route)),
         DOMAIN u.prefs \subseteq Of("prefs")
  PROVE  DOMAIN WithUser(u).list \subseteq Of(KindOf(route))
<1>1. CASE route = "settings"
  <2>1. WithUser(u).list = u.prefs /\ KindOf(route) = "prefs"
    BY <1>1 DEF WithUser, ViewFields, KindOf
  <2> QED
    BY <2>1
<1>2. CASE route # "settings"
  BY <1>2 DEF WithUser
<1> QED
  BY <1>1, <1>2

\* An answer that nobody waits for.
LEMMA GoneAnswerKeepsOwn ==
  ASSUME StrangerInv, DOMAIN view = ViewFields, NEW r, Heard(r), SettleGone(r)
  PROVE  StrangerInv'
<1>1. /\ r.by = "gone" /\ Send(Done(net, r), <<>>, {}) /\ ~initializing
      /\ UNCHANGED <<cookie, signedIn, store, initializing, route>>
  BY DEF SettleGone, Heard, AskRow
<1>2. RowsFit(Done(net, r), route, messy \union {}, cookie, signedIn)
  BY DoneFits
<1>3. RowsFit(net', route, messy', cookie, signedIn)
  BY <1>1, <1>2, SendNoneFits
<1>4. messy \subseteq messy'
  BY <1>1, SendDisturbs
<1>5. DOMAIN view.list \subseteq Of(KindOf(route))
  BY DEF StrangerInv, ShownInv
<1>6. \/ me' = me /\ view' = view
      \/ /\ r.op = "set" /\ Kind[r.what] = "prefs" /\ r.ok
         /\ me' = r.data /\ view' = WithUser(r.data)
  BY DEF SettleGone
<1>7. CASE me' = me /\ view' = view
  BY <1>1, <1>3, <1>4, <1>5, <1>7, SameStore
<1>8. CASE /\ r.op = "set" /\ Kind[r.what] = "prefs" /\ r.ok
           /\ me' = r.data /\ view' = WithUser(r.data)
  <2>1. /\ DOMAIN me'.prefs \subseteq Of("prefs")
        /\ me'.id = cookie \/ Of("prefs") \subseteq messy
    BY <1>8, PrefIsOwn
  <2>2. DOMAIN view'.list \subseteq Of(KindOf(route))
    BY <1>5, <1>8, <2>1, WithUserFits
  <2> QED
    BY <1>1, <1>3, <1>4, <2>1, <2>2, SameStore
<1> QED
  BY <1>6, <1>7, <1>8
\* A page is shown without rows, or Settings with the preferences of the user.
LEMMA FreshFits ==
  ASSUME NEW rt, NEW subject, NEW u, u # None => DOMAIN u.prefs \subseteq Of("prefs")
  PROVE  DOMAIN Fresh(rt, subject, u).list \subseteq Of(KindOf(rt))
<1>1. CASE rt = "settings" /\ u # None
  <2>1. Fresh(rt, subject, u).list = u.prefs /\ KindOf(rt) = "prefs"
    BY <1>1 DEF Fresh, KindOf
  <2> QED
    BY <1>1, <2>1
<1>2. CASE ~(rt = "settings" /\ u # None)
  <2>1. Fresh(rt, subject, u).list = <<>>
    BY <1>2 DEF Fresh
  <2>2. DOMAIN <<>> = {}
    OBVIOUS
  <2> QED
    BY <2>1, <2>2
<1> QED
  BY <1>1, <1>2

\* A page is shown: to a session, or without one when it needs none.
LEMMA ShowKeepsOwn ==
  ASSUME StrangerInv, NEW rt, NEW subject, NEW n, NEW c, NEW u, NEW as, NEW late,
         NEW remount, Show(rt, subject, store, n, c, u, as, late, remount),
         NEW rt2, RowsFit(n, rt2, messy \union late, cookie', signedIn'),
         signedIn' \in BOOLEAN, rt \in Protected => signedIn', signedIn' => as = cookie',
         ~initializing', rt = "login" => ~signedIn',
         u # None => DOMAIN u.prefs \subseteq Of("prefs"),
         me' # None => DOMAIN me'.prefs \subseteq Of("prefs"),
         signedIn' => me'.id = cookie' \/ Of("prefs") \subseteq messy,
         \A i \in DOMAIN store.list : i \in messy \/ (signedIn' /\ Owner[i] = cookie')
  PROVE  StrangerInv'
<1>1. route' = rt /\ view' = Fresh(rt, subject, u)
      /\ (store' = store \/ store' = [store EXCEPT !.loading = TRUE])
  BY DEF Show
<1>2. RowsFit(net', rt, messy', cookie', signedIn')
  <2>1. PICK ck : ck = cookie'
    OBVIOUS
  <2>2. PICK in : in = signedIn' /\ (in = TRUE \/ in = FALSE)
    OBVIOUS
  <2>3. RowsFit(n, rt2, messy \union late, ck, in) /\ (rt \in Protected => in) /\ (in => as = ck)
    BY <2>1, <2>2
  <2>4. RowsFit(net', rt, messy', ck, in)
    BY <2>2, <2>3, ShowFits
  <2> QED
    BY <2>1, <2>2, <2>4
<1>3. messy \subseteq messy'
  BY SendDisturbs DEF Show
<1>4. DOMAIN view'.list \subseteq Of(KindOf(rt))
  BY <1>1, FreshFits
<1>5. DOMAIN store' = {"list", "fresh", "loading"} /\ store'.list = store.list
  BY <1>1 DEF StrangerInv, ShownInv
<1>6. \A i \in DOMAIN store'.list : /\ i \in Of("monitors")
                                    /\ i \in messy' \/ (signedIn' /\ Owner[i] = cookie')
  BY <1>3, <1>5 DEF StrangerInv, ShownInv
<1>7. ShownInv'
  BY <1>1, <1>3, <1>4, <1>5, <1>6 DEF ShownInv
<1>8. RowsFit(net, route, messy, cookie, signedIn)'
  BY <1>1, <1>2
<1> QED
  BY <1>7, <1>8 DEF StrangerInv

\* The first answer of a tab.
LEMMA FirstProfileKeepsOwn ==
  ASSUME StrangerInv, RoomInv, NEW r, Heard(r), SettleFirstProfile(r)
  PROVE  StrangerInv'
<1>1. r.op = "profile" /\ initializing /\ initializing' = FALSE /\ SessionAfter(r)
  BY DEF SettleFirstProfile
<1>2. ~signedIn /\ Done(net, r) = {}
  BY <1>1 DEF Heard, StrangerInv, ShownInv
<1>3. /\ cookie' = cookie /\ signedIn' \in BOOLEAN
      /\ \/ r.ok /\ me' = r.data /\ signedIn'
         \/ ~signedIn' /\ me' = me
  BY <1>1, <1>2 DEF SessionAfter, RoomInv
<1>4. /\ me' # None => DOMAIN me'.prefs \subseteq Of("prefs")
      /\ signedIn' => me'.id = cookie' \/ Of("prefs") \subseteq messy
  <2>1. CASE r.ok /\ me' = r.data /\ signedIn'
    <3>1. r.data.id = r.as /\ DOMAIN r.data.prefs \subseteq Of("prefs")
      BY <1>1, <2>1 DEF Heard, SaidRow
    <3>2. Touched(r) = Of("prefs")
      BY <1>1 DEF Touched
    <3>3. r.as = cookie \/ Of("prefs") \subseteq messy
      BY <3>2 DEF Heard, SessionRow
    <3> QED
      BY <1>3, <2>1, <3>1, <3>3
  <2>2. CASE ~signedIn' /\ me' = me
    BY <2>2 DEF StrangerInv, ShownInv
  <2> QED
    BY <1>3, <2>1, <2>2
<1>5. PICK q : q = Request("profile", None, "session", cookie)
  OBVIOUS
<1>6. PICK n : n = Post(Done(net, r), q)
  OBVIOUS
<1>7. PICK rt, s : /\ rt = Redirected(route, signedIn')
                   /\ Show(rt, s, store, n, conn, me', cookie, {}, FALSE)
  BY <1>1, <1>5, <1>6 DEF SettleFirstProfile
<1>8. RowsFit(n, route, messy \union {}, cookie', signedIn')
  <2>1. PICK t : n = {[q EXCEPT !.tag = t]}
    <3>1. n = {[<<q>>[k] EXCEPT !.tag = FreeTag({}, k)] : k \in {1}}
      BY <1>2, <1>6 DEF Post, PostAll
    <3>2. n = {[q EXCEPT !.tag = FreeTag({}, 1)]}
      BY <3>1
    <3> QED
      BY <3>2
  <2>2. PICK x : x = [q EXCEPT !.tag = t]
    OBVIOUS
  <2>3. /\ DOMAIN q = RequestFields /\ q.op = "profile" /\ q.by = "session"
        /\ q.as = cookie /\ q.stage = "sent"
    BY <1>5 DEF Request, RequestFields
  <2>4. /\ DOMAIN x = RequestFields /\ x.op = "profile" /\ x.by = "session"
        /\ x.as = cookie /\ x.stage = "sent"
    BY <2>2, <2>3 DEF RequestFields
  <2>5. AskRow(x, route) /\ SaidRow(x) /\ SessionRow(x, messy \union {}, cookie', signedIn')
    BY <1>3, <2>4 DEF AskRow, SaidRow, SessionRow
  <2> QED
    BY <2>1, <2>2, <2>5 DEF RowsFit
<1>9. rt \in Protected => signedIn'
  BY <1>7 DEF Redirected, Protected, PageKind
<1>10. rt = "login" => ~signedIn'
  BY <1>7 DEF Redirected
<1>11. \A i \in DOMAIN store.list : i \in messy \/ (signedIn' /\ Owner[i] = cookie')
  BY <1>2 DEF StrangerInv, ShownInv
<1> QED
  BY <1>1, <1>3, <1>4, <1>7, <1>8, <1>9, <1>10, <1>11, ShowKeepsOwn

\* Nothing of the session before survives a sign-in undisturbed.
LEMMA SignInFits ==
  ASSUME StrangerInv, RoomInv, NEW r, Heard(r), r.op \in {"profile", "login"},
         SessionAfter(r), NEW late, (r.op = "login" /\ signedIn) => late = Item
  PROVE  RowsFit(Done(net, r), route, messy \union late, cookie', signedIn')
<1>1. PICK m : m = messy \union late
  OBVIOUS
<1>2. PICK n : n = Done(net, r)
  OBVIOUS
<1>3. RowsFit(n, route, m, cookie, signedIn)
  BY <1>1, <1>2, DoneFits
<1>4. CASE cookie' = cookie
  <2>1. signedIn => signedIn'
    BY SessionEffect DEF RoomInv
  <2>2. \A x \in n : SessionRow(x, m, cookie', signedIn')
    BY <1>3, <1>4, <2>1 DEF RowsFit, SessionRow
  <2> QED
    BY <1>1, <1>2, <1>3, <2>2 DEF RowsFit
<1>5. CASE cookie' # cookie
  <2>1. r.op = "login"
    BY <1>5 DEF SessionAfter
  <2>2. ASSUME NEW x \in n PROVE Touched(x) \subseteq m
    <3>1. AskRow(x, route) /\ SessionRow(x, m, cookie, signedIn)
      BY <1>3 DEF RowsFit
    <3>2. CASE signedIn
      BY <1>1, <2>1, <3>1, <3>2, TouchedItems
    <3>3. CASE ~signedIn
      <4>1. Touched(x) \subseteq m \/ x.op \in {"profile", "login", "logout"}
        BY <3>1, <3>3 DEF SessionRow, AskRow
      <4>2. x.op = "logout" => Touched(x) = {}
        BY DEF Touched
      <4>3. x.op \in {"profile", "login"} => Touched(x) = Touched(r)
        BY <2>1 DEF Touched
      <4>4. Touched(r) \intersect Touched(x) \subseteq messy
        BY <1>2, <2>1 DEF Heard, Apart
      <4> QED
        BY <1>1, <4>1, <4>2, <4>3, <4>4
    <3> QED
      BY <3>2, <3>3
  <2>3. \A x \in n : SessionRow(x, m, cookie', signedIn')
    BY <2>2 DEF SessionRow
  <2> QED
    BY <1>1, <1>2, <1>3, <2>3 DEF RowsFit
<1> QED
  BY <1>4, <1>5

\* The session after a sign-in, or a late profile, is about its own account.
LEMMA SignedInOwn ==
  ASSUME StrangerInv, RoomInv, NEW r, Heard(r), r.op \in {"profile", "login"},
         SessionAfter(r)
  PROVE  /\ signedIn' \in BOOLEAN
         /\ me' # None => DOMAIN me'.prefs \subseteq Of("prefs")
         /\ signedIn' => me'.id = cookie' \/ Of("prefs") \subseteq messy
         /\ r.ok => me' = r.data /\ DOMAIN r.data.prefs \subseteq Of("prefs")
         /\ ~r.ok => UNCHANGED <<me, signedIn, cookie>>
<1>1. CASE r.ok
  <2>1. /\ me' = r.data /\ signedIn' = TRUE
        /\ cookie' = IF r.op = "login" THEN r.data.id ELSE cookie
    BY <1>1 DEF SessionAfter
  <2>2. /\ DOMAIN r.data.prefs \subseteq Of("prefs")
        /\ r.op = "profile" => r.data.id = r.as
    BY <1>1 DEF Heard, SaidRow
  <2>3. r.op = "profile" => Touched(r) = Of("prefs")
    BY DEF Touched
  <2>4. r.op = "profile" => r.as = cookie \/ Of("prefs") \subseteq messy
    BY <2>3 DEF Heard, SessionRow
  <2> QED
    BY <1>1, <2>1, <2>2, <2>4
<1>2. CASE ~r.ok
  <2>1. UNCHANGED <<me, signedIn, cookie>>
    BY <1>2 DEF SessionAfter
  <2> QED
    BY <1>2, <2>1 DEF StrangerInv, ShownInv, RoomInv
<1> QED
  BY <1>1, <1>2

\* An answer for a sign-in, or a late profile.
LEMMA SignInKeepsOwn ==
  ASSUME StrangerInv, RoomInv, DOMAIN view = ViewFields, NEW r, Heard(r), SettleSignIn(r)
  PROVE  StrangerInv'
<1>1. r.op \in {"profile", "login"} /\ SessionAfter(r) /\ ~initializing /\ ~initializing'
  BY DEF SettleSignIn
<1>2. /\ signedIn' \in BOOLEAN
      /\ me' # None => DOMAIN me'.prefs \subseteq Of("prefs")
      /\ signedIn' => me'.id = cookie' \/ Of("prefs") \subseteq messy
      /\ r.ok => me' = r.data /\ DOMAIN r.data.prefs \subseteq Of("prefs")
      /\ ~r.ok => UNCHANGED <<me, signedIn, cookie>>
  BY <1>1, SignedInOwn
<1>3. (signedIn => signedIn') /\ (~(r.op = "login") => cookie' = cookie)
  BY <1>1, SessionEffect DEF RoomInv
<1>4. CASE route = "login" /\ signedIn'
  <2>1. PICK s : Show("dashboard", s, store, Done(net, r), conn, me', cookie', {}, FALSE)
    BY <1>4 DEF SettleSignIn
  <2>2. ~signedIn
    BY <1>1, <1>4 DEF StrangerInv, ShownInv
  <2>3. RowsFit(Done(net, r), route, messy \union {}, cookie', signedIn')
    BY <1>1, <2>2, SignInFits
  <2>4. \A i \in DOMAIN store.list : i \in messy \/ (signedIn' /\ Owner[i] = cookie')
    BY <2>2 DEF StrangerInv, ShownInv
  <2>5. PICK n : n = Done(net, r)
    OBVIOUS
  <2>6. RowsFit(n, route, messy \union {}, cookie', signedIn')
    BY <2>3, <2>5
  <2>7. PICK u, as : /\ u = me' /\ as = cookie'
                     /\ Show("dashboard", s, store, n, conn, u, as, {}, FALSE)
    BY <2>1, <2>5
  <2>8. /\ "dashboard" \in Protected => signedIn'
        /\ signedIn' => as = cookie'
        /\ "dashboard" = "login" => ~signedIn'
        /\ u # None => DOMAIN u.prefs \subseteq Of("prefs")
    BY <1>2, <1>4, <2>7
  <2> QED
    BY <1>1, <1>2, <2>4, <2>6, <2>7, <2>8, ShowKeepsOwn
<1>5. CASE ~(route = "login" /\ signedIn')
  <2>1. PICK late : late = IF r.op = "login" /\ signedIn THEN Item ELSE {}
    OBVIOUS
  <2>2. /\ Send(Done(net, r), <<>>, late) /\ store' = store /\ route' = route
        /\ \/ r.ok /\ view' = WithUser(me')
           \/ view' = [view EXCEPT !.saving = FALSE] \/ view' = view
    BY <1>5, <2>1 DEF SettleSignIn
  <2>3. RowsFit(Done(net, r), route, messy \union late, cookie', signedIn')
    BY <1>1, <2>1, SignInFits
  <2>4. RowsFit(net', route, messy', cookie', signedIn')
    BY <2>2, <2>3, SendNoneFits
  <2>5. messy \subseteq messy' /\ late \subseteq messy'
    BY <2>2, SendDisturbs
  <2>6. DOMAIN view.list \subseteq Of(KindOf(route))
    BY DEF StrangerInv, ShownInv
  <2>7. DOMAIN view'.list \subseteq Of(KindOf(route))
    <3>1. CASE r.ok /\ view' = WithUser(me')
      BY <1>2, <2>6, <3>1, WithUserFits
    <3>2. CASE view' = [view EXCEPT !.saving = FALSE] \/ view' = view
      BY <2>6, <3>2 DEF ViewFields
    <3> QED
      BY <2>2, <3>1, <3>2
  <2>8. \A i \in DOMAIN store.list : /\ i \in Of("monitors")
                                     /\ i \in messy' \/ (signedIn' /\ Owner[i] = cookie')
    <3>1. \A i \in DOMAIN store.list : /\ i \in Of("monitors") /\ i \in Item
                                       /\ i \in messy \/ (signedIn /\ Owner[i] = cookie)
      BY DEF StrangerInv, ShownInv, Of
    <3> QED
      BY <1>3, <2>1, <2>5, <3>1
  <2>9. ShownInv'
    BY <1>1, <1>2, <1>5, <2>2, <2>5, <2>7, <2>8 DEF StrangerInv, ShownInv
  <2>10. RowsFit(net, route, messy, cookie, signedIn)'
    BY <2>2, <2>4
  <2> QED
    BY <2>9, <2>10 DEF StrangerInv
<1> QED
  BY <1>4, <1>5

\* After a logout all that is under way is for nobody, and the store is empty.
LEMMA LogoutKeepsOwn ==
  ASSUME StrangerInv, RoomInv, NEW r, Heard(r), SettleLogout(r)
  PROVE  StrangerInv'
<1>1. r.op = "logout" /\ SessionAfter(r) /\ initializing' = initializing /\ ~initializing
  BY DEF SettleLogout, Heard
<1>2. me' = None /\ ~signedIn' /\ signedIn' \in BOOLEAN
  BY <1>1 DEF SessionAfter
<1>3. PICK n : n = Done(net, r)
  OBVIOUS
<1>4. PICK late : late = UNION {Touched(x) : x \in n}
  OBVIOUS
<1>5. PICK c : c = DisconnectSocket(conn)
  OBVIOUS
<1>6. RowsFit(n, route, messy \union late, cookie', signedIn')
  <2>1. RowsFit(n, route, messy \union late, cookie, signedIn)
    BY <1>3, DoneFits
  <2>2. \A x \in n : SessionRow(x, messy \union late, cookie', signedIn')
    BY <1>4 DEF SessionRow
  <2> QED
    BY <2>1, <2>2 DEF RowsFit
<1>7. Wiped = EmptyStore /\ DOMAIN EmptyStore = {"list", "fresh", "loading"}
      /\ DOMAIN EmptyStore.list = {}
  <2>1. EmptyStore.list = <<>> /\ DOMAIN <<>> = {}
    BY DEF EmptyStore
  <2> QED
    BY <2>1 DEF Wiped, EmptyStore
<1>8. CASE route \in Protected
  <2>1. Show("login", None, Wiped, n, c, None, None, late, FALSE)
    BY <1>3, <1>4, <1>5, <1>8 DEF SettleLogout
  <2>2. "login" \notin Protected
    BY DEF Protected, PageKind
  <2>3. RowsFit(net', "login", messy', cookie', signedIn')
    <3>1. PICK ck, in : ck = cookie' /\ in = signedIn'
      OBVIOUS
    <3>2. RowsFit(n, route, messy \union late, ck, in) /\ in = FALSE
      BY <1>2, <1>6, <3>1
    <3>3. RowsFit(net', "login", messy', ck, in)
      BY <2>1, <2>2, <3>2, ShowFits
    <3> QED
      BY <3>1, <3>3
  <2>4. route' = "login" /\ view' = Fresh("login", None, None) /\ store' = Wiped
    BY <2>1 DEF Show
  <2>5. DOMAIN view'.list \subseteq Of(KindOf("login"))
    BY <2>4, FreshFits
  <2>6. ShownInv'
    BY <1>1, <1>2, <1>7, <2>4, <2>5 DEF ShownInv
  <2>7. RowsFit(net, route, messy, cookie, signedIn)'
    BY <2>3, <2>4
  <2> QED
    BY <2>6, <2>7 DEF StrangerInv
<1>9. CASE route \notin Protected
  <2>0. /\ store' = Wiped /\ Send(n, <<>>, late) /\ route' = route
        /\ view' = [view EXCEPT !.saving = FALSE]
    BY <1>3, <1>4, <1>9 DEF SettleLogout
  <2>1. /\ store' = Wiped /\ Send(n, <<>>, late) /\ route' = route /\ view'.list = view.list
    BY <2>0
  <2>2. RowsFit(net', route, messy', cookie', signedIn')
    BY <1>6, <2>1, SendNoneFits
  <2>3. DOMAIN view'.list \subseteq Of(KindOf(route))
    BY <2>1 DEF StrangerInv, ShownInv
  <2>4. ShownInv'
    BY <1>1, <1>2, <1>7, <2>1, <2>3 DEF ShownInv
  <2>5. RowsFit(net, route, messy, cookie, signedIn)'
    BY <2>1, <2>2
  <2> QED
    BY <2>4, <2>5 DEF StrangerInv
<1> QED
  BY <1>8, <1>9

\* Any answer.
LEMMA AnswerKeepsOwn ==
  ASSUME StrangerInv, RoomInv, DOMAIN view = ViewFields, NEW r, Heard(r), SettleAnswered(r)
  PROVE  StrangerInv'
BY StoreAnswerKeepsOwn, BellAnswerKeepsOwn, PageAnswerKeepsOwn, GoneAnswerKeepsOwn,
   FirstProfileKeepsOwn, SignInKeepsOwn, LogoutKeepsOwn DEF SettleAnswered
\* A request in the place of another for the same.
LEMMA ReplaceFits ==
  ASSUME NEW n, NEW rt, NEW m, NEW as, NEW in, RowsFit(n, rt, m, as, in),
         NEW r \in n, NEW x, AskRow(x, rt), SaidRow(x), Touched(x) = Touched(r),
         x.op = r.op, x.by = r.by, x.as = r.as
  PROVE  RowsFit((n \ {r}) \union {x}, rt, m, as, in)
<1>1. SessionRow(x, m, as, in)
  BY DEF RowsFit, SessionRow
<1>2. ASSUME NEW y \in n, y # r PROVE Apart(x, y, m) /\ Apart(y, x, m)
  <2>1. Apart(r, y, m) /\ Apart(y, r, m)
    BY <1>2 DEF RowsFit
  <2> QED
    BY <2>1 DEF Apart
<1> QED
  BY <1>1, <1>2 DEF RowsFit

\* One more request, for what is disturbed anyway or nothing.
LEMMA PostFits ==
  ASSUME NEW n, NEW rt, NEW m, NEW as, NEW in, RowsFit(n, rt, m, as, in),
         NEW q, AskRow(q, rt), SaidRow(q), Touched(q) \subseteq m
  PROVE  RowsFit(Post(n, q), rt, m, as, in)
<1>1. PICK x : Post(n, q) = n \union {x} /\ \E t : x = [q EXCEPT !.tag = t]
  <2>1. Post(n, q) = n \union {[<<q>>[k] EXCEPT !.tag = FreeTag(n, k)] : k \in {1}}
    BY DEF Post, PostAll
  <2>2. Post(n, q) = n \union {[q EXCEPT !.tag = FreeTag(n, 1)]}
    BY <2>1
  <2> QED
    BY <2>2
<1>2. DOMAIN q = RequestFields
  BY DEF AskRow
<1>3. /\ DOMAIN x = RequestFields
      /\ x.op = q.op /\ x.what = q.what /\ x.by = q.by /\ x.as = q.as /\ x.old = q.old
      /\ x.stage = q.stage /\ x.ok = q.ok /\ x.data = q.data
  BY <1>1, <1>2 DEF RequestFields
<1>4. Touched(x) \subseteq m
  BY <1>3, SameTouched
<1>5. AskRow(x, rt)
  BY <1>3 DEF AskRow
<1>6. SaidRow(x)
  BY <1>3 DEF SaidRow
<1>7. SessionRow(x, m, as, in)
  BY <1>4 DEF SessionRow
<1>8. \A y \in n : Apart(x, y, m) /\ Apart(y, x, m)
  BY <1>4 DEF Apart
<1> QED
  BY <1>1, <1>5, <1>6, <1>7, <1>8 DEF RowsFit

\* The server handles a request, or its answer is lost.
LEMMA NetKeepsOwn ==
  ASSUME StrangerInv, OfNet
  PROVE  StrangerInv'
<1>1. UNCHANGED <<cookie, me, signedIn, store, initializing, route, view>>
  BY DEF OfNet, Serve, Lose, pageVars
<1>2. PICK r \in net : Serve(r) \/ Lose(r)
  BY DEF OfNet
<1>3. RowsFit(net, route, messy, cookie, signedIn)
  BY DEF StrangerInv
<1>4. AskRow(r, route) /\ DOMAIN r = RequestFields
  BY <1>3 DEF RowsFit, AskRow
<1>5. DOMAIN view'.list \subseteq Of(KindOf(route))
  BY <1>1 DEF StrangerInv, ShownInv
<1>6. initializing => r.op = "profile" /\ net \ {r} = {}
  BY DEF StrangerInv, ShownInv
<1>7. CASE Serve(r)
  <2>1. PICK x : x = Answered(r)
    OBVIOUS
  <2>2. /\ AskRow(x, route) /\ SaidRow(x) /\ Touched(x) = Touched(r)
        /\ x.op = r.op /\ x.by = r.by /\ x.as = r.as
    BY <1>4, <2>1, AnsweredFits
  <2>3. net' = (net \ {r}) \union {x} /\ messy' = messy /\ ~initializing
    BY <1>6, <1>7, <2>1 DEF Serve, AtOnce
  <2>4. RowsFit(net', route, messy', cookie, signedIn)
    BY <1>3, <2>2, <2>3, ReplaceFits
  <2> QED
    BY <1>1, <1>5, <2>3, <2>4, SameLists
<1>8. CASE Lose(r)
  <2>1. PICK x : x = [r EXCEPT !.stage = "answered", !.ok = FALSE, !.data = None]
    OBVIOUS
  <2>2. /\ DOMAIN x = RequestFields
        /\ x.op = r.op /\ x.what = r.what /\ x.by = r.by /\ x.as = r.as /\ x.old = r.old
        /\ x.ok = FALSE
    BY <1>4, <2>1 DEF RequestFields
  <2>3. AskRow(x, route)
    BY <1>4, <2>2 DEF AskRow
  <2>4. SaidRow(x)
    BY <2>2 DEF SaidRow
  <2>5. Touched(x) = Touched(r)
    BY <2>2, SameTouched
  <2>6. PICK n : n = (net \ {r}) \union {x}
    OBVIOUS
  <2>7. RowsFit(n, route, messy, cookie, signedIn)
    BY <1>3, <2>2, <2>3, <2>4, <2>5, <2>6, ReplaceFits
  <2>8. messy \subseteq messy'
    BY <1>8 DEF Lose
  <2>9. PICK g : g = [r EXCEPT !.by = "gone"]
    OBVIOUS
  <2>10. \/ net' = n
         \/ /\ r.stage = "sent" /\ r.op \in {"create", "set", "delete"}
            /\ net' = Post(n, g) /\ messy' = messy \union Touched(r)
    BY <1>8, <2>1, <2>6, <2>9 DEF Lose
  <2>11. RowsFit(n, route, messy', cookie, signedIn)
    <3>1. n \in SUBSET n
      OBVIOUS
    <3> QED
      BY <2>7, <2>8, <3>1, FitLess
  <2>12. RowsFit(net', route, messy', cookie, signedIn)
    <3>1. CASE net' = n
      BY <2>11, <3>1
    <3>2. CASE /\ r.stage = "sent" /\ r.op \in {"create", "set", "delete"}
               /\ net' = Post(n, g) /\ messy' = messy \union Touched(r)
      <4>1. /\ DOMAIN g = RequestFields /\ g.op = r.op /\ g.what = r.what /\ g.by = "gone"
            /\ g.stage = "sent"
        BY <1>4, <2>9, <3>2 DEF RequestFields
      <4>2. AskRow(g, route)
        BY <1>4, <3>2, <4>1 DEF AskRow
      <4>3. SaidRow(g)
        BY <4>1 DEF SaidRow
      <4>4. Touched(g) \subseteq messy'
        <5>1. Touched(g) = Touched(r)
          BY <4>1, SameTouched
        <5> QED
          BY <3>2, <5>1
      <4> QED
        BY <2>11, <3>2, <4>2, <4>3, <4>4, PostFits
    <3> QED
      BY <2>10, <3>1, <3>2
  <2>13. ~initializing \/ \A y, z \in net' : y.op = "profile" /\ y = z
    <3>1. initializing => net' = {x}
      BY <1>6, <2>6, <2>10
    <3> QED
      BY <1>6, <2>2, <3>1
  <2> QED
    BY <1>1, <1>5, <2>8, <2>12, <2>13, SameLists
<1> QED
  BY <1>2, <1>7, <1>8

\* A step that sends nothing and changes no page, session or list.
LEMMA QuietOwn ==
  ASSUME StrangerInv, UNCHANGED <<net, messy, cookie, me, signedIn, initializing, route, view>>,
         DOMAIN store' = DOMAIN store, store'.list = store.list
  PROVE  StrangerInv'
<1>1. /\ RowsFit(net', route, messy', cookie, signedIn)
      /\ ~initializing \/ \A x, y \in net' : x.op = "profile" /\ x = y
      /\ DOMAIN view'.list \subseteq Of(KindOf(route))
  BY DEF StrangerInv, ShownInv
<1> QED
  BY <1>1, SameLists

\* The socket, and the hands on the shell: the navbar asks for a session only.
LEMMA ShellKeepsOwn ==
  ASSUME StrangerInv, RoomInv, OfSocket \/ OnShell
  PROVE  StrangerInv'
<1>1. UNCHANGED <<cookie, me, signedIn, store, initializing, route, view>>
  BY DEF OfSocket, OnShell, pageVars, dataVars, Handshake, Established, Refused, Drop, Offline,
         Emit, LookAtBadge, Say, Retry, IncidentOpens
<1>2. CASE Established \/ LookAtBadge
  <2>1. PICK q : q = Request("list", "incidents", "bell", cookie)
    OBVIOUS
  <2>2. PICK requests : /\ Send(net, requests, {})
                        /\ requests = <<q>> \/ requests = <<>>
                        /\ requests = <<q>> => ShellShown
    BY <1>2, <2>1 DEF Established, LookAtBadge, Resyncs, LoadBadge
  <2>3. requests = <<q>> => Sent(q, route, cookie, signedIn) /\ ~initializing
    <3>1. Sent(q, route, cookie, TRUE)
      BY <2>1, ListIsSent
    <3>2. ShellShown => signedIn = TRUE /\ ~initializing
      BY DEF RoomInv, StrangerInv, ShownInv
    <3> QED
      BY <2>2, <3>1, <3>2
  <2>4. RowsFit(net, route, messy \union {}, cookie, signedIn)
    BY DEF StrangerInv
  <2>5. RowsFit(net', route, messy', cookie, signedIn)
    BY <2>2, <2>3, <2>4, SendOneFits
  <2>6. messy \subseteq messy'
    BY <2>2, SendDisturbs
  <2>7. ~initializing \/ \A x, y \in net' : x.op = "profile" /\ x = y
    <3>1. CASE requests = <<q>>
      BY <2>3, <3>1
    <3>2. CASE requests = <<>>
      <4>1. net' = net
        BY <2>2, <3>2 DEF Send, PostAll
      <4> QED
        BY <4>1 DEF StrangerInv, ShownInv
    <3> QED
      BY <2>2, <3>1, <3>2
  <2>8. DOMAIN view'.list \subseteq Of(KindOf(route))
    BY <1>1 DEF StrangerInv, ShownInv
  <2> QED
    BY <1>1, <2>5, <2>6, <2>7, <2>8, SameLists
<1>3. CASE Handshake \/ Refused \/ Drop \/ Offline \/ (\E id \in DOMAIN streams : Emit(id))
           \/ Say \/ Retry("connecting") \/ Retry(indicator)
           \/ (\E i \in Item : IncidentOpens(i))
  <2>1. net' = net /\ messy' = messy
    BY <1>3 DEF Handshake, Refused, Drop, Offline, Emit, Say, Retry, IncidentOpens, dataVars
  <2> QED
    BY <1>1, <2>1, QuietOwn
<1> QED
  BY <1>2, <1>3 DEF OfSocket, OnShell

\* A hand on a page that sends one request of the session.
LEMMA ActKeepsOwn ==
  ASSUME StrangerInv, ~initializing, NEW q, NEW page, Act(q, page),
         Sent(q, route, cookie, signedIn), DOMAIN page.list \subseteq Of(KindOf(route))
  PROVE  StrangerInv'
<1>1. /\ view' = page /\ Send(net, <<q>>, {})
      /\ UNCHANGED <<cookie, me, signedIn, store, initializing, route>>
  BY DEF Act, StoreUnchanged
<1>2. RowsFit(net, route, messy \union {}, cookie, signedIn)
  BY DEF StrangerInv
<1>3. RowsFit(net', route, messy', cookie, signedIn)
  BY <1>1, <1>2, SendOneFits
<1>4. messy \subseteq messy'
  BY <1>1, SendDisturbs
<1> QED
  BY <1>1, <1>3, <1>4, SameLists

\* The same for the hooks of the store.
LEMMA StoreActKeepsOwn ==
  ASSUME StrangerInv, RoomInv, ~initializing, route = "monitors",
         NEW op \in {"create", "delete"}, NEW i \in Of("monitors"), NEW page,
         ActOnStore(op, i, page), page.list = view.list
  PROVE  StrangerInv'
<1>1. PICK q : q = Request(op, i, "store", cookie)
  OBVIOUS
<1>2. /\ view' = page /\ Send(net, <<q>>, {}) /\ store' = [store EXCEPT !.loading = TRUE]
      /\ UNCHANGED <<cookie, me, signedIn, initializing, route>>
  BY <1>1 DEF ActOnStore, StoreUnchanged
<1>3. Sent(q, route, cookie, signedIn)
  <2>1. /\ DOMAIN q = RequestFields /\ q.stage = "sent" /\ q.op = op /\ q.what = i
        /\ q.by = "store" /\ q.as = cookie
    BY <1>1 DEF Request, RequestFields
  <2>2. AskRow(q, route)
    BY <2>1 DEF AskRow, Of
  <2>3. signedIn
    BY DEF RoomInv, Protected
  <2> QED
    BY <2>1, <2>2, <2>3 DEF Sent
<1>4. RowsFit(net, route, messy \union {}, cookie, signedIn)
  BY DEF StrangerInv
<1>5. RowsFit(net', route, messy', cookie, signedIn)
  BY <1>2, <1>3, <1>4, SendOneFits
<1>6. messy \subseteq messy'
  BY <1>2, SendDisturbs
<1>7. DOMAIN view'.list \subseteq Of(KindOf(route))
      /\ DOMAIN store' = DOMAIN store /\ store'.list = store.list
  BY <1>2 DEF StrangerInv, ShownInv
<1> QED
  BY <1>2, <1>5, <1>6, <1>7, SameLists
\* A page asks about an item that it lists, or may list.
LEMMA PageIsSent ==
  ASSUME StrangerInv, RoomInv, ~initializing, NEW op \in {"create", "delete", "test", "set"},
         NEW i \in Of(KindOf(route)), route \in {"alerts", "status-pages", "settings"},
         route = "settings" => op = "set", NEW q,
         (op # "set" /\ q = ForPage(op, i)) \/ (op = "set" /\ q = Switch(i))
  PROVE  Sent(q, route, cookie, signedIn)
<1>1. PICK p : p = Request(op, i, "page", cookie)
  OBVIOUS
<1>2. /\ DOMAIN p = RequestFields /\ p.stage = "sent" /\ p.op = op /\ p.what = i
      /\ p.by = "page" /\ p.as = cookie
  BY <1>1 DEF Request, RequestFields
<1>3. (op # "set" /\ q = p) \/ (op = "set" /\ \E v : q = [p EXCEPT !.value = v, !.old = view.list])
  BY <1>1 DEF ForPage, Switch
<1>4. /\ DOMAIN q = RequestFields /\ q.stage = "sent" /\ q.op = op /\ q.what = i
      /\ q.by = "page" /\ q.as = cookie
      /\ op = "set" => q.old = view.list
  BY <1>2, <1>3 DEF RequestFields
<1>5. signedIn
  BY DEF RoomInv, Protected, PageKind
<1>6. i \in Item /\ Kind[i] = KindOf(route)
  BY DEF Of
<1>7. DOMAIN view.list \subseteq Of(KindOf(route))
  BY DEF StrangerInv, ShownInv
<1>8. op = "set" => DOMAIN q.old \subseteq Of(KindOf(route))
  BY <1>4, <1>7
<1>9. AskRow(q, route)
  BY <1>4, <1>6, <1>8 DEF AskRow
<1> QED
  BY <1>4, <1>5, <1>9 DEF Sent

\* What the user does on a page.
LEMMA PageKeepsOwn ==
  ASSUME StrangerInv, RoomInv, DOMAIN view = ViewFields, OnPage
  PROVE  StrangerInv'
<1>1. ~initializing
  BY DEF OnPage, Reload, RefreshMonitors, Poll, Select, AddMonitor, AddChannel, AddPage,
         RemoveMonitor, RemoveChannel, RemovePage, TestChannel, ToggleChannel, TogglePref,
         EditPage, Act, ActOnStore, Gesture
<1>2. DOMAIN view.list \subseteq Of(KindOf(route))
  BY DEF StrangerInv, ShownInv
<1>3. \A b : /\ [view EXCEPT !.loading = b].list = view.list
             /\ [view EXCEPT !.saving = b].list = view.list
             /\ [view EXCEPT !.busy = b].list = view.list
  BY DEF ViewFields
<1>4. CASE Reload
  <2>1. PICK q : q = Request("list", PageKind[route], "page", cookie)
    OBVIOUS
  <2>2. PICK page : page = [view EXCEPT !.loading = TRUE]
    OBVIOUS
  <2>3. route \in DOMAIN PageKind /\ Act(q, page)
    BY <1>4, <2>1, <2>2 DEF Reload, ForPage
  <2>4. signedIn = TRUE
    BY <1>1, <2>3 DEF RoomInv, Protected
  <2>5. Sent(q, route, cookie, signedIn)
    <3>1. Sent(q, route, cookie, TRUE)
      BY <2>1, <2>3, ListIsSent
    <3> QED
      BY <2>4, <3>1
  <2>6. DOMAIN page.list \subseteq Of(KindOf(route))
    BY <1>2, <1>3, <2>2
  <2> QED
    BY <1>1, <2>3, <2>5, <2>6, ActKeepsOwn
<1>5. CASE RefreshMonitors
  <2>1. PICK q : q = Request("list", "monitors", "store", cookie)
    OBVIOUS
  <2>2. PICK requests : /\ Send(net, requests, {})
                        /\ requests = <<q>> \/ requests = <<>>
                        /\ store' = Loading(store, requests)
    BY <1>5, <2>1 DEF RefreshMonitors, FetchMonitors
  <2>3. UNCHANGED <<cookie, me, signedIn, initializing, route, view>> /\ route = "monitors"
    BY <1>5 DEF RefreshMonitors, StoreUnchanged
  <2>4. Sent(q, route, cookie, signedIn)
    <3>1. Sent(q, route, cookie, TRUE)
      BY <2>1, ListIsSent
    <3>2. signedIn = TRUE
      BY <1>1, <2>3 DEF RoomInv, Protected
    <3> QED
      BY <3>1, <3>2
  <2>5. RowsFit(net, route, messy \union {}, cookie, signedIn)
    BY DEF StrangerInv
  <2>6. RowsFit(net', route, messy', cookie, signedIn)
    BY <2>2, <2>4, <2>5, SendOneFits
  <2>7. messy \subseteq messy'
    BY <2>2, SendDisturbs
  <2>8. DOMAIN store' = DOMAIN store /\ store'.list = store.list
    BY <2>2 DEF Loading, StrangerInv, ShownInv
  <2> QED
    BY <1>1, <1>2, <2>3, <2>6, <2>7, <2>8, SameLists
<1>6. CASE Poll
  <2>1. PICK q : q = Request("panel", view.sel, "page", cookie)
    OBVIOUS
  <2>2. Act(q, view)
    BY <1>6, <2>1 DEF Poll, ForPage
  <2>3. Sent(q, route, cookie, signedIn)
    BY <2>1, FreeIsSent
  <2> QED
    BY <1>1, <1>2, <2>2, <2>3, ActKeepsOwn
<1>7. ASSUME NEW i \in Item, Select(i) PROVE StrangerInv'
  <2>1. Focus(i, net, {}) /\ UNCHANGED <<store, cookie, me, signedIn, initializing, route>>
    BY <1>7 DEF Select, StoreUnchanged
  <2>2. RowsFit(net, route, messy \union {}, cookie, signedIn)
    BY DEF StrangerInv
  <2>3. /\ RowsFit(net', route, messy', cookie, signedIn)
        /\ messy \subseteq messy' /\ view'.list = view.list
    BY <2>1, <2>2, FocusFits
  <2> QED
    BY <1>1, <1>2, <2>1, <2>3, SameLists
<1>8. ASSUME NEW i \in Item, AddMonitor(i) PROVE StrangerInv'
  <2>1. ActOnStore("create", i, view) /\ route = "monitors" /\ i \in Of("monitors")
    BY <1>8 DEF AddMonitor, Of
  <2> QED
    BY <1>1, <2>1, StoreActKeepsOwn
<1>9. ASSUME NEW i \in Item, RemoveMonitor(i) PROVE StrangerInv'
  <2>1. PICK page : page = [view EXCEPT !.busy = i]
    OBVIOUS
  <2>2. ActOnStore("delete", i, page) /\ route = "monitors" /\ i \in Of("monitors")
    BY <1>9, <2>1 DEF RemoveMonitor, StrangerInv, ShownInv
  <2>3. page.list = view.list
    BY <1>3, <2>1
  <2> QED
    BY <1>1, <2>2, <2>3, StoreActKeepsOwn
<1>10. ASSUME NEW i \in Item, AddChannel(i) \/ AddPage(i) PROVE StrangerInv'
  <2>1. PICK q, page : q = ForPage("create", i) /\ page = [view EXCEPT !.saving = TRUE]
    OBVIOUS
  <2>2. Act(q, page) /\ route \in {"alerts", "status-pages"} /\ i \in Of(KindOf(route))
    BY <1>10, <2>1 DEF AddChannel, AddPage, Of, KindOf, PageKind
  <2>3. Sent(q, route, cookie, signedIn)
    BY <1>1, <2>1, <2>2, PageIsSent
  <2>4. DOMAIN page.list \subseteq Of(KindOf(route))
    BY <1>2, <1>3, <2>1
  <2> QED
    BY <1>1, <2>2, <2>3, <2>4, ActKeepsOwn
<1>11. ASSUME NEW i \in Item, RemoveChannel(i) \/ RemovePage(i) \/ TestChannel(i)
       PROVE  StrangerInv'
  <2>1. PICK op \in {"delete", "test"} :
          /\ Act(ForPage(op, i), [view EXCEPT !.busy = i])
          /\ route \in {"alerts", "status-pages"} /\ i \in DOMAIN view.list
    BY <1>11 DEF RemoveChannel, RemovePage, TestChannel
  <2>2. PICK q, page : q = ForPage(op, i) /\ page = [view EXCEPT !.busy = i]
    OBVIOUS
  <2>3. i \in Of(KindOf(route))
    BY <1>2, <2>1
  <2>4. Sent(q, route, cookie, signedIn)
    BY <1>1, <2>1, <2>2, <2>3, PageIsSent
  <2>5. DOMAIN page.list \subseteq Of(KindOf(route))
    BY <1>2, <1>3, <2>2
  <2> QED
    BY <1>1, <2>1, <2>2, <2>4, <2>5, ActKeepsOwn
<1>12. ASSUME NEW i \in Item, ToggleChannel(i) \/ TogglePref(i) \/ EditPage(i)
       PROVE  StrangerInv'
  <2>1. PICK v, q : v = Switch(i).value /\ q = Switch(i)
    OBVIOUS
  <2>2. PICK page : /\ Act(q, page)
                    /\ \/ page = [view EXCEPT !.list[i] = v]
                       \/ page = [view EXCEPT !.list[i] = v, !.busy = i]
                       \/ page = [view EXCEPT !.saving = TRUE]
    BY <1>12, <2>1 DEF ToggleChannel, TogglePref, EditPage
  <2>3. /\ route \in {"alerts", "status-pages", "settings"} /\ i \in DOMAIN view.list
    BY <1>12 DEF ToggleChannel, TogglePref, EditPage
  <2>4. i \in Of(KindOf(route))
    BY <1>2, <2>3
  <2>5. Sent(q, route, cookie, signedIn)
    BY <1>1, <2>1, <2>3, <2>4, PageIsSent
  <2>6. DOMAIN page.list = DOMAIN view.list
    BY <2>2 DEF ViewFields
  <2> QED
    BY <1>1, <1>2, <2>2, <2>5, <2>6, ActKeepsOwn
<1> QED
  BY <1>4, <1>5, <1>6, <1>7, <1>8, <1>9, <1>10, <1>11, <1>12 DEF OnPage

\* What the user does at all.
LEMMA UserKeepsOwn ==
  ASSUME StrangerInv, RoomInv, DOMAIN view = ViewFields, OfUser
  PROVE  StrangerInv'
<1>1. /\ RowsFit(net, route, messy, cookie, signedIn)
      /\ me # None => DOMAIN me.prefs \subseteq Of("prefs")
      /\ signedIn => me.id = cookie \/ Of("prefs") \subseteq messy
      /\ \A i \in DOMAIN store.list : i \in messy \/ (signedIn /\ Owner[i] = cookie)
      /\ DOMAIN view.list \subseteq Of(KindOf(route))
      /\ signedIn \in BOOLEAN
  BY DEF StrangerInv, ShownInv, RoomInv
<1>2. CASE LogoutClick
  <2>1. /\ route \in Protected /\ ~initializing
        /\ UNCHANGED <<cookie, me, signedIn, initializing>>
    BY <1>2 DEF LogoutClick, Gesture
  <2>2. PICK q : q = Request("logout", None, "session", cookie)
    OBVIOUS
  <2>3. PICK n : n = Post(net, q)
    OBVIOUS
  <2>4. PICK s : Show("dashboard", s, store, n, conn, me, cookie, {}, TRUE)
    BY <1>2, <2>2, <2>3 DEF LogoutClick
  <2>5. RowsFit(n, route, messy, cookie, signedIn)
    <3>1. Sent(q, route, cookie, signedIn) /\ q.op = "logout"
      BY <2>2, FreeIsSent DEF Request
    <3>2. AskRow(q, route) /\ SaidRow(q)
      BY <3>1 DEF Sent, SaidRow
    <3>3. Touched(q) \subseteq messy
      BY <3>1 DEF Touched
    <3> QED
      BY <1>1, <2>3, <3>2, <3>3, PostFits
  <2>6. RowsFit(n, route, messy \union {}, cookie', signedIn') /\ signedIn' \in BOOLEAN
    BY <1>1, <2>1, <2>5
  <2>7. /\ "dashboard" \in Protected => signedIn'
        /\ signedIn' => cookie = cookie'
        /\ "dashboard" = "login" => ~signedIn'
        /\ me' # None => DOMAIN me'.prefs \subseteq Of("prefs")
        /\ signedIn' => me'.id = cookie' \/ Of("prefs") \subseteq messy
        /\ \A i \in DOMAIN store.list : i \in messy \/ (signedIn' /\ Owner[i] = cookie')
        /\ ~initializing'
    BY <1>1, <2>1 DEF RoomInv
  <2>8. PICK u, as : u = me /\ as = cookie
    OBVIOUS
  <2> QED
    BY <1>1, <2>1, <2>4, <2>6, <2>7, <2>8, ShowKeepsOwn
<1>3. ASSUME NEW rt \in (Protected \union Open) \ {route}, Navigate(rt) PROVE StrangerInv'
  <2>1. /\ ~initializing /\ (signedIn \/ rt \in Open) /\ ~(signedIn /\ rt = "login")
        /\ UNCHANGED <<cookie, me, signedIn, initializing>>
    BY <1>3 DEF Navigate, Gesture
  <2>2. PICK s : Show(rt, s, store, net, conn, me, cookie, {}, FALSE)
    BY <1>3 DEF Navigate
  <2>3. RowsFit(net, route, messy \union {}, cookie', signedIn') /\ signedIn' \in BOOLEAN
    BY <1>1, <2>1
  <2>4. /\ rt \in Protected => signedIn'
        /\ signedIn' => cookie = cookie'
        /\ rt = "login" => ~signedIn'
        /\ me' # None => DOMAIN me'.prefs \subseteq Of("prefs")
        /\ signedIn' => me'.id = cookie' \/ Of("prefs") \subseteq messy
        /\ \A i \in DOMAIN store.list : i \in messy \/ (signedIn' /\ Owner[i] = cookie')
        /\ ~initializing'
    BY <1>1, <2>1 DEF Open, Protected, PageKind
  <2> QED
    BY <1>1, <2>1, <2>2, <2>3, <2>4, ShowKeepsOwn
<1>4. ASSUME NEW u \in User, SignIn(u) PROVE StrangerInv'
  <2>1. PICK q : q = Request("login", u, "session", cookie)
    OBVIOUS
  <2>2. /\ Send(net, <<q>>, {}) /\ ~initializing /\ view' = [view EXCEPT !.saving = TRUE]
        /\ UNCHANGED <<cookie, me, signedIn, store, initializing, route>>
    BY <1>4, <2>1 DEF SignIn, Gesture, StoreUnchanged
  <2>3. Sent(q, route, cookie, signedIn)
    BY <2>1, FreeIsSent
  <2>4. RowsFit(net, route, messy \union {}, cookie, signedIn)
    BY <1>1
  <2>5. RowsFit(net', route, messy', cookie, signedIn)
    BY <2>2, <2>3, <2>4, SendOneFits
  <2>6. messy \subseteq messy'
    BY <2>2, SendDisturbs
  <2>7. DOMAIN view'.list \subseteq Of(KindOf(route))
    BY <1>1, <2>2 DEF ViewFields
  <2> QED
    BY <2>2, <2>5, <2>6, <2>7, SameLists
<1> QED
  BY <1>2, <1>3, <1>4, PageKeepsOwn DEF OfUser

\* Every step keeps what is shown with its owner.
LEMMA StrangerStep == StrangerInv /\ RoomInv /\ PanelInv /\ [Next]_vars => StrangerInv'
<1> SUFFICES ASSUME StrangerInv, RoomInv, PanelInv, [Next]_vars PROVE StrangerInv'
  OBVIOUS
<1>1. DOMAIN view = ViewFields
  BY DEF PanelInv
<1>2. CASE UNCHANGED vars
  BY <1>2, QuietOwn DEF vars, dataVars, pageVars
<1>3. ASSUME NEW q \in net, Settle(q) PROVE StrangerInv'
  <2>1. PICK r : /\ SettleAnswered(r)
                 /\ \/ q.stage = "answered" /\ r = q
                    \/ q.stage = "sent" /\ r = Answered(q)
    BY <1>3 DEF Settle
  <2>2. Heard(r)
    BY <2>1, SettledIsHeard
  <2> QED
    BY <1>1, <2>1, <2>2, AnswerKeepsOwn
<1>4. CASE Gesture /\ GrowStale /\ UNCHANGED <<socketVars, initializing, route, view>>
  <2>1. UNCHANGED <<net, messy, cookie, me, signedIn, initializing, route, view>>
        /\ store' = [store EXCEPT !.fresh = FALSE]
    BY <1>4 DEF GrowStale
  <2>2. DOMAIN store' = DOMAIN store /\ store'.list = store.list
    BY <2>1 DEF StrangerInv, ShownInv
  <2> QED
    BY <2>1, <2>2, QuietOwn
<1> QED
  BY <1>1, <1>2, <1>3, <1>4, NetKeepsOwn, ShellKeepsOwn, UserKeepsOwn DEF Next

\* A tab is opened with nothing but the question who it is.
LEMMA StrangerInit == Init => StrangerInv
<1> SUFFICES ASSUME Init PROVE StrangerInv
  OBVIOUS
<1>1. view = Fresh("login", None, None) /\ initializing
  BY DEF Init
<1>2. /\ me = None /\ signedIn = FALSE /\ store = EmptyStore /\ messy = {}
      /\ net = {[Request("profile", None, "session", cookie) EXCEPT !.tag = 1]}
  BY DEF Init, DataInit
<1>3. PICK q : q = Request("profile", None, "session", cookie)
  OBVIOUS
<1>4. PICK x : x = [q EXCEPT !.tag = 1]
  OBVIOUS
<1>5. /\ DOMAIN q = RequestFields /\ q.op = "profile" /\ q.by = "session"
      /\ q.as = cookie /\ q.stage = "sent"
  BY <1>3 DEF Request, RequestFields
<1>6. /\ DOMAIN x = RequestFields /\ x.op = "profile" /\ x.by = "session"
      /\ x.as = cookie /\ x.stage = "sent"
  BY <1>4, <1>5 DEF RequestFields
<1>7. net = {x}
  BY <1>2, <1>3, <1>4
<1>8. AskRow(x, route) /\ SaidRow(x) /\ SessionRow(x, messy, cookie, signedIn)
  BY <1>6 DEF AskRow, SaidRow, SessionRow
<1>9. RowsFit(net, route, messy, cookie, signedIn)
  BY <1>7, <1>8 DEF RowsFit
<1>10. DOMAIN store = {"list", "fresh", "loading"} /\ DOMAIN store.list = {}
       /\ DOMAIN view.list = {}
  <2>1. store.list = <<>> /\ view.list = <<>> /\ DOMAIN <<>> = {}
    BY <1>1, <1>2 DEF EmptyStore, Fresh
  <2>2. DOMAIN store = {"list", "fresh", "loading"}
    BY <1>2 DEF EmptyStore
  <2> QED
    BY <2>1, <2>2
<1>11. ShownInv
  BY <1>1, <1>2, <1>6, <1>7, <1>10 DEF ShownInv
<1> QED
  BY <1>9, <1>11 DEF StrangerInv

\* Every request under way is of the session or overlapped with its end, so the lists and
\* the user document are of the session too, in every run (app.store.js, useAuth.js).
THEOREM StrangerInvariant == Spec => []StrangerInv
BY StrangerInit, StrangerStep, RoomInvariant, PanelInvariant, PTL DEF Spec

\* The next account on a tab is never shown the monitors or the profile of the one before,
\* unless requests were under way at the logout or overlapped (app.store.js:16).
THEOREM NobodySeesStrangers == Spec => []NoStrangers
<1>1. StrangerInv => NoStrangers
  BY DEF StrangerInv, ShownInv, NoStrangers
<1> QED
  BY <1>1, StrangerInvariant, PTL

-----------------------------------------------------------------------------
(* Requests are told apart *)

\* The tags up to t that none of the requests has.
FreeUpTo(n, t) == {u \in 1..t : \A x \in n : x.tag # u}

\* There is a k-th lowest free tag, and it is the one taken.
LEMMA FreeTagIsFree ==
  ASSUME NEW n, IsFiniteSet(n), NEW k \in Nat \ {0}
  PROVE  /\ \A x \in n : x.tag # FreeTag(n, k)
         /\ Cardinality(FreeUpTo(n, FreeTag(n, k))) = k
<1> DEFINE N == Cardinality(n) + k
<1>1. Cardinality(n) \in Nat /\ N \in Nat
  BY FS_CardinalityType
<1>2. \A t \in Nat : IsFiniteSet(FreeUpTo(n, t)) /\ Cardinality(FreeUpTo(n, t)) \in Nat
  <2> TAKE t \in Nat
  <2>1. IsFiniteSet(1..t)
    BY FS_Interval
  <2>2. FreeUpTo(n, t) \in SUBSET (1..t)
    BY DEF FreeUpTo
  <2>3. IsFiniteSet(FreeUpTo(n, t))
    BY <2>1, <2>2, FS_Subset
  <2> QED
    BY <2>3, FS_CardinalityType
<1>3. Cardinality(FreeUpTo(n, N)) >= k
  <2>1. PICK f : f = [x \in n |-> x.tag]
    OBVIOUS
  <2>2. PICK T : T = {x.tag : x \in n}
    OBVIOUS
  <2>3. f \in Surjection(n, T)
    BY <2>1, <2>2 DEF Surjection
  <2>4. IsFiniteSet(T) /\ Cardinality(T) <= Cardinality(n)
    BY <2>3, FS_Surjection
  <2>5. FreeUpTo(n, N) = (1..N) \ T
    BY <2>2 DEF FreeUpTo
  <2>6. IsFiniteSet(1..N) /\ Cardinality(1..N) = N
    BY <1>1, FS_Interval
  <2>7. Cardinality(FreeUpTo(n, N)) = N - Cardinality((1..N) \cap T)
    BY <2>5, <2>6, FS_Difference
  <2>8. /\ IsFiniteSet((1..N) \cap T)
        /\ Cardinality((1..N) \cap T) <= Cardinality(T)
    BY <2>4, FS_Intersection
  <2>9. Cardinality((1..N) \cap T) \in Nat /\ Cardinality(T) \in Nat
    BY <2>4, <2>8, FS_CardinalityType
  <2> QED
    BY <1>1, <2>4, <2>7, <2>8, <2>9
<1>4. PICK t \in Nat : /\ Cardinality(FreeUpTo(n, t)) >= k
                       /\ \A s \in Nat : Cardinality(FreeUpTo(n, s)) >= k => t <= s
  <2>1. PICK S : S = {s \in Nat : Cardinality(FreeUpTo(n, s)) >= k}
    OBVIOUS
  <2>2. S \in SUBSET Nat /\ N \in S
    BY <1>1, <1>3, <2>1
  <2>3. PICK m \in S : \A s \in S : <<s, m>> \notin OpToRel(<, Nat)
    BY <2>2, WFMin, NatLessThanWellFounded, Zenon
  <2>4. \A s \in S : ~ (s < m)
    BY <2>2, <2>3, Zenon DEF OpToRel
  <2> QED
    BY <2>1, <2>2, <2>4
<1>5. t <= N
  BY <1>1, <1>3, <1>4
<1>6. t # 0
  <2>1. FreeUpTo(n, 0) = {}
    BY DEF FreeUpTo
  <2> QED
    BY <1>4, <2>1, FS_EmptySet
<1>7. Cardinality(FreeUpTo(n, t - 1)) < k
  BY <1>2, <1>4, <1>6
<1>8. t \in FreeUpTo(n, t)
  <2> SUFFICES ASSUME t \notin FreeUpTo(n, t) PROVE FALSE
    OBVIOUS
  <2>1. FreeUpTo(n, t) = FreeUpTo(n, t - 1)
    BY <1>6 DEF FreeUpTo
  <2> QED
    BY <1>2, <1>4, <1>7, <2>1
<1>9. Cardinality(FreeUpTo(n, t)) = k
  <2>1. FreeUpTo(n, t) = FreeUpTo(n, t - 1) \cup {t}
    BY <1>6, <1>8 DEF FreeUpTo
  <2>2. t - 1 \in Nat
    BY <1>6
  <2>3. PICK F : F = FreeUpTo(n, t - 1)
    OBVIOUS
  <2>4. IsFiniteSet(F) /\ Cardinality(F) \in Nat
    BY <1>2, <2>2, <2>3
  <2>5. t \notin F
    BY <1>6, <2>3 DEF FreeUpTo
  <2>6. Cardinality(F \cup {t}) = Cardinality(F) + 1
    BY <2>4, <2>5, FS_AddElement
  <2>7. /\ Cardinality(F) < k
        /\ Cardinality(F \cup {t}) >= k
    BY <1>4, <1>7, <2>1, <2>3
  <2> QED
    BY <2>1, <2>3, <2>4, <2>6, <2>7
<1>10. t \in 1..N /\ \A x \in n : x.tag # t
  BY <1>1, <1>5, <1>6, <1>8 DEF FreeUpTo
<1>11. \E s \in 1..(Cardinality(n) + k) :
         (\A x \in n : x.tag # s) /\ Cardinality({u \in 1..s : \A x \in n : x.tag # u}) = k
  BY <1>9, <1>10 DEF FreeUpTo
<1> QED
  BY <1>11 DEF FreeTag, FreeUpTo

\* A request switches something on or off, and nobody changes incidents; preferences
\* are neither added nor removed.
NetRow(x) ==
  /\ DOMAIN x = RequestFields /\ x.value \in {"on", "off"}
  /\ x.op \in {"create", "set", "delete"} =>
       Kind[x.what] # "incidents" /\ (Kind[x.what] = "prefs" => x.op = "set")

\* There are finitely many requests, and their tags tell them apart.
Told(n) ==
  /\ IsFiniteSet(n)
  /\ \A x, y \in n : x.tag = y.tag => x = y
  /\ \A x \in n : NetRow(x)

NetInv == Told(net)

\* Fewer requests.
LEMMA ToldLess ==
  ASSUME NEW n, Told(n), NEW n2 \in SUBSET n
  PROVE  Told(n2)
<1>1. IsFiniteSet(n2)
  BY FS_Subset DEF Told
<1> QED
  BY <1>1 DEF Told

\* Requests that are sent get tags of their own.
LEMMA ToldMore ==
  ASSUME NEW n, Told(n), NEW S, NEW requests \in Seq(S), \A q \in S : NetRow(q)
  PROVE  Told(PostAll(n, requests))
<1> DEFINE Tagged(k) == [requests[k] EXCEPT !.tag = FreeTag(n, k)]
<1>1. DOMAIN requests = 1..Len(requests) /\ Len(requests) \in Nat
  BY LenProperties
<1>2. PICK f : f = [k \in 1..Len(requests) |-> Tagged(k)]
  OBVIOUS
<1>3. PICK new : new = {Tagged(k) : k \in 1..Len(requests)}
  OBVIOUS
<1>4. PostAll(n, requests) = n \cup new
  BY <1>1, <1>3 DEF PostAll
<1>5. IsFiniteSet(n)
  BY DEF Told
<1>6. IsFiniteSet(n \cup new)
  <2>1. f \in Surjection(1..Len(requests), new)
    BY <1>2, <1>3 DEF Surjection
  <2>2. IsFiniteSet(1..Len(requests))
    BY <1>1, FS_Interval
  <2>3. IsFiniteSet(new)
    BY <2>1, <2>2, FS_Surjection
  <2> QED
    BY <1>5, <2>3, FS_Union
<1>7. ASSUME NEW k \in 1..Len(requests)
      PROVE  /\ NetRow(Tagged(k)) /\ Tagged(k).tag = FreeTag(n, k)
             /\ \A y \in n : y.tag # FreeTag(n, k)
             /\ Cardinality(FreeUpTo(n, FreeTag(n, k))) = k
  <2>1. PICK q : q = requests[k] /\ NetRow(q)
    BY <1>1, <1>7, ElementOfSeq
  <2>2. PICK t : t = FreeTag(n, k)
    OBVIOUS
  <2>3. PICK x : x = [q EXCEPT !.tag = t]
    OBVIOUS
  <2>4. /\ DOMAIN x = RequestFields /\ x.op = q.op /\ x.what = q.what /\ x.value = q.value
        /\ x.tag = t
    BY <2>1, <2>3 DEF NetRow, RequestFields
  <2>5. NetRow(x)
    BY <2>1, <2>4 DEF NetRow
  <2>6. k \in Nat \ {0}
    BY <1>7
  <2>7. (\A y \in n : y.tag # FreeTag(n, k)) /\ Cardinality(FreeUpTo(n, FreeTag(n, k))) = k
    BY <1>5, <2>6, FreeTagIsFree
  <2> QED
    BY <2>1, <2>2, <2>3, <2>4, <2>5, <2>7
<1> HIDE DEF Tagged
<1>8. ASSUME NEW x \in n \cup new, NEW y \in n \cup new, x.tag = y.tag PROVE x = y
  <2>1. CASE x \in n /\ y \in n
    BY <1>8, <2>1 DEF Told
  <2>2. CASE x \in n /\ y \in new
    BY <1>3, <1>7, <1>8, <2>2
  <2>3. CASE x \in new /\ y \in n
    BY <1>3, <1>7, <1>8, <2>3
  <2>4. CASE x \in new /\ y \in new
    <3>1. PICK j \in 1..Len(requests), k \in 1..Len(requests) : x = Tagged(j) /\ y = Tagged(k)
      BY <1>3, <2>4
    <3>2. FreeTag(n, j) = FreeTag(n, k)
      BY <1>7, <1>8, <3>1
    <3>3. j = k
      BY <1>7, <3>2
    <3> QED
      BY <3>1, <3>3
  <2> QED
    BY <2>1, <2>2, <2>3, <2>4
<1>9. \A x \in n \cup new : NetRow(x)
  BY <1>3, <1>7 DEF Told
<1> QED
  BY <1>4, <1>6, <1>8, <1>9 DEF Told

\* One request is sent, or none.
LEMMA ToldOne ==
  ASSUME NEW n, Told(n), NEW q, NEW requests, requests = <<q>> \/ requests = <<>>,
         requests = <<q>> => NetRow(q)
  PROVE  Told(PostAll(n, requests))
<1>1. CASE requests = <<q>>
  <2>1. PICK S : S = {q}
    OBVIOUS
  <2>2. requests \in Seq(S) /\ \A x \in S : NetRow(x)
    BY <1>1, <2>1
  <2> QED
    BY <2>2, ToldMore
<1>2. CASE requests = <<>>
  <2>1. PostAll(n, requests) = n
    BY <1>2 DEF PostAll
  <2> QED
    BY <2>1
<1> QED
  BY <1>1, <1>2

\* The requests that still matter when the page goes.
LEMMA ToldLeft ==
  ASSUME NEW n, Told(n), NEW stays
  PROVE  Told(Left(n, stays))
<1> DEFINE Passed(r) == IF r.by = "page" THEN [r EXCEPT !.by = "gone"] ELSE r
<1>1. PICK m : m = {r \in n : /\ r.by = "page" => r.op \in {"create", "set", "delete"}
                              /\ r.by = "bell" => stays}
  OBVIOUS
<1>2. m \in SUBSET n
  BY <1>1
<1>3. Told(m)
  BY <1>2, ToldLess
<1>4. Left(n, stays) = {Passed(r) : r \in m}
  BY <1>1 DEF Left
<1>5. ASSUME NEW r \in m PROVE NetRow(Passed(r)) /\ Passed(r).tag = r.tag
  <2>1. DOMAIN r = RequestFields /\ NetRow(r)
    BY <1>3 DEF Told, NetRow
  <2>2. PICK x : x = [r EXCEPT !.by = "gone"]
    OBVIOUS
  <2>3. /\ DOMAIN x = RequestFields /\ x.op = r.op /\ x.what = r.what /\ x.value = r.value
        /\ x.tag = r.tag
    BY <2>1, <2>2 DEF RequestFields
  <2>4. NetRow(x)
    BY <2>1, <2>3 DEF NetRow
  <2> QED
    BY <2>1, <2>2, <2>3, <2>4
<1>6. IsFiniteSet(Left(n, stays))
  <2>1. PICK f : f = [r \in m |-> Passed(r)]
    OBVIOUS
  <2>2. f \in Surjection(m, Left(n, stays))
    BY <1>4, <2>1 DEF Surjection
  <2> QED
    BY <1>3, <2>2, FS_Surjection DEF Told
<1> HIDE DEF Passed
<1> QED
  BY <1>3, <1>4, <1>5, <1>6 DEF Told

\* A request in the place of another, with the same tag.
LEMMA ToldInPlace ==
  ASSUME NEW n, Told(n), NEW r \in n, NEW x, NetRow(x), x.tag = r.tag
  PROVE  Told((n \ {r}) \cup {x})
<1>1. IsFiniteSet(n)
  BY DEF Told
<1>2. IsFiniteSet(n \ {r})
  BY <1>1, FS_RemoveElement
<1>3. IsFiniteSet((n \ {r}) \cup {x})
  BY <1>2, FS_AddElement
<1> QED
  BY <1>3 DEF Told

\* What a request may be told apart by does not depend on its progress.
LEMMA AnsweredTold ==
  ASSUME NEW q, NetRow(q), NEW x,
         x = Answered(q) \/ x = [q EXCEPT !.stage = "answered", !.ok = FALSE, !.data = None]
  PROVE  /\ NetRow(x) /\ x.tag = q.tag /\ x.stage = "answered"
         /\ x.op = q.op /\ x.what = q.what /\ x.by = q.by /\ x.as = q.as
         /\ x.value = q.value /\ x.old = q.old
<1>1. PICK g, a : x = [q EXCEPT !.stage = "answered", !.ok = g, !.data = a]
  BY DEF Answered
<1>2. DOMAIN q = RequestFields
  BY DEF NetRow
<1>3. /\ DOMAIN x = RequestFields /\ x.tag = q.tag /\ x.stage = "answered"
      /\ x.op = q.op /\ x.what = q.what /\ x.by = q.by /\ x.as = q.as
      /\ x.value = q.value /\ x.old = q.old
  BY <1>1, <1>2 DEF RequestFields
<1> QED
  BY <1>3 DEF NetRow

\* A page is shown.
LEMMA ToldShow ==
  ASSUME NEW rt, NEW subject, NEW st, NEW n, NEW c, NEW u, NEW as, NEW late,
         NEW remount \in BOOLEAN, Show(rt, subject, st, n, c, u, as, late, remount), Told(n)
  PROVE  NetInv'
<1>1. PICK stays \in BOOLEAN : stays = (rt \in Protected /\ ShellShown /\ ~remount)
  OBVIOUS
<1>2. PICK bell \in BOOLEAN : bell = (rt \in Protected /\ ~stays)
  OBVIOUS
<1>3. PICK requests : requests = Opening(rt, subject, st, as)
                                   \o (IF bell THEN <<LoadBadge(as)>> ELSE <<>>)
  OBVIOUS
<1>4. net' = PostAll(Left(n, stays), requests)
  BY <1>1, <1>2, <1>3 DEF Show, Send
<1>5. requests \in Seq(Opened(rt, subject, as))
  BY <1>2, <1>3, OpeningAsks
<1>6. ASSUME NEW q \in Opened(rt, subject, as) PROVE NetRow(q)
  <2>1. PICK op, what, by : q = Request(op, what, by, as) /\ op \in {"list", "panel"}
    BY DEF Opened, LoadBadge
  <2> QED
    BY <2>1 DEF Request, RequestFields, NetRow
<1>7. Told(PostAll(Left(n, stays), requests))
  BY <1>5, <1>6, ToldLeft, ToldMore
<1> QED
  BY <1>4, <1>7 DEF NetInv

\* Less is waited for, and one more request is sent or none.
LEMMA ToldSend ==
  ASSUME NetInv, NEW n \in SUBSET net, NEW late, NEW q, NEW requests, Send(n, requests, late),
         requests = <<q>> \/ requests = <<>>, requests = <<q>> => NetRow(q)
  PROVE  NetInv'
<1>1. Told(n)
  BY ToldLess DEF NetInv
<1>2. Told(PostAll(n, requests))
  BY <1>1, ToldOne
<1> QED
  BY <1>2 DEF NetInv, Send

\* Another subject on the page.
LEMMA ToldFocus ==
  ASSUME NetInv, NEW s, NEW n \in SUBSET net, NEW late, Focus(s, n, late)
  PROVE  NetInv'
<1>1. PICK q : q = Request("panel", s, "page", cookie)
  OBVIOUS
<1>2. PICK w \in SUBSET net : w = Withdrawn(n)
  BY DEF Withdrawn
<1>3. PICK requests : requests = PanelRequest(s, cookie)
  OBVIOUS
<1>4. Send(w, requests, late) /\ (requests = <<q>> \/ requests = <<>>)
  BY <1>1, <1>2, <1>3 DEF Focus, PanelRequest
<1>5. NetRow(q)
  BY <1>1 DEF Request, RequestFields, NetRow
<1> QED
  BY <1>4, <1>5, ToldSend

\* Answers: the request is gone, and another may be sent.
LEMMA AnswerKeepsTold ==
  ASSUME NetInv, NEW r, SettleAnswered(r)
  PROVE  NetInv'
<1>1. PICK n \in SUBSET net : n = Done(net, r)
  BY DEF Done
<1>2. Told(n)
  BY ToldLess DEF NetInv
<1>3. CASE \E late : Send(n, <<>>, late)
  BY <1>3, ToldSend
<1>4. CASE SettleStore(r)
  <2>1. \/ \E s : Focus(s, n, Missed(r))
        \/ Send(n, <<>>, Missed(r))
    BY <1>1, <1>4 DEF SettleStore
  <2> QED
    BY <1>3, <2>1, ToldFocus
<1>5. CASE SettlePage(r)
  <2>1. PICK q : q = Request("list", PageKind[route], "page", cookie)
    OBVIOUS
  <2>2. PICK requests : /\ Send(n, requests, Missed(r))
                        /\ requests = <<q>> \/ requests = <<>>
    BY <1>1, <1>5, <2>1 DEF SettlePage
  <2>3. NetRow(q)
    BY <2>1 DEF Request, RequestFields, NetRow
  <2> QED
    BY <2>2, <2>3, ToldSend
<1>6. CASE SettleBell(r) \/ SettleGone(r)
  BY <1>1, <1>3, <1>6 DEF SettleBell, SettleGone
<1>7. CASE SettleFirstProfile(r)
  <2>1. PICK q : q = Request("profile", None, "session", cookie)
    OBVIOUS
  <2>2. PICK m : m = Post(n, q)
    OBVIOUS
  <2>3. NetRow(q)
    BY <2>1 DEF Request, RequestFields, NetRow
  <2>4. Told(m)
    BY <1>2, <2>2, <2>3, ToldOne DEF Post
  <2>5. PICK rt, s, u : Show(rt, s, store, m, conn, u, cookie, {}, FALSE)
    BY <1>1, <1>7, <2>1, <2>2 DEF SettleFirstProfile
  <2> QED
    BY <2>4, <2>5, ToldShow
<1>8. CASE SettleSignIn(r)
  <2>1. CASE route = "login" /\ signedIn'
    <3>1. PICK s, u, as : Show("dashboard", s, store, n, conn, u, as, {}, FALSE)
      BY <1>1, <1>8, <2>1 DEF SettleSignIn
    <3> QED
      BY <1>2, <3>1, ToldShow
  <2>2. CASE ~(route = "login" /\ signedIn')
    BY <1>1, <1>3, <1>8, <2>2 DEF SettleSignIn
  <2> QED
    BY <2>1, <2>2
<1>9. CASE SettleLogout(r)
  <2>1. CASE route \in Protected
    <3>1. PICK c, late : Show("login", None, Wiped, n, c, None, None, late, FALSE)
      BY <1>1, <1>9, <2>1 DEF SettleLogout
    <3> QED
      BY <1>2, <3>1, ToldShow
  <2>2. CASE route \notin Protected
    BY <1>1, <1>3, <1>9, <2>2 DEF SettleLogout
  <2> QED
    BY <2>1, <2>2
<1> QED
  BY <1>4, <1>5, <1>6, <1>7, <1>8, <1>9 DEF SettleAnswered

\* The server handles a request, or its answer is lost.
LEMMA NetKeepsTold ==
  ASSUME NetInv, OfNet
  PROVE  NetInv'
<1>1. PICK r \in net : Serve(r) \/ Lose(r)
  BY DEF OfNet
<1>2. Told(net) /\ NetRow(r)
  BY DEF NetInv, Told
<1>3. CASE Serve(r)
  <2>1. PICK x : x = Answered(r)
    OBVIOUS
  <2>2. NetRow(x) /\ x.tag = r.tag
    BY <1>2, <2>1, AnsweredTold
  <2>3. Told((net \ {r}) \cup {x})
    BY <1>2, <2>2, ToldInPlace
  <2> QED
    BY <1>3, <2>1, <2>3 DEF Serve, NetInv
<1>4. CASE Lose(r)
  <2>1. PICK x : x = [r EXCEPT !.stage = "answered", !.ok = FALSE, !.data = None]
    OBVIOUS
  <2>2. NetRow(x) /\ x.tag = r.tag
    BY <1>2, <2>1, AnsweredTold
  <2>3. PICK n : n = (net \ {r}) \cup {x}
    OBVIOUS
  <2>4. Told(n)
    BY <1>2, <2>2, <2>3, ToldInPlace
  <2>5. PICK g : g = [r EXCEPT !.by = "gone"]
    OBVIOUS
  <2>6. NetRow(g)
    <3>1. DOMAIN r = RequestFields
      BY <1>2 DEF NetRow
    <3>2. DOMAIN g = RequestFields /\ g.op = r.op /\ g.what = r.what /\ g.value = r.value
      BY <2>5, <3>1 DEF RequestFields
    <3> QED
      BY <1>2, <3>2 DEF NetRow
  <2>7. Told(Post(n, g))
    BY <2>4, <2>6, ToldOne DEF Post
  <2>8. net' = n \/ net' = Post(n, g)
    BY <1>4, <2>1, <2>3, <2>5 DEF Lose
  <2> QED
    BY <2>4, <2>7, <2>8 DEF NetInv
<1> QED
  BY <1>1, <1>3, <1>4

\* A page changes only its own kind, and preferences are only switched.
LEMMA PageRowTold ==
  ASSUME NEW op \in {"list", "panel", "set", "create", "delete", "test"}, NEW i, NEW q,
         (op # "set" /\ q = ForPage(op, i)) \/ (op = "set" /\ q = Switch(i)),
         op \in {"set", "create", "delete"} =>
           Kind[i] # "incidents" /\ (Kind[i] = "prefs" => op = "set")
  PROVE  NetRow(q)
<1>1. PICK p : p = Request(op, i, "page", cookie)
  OBVIOUS
<1>2. /\ DOMAIN p = RequestFields /\ p.op = op /\ p.what = i /\ p.value = "on"
  BY <1>1 DEF Request, RequestFields, NetRow
<1>3. \/ op # "set" /\ q = p
      \/ \E v \in {"on", "off"} : q = [p EXCEPT !.value = v, !.old = view.list]
  BY <1>1 DEF ForPage, Switch
<1>4. DOMAIN q = RequestFields /\ q.op = op /\ q.what = i /\ q.value \in {"on", "off"}
  BY <1>2, <1>3 DEF RequestFields
<1> QED
  BY <1>4 DEF NetRow

\* What the user does on a page.
LEMMA PageKeepsTold ==
  ASSUME NetInv, StrangerInv, OnPage
  PROVE  NetInv'
<1>1. ASSUME NEW q, NEW page, Act(q, page), NetRow(q) PROVE NetInv'
  <2>1. Send(net, <<q>>, {})
    BY <1>1 DEF Act
  <2> QED
    BY <1>1, <2>1, ToldSend
<1>2. \A i \in DOMAIN view.list : Kind[i] = KindOf(route)
  BY DEF StrangerInv, ShownInv, Of
<1>3. CASE Reload \/ Poll
  <2>1. PICK op, i, page : op \in {"list", "panel"} /\ Act(ForPage(op, i), page)
    BY <1>3 DEF Reload, Poll
  <2>2. PICK q : q = ForPage(op, i)
    OBVIOUS
  <2> QED
    BY <1>1, <2>1, <2>2, PageRowTold
<1>4. CASE RefreshMonitors
  <2>1. PICK q : q = Request("list", "monitors", "store", cookie)
    OBVIOUS
  <2>2. PICK requests : Send(net, requests, {}) /\ (requests = <<q>> \/ requests = <<>>)
    BY <1>4, <2>1 DEF RefreshMonitors, FetchMonitors
  <2> QED
    BY <2>1, <2>2, ToldSend DEF Request, RequestFields, NetRow
<1>5. ASSUME NEW i \in Item, Select(i) PROVE NetInv'
  BY <1>5, ToldFocus DEF Select
<1>6. ASSUME NEW i \in Item, AddMonitor(i) \/ RemoveMonitor(i) PROVE NetInv'
  <2>1. Kind[i] = "monitors"
    BY <1>6 DEF AddMonitor, RemoveMonitor, StrangerInv, ShownInv, Of
  <2>2. PICK op, q : /\ op \in {"create", "delete"}
                    /\ q = Request(op, i, "store", cookie)
                    /\ Send(net, <<q>>, {})
    BY <1>6 DEF AddMonitor, RemoveMonitor, ActOnStore
  <2>3. NetRow(q)
    BY <2>1, <2>2 DEF Request, RequestFields, NetRow
  <2> QED
    BY <2>2, <2>3, ToldSend
<1>7. ASSUME NEW i \in Item, AddChannel(i) \/ AddPage(i) \/ RemoveChannel(i) \/ RemovePage(i)
                              \/ TestChannel(i)
      PROVE  NetInv'
  <2>1. /\ route \in {"alerts", "status-pages"}
        /\ Kind[i] \in {"channels", "pages"} \/ i \in DOMAIN view.list
    BY <1>7 DEF AddChannel, AddPage, RemoveChannel, RemovePage, TestChannel
  <2>2. Kind[i] \in {"channels", "pages"}
    BY <1>2, <2>1 DEF KindOf, PageKind
  <2>3. PICK op, page : /\ op \in {"create", "delete", "test"}
                       /\ Act(ForPage(op, i), page)
    BY <1>7 DEF AddChannel, AddPage, RemoveChannel, RemovePage, TestChannel
  <2>4. PICK q : q = ForPage(op, i)
    OBVIOUS
  <2>5. NetRow(q)
    <3>1. op \in {"list", "panel", "set", "create", "delete", "test"} /\ op # "set"
      BY <2>3
    <3> QED
      BY <2>2, <2>4, <3>1, PageRowTold
  <2> QED
    BY <1>1, <2>3, <2>4, <2>5
<1>8. ASSUME NEW i \in Item, ToggleChannel(i) \/ TogglePref(i) \/ EditPage(i) PROVE NetInv'
  <2>1. route \in {"alerts", "status-pages", "settings"} /\ i \in DOMAIN view.list
    BY <1>8 DEF ToggleChannel, TogglePref, EditPage
  <2>2. Kind[i] \in {"channels", "pages", "prefs"}
    BY <1>2, <2>1 DEF KindOf, PageKind
  <2>3. PICK q : q = Switch(i)
    OBVIOUS
  <2>4. PICK page : Act(q, page)
    BY <1>8, <2>3 DEF ToggleChannel, TogglePref, EditPage
  <2>5. NetRow(q)
    BY <2>2, <2>3, PageRowTold
  <2> QED
    BY <1>1, <2>4, <2>5
<1> QED
  BY <1>3, <1>4, <1>5, <1>6, <1>7, <1>8 DEF OnPage

\* Every step keeps the requests apart.
LEMMA NetStep == NetInv /\ StrangerInv /\ [Next]_vars => NetInv'
<1> SUFFICES ASSUME NetInv, StrangerInv, [Next]_vars PROVE NetInv'
  OBVIOUS
<1>1. CASE net' = net
  BY <1>1 DEF NetInv
<1>2. ASSUME NEW r \in net, Settle(r) PROVE NetInv'
  BY <1>2, AnswerKeepsTold DEF Settle
<1>3. CASE OfSocket \/ OnShell
  <2>1. PICK q : q = Request("list", "incidents", "bell", cookie)
    OBVIOUS
  <2>2. \/ net' = net
        \/ \E requests : Send(net, requests, {}) /\ (requests = <<q>> \/ requests = <<>>)
    BY <1>3, <2>1 DEF OfSocket, OnShell, Handshake, Established, Refused, Drop, Offline, Emit,
       LookAtBadge, Say, Retry, IncidentOpens, LoadBadge, dataVars
  <2> QED
    BY <1>1, <2>1, <2>2, ToldSend DEF Request, RequestFields, NetRow
<1>4. CASE OfUser
  <2>1. CASE LogoutClick
    <3>1. PICK q : q = Request("logout", None, "session", cookie)
      OBVIOUS
    <3>2. PICK n : n = Post(net, q)
      OBVIOUS
    <3>3. Told(n)
      BY <3>1, <3>2, ToldOne DEF NetInv, Post, Request, RequestFields, NetRow
    <3>4. PICK s : Show("dashboard", s, store, n, conn, me, cookie, {}, TRUE)
      BY <2>1, <3>1, <3>2 DEF LogoutClick
    <3> QED
      BY <3>3, <3>4, ToldShow
  <2>2. ASSUME NEW rt, Navigate(rt) PROVE NetInv'
    <3>1. PICK s : Show(rt, s, store, net, conn, me, cookie, {}, FALSE)
      BY <2>2 DEF Navigate
    <3> QED
      BY <3>1, ToldShow DEF NetInv
  <2>3. ASSUME NEW u \in User, SignIn(u) PROVE NetInv'
    <3>1. PICK q : q = Request("login", u, "session", cookie)
      OBVIOUS
    <3>2. Send(net, <<q>>, {})
      BY <2>3, <3>1 DEF SignIn
    <3> QED
      BY <3>1, <3>2, ToldSend DEF Request, RequestFields, NetRow
  <2> QED
    BY <1>4, <2>1, <2>2, <2>3, PageKeepsTold DEF OfUser
<1> QED
  BY <1>1, <1>2, <1>3, <1>4, NetKeepsTold DEF Next, vars, dataVars, GrowStale

\* A tab is opened with one request.
LEMMA NetInit == Init => NetInv
<1> SUFFICES ASSUME Init PROVE NetInv
  OBVIOUS
<1>1. PICK q : q = Request("profile", None, "session", cookie)
  OBVIOUS
<1>2. PICK x : x = [q EXCEPT !.tag = 1]
  OBVIOUS
<1>3. DOMAIN q = RequestFields /\ q.op = "profile" /\ q.value = "on"
  BY <1>1 DEF Request, RequestFields, NetRow
<1>4. DOMAIN x = RequestFields /\ x.op = "profile" /\ x.value = "on"
  BY <1>2, <1>3 DEF RequestFields
<1>5. net = {x}
  BY <1>1, <1>2 DEF Init, DataInit
<1>6. NetRow(x)
  BY <1>4 DEF NetRow
<1> QED
  BY <1>5, <1>6, FS_Singleton DEF NetInv, Told

\* Requests under way are told apart by their tags, and none of them changes an incident.
THEOREM NetInvariant == Spec => []NetInv
BY NetInit, NetStep, StrangerInvariant, PTL DEF Spec

\* The same request, but for the tag.
Like(x, q) ==
  /\ DOMAIN x = RequestFields
  /\ x.op = q.op /\ x.what = q.what /\ x.by = q.by /\ x.as = q.as /\ x.value = q.value
  /\ x.old = q.old /\ x.stage = q.stage /\ x.ok = q.ok /\ x.data = q.data

\* To the requests n some of S are added.
Adds(n, S) ==
  /\ n \subseteq net' /\ messy \subseteq messy'
  /\ \A x \in net' : x \in n \/ \E q \in S : Like(x, q)

\* Sending adds the requests sent, none of which was there.
LEMMA SendAdds ==
  ASSUME NEW n, Told(n), NEW S, NEW requests \in Seq(S), NEW late, Send(n, requests, late),
         \A q \in S : DOMAIN q = RequestFields
  PROVE  /\ Adds(n, S) /\ late \subseteq messy'
         /\ \A k \in DOMAIN requests : \E x \in net' : x \notin n /\ Like(x, requests[k])
<1> DEFINE Tagged(k) == [requests[k] EXCEPT !.tag = FreeTag(n, k)]
<1>1. DOMAIN requests = 1..Len(requests) /\ Len(requests) \in Nat
  BY LenProperties
<1>2. net' = n \cup {Tagged(k) : k \in DOMAIN requests}
  BY DEF Send, PostAll
<1>3. ASSUME NEW k \in DOMAIN requests
      PROVE  /\ Like(Tagged(k), requests[k]) /\ requests[k] \in S
             /\ Tagged(k) \in net' /\ Tagged(k) \notin n
  <2>1. requests[k] \in S
    BY <1>1, ElementOfSeq
  <2>2. PICK q : q = requests[k] /\ DOMAIN q = RequestFields
    BY <2>1
  <2>3. PICK t : t = FreeTag(n, k)
    OBVIOUS
  <2>4. PICK x : x = [q EXCEPT !.tag = t]
    OBVIOUS
  <2>5. Like(x, q) /\ x.tag = t
    BY <2>2, <2>4 DEF Like, RequestFields
  <2>6. k \in Nat \ {0} /\ IsFiniteSet(n)
    BY <1>1 DEF Told
  <2>7. \A y \in n : y.tag # t
    BY <2>3, <2>6, FreeTagIsFree
  <2>8. x \notin n
    BY <2>5, <2>7
  <2> QED
    BY <1>2, <2>1, <2>2, <2>3, <2>4, <2>5, <2>8
<1> HIDE DEF Tagged
<1>4. messy \subseteq messy' /\ late \subseteq messy'
  BY DEF Send
<1> QED
  BY <1>2, <1>3, <1>4 DEF Adds

\* The same for one request or none.
LEMMA OneAdds ==
  ASSUME NEW n, Told(n), NEW q, NEW requests, requests = <<q>> \/ requests = <<>>,
         NEW late, Send(n, requests, late), DOMAIN q = RequestFields
  PROVE  /\ Adds(n, {q}) /\ late \subseteq messy'
         /\ requests = <<q>> => \E x \in net' : x \notin n /\ Like(x, q)
<1>1. PICK S : S = {q}
  OBVIOUS
<1>2. <<>> \in Seq(S) /\ <<q>> \in Seq(S)
  BY <1>1
<1>3. requests \in Seq(S) /\ \A x \in S : DOMAIN x = RequestFields
  BY <1>1, <1>2
<1>4. /\ Adds(n, S) /\ late \subseteq messy'
      /\ \A k \in DOMAIN requests : \E x \in net' : x \notin n /\ Like(x, requests[k])
  BY <1>3, SendAdds
<1>5. ASSUME requests = <<q>> PROVE \E x \in net' : x \notin n /\ Like(x, q)
  <2>1. DOMAIN requests = {1} /\ requests[1] = q
    BY <1>5
  <2> QED
    BY <1>4, <2>1
<1> QED
  BY <1>1, <1>4, <1>5

\* Nothing is sent.
LEMMA NoneAdds ==
  ASSUME NEW n, NEW late, Send(n, <<>>, late)
  PROVE  net' = n /\ messy' = messy \cup late
BY DEF Send, PostAll, DisturbedAll

-----------------------------------------------------------------------------
(* The list of incidents in the navbar *)

\* Lists of incidents overlapped, or one of them was lost.
Wide == Of("incidents") \subseteq messy

\* What was open at the last reconnection belongs to the session, and is listed or on
\* its way: a list that was sent since then brings it.
Kept ==
  /\ owed \subseteq Mine("incidents", cookie)
  /\ conn.state = "shaking" /\ connectedBefore => conn.as = cookie
  /\ owed \subseteq DOMAIN badge \/ \E x \in net : x.by = "bell"
  /\ \A x \in net : x.by = "bell" /\ x.stage = "answered" /\ x.ok => owed \subseteq DOMAIN x.data

GapInv ==
  /\ DOMAIN server = Item /\ owed \subseteq Of("incidents")
  /\ indicator = "connected" => conn.state = "up"
  /\ connectedBefore \/ owed # {} => ShellShown
  /\ Wide \/ Kept

\* Without navbar, or in a new one, nothing is owed.
LEMMA NothingOwed ==
  ASSUME GapInv, owed' = {}, connectedBefore' = FALSE, indicator' # "connected",
         server' = server
  PROVE  GapInv'
BY DEF GapInv, Kept

\* The navbar and the socket stay, and so do the requests for incidents.
LEMMA SameNavbar ==
  ASSUME GapInv, UNCHANGED <<cookie, server, conn, indicator, connectedBefore, badge, owed>>,
         messy \subseteq messy',
         \A x \in net : x.by = "bell" => x \in net',
         \A x \in net' : x.by = "bell" => x \in net \/ x.stage = "sent"
  PROVE  GapInv'
<1>1. Wide => Wide'
  BY DEF Wide
<1>2. Kept => Kept'
  BY DEF Kept, Mine
<1> QED
  BY <1>1, <1>2 DEF GapInv, ShellShown

\* The requests that remain when another was answered.
LEMMA BellStays ==
  ASSUME NetInv, NEW q \in net, q.by # "bell", NEW r, r.tag = q.tag
  PROVE  \A x \in net : x.by = "bell" => x \in Done(net, r)
BY DEF NetInv, Told, Done

\* A request in a list of several.
LEMMA AddsBells ==
  ASSUME NEW n, NEW S, Adds(n, S), \A q \in S : q.stage = "sent"
  PROVE  /\ n \subseteq net' /\ messy \subseteq messy'
         /\ \A x \in net' : x \in n \/ x.stage = "sent"
BY DEF Adds, Like

\* A page is shown: in the layout there is, with a new one, or without.
LEMMA ShowKeepsGaps ==
  ASSUME GapInv, NEW rt, NEW subject, NEW st, NEW n, Told(n), NEW c, NEW u, NEW as, NEW late,
         NEW remount \in BOOLEAN, Show(rt, subject, st, n, c, u, as, late, remount),
         server' = server,
         ShellShown /\ rt \in Protected /\ ~remount =>
           /\ c = conn /\ cookie' = cookie
           /\ \A x \in net : x.by = "bell" => x \in n
           /\ \A x \in n : x.by = "bell" => x \in net
  PROVE  GapInv'
<1>1. PICK stays \in BOOLEAN : stays = (rt \in Protected /\ ShellShown /\ ~remount)
  OBVIOUS
<1>2. CASE ~stays
  <2>1. owed' = {} /\ connectedBefore' = FALSE /\ indicator' \in {"connecting", "off"}
    BY <1>1, <1>2 DEF Show, MountShell, UnmountShell
  <2> QED
    BY <2>1, NothingOwed
<1>3. CASE stays
  <2>1. UNCHANGED <<cookie, server, conn, indicator, connectedBefore, badge, owed>>
    BY <1>1, <1>3 DEF Show
  <2>2. PICK bell \in BOOLEAN : bell = (rt \in Protected /\ ~stays)
    OBVIOUS
  <2>3. PICK requests : requests = Opening(rt, subject, st, as)
                                     \o (IF bell THEN <<LoadBadge(as)>> ELSE <<>>)
    OBVIOUS
  <2>4. PICK S, m : S = Opened(rt, subject, as) /\ m = Left(n, stays)
    OBVIOUS
  <2>5. Send(m, requests, late)
    BY <1>1, <2>2, <2>3, <2>4 DEF Show
  <2>6. requests \in Seq(S)
    BY <2>2, <2>3, <2>4, OpeningAsks
  <2>7. Told(m)
    BY <2>4, ToldLeft
  <2>8. ASSUME NEW q \in S PROVE DOMAIN q = RequestFields /\ q.stage = "sent"
    <3>1. PICK op, what, by : q = Request(op, what, by, as)
      BY <2>4 DEF Opened, LoadBadge
    <3> QED
      BY <3>1 DEF Request, RequestFields
  <2>9. Adds(m, S)
    BY <2>5, <2>6, <2>7, <2>8, SendAdds
  <2>10. \A x \in n : x.by = "bell" => x \in m
    BY <1>3, <2>4 DEF Left
  <2>11. \A x \in m : x.by = "bell" => x \in n
    <3> SUFFICES ASSUME NEW x \in m, x.by = "bell" PROVE x \in n
      OBVIOUS
    <3>1. PICK r \in n : x = IF r.by = "page" THEN [r EXCEPT !.by = "gone"] ELSE r
      BY <2>4 DEF Left
    <3>2. DOMAIN r = RequestFields
      BY DEF Told, NetRow
    <3>3. r.by # "page"
      BY <3>1, <3>2 DEF RequestFields
    <3> QED
      BY <3>1, <3>3
  <2>12. /\ m \subseteq net' /\ messy \subseteq messy'
         /\ \A x \in net' : x \in m \/ x.stage = "sent"
    BY <2>8, <2>9, AddsBells
  <2>13. /\ \A x \in net : x.by = "bell" => x \in net'
         /\ \A x \in net' : x.by = "bell" => x \in net \/ x.stage = "sent"
    BY <1>1, <1>3, <2>10, <2>11, <2>12
  <2> QED
    BY <2>1, <2>12, <2>13, SameNavbar
<1> QED
  BY <1>2, <1>3

\* The requests for incidents stay; those that come have no answer yet.
SameBells ==
  /\ messy \subseteq messy'
  /\ \A x \in net : x.by = "bell" => x \in net'
  /\ \A x \in net' : x.by = "bell" => x \in net \/ x.stage = "sent"

\* Less is waited for, and one more request is sent or none.
LEMMA SendBells ==
  ASSUME NetInv, NEW n \in SUBSET net, \A x \in net : x.by = "bell" => x \in n,
         NEW q, DOMAIN q = RequestFields /\ q.stage = "sent",
         NEW requests, requests = <<q>> \/ requests = <<>>, NEW late, Send(n, requests, late)
  PROVE  SameBells
<1>1. Told(n)
  BY ToldLess DEF NetInv
<1>2. PICK S : S = {q}
  OBVIOUS
<1>3. Adds(n, S)
  BY <1>1, <1>2, OneAdds
<1>4. \A x \in S : x.stage = "sent"
  BY <1>2
<1>5. /\ n \subseteq net' /\ messy \subseteq messy'
      /\ \A x \in net' : x \in n \/ x.stage = "sent"
  BY <1>3, <1>4, AddsBells
<1> QED
  BY <1>5 DEF SameBells

\* Nothing is sent.
LEMMA NoBells ==
  ASSUME NEW n \in SUBSET net, \A x \in net : x.by = "bell" => x \in n,
         NEW late, Send(n, <<>>, late)
  PROVE  SameBells
BY NoneAdds DEF SameBells

\* Another subject: only panels are withdrawn.
LEMMA FocusBells ==
  ASSUME NetInv, StrangerInv, NEW n \in SUBSET net, \A x \in net : x.by = "bell" => x \in n,
         NEW s, NEW late, Focus(s, n, late)
  PROVE  SameBells
<1>1. PICK q : q = Request("panel", s, "page", cookie)
  OBVIOUS
<1>2. DOMAIN q = RequestFields /\ q.stage = "sent"
  BY <1>1 DEF Request, RequestFields
<1>3. PICK requests : requests = PanelRequest(s, cookie)
  OBVIOUS
<1>4. requests = <<q>> \/ requests = <<>>
  BY <1>1, <1>3 DEF PanelRequest
<1>5. PICK w : w = Withdrawn(n)
  OBVIOUS
<1>6. w \in SUBSET net /\ \A x \in n : x.by = "bell" => x \in w
  BY <1>5 DEF Withdrawn, StrangerInv, RowsFit, AskRow
<1>7. Send(w, requests, late)
  BY <1>3, <1>5 DEF Focus
<1> QED
  BY <1>2, <1>4, <1>6, <1>7, SendBells

\* The navbar and the socket stay.
ShellStays == UNCHANGED <<cookie, server, conn, indicator, connectedBefore, badge, owed>>

\* With the requests for incidents, so does what is known of them.
LEMMA SameShell == GapInv /\ ShellStays /\ SameBells => GapInv'
BY SameNavbar DEF ShellStays, SameBells

\* An answer for the navbar.
LEMMA BellAnswerKeepsGaps ==
  ASSUME GapInv, StrangerInv, NEW r \in net, r.stage = "answered", SettleBell(r)
  PROVE  GapInv'
<1>1. /\ r.by = "bell" /\ badge' = BadgeAfter(r) /\ Send(Done(net, r), <<>>, Missed(r))
      /\ UNCHANGED <<server, cookie, conn, indicator, connectedBefore, owed>>
  BY DEF SettleBell
<1>2. net' = Done(net, r) /\ messy' = messy \cup Missed(r)
  BY <1>1, NoneAdds
<1>3. r.op = "list" /\ r.what = "incidents"
  BY <1>1 DEF StrangerInv, RowsFit, AskRow
<1>4. Wide \/ ~r.ok => Wide'
  BY <1>2, <1>3 DEF Wide, Missed, Touched
<1>5. CASE Kept /\ r.ok
  <2>1. owed \subseteq DOMAIN badge'
    BY <1>1, <1>5 DEF Kept, BadgeAfter
  <2>2. Kept'
    BY <1>1, <1>2, <1>5, <2>1 DEF Kept, Mine, Done
  <2> QED
    BY <1>1, <2>2 DEF GapInv, ShellShown
<1> QED
  BY <1>1, <1>4, <1>5 DEF GapInv, ShellShown

\* Answers that change neither session nor navbar.
LEMMA OtherAnswersKeepGaps ==
  ASSUME GapInv, NetInv, StrangerInv, NEW q \in net, NEW r,
         r.tag = q.tag /\ r.by = q.by,
         SettleStore(r) \/ SettlePage(r) \/ SettleGone(r)
  PROVE  GapInv'
<1>1. PICK n \in SUBSET net : n = Done(net, r)
  BY DEF Done
<1>2. r.by # "bell" /\ ShellStays
  BY DEF SettleStore, SettlePage, SettleGone, ShellStays, socketVars
<1>3. \A x \in net : x.by = "bell" => x \in n
  BY <1>1, <1>2, BellStays
<1>4. ASSUME NEW late, Send(n, <<>>, late) PROVE SameBells
  BY <1>3, <1>4, NoBells
<1>5. SameBells
  <2>1. CASE SettleStore(r)
    <3>1. (\E s : Focus(s, n, Missed(r))) \/ Send(n, <<>>, Missed(r))
      BY <1>1, <2>1 DEF SettleStore
    <3> QED
      BY <1>3, <1>4, <3>1, FocusBells
  <2>2. CASE SettlePage(r)
    <3>1. PICK q1 : q1 = Request("list", PageKind[route], "page", cookie)
      OBVIOUS
    <3>2. DOMAIN q1 = RequestFields /\ q1.stage = "sent"
      BY <3>1 DEF Request, RequestFields
    <3>3. PICK requests : /\ Send(n, requests, Missed(r))
                          /\ requests = <<q1>> \/ requests = <<>>
      BY <1>1, <2>2, <3>1 DEF SettlePage
    <3> QED
      BY <1>3, <3>2, <3>3, SendBells
  <2>3. CASE SettleGone(r)
    BY <1>1, <1>4, <2>3 DEF SettleGone
  <2> QED
    BY <2>1, <2>2, <2>3
<1> QED
  BY <1>2, <1>5, SameShell

\* Answers for the session: a navbar there is belongs to one already, so that the cookie
\* changes under it only when a sign-in lands on top of another session.
LEMMA SessionAnswersKeepGaps ==
  ASSUME GapInv, NetInv, StrangerInv, RoomInv, NEW q \in net, NEW r,
         r.tag = q.tag /\ r.by = q.by /\ r.by = "session",
         SettleFirstProfile(r) \/ SettleSignIn(r) \/ SettleLogout(r)
  PROVE  GapInv'
<1>1. PICK n \in SUBSET net : n = Done(net, r)
  BY DEF Done
<1>2. Told(n) /\ server' = server
  BY ToldLess DEF NetInv, SettleFirstProfile, SettleSignIn, SettleLogout
<1>3. \A x \in net : x.by = "bell" => x \in n
  BY <1>1, BellStays
<1>4. ASSUME ~ShellShown, UNCHANGED <<indicator, connectedBefore, owed>> PROVE GapInv'
  <2>1. owed' = {} /\ connectedBefore' = FALSE /\ indicator' # "connected"
    BY <1>4 DEF GapInv, ShellShown, RoomInv
  <2> QED
    BY <1>2, <2>1, NothingOwed
<1>5. CASE SettleFirstProfile(r)
  <2>1. PICK p : p = Request("profile", None, "session", cookie)
    OBVIOUS
  <2>2. PICK m : m = Post(n, p)
    OBVIOUS
  <2>3. NetRow(p)
    BY <2>1 DEF Request, RequestFields, NetRow
  <2>4. Told(m)
    BY <1>2, <2>2, <2>3, ToldOne DEF Post
  <2>5. PICK rt, s, u : Show(rt, s, store, m, conn, u, cookie, {}, FALSE)
    BY <1>1, <1>5, <2>1, <2>2 DEF SettleFirstProfile
  <2>6. ~ShellShown
    BY <1>5 DEF SettleFirstProfile, StrangerInv, ShownInv, RoomInv
  <2> QED
    BY <1>2, <2>4, <2>5, <2>6, ShowKeepsGaps
<1>6. CASE SettleSignIn(r)
  <2>1. CASE route = "login" /\ signedIn'
    <3>1. PICK s, u, as : Show("dashboard", s, store, n, conn, u, as, {}, FALSE)
      BY <1>1, <1>6, <2>1 DEF SettleSignIn
    <3>2. ~ShellShown
      BY <2>1 DEF RoomInv, Protected, PageKind
    <3> QED
      BY <1>2, <3>1, <3>2, ShowKeepsGaps
  <2>2. CASE ~(route = "login" /\ signedIn')
    <3>1. /\ Send(n, <<>>, IF r.op = "login" /\ signedIn THEN Item ELSE {})
          /\ UNCHANGED <<conn, indicator, connectedBefore, badge, owed>>
      BY <1>1, <1>6, <2>2 DEF SettleSignIn
    <3>2. SameBells
      BY <1>3, <3>1, NoBells
    <3>3. CASE cookie' = cookie
      BY <1>2, <3>1, <3>2, <3>3, SameShell DEF ShellStays
    <3>4. CASE cookie' # cookie
      <4>1. r.op = "login"
        BY <1>6, <3>4 DEF SettleSignIn, SessionAfter
      <4>2. CASE signedIn
        <5>1. Send(n, <<>>, Item)
          BY <3>1, <4>1, <4>2
        <5>2. Item \subseteq messy'
          BY <5>1, SendDisturbs
        <5>3. Wide'
          BY <5>2 DEF Wide, Of
        <5> QED
          BY <1>2, <3>1, <5>3 DEF GapInv, ShellShown
      <4>3. CASE ~signedIn
        BY <1>4, <3>1, <4>3 DEF RoomInv
      <4> QED
        BY <4>2, <4>3
    <3> QED
      BY <3>3, <3>4
  <2> QED
    BY <2>1, <2>2
<1>7. CASE SettleLogout(r)
  <2>1. CASE route \in Protected
    <3>1. PICK c, late : Show("login", None, Wiped, n, c, None, None, late, FALSE)
      BY <1>1, <1>7, <2>1 DEF SettleLogout
    <3>2. "login" \notin Protected
      BY DEF Protected, PageKind
    <3> QED
      BY <1>2, <3>1, <3>2, ShowKeepsGaps
  <2>2. CASE route \notin Protected
    BY <1>4, <1>7, <2>2 DEF SettleLogout, RoomInv
  <2> QED
    BY <2>1, <2>2
<1> QED
  BY <1>5, <1>6, <1>7

\* A reconnection: the list that is fetched then is sent after everything that is owed
\* was open.  If another one is under way the two overlap.
LEMMA ReconnectionKeepsGaps ==
  ASSUME GapInv, NetInv, RoomInv, StrangerInv', Established
  PROVE  GapInv'
<1>1. /\ conn.state = "shaking" /\ conn' = [conn EXCEPT !.state = "up", !.retry = FALSE]
      /\ indicator' = IF ShellShown THEN "connected" ELSE "off"
      /\ connectedBefore' = ShellShown
      /\ UNCHANGED <<server, cookie, badge>>
  BY DEF Established, Shows
<1>2. PICK q : q = Request("list", "incidents", "bell", cookie)
  OBVIOUS
<1>3. /\ DOMAIN q = RequestFields /\ q.stage = "sent" /\ q.by = "bell" /\ q.op = "list"
      /\ q.what = "incidents"
  BY <1>2 DEF Request, RequestFields
<1>4. PICK requests : requests = IF Resyncs THEN <<q>> ELSE <<>>
  OBVIOUS
<1>5. Send(net, requests, {})
  BY <1>2, <1>4 DEF Established, LoadBadge
<1>6. SameBells
  BY <1>3, <1>4, <1>5, SendBells
<1>7. Wide => Wide'
  BY <1>6 DEF SameBells, Wide
<1>8. ShellShown' = ShellShown
  BY <1>1 DEF ShellShown
<1>9. conn'.state = "up"
  BY <1>1 DEF RoomInv
<1>10. CASE Resyncs
  <2>1. owed' = Mine("incidents", conn.as)
    BY <1>10 DEF Established, Resyncs
  <2>2. PICK y \in net' : y \notin net /\ Like(y, q)
    <3>1. requests = <<q>> /\ Told(net)
      BY <1>4, <1>10 DEF NetInv
    <3> QED
      BY <1>3, <1>5, <3>1, OneAdds
  <2>3. ASSUME NEW x \in net, x.by = "bell" PROVE Wide'
    <3>1. x \in net' /\ x # y
      BY <1>6, <2>2, <2>3 DEF SameBells
    <3>2. Apart(x, y, messy') /\ AskRow(x, route')
      BY <2>2, <3>1 DEF StrangerInv, RowsFit
    <3>3. Touched(x) = Of("incidents") /\ Touched(y) = Of("incidents") /\ x.by = y.by
      BY <1>3, <2>2, <2>3, <3>2 DEF AskRow, Touched, Like
    <3>4. Of("incidents") \subseteq messy'
      BY <3>2, <3>3 DEF Apart
    <3> QED
      BY <3>4 DEF Wide
  <2>4. ASSUME Kept, \A x \in net : x.by # "bell" PROVE Kept'
    <3>1. conn.as = cookie
      BY <1>1, <1>10, <2>4 DEF Kept, Resyncs
    <3>2. owed' \subseteq Mine("incidents", cookie)'
      BY <1>1, <2>1, <3>1 DEF Mine
    <3>3. y.by = "bell"
      BY <1>3, <2>2 DEF Like
    <3>4. \A x \in net' : x.by = "bell" => x.stage = "sent"
      BY <1>6, <2>4 DEF SameBells
    <3> QED
      BY <1>9, <2>2, <3>2, <3>3, <3>4 DEF Kept
  <2>5. Wide' \/ Kept'
    BY <1>7, <2>3, <2>4 DEF GapInv
  <2>6. owed' \subseteq Of("incidents")
    BY <2>1 DEF Mine
  <2> QED
    BY <1>1, <1>8, <1>9, <1>10, <2>5, <2>6 DEF GapInv, Resyncs
<1>11. CASE ~Resyncs
  <2>1. owed' = owed /\ net' = net
    <3>1. Send(net, <<>>, {})
      BY <1>4, <1>5, <1>11
    <3> QED
      BY <1>11, <3>1, NoneAdds DEF Established, Resyncs
  <2>2. Kept => Kept'
    BY <1>1, <1>9, <2>1 DEF Kept, Mine
  <2> QED
    BY <1>1, <1>7, <1>9, <2>1, <2>2 DEF GapInv, ShellShown
<1> QED
  BY <1>10, <1>11

\* The other events of the socket.
LEMMA SocketKeepsGaps ==
  ASSUME GapInv, NetInv, RoomInv, StrangerInv', OfSocket
  PROVE  GapInv'
<1>1. CASE Handshake
  <2>1. /\ conn.state = "connecting" /\ conn' = [conn EXCEPT !.state = "shaking", !.as = cookie]
        /\ UNCHANGED <<server, cookie, net, messy, badge, owed, connectedBefore>>
        /\ indicator' \in {indicator, "reconnecting", "off"} /\ ShellShown' = ShellShown
    BY <1>1 DEF Handshake, Shows, ShellShown, dataVars
  <2>2. conn'.as = cookie /\ indicator' # "connected"
    BY <2>1 DEF RoomInv, GapInv
  <2>3. Kept => Kept'
    BY <2>1, <2>2 DEF Kept, Mine
  <2> QED
    BY <2>1, <2>2, <2>3 DEF GapInv, Wide
<1>2. CASE Refused \/ Drop
  <2>1. /\ UNCHANGED <<server, cookie, net, messy, badge, owed, connectedBefore>>
        /\ indicator' \in {"unauthorized", "reconnecting", "off"} /\ ShellShown' = ShellShown
    BY <1>2 DEF Refused, Drop, Lost, Shows, ShellShown, dataVars
  <2>2. conn'.state # "shaking"
    BY <1>2 DEF Refused, Drop, Idle
  <2>3. Kept => Kept'
    BY <2>1, <2>2 DEF Kept, Mine
  <2> QED
    BY <2>1, <2>3 DEF GapInv, Wide
<1>3. CASE Offline
  <2>1. /\ UNCHANGED <<server, cookie, net, messy, badge, owed, connectedBefore, conn>>
        /\ indicator' \in {"reconnecting", "off"} /\ ShellShown' = ShellShown
    BY <1>3 DEF Offline, Shows, ShellShown
  <2>2. Kept => Kept'
    BY <2>1 DEF Kept, Mine
  <2> QED
    BY <2>1, <2>2 DEF GapInv, Wide
<1>4. ASSUME NEW id, Emit(id) PROVE GapInv'
  <2>1. ShellStays /\ net' = net /\ messy' = messy
    BY <1>4 DEF Emit, ShellStays
  <2> QED
    BY <2>1, SameShell DEF SameBells
<1> QED
  BY <1>1, <1>2, <1>3, <1>4, ReconnectionKeepsGaps DEF OfSocket

\* Hands on the shell, and incidents.
LEMMA ShellKeepsGaps ==
  ASSUME GapInv, NetInv, RoomInv, OnShell
  PROVE  GapInv'
<1>1. CASE LookAtBadge
  <2>1. PICK q : q = Request("list", "incidents", "bell", cookie)
    OBVIOUS
  <2>2. DOMAIN q = RequestFields /\ q.stage = "sent"
    BY <2>1 DEF Request, RequestFields
  <2>3. PICK requests : requests = <<q>> /\ Send(net, requests, {})
    BY <1>1, <2>1 DEF LookAtBadge, LoadBadge
  <2>4. SameBells
    BY <2>2, <2>3, SendBells
  <2>5. ShellStays
    BY <1>1 DEF LookAtBadge, ShellStays, socketVars
  <2> QED
    BY <2>4, <2>5, SameShell
<1>2. CASE Say \/ Retry("connecting") \/ Retry(indicator)
  <2>1. /\ UNCHANGED <<server, cookie, net, messy, badge, owed, connectedBefore>>
        /\ conn' = ConnectSocket(conn) /\ ShellShown
        /\ indicator' \in {indicator, "connecting"}
    BY <1>2 DEF Say, Retry, dataVars
  <2>2. /\ conn.state # "idle" => conn' = conn
        /\ conn.state = "idle" => conn'.state = "connecting"
    BY <2>1, SocketFields DEF RoomInv
  <2>3. ShellShown'
    BY <2>1 DEF ShellShown
  <2>4. indicator' = "connected" => conn'.state = "up"
    BY <2>1, <2>2 DEF GapInv
  <2>5. Kept => Kept'
    BY <2>1, <2>2 DEF Kept, Mine
  <2> QED
    BY <2>1, <2>3, <2>4, <2>5 DEF GapInv, Wide
<1>3. ASSUME NEW i \in Item, IncidentOpens(i) PROVE GapInv'
  <2>1. /\ server' = [server EXCEPT ![i] = "on"]
        /\ UNCHANGED <<cookie, net, messy, badge, owed, connectedBefore, conn, indicator>>
    BY <1>3 DEF IncidentOpens, socketVars
  <2>2. \A u : Mine("incidents", u) \subseteq Mine("incidents", u)'
    BY <2>1 DEF Mine, Of, GapInv
  <2>3. Kept => Kept'
    BY <2>1, <2>2 DEF Kept
  <2> QED
    BY <2>1, <2>3 DEF GapInv, Wide, ShellShown
<1> QED
  BY <1>1, <1>2, <1>3 DEF OnShell

\* The server handles a request, or its answer is lost: a list of incidents brings what is
\* open, and nobody else changes incidents.
LEMMA NetKeepsGaps ==
  ASSUME GapInv, NetInv, StrangerInv, OfNet
  PROVE  GapInv'
<1>1. UNCHANGED <<cookie, conn, indicator, connectedBefore, badge, owed>>
  BY DEF OfNet, Serve, Lose, socketVars
<1>2. PICK r \in net : Serve(r) \/ Lose(r)
  BY DEF OfNet
<1>3. NetRow(r) /\ AskRow(r, route) /\ SessionRow(r, messy, cookie, signedIn)
  BY DEF NetInv, Told, StrangerInv, RowsFit
<1>4. CASE Serve(r)
  <2>1. PICK x : x = Answered(r)
    OBVIOUS
  <2>2. /\ x.by = r.by
        /\ r.op = "list" /\ x.ok => x.data = Documents(r.what, r.as)
    BY <1>3, <2>1 DEF Answered, Answer, NetRow, RequestFields
  <2>3. server' = Changed(r) /\ net' = (net \ {r}) \cup {x} /\ messy' = messy
    BY <1>4, <2>1 DEF Serve
  <2>4. /\ DOMAIN server' = Item
        /\ \A i \in Of("incidents") : server'[i] = server[i]
    BY <1>3, <2>3 DEF Changed, NetRow, GapInv, Of
  <2>5. Mine("incidents", cookie)' = Mine("incidents", cookie)
    BY <1>1, <2>4 DEF Mine, Of
  <2>6. ASSUME ~Wide, Kept, x.by = "bell", x.ok PROVE owed \subseteq DOMAIN x.data
    <3>1. r.op = "list" /\ r.what = "incidents"
      BY <1>3, <2>2, <2>6 DEF AskRow
    <3>2. r.as = cookie
      BY <1>3, <2>6, <3>1 DEF SessionRow, Touched, Wide
    <3>3. DOMAIN x.data = Mine("incidents", cookie)
      BY <2>2, <2>6, <3>1, <3>2 DEF Documents
    <3> QED
      BY <2>6, <3>3 DEF Kept
  <2>7. ~Wide /\ Kept => Kept'
    BY <1>1, <2>2, <2>3, <2>5, <2>6 DEF Kept
  <2> QED
    BY <1>1, <2>3, <2>4, <2>7 DEF GapInv, Wide, ShellShown
<1>5. CASE Lose(r)
  <2>1. PICK x : x = [r EXCEPT !.stage = "answered", !.ok = FALSE, !.data = None]
    OBVIOUS
  <2>2. x.by = r.by /\ x.ok = FALSE
    BY <1>3, <2>1 DEF NetRow, RequestFields
  <2>3. PICK n : n = (net \ {r}) \cup {x}
    OBVIOUS
  <2>4. PICK g : g = [r EXCEPT !.by = "gone"]
    OBVIOUS
  <2>5. /\ net' = n \/ net' = Post(n, g)
        /\ server' = server /\ messy \subseteq messy'
    BY <1>5, <2>1, <2>3, <2>4 DEF Lose
  <2>6. /\ n \subseteq net' /\ \A y \in net' : y \in n \/ y.by = "gone"
    <3>1. CASE net' = n
      BY <3>1
    <3>2. CASE net' = Post(n, g)
      <4>1. net' = n \cup {[<<g>>[k] EXCEPT !.tag = FreeTag(n, k)] : k \in {1}}
        BY <3>2 DEF Post, PostAll
      <4>2. PICK t : t = FreeTag(n, 1)
        OBVIOUS
      <4>3. PICK y : y = [g EXCEPT !.tag = t]
        OBVIOUS
      <4>4. net' = n \cup {y}
        BY <4>1, <4>2, <4>3
      <4>5. y.by = "gone"
        BY <1>3, <2>4, <4>3 DEF NetRow, RequestFields
      <4> QED
        BY <4>4, <4>5
    <3> QED
      BY <2>5, <3>1, <3>2
  <2>7. Kept => Kept'
    BY <1>1, <2>2, <2>3, <2>5, <2>6 DEF Kept, Mine
  <2> QED
    BY <1>1, <2>5, <2>7 DEF GapInv, Wide, ShellShown
<1> QED
  BY <1>2, <1>4, <1>5

\* What the user does on a page, and sending the form of the login page.
LEMMA PageKeepsGaps ==
  ASSUME GapInv, NetInv, StrangerInv, OnPage \/ \E u \in User : SignIn(u)
  PROVE  GapInv'
<1>1. ShellStays
  BY DEF OnPage, SignIn, Reload, RefreshMonitors, Poll, Select, AddMonitor, AddChannel, AddPage,
     RemoveMonitor, RemoveChannel, RemovePage, TestChannel, ToggleChannel, TogglePref, EditPage,
     Act, ActOnStore, StoreUnchanged, socketVars, ShellStays
<1>2. \/ \E i : Focus(i, net, {})
      \/ Send(net, FetchMonitors(store, cookie), {})
      \/ \E op, i, by : Send(net, <<Request(op, i, by, cookie)>>, {})
      \/ \E i : Send(net, <<Switch(i)>>, {})
  BY DEF OnPage, SignIn, Reload, RefreshMonitors, Poll, Select, AddMonitor, AddChannel, AddPage,
     RemoveMonitor, RemoveChannel, RemovePage, TestChannel, ToggleChannel, TogglePref, EditPage,
     Act, ActOnStore, ForPage
<1>3. ASSUME NEW op, NEW i, NEW by, NEW q, q = Request(op, i, by, cookie)
      PROVE  DOMAIN q = RequestFields /\ q.stage = "sent"
  BY <1>3 DEF Request, RequestFields
<1>4. SameBells
  <2>1. ASSUME NEW i, Focus(i, net, {}) PROVE SameBells
    BY <2>1, FocusBells
  <2>2. CASE Send(net, FetchMonitors(store, cookie), {})
    <3>1. PICK q : q = Request("list", "monitors", "store", cookie)
      OBVIOUS
    <3>2. PICK requests : Send(net, requests, {}) /\ (requests = <<q>> \/ requests = <<>>)
      BY <2>2, <3>1 DEF FetchMonitors
    <3>3. DOMAIN q = RequestFields /\ q.stage = "sent"
      BY <1>3, <3>1
    <3> QED
      BY <3>2, <3>3, SendBells
  <2>3. ASSUME NEW op, NEW i, NEW by, Send(net, <<Request(op, i, by, cookie)>>, {})
        PROVE  SameBells
    <3>1. PICK q : q = Request(op, i, by, cookie)
      OBVIOUS
    <3>2. PICK requests : Send(net, requests, {}) /\ requests = <<q>>
      BY <2>3, <3>1
    <3>3. DOMAIN q = RequestFields /\ q.stage = "sent"
      BY <1>3, <3>1
    <3> QED
      BY <3>2, <3>3, SendBells
  <2>4. ASSUME NEW i, Send(net, <<Switch(i)>>, {}) PROVE SameBells
    <3>1. PICK p : p = Request("set", i, "page", cookie)
      OBVIOUS
    <3>2. PICK q : q = Switch(i)
      OBVIOUS
    <3>3. \E v, o : q = [p EXCEPT !.value = v, !.old = o]
      BY <3>1, <3>2 DEF Switch, ForPage
    <3>4. DOMAIN p = RequestFields /\ p.stage = "sent"
      BY <1>3, <3>1
    <3>5. DOMAIN q = RequestFields /\ q.stage = "sent"
      BY <3>3, <3>4 DEF RequestFields
    <3>6. PICK requests : Send(net, requests, {}) /\ requests = <<q>>
      BY <2>4, <3>2
    <3> QED
      BY <3>5, <3>6, SendBells
  <2> QED
    BY <1>2, <2>1, <2>2, <2>3, <2>4
<1> QED
  BY <1>1, <1>4, SameShell

\* Links and the button to log out.
LEMMA UserKeepsGaps ==
  ASSUME GapInv, NetInv, StrangerInv, OfUser
  PROVE  GapInv'
<1>1. CASE LogoutClick
  <2>1. PICK q : q = Request("logout", None, "session", cookie)
    OBVIOUS
  <2>2. PICK n : n = Post(net, q)
    OBVIOUS
  <2>3. Told(n)
    BY <2>1, <2>2, ToldOne DEF NetInv, Post, Request, RequestFields, NetRow
  <2>4. PICK s : Show("dashboard", s, store, n, conn, me, cookie, {}, TRUE) /\ server' = server
    BY <1>1, <2>1, <2>2 DEF LogoutClick
  <2> QED
    BY <2>3, <2>4, ShowKeepsGaps
<1>2. ASSUME NEW rt, Navigate(rt) PROVE GapInv'
  <2>1. PICK s : /\ Show(rt, s, store, net, conn, me, cookie, {}, FALSE)
                 /\ server' = server /\ cookie' = cookie
    BY <1>2 DEF Navigate
  <2> QED
    BY <2>1, ShowKeepsGaps DEF NetInv
<1> QED
  BY <1>1, <1>2, PageKeepsGaps DEF OfUser

\* Every step keeps what is owed, listed or on its way.
LEMMA GapStep ==
  GapInv /\ NetInv /\ RoomInv /\ StrangerInv /\ StrangerInv' /\ [Next]_vars => GapInv'
<1> SUFFICES ASSUME GapInv, NetInv, RoomInv, StrangerInv, StrangerInv', [Next]_vars
             PROVE  GapInv'
  OBVIOUS
<1>1. ASSUME NEW q \in net, Settle(q) PROVE GapInv'
  <2>1. NetRow(q) /\ AskRow(q, route)
    BY DEF NetInv, Told, StrangerInv, RowsFit
  <2>2. PICK r : /\ SettleAnswered(r)
                 /\ \/ q.stage = "answered" /\ r = q
                    \/ q.stage = "sent" /\ q.op \in AtOnce /\ r = Answered(q)
    BY <1>1 DEF Settle
  <2>3. r.tag = q.tag /\ r.by = q.by /\ r.op = q.op
    BY <2>1, <2>2, AnsweredTold
  <2>4. CASE SettleBell(r)
    <3>1. r = q /\ q.stage = "answered"
      BY <2>1, <2>2, <2>3, <2>4 DEF SettleBell, AskRow, AtOnce
    <3> QED
      BY <2>4, <3>1, BellAnswerKeepsGaps
  <2>5. CASE SettleStore(r) \/ SettlePage(r) \/ SettleGone(r)
    BY <2>3, <2>5, OtherAnswersKeepGaps
  <2>6. CASE SettleFirstProfile(r) \/ SettleSignIn(r) \/ SettleLogout(r)
    <3>1. r.by = "session"
      BY <2>1, <2>3, <2>6 DEF SettleFirstProfile, SettleSignIn, SettleLogout, AskRow
    <3> QED
      BY <2>3, <2>6, <3>1, SessionAnswersKeepGaps
  <2> QED
    BY <2>2, <2>4, <2>5, <2>6 DEF SettleAnswered
<1>2. CASE GrowStale /\ UNCHANGED <<socketVars, initializing, route, view>>
  <2>1. ShellStays /\ net' = net /\ messy' = messy
    BY <1>2 DEF GrowStale, socketVars, ShellStays
  <2> QED
    BY <2>1, SameShell DEF SameBells
<1>3. CASE UNCHANGED vars
  <2>1. ShellStays /\ net' = net /\ messy' = messy
    BY <1>3 DEF vars, dataVars, socketVars, ShellStays
  <2> QED
    BY <2>1, SameShell DEF SameBells
<1> QED
  BY <1>1, <1>2, <1>3, UserKeepsGaps, SocketKeepsGaps, ShellKeepsGaps, NetKeepsGaps DEF Next

\* A tab is opened without layout.
LEMMA GapInit == Init => GapInv
<1> SUFFICES ASSUME Init PROVE GapInv
  OBVIOUS
<1>1. /\ DOMAIN server = Item /\ indicator = "off" /\ connectedBefore = FALSE /\ owed = {}
      /\ conn.state = "idle"
  BY DEF Init, DataInit, SocketInit, Idle
<1> QED
  BY <1>1 DEF GapInv, Kept

\* What was open at the last reconnection is listed, or a list that brings it is on its way.
THEOREM GapInvariant == Spec => []GapInv
<1>1. GapInv /\ NetInv /\ RoomInv /\ StrangerInv /\ StrangerInv' /\ [Next]_vars => GapInv'
  BY GapStep
<1> QED
  BY <1>1, GapInit, NetInvariant, RoomInvariant, StrangerInvariant, PTL DEF Spec

\* After a reconnection the navbar lists the incidents that were open then, once its list
\* has come, unless lists of incidents overlapped or one was lost.
THEOREM GapsAreListed == Spec => []GapsAreRefetched
<1>1. GapInv /\ StrangerInv => GapsAreRefetched
  <2> SUFFICES ASSUME GapInv, StrangerInv, indicator = "connected",
                      ~Awaited("incidents", "bell")
               PROVE  owed \subseteq DOMAIN badge \cup messy
    BY DEF GapsAreRefetched, GapInv
  <2>1. \A x \in net : x.by # "bell"
    BY DEF StrangerInv, RowsFit, AskRow, Awaited
  <2>2. CASE Kept
    BY <2>1, <2>2 DEF Kept
  <2>3. CASE Wide
    BY <2>3 DEF GapInv, Wide
  <2> QED
    BY <2>2, <2>3 DEF GapInv
<1> QED
  BY <1>1, GapInvariant, StrangerInvariant, PTL

\* What is asked for by the way: lists and panels.
Asked(x) == x.stage = "sent" /\ x.as = cookie /\ x.op \in {"list", "panel"}

\* Of the requests n, those that touch something stay, and some are added.
Onward(n) ==
  /\ messy \subseteq messy'
  /\ \A x \in n : x \in net' \/ Touched(x) = {}
  /\ \A x \in net' : x \in n \/ Asked(x)

\* One more request is sent, or none.
LEMMA SendOnward ==
  ASSUME NEW n, Told(n), NEW op \in {"list", "panel"}, NEW i, NEW by, NEW requests,
         requests = <<Request(op, i, by, cookie)>> \/ requests = <<>>,
         NEW late, Send(n, requests, late)
  PROVE  Onward(n) /\ late \subseteq messy'
<1>1. PICK q : q = Request(op, i, by, cookie)
  OBVIOUS
<1>2. DOMAIN q = RequestFields /\ q.stage = "sent" /\ q.as = cookie /\ q.op = op
  BY <1>1 DEF Request, RequestFields
<1>3. PICK S : S = {q}
  OBVIOUS
<1>4. Adds(n, S) /\ late \subseteq messy'
  BY <1>1, <1>2, <1>3, OneAdds
<1> QED
  BY <1>2, <1>3, <1>4 DEF Adds, Like, Onward, Asked

\* Another subject: panels touch nothing.
LEMMA FocusOnward ==
  ASSUME NEW n, Told(n), NEW s, NEW late, Focus(s, n, late)
  PROVE  Onward(n) /\ late \subseteq messy'
<1>1. PICK w : w = Withdrawn(n)
  OBVIOUS
<1>2. PICK requests : requests = PanelRequest(s, cookie)
  OBVIOUS
<1>3. Send(w, requests, late)
  BY <1>1, <1>2 DEF Focus
<1>4. requests = <<Request("panel", s, "page", cookie)>> \/ requests = <<>>
  BY <1>2 DEF PanelRequest
<1>5. w \in SUBSET n /\ \A x \in n : x \in w \/ x.op = "panel"
  BY <1>1 DEF Withdrawn
<1>6. Told(w)
  BY <1>5, ToldLess
<1>7. Onward(w) /\ late \subseteq messy'
  BY <1>3, <1>4, <1>6, SendOnward
<1>8. \A x : x.op = "panel" => Touched(x) = {}
  BY DEF Touched
<1> QED
  BY <1>5, <1>7, <1>8 DEF Onward

\* Answers that are not about the session.
LEMMA AnswerOnward ==
  ASSUME NetInv, NEW r, SettleStore(r) \/ SettleBell(r) \/ SettlePage(r) \/ SettleGone(r)
  PROVE  /\ Onward(Done(net, r))
         /\ ~SettleGone(r) => Missed(r) \subseteq messy'
<1>1. PICK n \in SUBSET net : n = Done(net, r)
  BY DEF Done
<1>2. Told(n)
  BY ToldLess DEF NetInv
<1>3. ASSUME NEW late, Send(n, <<>>, late) PROVE Onward(n) /\ late \subseteq messy'
  BY <1>2, <1>3, SendOnward
<1>4. PICK late : late = Missed(r)
  OBVIOUS
<1>5. CASE SettleStore(r)
  <2>1. (\E s : Focus(s, n, late)) \/ Send(n, <<>>, late)
    BY <1>1, <1>4, <1>5 DEF SettleStore
  <2> QED
    BY <1>1, <1>2, <1>3, <1>4, <2>1, FocusOnward
<1>6. CASE SettleBell(r)
  BY <1>1, <1>3, <1>6 DEF SettleBell
<1>7. CASE SettlePage(r)
  <2>1. PICK requests :
          /\ Send(n, requests, late)
          /\ requests = <<Request("list", PageKind[route], "page", cookie)>> \/ requests = <<>>
    BY <1>1, <1>4, <1>7 DEF SettlePage
  <2> QED
    BY <1>1, <1>2, <1>4, <2>1, SendOnward
<1>8. CASE SettleGone(r)
  <2>1. Send(n, <<>>, {})
    BY <1>1, <1>8 DEF SettleGone
  <2> QED
    BY <1>1, <1>3, <1>8, <2>1
<1> QED
  BY <1>5, <1>6, <1>7, <1>8

\* The navbar and its socket.
LEMMA ShellOnward ==
  ASSUME NetInv, OfSocket \/ OnShell
  PROVE  Onward(net)
<1>1. \/ net' = net /\ messy' = messy
      \/ \E requests : /\ Send(net, requests, {})
                       /\ \/ requests = <<Request("list", "incidents", "bell", cookie)>>
                          \/ requests = <<>>
  BY DEF OfSocket, OnShell, Handshake, Established, Refused, Drop, Offline, Emit,
     LookAtBadge, Say, Retry, IncidentOpens, LoadBadge, dataVars
<1> QED
  BY <1>1, SendOnward DEF NetInv, Onward

\* What the user sends from a page, and how the page looks then.
LEMMA PageSends ==
  ASSUME OnPage
  PROVE  \/ \E s : Focus(s, net, {})
         \/ \E requests : /\ Send(net, requests, {})
                          /\ requests = <<Request("list", "monitors", "store", cookie)>>
                               \/ requests = <<>>
         \/ \E op, i, by : /\ Send(net, <<Request(op, i, by, cookie)>>, {})
                           /\ op \in {"list", "panel", "create", "delete", "test"}
         \/ \E i : Send(net, <<Switch(i)>>, {})
BY DEF OnPage, Reload, RefreshMonitors, Poll, Select, AddMonitor, AddChannel, AddPage,
   RemoveMonitor, RemoveChannel, RemovePage, TestChannel, ToggleChannel, TogglePref, EditPage,
   Act, ActOnStore, ForPage, FetchMonitors

\* A switch is a request like others.
LEMMA SwitchRow ==
  ASSUME NEW i, NEW q, q = Switch(i)
  PROVE  /\ DOMAIN q = RequestFields /\ q.op = "set" /\ q.what = i /\ q.by = "page"
         /\ q.as = cookie /\ q.stage = "sent" /\ q.old = view.list
         /\ q.value = IF view.list[i] = "on" THEN "off" ELSE "on"
<1>1. PICK p : p = Request("set", i, "page", cookie)
  OBVIOUS
<1>2. PICK v : v = IF view.list[i] = "on" THEN "off" ELSE "on"
  OBVIOUS
<1>3. /\ DOMAIN p = RequestFields /\ p.op = "set" /\ p.what = i /\ p.by = "page"
      /\ p.as = cookie /\ p.stage = "sent"
  BY <1>1 DEF Request, RequestFields
<1>4. q = [p EXCEPT !.value = v, !.old = view.list]
  BY <1>1, <1>2 DEF Switch, ForPage
<1> QED
  BY <1>2, <1>3, <1>4 DEF RequestFields

\* The requests that are passed on when the page goes.
LEMMA LeftAre ==
  ASSUME NEW n, Told(n), NEW stays
  PROVE  /\ \A x \in Left(n, stays) :
              \/ x \in n /\ x.by # "page"
              \/ \E y \in n : /\ y.by = "page" /\ y.op \in {"create", "set", "delete"}
                              /\ x = [y EXCEPT !.by = "gone"] /\ x.by = "gone"
         /\ \A x \in n : x.by \notin {"page", "bell"} => x \in Left(n, stays)
         /\ \A x \in n : x.by = "page" /\ x.op \in {"create", "set", "delete"} =>
              [x EXCEPT !.by = "gone"] \in Left(n, stays)
<1>1. \A y \in n : DOMAIN y = RequestFields
  BY DEF Told, NetRow
<1> QED
  BY <1>1 DEF Left, RequestFields

-----------------------------------------------------------------------------
(* Documents *)

\* A request comes from an account or nobody; what may be asked again at no cost is
\* handled when its answer comes; a preference is answered with a user document.
DocRow(x) ==
  /\ x.as \in User \cup {None}
  /\ x.op = "login" => x.what \in User
  /\ x.stage = "answered" /\ x.ok =>
       /\ x.op \notin AtOnce
       /\ x.op = "set" /\ Kind[x.what] = "prefs" => x.data \in UserDocs

\* Documents are documents; a session has the document of a user.
DocInv ==
  /\ server \in [Item -> {"absent", "on", "off"}]
  /\ cookie \in User \cup {None}
  /\ \A x \in net : DocRow(x)
  /\ signedIn => me \in UserDocs

\* What the API answers for the preferences of a user, one of them switched or not.
LEMMA PrefsAreDocs ==
  ASSUME DocInv, NEW u \in User
  PROVE  /\ UserDoc(u) \in UserDocs
         /\ \A i \in Item, v \in {"on", "off"} : Kind[i] = "prefs" =>
              [id |-> u, prefs |-> Put(Documents("prefs", u), i, v)] \in UserDocs
<1>1. PICK d : d = Documents("prefs", u)
  OBVIOUS
<1>2. PICK P : P = DOMAIN d
  OBVIOUS
<1>3. P \subseteq {i \in Item : Kind[i] = "prefs"} /\ d \in [P -> {"on", "off"}]
  BY <1>1, <1>2 DEF Documents, Mine, Of, DocInv
<1>4. UserDoc(u) \in UserDocs
  BY <1>1, <1>3 DEF UserDoc, UserDocs
<1>5. ASSUME NEW i \in Item, NEW v \in {"on", "off"}, Kind[i] = "prefs"
      PROVE  [id |-> u, prefs |-> Put(d, i, v)] \in UserDocs
  <2>1. PICK Q : Q = P \cup {i}
    OBVIOUS
  <2>2. Put(d, i, v) = [j \in Q |-> IF j = i THEN v ELSE d[j]]
    BY <1>2, <2>1 DEF Put
  <2>3. Put(d, i, v) \in [Q -> {"on", "off"}]
    BY <1>3, <2>1, <2>2
  <2>4. Q \in SUBSET {j \in Item : Kind[j] = "prefs"}
    BY <1>3, <1>5, <2>1
  <2> QED
    BY <2>3, <2>4 DEF UserDocs
<1> QED
  BY <1>1, <1>4, <1>5

\* Requests that go on, with some that are asked by the way.
LEMMA OnwardDocs ==
  ASSUME DocInv, NEW n \in SUBSET net, Onward(n), server' = server, cookie' = cookie,
         signedIn' => me' \in UserDocs
  PROVE  DocInv'
<1>1. \A x \in net' : DocRow(x)
  BY DEF DocInv, Onward, Asked, DocRow
<1> QED
  BY <1>1 DEF DocInv

\* A page is shown.
LEMMA ShowDocs ==
  ASSUME NEW rt, NEW subject, NEW st, NEW n, Told(n), NEW c, NEW u, NEW as, NEW late,
         NEW remount \in BOOLEAN, Show(rt, subject, st, n, c, u, as, late, remount),
         DocInv, as \in User \cup {None}, \A x \in n : DocRow(x), server' = server,
         cookie' \in User \cup {None}, signedIn' => me' \in UserDocs
  PROVE  DocInv'
<1>1. PICK stays \in BOOLEAN : stays = (rt \in Protected /\ ShellShown /\ ~remount)
  OBVIOUS
<1>2. PICK bell \in BOOLEAN : bell = (rt \in Protected /\ ~stays)
  OBVIOUS
<1>3. PICK requests : requests = Opening(rt, subject, st, as)
                                   \o (IF bell THEN <<LoadBadge(as)>> ELSE <<>>)
  OBVIOUS
<1>4. PICK S, m : S = Opened(rt, subject, as) /\ m = Left(n, stays)
  OBVIOUS
<1>5. Send(m, requests, late) /\ requests \in Seq(S) /\ Told(m)
  BY <1>1, <1>2, <1>3, <1>4, OpeningAsks, ToldLeft DEF Show
<1>6. ASSUME NEW q \in S
      PROVE  DOMAIN q = RequestFields /\ q.stage = "sent" /\ q.as = as /\ q.op # "login"
  <2>1. PICK op, what, by : q = Request(op, what, by, as) /\ op \in {"list", "panel"}
    BY <1>4 DEF Opened, LoadBadge
  <2> QED
    BY <2>1 DEF Request, RequestFields
<1>7. Adds(m, S)
  BY <1>5, <1>6, SendAdds
<1>8. ASSUME NEW x \in m PROVE DocRow(x)
  <2>1. CASE x \in n
    BY <2>1
  <2>2. ASSUME NEW y \in n, x = [y EXCEPT !.by = "gone"] PROVE DocRow(x)
    <3>1. DOMAIN y = RequestFields
      BY DEF Told, NetRow
    <3>2. /\ x.op = y.op /\ x.what = y.what /\ x.as = y.as /\ x.stage = y.stage
          /\ x.ok = y.ok /\ x.data = y.data
      BY <2>2, <3>1 DEF RequestFields
    <3> QED
      BY <3>2 DEF DocRow
  <2> QED
    BY <1>4, <2>1, <2>2, LeftAre
<1>9. ASSUME NEW x \in net' PROVE DocRow(x)
  <2>1. CASE x \in m
    BY <1>8, <2>1
  <2>2. ASSUME NEW q \in S, Like(x, q) PROVE DocRow(x)
    BY <1>6, <2>2 DEF Like, DocRow
  <2> QED
    BY <1>7, <2>1, <2>2 DEF Adds
<1> QED
  BY <1>9 DEF DocInv

\* One more request of the user.
LEMMA SendDocs ==
  ASSUME DocInv, NetInv, NEW q, DOMAIN q = RequestFields, q.stage = "sent", q.as = cookie,
         q.op = "login" => q.what \in User, Send(net, <<q>>, {}),
         UNCHANGED <<server, cookie, me, signedIn>>
  PROVE  DocInv'
<1>1. PICK requests : requests = <<q>> /\ Send(net, requests, {})
  OBVIOUS
<1>2. Adds(net, {q})
  BY <1>1, OneAdds DEF NetInv
<1>3. \A x \in net' : DocRow(x)
  BY <1>2 DEF DocInv, Adds, Like, DocRow
<1> QED
  BY <1>3 DEF DocInv

\* Answers.  Those for the session come straight from the server, and so does the document.
LEMMA AnswerDocs ==
  ASSUME DocInv, NetInv, StrangerInv, NEW q \in net, NEW r, SettleAnswered(r),
         \/ q.stage = "answered" /\ r = q
         \/ q.stage = "sent" /\ q.op \in AtOnce /\ r = Answered(q)
  PROVE  DocInv'
<1>1. NetRow(q) /\ AskRow(q, route) /\ DocRow(q)
  BY DEF NetInv, Told, StrangerInv, RowsFit, DocInv
<1>2. /\ r.tag = q.tag /\ r.by = q.by /\ r.op = q.op /\ r.what = q.what /\ r.as = q.as
      /\ r.stage = "answered"
  BY <1>1, AnsweredTold
<1>3. PICK n \in SUBSET net : n = Done(net, r)
  BY DEF Done
<1>4. Told(n) /\ \A x \in n : DocRow(x)
  BY ToldLess DEF NetInv, DocInv
<1>5. CASE SettleStore(r) \/ SettleBell(r)
  <2>1. UNCHANGED <<server, cookie, me, signedIn>>
    BY <1>5 DEF SettleStore, SettleBell
  <2> QED
    BY <1>3, <1>5, <2>1, AnswerOnward, OnwardDocs DEF DocInv
<1>6. CASE SettlePage(r) \/ SettleGone(r)
  <2>1. /\ UNCHANGED <<server, cookie, signedIn>>
        /\ me' = me \/ (me' = r.data /\ r.op = "set" /\ r.ok /\ Kind[r.what] = "prefs")
    <3>1. CASE SettleGone(r)
      BY <3>1 DEF SettleGone
    <3>2. CASE SettlePage(r)
      <4>1. r.op = "set" /\ route = "settings" => Kind[r.what] = "prefs"
        BY <1>1, <1>2, <3>2 DEF SettlePage, AskRow, KindOf
      <4> QED
        BY <3>2, <4>1 DEF SettlePage
    <3> QED
      BY <1>6, <3>1, <3>2
  <2>2. r.op = "set" => r = q
    BY <1>2 DEF AtOnce
  <2>3. signedIn' => me' \in UserDocs
    BY <1>1, <1>2, <2>1, <2>2 DEF DocInv, DocRow
  <2> QED
    BY <1>3, <1>6, <2>1, <2>3, AnswerOnward, OnwardDocs
<1>7. ASSUME r.op \in {"profile", "login"}, r.ok
      PROVE  r.data \in UserDocs /\ (r.op = "login" => r.data.id \in User)
  <2>1. q.op \in AtOnce
    BY <1>2, <1>7 DEF AtOnce
  <2>2. r = Answered(q)
    BY <1>1, <1>7, <2>1 DEF DocRow
  <2>3. r.ok = Granted(q) /\ r.data = Answer(q)
    BY <1>1, <2>2 DEF Answered, NetRow, RequestFields
  <2>4. PICK u : u = IF q.op = "login" THEN q.what ELSE q.as
    OBVIOUS
  <2>5. u \in User
    BY <1>1, <1>2, <1>7, <2>3, <2>4 DEF Granted, DocRow
  <2>6. r.data = UserDoc(u)
    BY <1>2, <1>7, <2>3, <2>4 DEF Answer
  <2> QED
    BY <2>5, <2>6, PrefsAreDocs DEF UserDoc
<1>8. ASSUME r.op \in {"profile", "login", "logout"}, SessionAfter(r)
      PROVE  /\ cookie' \in User \cup {None}
             /\ signedIn' => me' \in UserDocs
  <2>1. CASE r.op = "logout"
    BY <1>8, <2>1 DEF SessionAfter, DocInv
  <2>2. CASE r.op \in {"profile", "login"} /\ r.ok
    BY <1>7, <1>8, <2>2 DEF SessionAfter, DocInv
  <2>3. CASE r.op \in {"profile", "login"} /\ ~r.ok
    BY <1>8, <2>3 DEF SessionAfter, DocInv
  <2> QED
    BY <1>8, <2>1, <2>2, <2>3
<1>9. CASE SettleFirstProfile(r)
  <2>1. PICK p : p = Request("profile", None, "session", cookie)
    OBVIOUS
  <2>2. /\ NetRow(p) /\ DOMAIN p = RequestFields /\ p.stage = "sent" /\ p.as = cookie
        /\ p.op = "profile"
    BY <2>1 DEF Request, RequestFields, NetRow
  <2>3. PICK m : m = Post(n, p)
    OBVIOUS
  <2>4. Told(m)
    BY <1>4, <2>2, <2>3, ToldOne DEF Post
  <2>5. ASSUME NEW x \in m PROVE DocRow(x)
    <3>1. m = n \cup {[<<p>>[k] EXCEPT !.tag = FreeTag(n, k)] : k \in {1}}
      BY <2>3 DEF Post, PostAll
    <3>2. x \in n \/ \E t : x = [p EXCEPT !.tag = t]
      BY <3>1
    <3>3. ASSUME NEW t, x = [p EXCEPT !.tag = t] PROVE DocRow(x)
      <4>1. x.stage = "sent" /\ x.as = cookie /\ x.op = "profile"
        BY <2>2, <3>3 DEF RequestFields
      <4> QED
        BY <4>1 DEF DocRow, DocInv
    <3> QED
      BY <1>4, <3>2, <3>3
  <2>6. PICK rt, s : Show(rt, s, store, m, conn, me', cookie, {}, FALSE)
    BY <1>3, <1>9, <2>1, <2>3 DEF SettleFirstProfile
  <2>7. /\ server' = server /\ cookie' \in User \cup {None}
        /\ signedIn' => me' \in UserDocs
    BY <1>8, <1>9 DEF SettleFirstProfile
  <2>8. cookie \in User \cup {None}
    BY DEF DocInv
  <2> QED
    BY <2>4, <2>5, <2>6, <2>7, <2>8, ShowDocs
<1>10. CASE SettleSignIn(r)
  <2>1. /\ server' = server /\ cookie' \in User \cup {None}
        /\ signedIn' => me' \in UserDocs
    BY <1>8, <1>10 DEF SettleSignIn
  <2>2. CASE route = "login" /\ signedIn'
    <3>1. PICK s : Show("dashboard", s, store, n, conn, me', cookie', {}, FALSE)
      BY <1>3, <1>10, <2>2 DEF SettleSignIn
    <3>2. PICK as : as = cookie'
      OBVIOUS
    <3> QED
      BY <1>4, <2>1, <3>1, ShowDocs
  <2>3. CASE ~(route = "login" /\ signedIn')
    <3>1. PICK late : Send(n, <<>>, late)
      BY <1>3, <1>10, <2>3 DEF SettleSignIn
    <3>2. net' = n
      BY <3>1, NoneAdds
    <3> QED
      BY <1>4, <2>1, <3>2 DEF DocInv
  <2> QED
    BY <2>2, <2>3
<1>11. CASE SettleLogout(r)
  <2>1. /\ server' = server /\ cookie' \in User \cup {None}
        /\ signedIn' => me' \in UserDocs
    BY <1>8, <1>11 DEF SettleLogout
  <2>2. CASE route \in Protected
    <3>1. PICK c, late : Show("login", None, Wiped, n, c, None, None, late, FALSE)
      BY <1>3, <1>11, <2>2 DEF SettleLogout
    <3> QED
      BY <1>4, <2>1, <3>1, ShowDocs
  <2>3. CASE route \notin Protected
    <3>1. PICK late : Send(n, <<>>, late)
      BY <1>3, <1>11, <2>3 DEF SettleLogout
    <3>2. net' = n
      BY <3>1, NoneAdds
    <3> QED
      BY <1>4, <2>1, <3>2 DEF DocInv
  <2> QED
    BY <2>2, <2>3
<1> QED
  BY <1>5, <1>6, <1>9, <1>10, <1>11 DEF SettleAnswered

\* The server handles a request, or its answer is lost.
LEMMA NetKeepsDocs ==
  ASSUME DocInv, NetInv, StrangerInv, OfNet
  PROVE  DocInv'
<1>1. UNCHANGED <<cookie, me, signedIn>>
  BY DEF OfNet, Serve, Lose
<1>2. PICK r \in net : Serve(r) \/ Lose(r)
  BY DEF OfNet
<1>3. NetRow(r) /\ AskRow(r, route) /\ DocRow(r) /\ DOMAIN r = RequestFields
  BY DEF NetInv, Told, NetRow, StrangerInv, RowsFit, DocInv
<1>4. CASE Serve(r)
  <2>1. PICK x : x = Answered(r)
    OBVIOUS
  <2>2. /\ r.op \notin AtOnce /\ server' = Changed(r)
        /\ net' = (net \ {r}) \cup {x}
    BY <1>4, <2>1 DEF Serve
  <2>3. /\ x.as = r.as /\ x.op = r.op /\ x.what = r.what
        /\ x.ok = Granted(r) /\ x.data = Answer(r)
    BY <1>3, <2>1 DEF Answered, RequestFields
  <2>4. server' \in [Item -> {"absent", "on", "off"}]
    <3>1. PICK v \in {"on", "off"} : v = r.value
      BY <1>3 DEF NetRow
    <3>2. server \in [Item -> {"absent", "on", "off"}]
      BY DEF DocInv
    <3>3. \/ server' = server
          \/ \E i \in Item, w \in {"absent", "on", "off"} : server' = [server EXCEPT ![i] = w]
      BY <1>3, <2>2, <3>1 DEF Changed, AskRow
    <3> QED
      BY <3>2, <3>3
  <2>5. ASSUME x.ok, r.op = "set", Kind[r.what] = "prefs" PROVE x.data \in UserDocs
    <3>1. r.as = Owner[r.what] /\ r.what \in Item
      BY <1>3, <2>3, <2>5 DEF Granted, AskRow
    <3>2. r.as \in User
      BY <3>1, ClientAssumption
    <3>3. x.data = [id |-> r.as, prefs |-> Put(Documents("prefs", r.as), r.what, r.value)]
      BY <2>3, <2>5 DEF Answer
    <3>4. PICK i \in Item, v \in {"on", "off"} : i = r.what /\ v = r.value
      BY <1>3, <3>1 DEF NetRow
    <3> QED
      BY <2>5, <3>2, <3>3, <3>4, PrefsAreDocs
  <2>6. DocRow(x)
    BY <1>3, <2>2, <2>3, <2>5 DEF DocRow
  <2>7. \A y \in net' : DocRow(y)
    BY <2>2, <2>6 DEF DocInv
  <2> QED
    BY <1>1, <2>4, <2>7 DEF DocInv
<1>5. CASE Lose(r)
  <2>1. PICK x : x = [r EXCEPT !.stage = "answered", !.ok = FALSE, !.data = None]
    OBVIOUS
  <2>2. PICK g : g = [r EXCEPT !.by = "gone"]
    OBVIOUS
  <2>3. PICK n : n = (net \ {r}) \cup {x}
    OBVIOUS
  <2>4. server' = server /\ (net' = n \/ (net' = Post(n, g) /\ r.stage = "sent"))
    BY <1>5, <2>1, <2>2, <2>3 DEF Lose
  <2>5. DocRow(x)
    BY <1>3, <2>1 DEF DocRow, RequestFields
  <2>6. ASSUME NEW y \in n PROVE DocRow(y)
    BY <2>3, <2>5 DEF DocInv
  <2>7. ASSUME net' = Post(n, g), r.stage = "sent", NEW y \in net' PROVE DocRow(y)
    <3>1. net' = n \cup {[<<g>>[k] EXCEPT !.tag = FreeTag(n, k)] : k \in {1}}
      BY <2>7 DEF Post, PostAll
    <3>2. y \in n \/ \E t : y = [g EXCEPT !.tag = t]
      BY <3>1
    <3>3. ASSUME NEW t, y = [g EXCEPT !.tag = t] PROVE DocRow(y)
      <4>1. DOMAIN g = RequestFields /\ g.op = r.op /\ g.what = r.what /\ g.as = r.as
            /\ g.stage = "sent"
        BY <1>3, <2>2, <2>7 DEF RequestFields
      <4>2. y.op = r.op /\ y.what = r.what /\ y.as = r.as /\ y.stage = "sent"
        BY <3>3, <4>1 DEF RequestFields
      <4> QED
        BY <1>3, <4>2 DEF DocRow
    <3> QED
      BY <2>6, <3>2, <3>3
  <2>8. \A y \in net' : DocRow(y)
    BY <2>4, <2>6, <2>7
  <2> QED
    BY <1>1, <2>4, <2>8 DEF DocInv
<1> QED
  BY <1>2, <1>4, <1>5

\* What the user does.
LEMMA UserKeepsDocs ==
  ASSUME DocInv, NetInv, OfUser
  PROVE  DocInv'
<1>1. ASSUME NEW op, NEW i, NEW by, Send(net, <<Request(op, i, by, cookie)>>, {}),
             op = "login" => i \in User, UNCHANGED <<server, cookie, me, signedIn>>
      PROVE  DocInv'
  <2>1. PICK q : q = Request(op, i, by, cookie)
    OBVIOUS
  <2>2. /\ DOMAIN q = RequestFields /\ q.stage = "sent" /\ q.as = cookie
        /\ q.op = "login" => q.what \in User
    BY <1>1, <2>1 DEF Request, RequestFields
  <2> QED
    BY <1>1, <2>1, <2>2, SendDocs
<1>2. ASSUME UNCHANGED <<server, cookie, me, signedIn>>, Onward(net) PROVE DocInv'
  BY <1>2, OnwardDocs DEF DocInv
<1>3. CASE OnPage
  <2>1. UNCHANGED <<server, cookie, me, signedIn>>
    BY <1>3 DEF OnPage, Reload, RefreshMonitors, Poll, Select, AddMonitor, AddChannel, AddPage,
       RemoveMonitor, RemoveChannel, RemovePage, TestChannel, ToggleChannel, TogglePref, EditPage,
       Act, ActOnStore, StoreUnchanged
  <2>2. ASSUME NEW s, Focus(s, net, {}) PROVE DocInv'
    BY <1>2, <2>1, <2>2, FocusOnward DEF NetInv
  <2>3. ASSUME NEW requests, Send(net, requests, {}),
               requests = <<Request("list", "monitors", "store", cookie)>> \/ requests = <<>>
        PROVE  DocInv'
    BY <1>2, <2>1, <2>3, SendOnward DEF NetInv
  <2>4. ASSUME NEW op, NEW i, NEW by, Send(net, <<Request(op, i, by, cookie)>>, {}),
               op \in {"list", "panel", "create", "delete", "test"}
        PROVE  DocInv'
    BY <1>1, <2>1, <2>4
  <2>5. ASSUME NEW i, Send(net, <<Switch(i)>>, {}) PROVE DocInv'
    <3>1. PICK q : q = Switch(i)
      OBVIOUS
    <3>2. DOMAIN q = RequestFields /\ q.stage = "sent" /\ q.as = cookie /\ q.op = "set"
      BY <3>1, SwitchRow
    <3> QED
      BY <2>1, <2>5, <3>1, <3>2, SendDocs
  <2> QED
    BY <1>3, <2>2, <2>3, <2>4, <2>5, PageSends
<1>4. CASE \E u \in User : SignIn(u)
  BY <1>1, <1>4 DEF SignIn, StoreUnchanged
<1>5. ASSUME NEW rt, Navigate(rt) PROVE DocInv'
  <2>1. PICK s : Show(rt, s, store, net, conn, me, cookie, {}, FALSE)
    BY <1>5 DEF Navigate
  <2>2. UNCHANGED <<server, cookie, me, signedIn>>
    BY <1>5 DEF Navigate
  <2> QED
    BY <2>1, <2>2, ShowDocs DEF DocInv, NetInv
<1>6. CASE LogoutClick
  <2>1. PICK q : q = Request("logout", None, "session", cookie)
    OBVIOUS
  <2>2. /\ NetRow(q) /\ DOMAIN q = RequestFields /\ q.stage = "sent" /\ q.as = cookie
        /\ q.op = "logout"
    BY <2>1 DEF Request, RequestFields, NetRow
  <2>3. PICK n : n = Post(net, q)
    OBVIOUS
  <2>4. Told(n)
    BY <2>2, <2>3, ToldOne DEF NetInv, Post
  <2>5. ASSUME NEW x \in n PROVE DocRow(x)
    <3>1. n = net \cup {[<<q>>[k] EXCEPT !.tag = FreeTag(net, k)] : k \in {1}}
      BY <2>3 DEF Post, PostAll
    <3>2. x \in net \/ \E t : x = [q EXCEPT !.tag = t]
      BY <3>1
    <3>3. ASSUME NEW t, x = [q EXCEPT !.tag = t] PROVE DocRow(x)
      <4>1. x.stage = "sent" /\ x.as = cookie /\ x.op = "logout"
        BY <2>2, <3>3 DEF RequestFields
      <4> QED
        BY <4>1 DEF DocRow, DocInv
    <3> QED
      BY <3>2, <3>3 DEF DocInv
  <2>6. PICK s : Show("dashboard", s, store, n, conn, me, cookie, {}, TRUE)
    BY <1>6, <2>1, <2>3 DEF LogoutClick
  <2>7. UNCHANGED <<server, cookie, me, signedIn>>
    BY <1>6 DEF LogoutClick
  <2> QED
    BY <2>4, <2>5, <2>6, <2>7, ShowDocs DEF DocInv
<1> QED
  BY <1>3, <1>4, <1>5, <1>6 DEF OfUser

\* Every step.
LEMMA DocStep == DocInv /\ NetInv /\ StrangerInv /\ [Next]_vars => DocInv'
<1> SUFFICES ASSUME DocInv, NetInv, StrangerInv, [Next]_vars PROVE DocInv'
  OBVIOUS
<1>1. ASSUME NEW q \in net, Settle(q) PROVE DocInv'
  BY <1>1, AnswerDocs DEF Settle
<1>2. CASE OfSocket \/ OnShell
  <2>1. UNCHANGED <<cookie, me, signedIn>>
    BY <1>2 DEF OfSocket, OnShell, Handshake, Established, Refused, Drop, Offline, Emit,
       LookAtBadge, Say, Retry, IncidentOpens, dataVars
  <2>2. server' = server \/ \E i \in Item : server' = [server EXCEPT ![i] = "on"]
    BY <1>2 DEF OfSocket, OnShell, Handshake, Established, Refused, Drop, Offline, Emit,
       LookAtBadge, Say, Retry, IncidentOpens, dataVars
  <2>3. server' \in [Item -> {"absent", "on", "off"}]
    BY <2>2 DEF DocInv
  <2>4. \A x \in net' : DocRow(x)
    BY <1>2, ShellOnward DEF DocInv, Onward, Asked, DocRow
  <2> QED
    BY <2>1, <2>3, <2>4 DEF DocInv
<1>3. CASE UNCHANGED <<server, cookie, me, signedIn, net>>
  BY <1>3 DEF DocInv
<1> QED
  BY <1>1, <1>2, <1>3, NetKeepsDocs, UserKeepsDocs DEF Next, vars, dataVars, GrowStale

\* A tab is opened.
LEMMA DocInit == Init => DocInv
<1> SUFFICES ASSUME Init PROVE DocInv
  OBVIOUS
<1>1. PICK q : q = Request("profile", None, "session", cookie)
  OBVIOUS
<1>2. PICK x : x = [q EXCEPT !.tag = 1]
  OBVIOUS
<1>3. net = {x} /\ cookie \in User \cup {None} /\ signedIn = FALSE
      /\ server \in [Item -> {"absent", "on", "off"}]
  BY <1>1, <1>2 DEF Init, DataInit
<1>4. x.op = "profile" /\ x.as = cookie /\ x.stage = "sent"
  BY <1>1, <1>2 DEF Request
<1>5. DocRow(x)
  BY <1>3, <1>4 DEF DocRow
<1> QED
  BY <1>3, <1>5 DEF DocInv

\* Documents are what the API says they are, and every session has a user's.
THEOREM DocInvariant == Spec => []DocInv
BY DocInit, DocStep, NetInvariant, StrangerInvariant, PTL DEF Spec

-----------------------------------------------------------------------------
(* What a page asks for when it is shown *)

\* A sequence of one request.
LEMMA OneIsSeq ==
  ASSUME NEW R, NEW x \in R
  PROVE  <<x>> \in Seq(R)
OBVIOUS

\* A request is among those that are sent.
Among(q, requests) == \E k \in DOMAIN requests : requests[k] = q

\* It is when it is among the first, or the last, of them.
LEMMA AmongBoth ==
  ASSUME NEW S, NEW s \in Seq(S), NEW t \in Seq(S), NEW q, Among(q, s) \/ Among(q, t)
  PROVE  Among(q, s \o t)
<1>1. /\ s \o t \in Seq(S) /\ Len(s \o t) = Len(s) + Len(t)
      /\ \A i \in 1..Len(s) : (s \o t)[i] = s[i]
      /\ \A i \in 1..Len(t) : (s \o t)[Len(s) + i] = t[i]
  BY ConcatProperties
<1>2. /\ DOMAIN s = 1..Len(s) /\ Len(s) \in Nat
      /\ DOMAIN t = 1..Len(t) /\ Len(t) \in Nat
      /\ DOMAIN (s \o t) = 1..Len(s \o t)
  BY <1>1, LenProperties
<1>3. CASE Among(q, s)
  <2>1. PICK k \in 1..Len(s) : s[k] = q
    BY <1>2, <1>3 DEF Among
  <2>2. k \in DOMAIN (s \o t) /\ (s \o t)[k] = q
    BY <1>1, <1>2, <2>1
  <2> QED
    BY <2>2 DEF Among
<1>4. CASE Among(q, t)
  <2>1. PICK k \in 1..Len(t) : t[k] = q
    BY <1>2, <1>4 DEF Among
  <2>2. Len(s) + k \in DOMAIN (s \o t) /\ (s \o t)[Len(s) + k] = q
    BY <1>1, <1>2, <2>1
  <2> QED
    BY <2>2 DEF Among
<1> QED
  BY <1>3, <1>4

\* The requests of a page that is shown: the list of monitors when the store has none it
\* may use, and the list of the page.
Wants(rt, st, x, as) ==
  \/ x = Request("list", "monitors", "store", as) /\ rt \in {"dashboard", "monitors"} /\ ~Cached(st)
  \/ x = Request("list", PageKind[rt], "page", as) /\ rt \in DOMAIN PageKind

\* Those are all the lists it asks for, but for that of the navbar.
ShowRow(rt, st, x, as) ==
  \/ Wants(rt, st, x, as)
  \/ x.op = "panel"
  \/ x = LoadBadge(as)

Openings(rt, subject, st, as) ==
  {x \in {Request("list", "monitors", "store", as), Request("panel", subject, "page", as),
          Request("list", PageKind[rt], "page", as), LoadBadge(as)} : ShowRow(rt, st, x, as)}

\* It asks for these.
LEMMA OpeningWants ==
  ASSUME NEW rt, NEW subject, NEW st, NEW as, NEW bell \in BOOLEAN,
         NEW requests, requests = Opening(rt, subject, st, as)
                                    \o (IF bell THEN <<LoadBadge(as)>> ELSE <<>>)
  PROVE  /\ requests \in Seq(Openings(rt, subject, st, as))
         /\ \A x : Wants(rt, st, x, as) => Among(x, requests)
<1>1. PICK p : p = Request("list", "monitors", "store", as)
  OBVIOUS
<1>2. PICK q : q = Request("list", PageKind[rt], "page", as)
  OBVIOUS
<1>3. PICK r : r = Request("panel", subject, "page", as)
  OBVIOUS
<1>4. PICK l : l = LoadBadge(as)
  OBVIOUS
<1>20. PICK S : S = {Request("list", "monitors", "store", as), Request("panel", subject, "page", as),
                     Request("list", PageKind[rt], "page", as), LoadBadge(as)}
  OBVIOUS
<1>21. PICK R : R = {x \in S : ShowRow(rt, st, x, as)}
  OBVIOUS
<1>22. R = Openings(rt, subject, st, as)
  BY <1>20, <1>21 DEF Openings
<1>5. PICK stored \in BOOLEAN : stored = (rt \in {"dashboard", "monitors"} /\ ~Cached(st))
  OBVIOUS
<1>6. PICK listed : listed = (rt \in DOMAIN PageKind)
  OBVIOUS
<1>7. /\ stored => p \in R
      /\ listed => q \in R
      /\ r \in R /\ l \in R
  <2>1. r.op = "panel"
    BY <1>3 DEF Request
  <2>2. p \in S /\ q \in S /\ r \in S /\ l \in S
    BY <1>1, <1>2, <1>3, <1>4, <1>20
  <2>3. /\ stored => ShowRow(rt, st, p, as)
        /\ listed => ShowRow(rt, st, q, as)
        /\ ShowRow(rt, st, r, as) /\ ShowRow(rt, st, l, as)
    BY <1>1, <1>2, <1>4, <1>5, <1>6, <2>1 DEF ShowRow, Wants
  <2> QED
    BY <1>21, <2>2, <2>3
<1>8. PICK a : a = IF stored THEN <<p>> ELSE <<>>
  OBVIOUS
<1>9. PICK b : b = IF listed THEN <<q>> ELSE <<>>
  OBVIOUS
<1>10. PICK c : c = IF subject = None THEN <<>> ELSE <<r>>
  OBVIOUS
<1>11. PICK d : d = IF bell THEN <<l>> ELSE <<>>
  OBVIOUS
<1>12. <<>> \in Seq(R)
  OBVIOUS
<1>19. \A x \in R : <<x>> \in Seq(R)
  BY OneIsSeq
<1>13. a \in Seq(R) /\ b \in Seq(R) /\ c \in Seq(R) /\ d \in Seq(R)
  BY <1>7, <1>8, <1>9, <1>10, <1>11, <1>12, <1>19
<1>14. a \o b \in Seq(R)
  BY <1>13, ConcatProperties
<1>15. (a \o b) \o c \in Seq(R)
  BY <1>13, <1>14, ConcatProperties
<1>16. ((a \o b) \o c) \o d \in Seq(R)
  BY <1>13, <1>15, ConcatProperties
<1>17. requests = ((a \o b) \o c) \o d
  BY <1>1, <1>2, <1>3, <1>4, <1>5, <1>6, <1>8, <1>9, <1>10, <1>11
     DEF Opening, FetchMonitors, PanelRequest
<1>18. ASSUME NEW x, Wants(rt, st, x, as)
       PROVE  Among(x, requests)
  <2>1. \/ x = p /\ stored
        \/ x = q /\ listed
    BY <1>1, <1>2, <1>5, <1>6, <1>18 DEF Wants
  <2>2. Among(x, a) \/ Among(x, b)
    BY <1>8, <1>9, <2>1 DEF Among
  <2>3. Among(x, a \o b)
    BY <1>13, <2>2, AmongBoth
  <2>4. Among(x, (a \o b) \o c)
    BY <1>13, <1>14, <2>3, AmongBoth
  <2>5. Among(x, ((a \o b) \o c) \o d)
    BY <1>13, <1>15, <2>4, AmongBoth
  <2> QED
    BY <1>17, <2>5
<1> QED
  BY <1>16, <1>17, <1>18, <1>22

\* A request of a page that was just shown, or of its navbar.
Opens(x, rt, st, as) ==
  /\ DOMAIN x = RequestFields /\ x.stage = "sent" /\ x.as = as
  /\ x.op \in {"list", "panel"} /\ x.by \in {"store", "page", "bell"}
  /\ x.op = "list" /\ x.by = "store" => Wants(rt, st, Request("list", "monitors", "store", as), as)

\* A page is shown: some requests are left, and it asks for what it wants.
LEMMA ShowSends ==
  ASSUME NEW rt, NEW subject, NEW st, NEW n, Told(n), NEW c, NEW u, NEW as, NEW late,
         NEW remount \in BOOLEAN, Show(rt, subject, st, n, c, u, as, late, remount)
  PROVE  /\ messy \subseteq messy' /\ late \subseteq messy'
         /\ \E stays : /\ Left(n, stays) \subseteq net'
                       /\ \A x \in net' : x \in Left(n, stays) \/ Opens(x, rt, st, as)
         /\ \A q : Wants(rt, st, q, as) => \E x \in net' : Like(x, q)
<1>1. PICK stays \in BOOLEAN : stays = (rt \in Protected /\ ShellShown /\ ~remount)
  OBVIOUS
<1>2. PICK bell \in BOOLEAN : bell = (rt \in Protected /\ ~stays)
  OBVIOUS
<1>3. PICK requests : requests = Opening(rt, subject, st, as)
                                   \o (IF bell THEN <<LoadBadge(as)>> ELSE <<>>)
  OBVIOUS
<1>5. PICK R : R = Openings(rt, subject, st, as)
  OBVIOUS
<1>6. requests \in Seq(R) /\ \A x : Wants(rt, st, x, as) => Among(x, requests)
  BY <1>3, <1>5, OpeningWants
<1>7. PICK m : m = Left(n, stays)
  OBVIOUS
<1>8. Send(m, requests, late) /\ Told(m)
  BY <1>1, <1>2, <1>3, <1>7, ToldLeft DEF Show
<1>9. ASSUME NEW q \in R
      PROVE  Opens(q, rt, st, as)
  <2>1. PICK op, what, by : /\ q = Request(op, what, by, as)
                            /\ \/ op = "list" /\ by \in {"store", "page", "bell"}
                               \/ op = "panel" /\ by = "page"
    BY <1>5 DEF LoadBadge, Openings
  <2>2. /\ DOMAIN q = RequestFields /\ q.stage = "sent" /\ q.as = as /\ q.op = op /\ q.by = by
    BY <2>1 DEF Request, RequestFields
  <2>3. ASSUME q.op = "list", q.by = "store"
        PROVE  Wants(rt, st, Request("list", "monitors", "store", as), as)
    <3>1. PICK l, p : l = LoadBadge(as) /\ p = Request("list", PageKind[rt], "page", as)
      OBVIOUS
    <3>2. l.by = "bell" /\ p.by = "page"
      BY <3>1 DEF LoadBadge, Request
    <3>3. q # l /\ q # p
      BY <2>3, <3>2
    <3>4. Wants(rt, st, q, as)
      BY <1>5, <2>3, <3>1, <3>3 DEF ShowRow, Openings
    <3> QED
      BY <3>1, <3>3, <3>4 DEF Wants
  <2> QED
    BY <2>1, <2>2, <2>3 DEF Opens
<1>10. /\ Adds(m, R) /\ late \subseteq messy'
       /\ \A k \in DOMAIN requests : \E x \in net' : x \notin m /\ Like(x, requests[k])
  BY <1>6, <1>8, <1>9, SendAdds DEF Opens
<1>11. \A x \in net' : x \in m \/ Opens(x, rt, st, as)
  <2>1. ASSUME NEW x, NEW q \in R, Like(x, q) PROVE Opens(x, rt, st, as)
    BY <1>9, <2>1 DEF Like, Opens
  <2> QED
    BY <1>10, <2>1 DEF Adds
<1>12. \A q : Wants(rt, st, q, as) => \E x \in net' : Like(x, q)
  BY <1>6, <1>10 DEF Among
<1> QED
  BY <1>7, <1>10, <1>11, <1>12 DEF Adds

\* The list of the page, and that of the monitors, are under way then.
LEMMA ShowAwaits ==
  ASSUME NEW rt, NEW st, NEW as, \A q : Wants(rt, st, q, as) => \E x \in net' : Like(x, q)
  PROVE  /\ rt \in DOMAIN PageKind =>
              \E x \in net' : /\ x.op = "list" /\ x.what = PageKind[rt] /\ x.by = "page"
         /\ rt \in {"dashboard", "monitors"} /\ ~Cached(st) =>
              \E x \in net' : /\ x.op = "list" /\ x.what = "monitors" /\ x.by = "store"
<1>1. ASSUME rt \in DOMAIN PageKind
      PROVE  \E x \in net' : x.op = "list" /\ x.what = PageKind[rt] /\ x.by = "page"
  <2>1. PICK what, q : what = PageKind[rt] /\ q = Request("list", what, "page", as)
    OBVIOUS
  <2>2. q.op = "list" /\ q.what = what /\ q.by = "page"
    BY <2>1 DEF Request
  <2>3. Wants(rt, st, q, as)
    BY <1>1, <2>1 DEF Wants
  <2>4. PICK x \in net' : Like(x, q)
    BY <2>3
  <2>5. x.op = "list" /\ x.what = PageKind[rt] /\ x.by = "page"
    BY <2>1, <2>2, <2>4 DEF Like
  <2> QED
    BY <2>4, <2>5
<1>2. ASSUME rt \in {"dashboard", "monitors"}, ~Cached(st)
      PROVE  \E x \in net' : x.op = "list" /\ x.what = "monitors" /\ x.by = "store"
  <2>1. PICK q : q = Request("list", "monitors", "store", as)
    OBVIOUS
  <2>2. q.op = "list" /\ q.what = "monitors" /\ q.by = "store"
    BY <2>1 DEF Request
  <2>3. Wants(rt, st, q, as)
    BY <1>2, <2>1 DEF Wants
  <2>4. PICK x \in net' : Like(x, q)
    BY <2>3
  <2> QED
    BY <2>2, <2>4 DEF Like
<1> QED
  BY <1>1, <1>2

-----------------------------------------------------------------------------
(* What the flags of a list say *)

\* What nobody waits for any more may have changed what is shown: it is disturbed, but for
\* preferences, which are taken over.
GoneRow(x) ==
  x.by = "gone" /\ Kind[x.what] # "prefs" /\ Kind[x.what] \in {"monitors", KindOf(route)}
    => x.what \in messy

\* A list that is fresh is the session's; one that is not loading is not on its way,
\* unless another request of the store has ended.
StoreFlags ==
  /\ store.fresh /\ ~signedIn => Of("monitors") \subseteq messy
  /\ ~store.loading /\ Awaited("monitors", "store") =>
       Of("monitors") = {} \/ Of("monitors") \intersect messy # {}

\* A page that is not loading has loaded, unless its lists overlapped or failed.
PageFlags ==
  /\ route = "settings" /\ ~initializing => view.loaded
  /\ route \in {"alerts", "status-pages"} =>
       \/ Of(PageKind[route]) \subseteq messy
       \/ IF Awaited(PageKind[route], "page") THEN view.loading
                                              ELSE view.loaded \/ initializing

FlagInv == (\A x \in net : GoneRow(x)) /\ StoreFlags /\ PageFlags

\* Nothing is left behind by the page.
LEMMA GoneStays ==
  ASSUME FlagInv, messy \subseteq messy', route' = route,
         \A x \in net' : x \in net \/ x.by # "gone"
  PROVE  \A x \in net' : GoneRow(x)'
BY DEF FlagInv, GoneRow

\* The store keeps its flags, and no list of monitors is sent.
LEMMA StoreStays ==
  ASSUME FlagInv, messy \subseteq messy', signedIn' = signedIn,
         store'.fresh => store.fresh, store'.loading = store.loading,
         Awaited("monitors", "store")' => Awaited("monitors", "store")
  PROVE  StoreFlags'
BY DEF FlagInv, StoreFlags

\* The page keeps its flags, and its list stays under way or not.
LEMMA PageStays ==
  ASSUME FlagInv, messy \subseteq messy', UNCHANGED <<route, initializing>>,
         view'.loaded = view.loaded, view'.loading = view.loading,
         \A k : Awaited(k, "page")' <=> Awaited(k, "page")
  PROVE  PageFlags'
BY DEF FlagInv, PageFlags

\* No list is sent, and none of the store or the page is answered.
Quiet ==
  /\ messy \subseteq messy'
  /\ \A y \in net' : y \in net \/ (y.by # "gone" /\ (y.op # "list" \/ y.by = "bell"))
  /\ \A x \in net : x \in net' \/ x.op # "list" \/ x.by = "bell"

\* Then no flag changes.
LEMMA QuietFlags ==
  ASSUME FlagInv, Quiet, UNCHANGED <<route, initializing, signedIn>>,
         store'.fresh => store.fresh, store'.loading = store.loading,
         view'.loaded = view.loaded, view'.loading = view.loading
  PROVE  FlagInv'
<1>1. \A x \in net' : GoneRow(x)'
  BY GoneStays DEF Quiet
<1>2. \A k : Awaited(k, "page")' <=> Awaited(k, "page")
  BY DEF Awaited, Quiet
<1>3. Awaited("monitors", "store")' => Awaited("monitors", "store")
  BY DEF Awaited, Quiet
<1>4. StoreFlags'
  BY <1>3, StoreStays DEF Quiet
<1>5. PageFlags'
  BY <1>2, PageStays DEF Quiet
<1> QED
  BY <1>1, <1>4, <1>5 DEF FlagInv

\* One request is sent, or none.
LEMMA OneRow ==
  ASSUME NetInv, NEW n \in SUBSET net, NEW q, DOMAIN q = RequestFields,
         NEW requests, requests = <<q>> \/ requests = <<>>, NEW late, Send(n, requests, late)
  PROVE  /\ messy \subseteq messy' /\ late \subseteq messy' /\ n \subseteq net'
         /\ \A y \in net' : y \in n \/ (requests = <<q>> /\ Like(y, q))
         /\ requests = <<q>> => \E y \in net' : Like(y, q)
<1>1. Told(n)
  BY ToldLess DEF NetInv
<1>2. CASE requests = <<q>>
  <2>1. /\ Adds(n, {q}) /\ late \subseteq messy'
        /\ \E y \in net' : y \notin n /\ Like(y, q)
    BY <1>1, <1>2, OneAdds
  <2> QED
    BY <1>2, <2>1 DEF Adds
<1>3. CASE requests = <<>>
  <2>1. net' = n /\ messy' = messy \cup late
    BY <1>3, NoneAdds
  <2>2. requests # <<q>>
    BY <1>3
  <2> QED
    BY <2>1, <2>2
<1> QED
  BY <1>2, <1>3

\* The fields of a request that is made.
LEMMA MadeRow ==
  ASSUME NEW op, NEW what, NEW by, NEW as, NEW q, q = Request(op, what, by, as)
  PROVE  /\ DOMAIN q = RequestFields /\ q.op = op /\ q.what = what /\ q.by = by /\ q.as = as
         /\ q.stage = "sent" /\ q.value = "on" /\ q.old = None
BY DEF Request, RequestFields

\* What remains when an answer came that is no list of the store or the page.
LEMMA DoneQuiet ==
  ASSUME NetInv, NEW q \in net, q.op # "list" \/ q.by = "bell", NEW r, r.tag = q.tag
  PROVE  \A x \in net : x \in Done(net, r) \/ x.op # "list" \/ x.by = "bell"
BY DEF NetInv, Told, Done

\* The navbar and its socket, and the answers for it.
LEMMA ShellFlags ==
  ASSUME FlagInv, NetInv, OfSocket \/ OnShell
  PROVE  FlagInv'
<1>1. UNCHANGED <<signedIn, store, initializing, route, view>>
  BY DEF OfSocket, OnShell, Handshake, Established, Refused, Drop, Offline, Emit,
     LookAtBadge, Say, Retry, IncidentOpens, dataVars, pageVars
<1>2. PICK q : q = Request("list", "incidents", "bell", cookie)
  OBVIOUS
<1>3. \/ net' = net /\ messy' = messy
      \/ \E requests : Send(net, requests, {}) /\ (requests = <<q>> \/ requests = <<>>)
  BY <1>2 DEF OfSocket, OnShell, Handshake, Established, Refused, Drop, Offline, Emit,
     LookAtBadge, Say, Retry, IncidentOpens, LoadBadge, dataVars
<1>4. DOMAIN q = RequestFields /\ q.by = "bell"
  BY <1>2, MadeRow
<1>5. CASE net' = net /\ messy' = messy
  BY <1>1, <1>5, QuietFlags DEF Quiet
<1>6. ASSUME NEW requests, Send(net, requests, {}), requests = <<q>> \/ requests = <<>>
      PROVE  FlagInv'
  <2>1. /\ messy \subseteq messy' /\ net \subseteq net'
        /\ \A y \in net' : y \in net \/ Like(y, q)
    BY <1>4, <1>6, OneRow
  <2>2. Quiet
    BY <1>4, <2>1 DEF Quiet, Like
  <2> QED
    BY <1>1, <2>2, QuietFlags
<1> QED
  BY <1>3, <1>5, <1>6

\* The server handles a request, or its answer is lost: it stays what it is, but for a
\* change that nobody waits for any more, which disturbs its item.
LEMMA NetFlags ==
  ASSUME FlagInv, NetInv, OfNet
  PROVE  FlagInv'
<1>1. UNCHANGED <<signedIn, store, initializing, route, view>>
  BY DEF OfNet, Serve, Lose, pageVars
<1>2. PICK r \in net : Serve(r) \/ Lose(r)
  BY DEF OfNet
<1>3. NetRow(r) /\ DOMAIN r = RequestFields
  BY DEF NetInv, Told, NetRow
<1>4. ASSUME NEW x, x = Answered(r) \/ x = [r EXCEPT !.stage = "answered", !.ok = FALSE, !.data = None],
             NEW n, n = (net \ {r}) \cup {x}, messy \subseteq messy',
             NEW y \in net', y \in n
      PROVE  GoneRow(y)'
  <2>1. x.op = r.op /\ x.what = r.what /\ x.by = r.by
    BY <1>3, <1>4, AnsweredTold
  <2>2. \E z \in net : z.what = y.what /\ z.by = y.by
    BY <1>4, <2>1
  <2> QED
    BY <1>1, <1>4, <2>2 DEF FlagInv, GoneRow
<1>5. ASSUME NEW x, x = Answered(r) \/ x = [r EXCEPT !.stage = "answered", !.ok = FALSE, !.data = None],
             NEW n, n = (net \ {r}) \cup {x}, messy \subseteq messy', n \subseteq net',
             \A y \in net' : GoneRow(y)', \A y \in net' : y \in n \/ y.by = "gone"
      PROVE  FlagInv'
  <2>1. x.op = r.op /\ x.what = r.what /\ x.by = r.by
    BY <1>3, <1>5, AnsweredTold
  <2>2. x \in net' /\ \A y \in net' : y \in net \/ y = x \/ y.by = "gone"
    BY <1>5
  <2>3. \A y \in net : y \in net' \/ y = r
    BY <1>5
  <2>4. \A k : Awaited(k, "page")' <=> Awaited(k, "page")
    BY <2>1, <2>2, <2>3, <1>2 DEF Awaited
  <2>5. Awaited("monitors", "store")' => Awaited("monitors", "store")
    BY <2>1, <2>2, <1>2 DEF Awaited
  <2>6. StoreFlags'
    BY <1>1, <1>5, <2>5, StoreStays
  <2>7. PageFlags'
    BY <1>1, <1>5, <2>4, PageStays
  <2> QED
    BY <1>5, <2>6, <2>7 DEF FlagInv
<1>6. CASE Serve(r)
  <2>1. PICK x, n : x = Answered(r) /\ n = (net \ {r}) \cup {x}
    OBVIOUS
  <2>2. net' = n /\ messy' = messy
    BY <1>6, <2>1 DEF Serve
  <2> QED
    BY <1>4, <1>5, <2>1, <2>2
<1>7. CASE Lose(r)
  <2>1. PICK x, n : /\ x = [r EXCEPT !.stage = "answered", !.ok = FALSE, !.data = None]
                    /\ n = (net \ {r}) \cup {x}
    OBVIOUS
  <2>2. PICK g : g = [r EXCEPT !.by = "gone"]
    OBVIOUS
  <2>3. /\ messy \subseteq messy'
        /\ \/ net' = n
           \/ /\ net' = Post(n, g) /\ r.op \in {"create", "set", "delete"}
              /\ Touched(r) \subseteq messy'
    BY <1>7, <2>1, <2>2 DEF Lose
  <2>4. CASE net' = n
    BY <1>4, <1>5, <2>1, <2>3, <2>4
  <2>5. ASSUME net' = Post(n, g), r.op \in {"create", "set", "delete"}, Touched(r) \subseteq messy'
        PROVE  FlagInv'
    <3>1. net' = n \cup {[<<g>>[k] EXCEPT !.tag = FreeTag(n, k)] : k \in {1}}
      BY <2>5 DEF Post, PostAll
    <3>2. \A y \in net' : y \in n \/ \E t : y = [g EXCEPT !.tag = t]
      BY <3>1
    <3>3. DOMAIN g = RequestFields /\ g.what = r.what /\ g.by = "gone"
      BY <1>3, <2>2 DEF RequestFields
    <3>4. \A y \in net' : y \in n \/ (y.by = "gone" /\ y.what = r.what)
      BY <3>2, <3>3 DEF RequestFields
    <3>5. Kind[r.what] # "prefs" => r.what \in messy'
      BY <2>5 DEF Touched
    <3>6. ASSUME NEW y \in net' PROVE GoneRow(y)'
      <4>1. CASE y \in n
        BY <1>4, <2>1, <2>3, <4>1
      <4>2. CASE y.what = r.what
        BY <3>5, <4>2 DEF GoneRow
      <4> QED
        BY <3>4, <4>1, <4>2
    <3>7. n \subseteq net'
      BY <3>1
    <3>8. \A y \in net' : y \in n \/ y.by = "gone"
      BY <3>4
    <3> QED
      BY <1>5, <2>1, <2>3, <3>6, <3>7, <3>8
  <2> QED
    BY <2>3, <2>4, <2>5
<1> QED
  BY <1>2, <1>6, <1>7

\* Another subject, with the requests n but for those of panels.
LEMMA FocusRows ==
  ASSUME NetInv, NEW n \in SUBSET net, NEW s, NEW late, Focus(s, n, late)
  PROVE  /\ messy \subseteq messy' /\ late \subseteq messy'
         /\ \A y \in net' : y \in n \/ (y.op = "panel" /\ y.by = "page")
         /\ \A x \in n : x \in net' \/ x.op = "panel"
         /\ DOMAIN view = ViewFields => view'.loaded = view.loaded
<1>1. PICK w, requests : w = Withdrawn(n) /\ requests = PanelRequest(s, cookie)
  OBVIOUS
<1>2. Send(w, requests, late)
  BY <1>1 DEF Focus
<1>3. PICK q : q = Request("panel", s, "page", cookie)
  OBVIOUS
<1>4. requests = <<q>> \/ requests = <<>>
  BY <1>1, <1>3 DEF PanelRequest
<1>5. w \in SUBSET net /\ w \subseteq n /\ \A x \in n : x \in w \/ x.op = "panel"
  BY <1>1 DEF Withdrawn
<1>6. DOMAIN q = RequestFields /\ q.op = "panel" /\ q.by = "page"
  BY <1>3, MadeRow
<1>7. /\ messy \subseteq messy' /\ late \subseteq messy' /\ w \subseteq net'
      /\ \A y \in net' : y \in w \/ Like(y, q)
  BY <1>2, <1>4, <1>5, <1>6, OneRow
<1>8. DOMAIN view = ViewFields => view'.loaded = view.loaded
  BY DEF Focus, ViewFields
<1> QED
  BY <1>5, <1>6, <1>7, <1>8 DEF Like

\* One more request by the user, that is no list.
LEMMA ActFlags ==
  ASSUME FlagInv, NetInv, NEW q, DOMAIN q = RequestFields, q.op # "list", q.by # "gone",
         Send(net, <<q>>, {}), UNCHANGED <<route, initializing, signedIn>>,
         store'.fresh => store.fresh,
         \/ store'.loading = store.loading
         \/ store'.loading = TRUE,
         view'.loaded = view.loaded, view'.loading = view.loading
  PROVE  FlagInv'
<1>1. PICK requests : requests = <<q>>
  OBVIOUS
<1>2. /\ messy \subseteq messy' /\ net \subseteq net'
      /\ \A y \in net' : y \in net \/ Like(y, q)
  BY <1>1, OneRow
<1>3. Quiet
  BY <1>2 DEF Quiet, Like
<1>4. CASE store'.loading = store.loading
  BY <1>3, <1>4, QuietFlags
<1>5. CASE store'.loading = TRUE
  <2>1. StoreFlags'
    BY <1>2, <1>5 DEF FlagInv, StoreFlags
  <2>2. \A k : Awaited(k, "page")' <=> Awaited(k, "page")
    BY <1>3 DEF Awaited, Quiet
  <2>3. \A y \in net' : GoneRow(y)'
    BY <1>3, GoneStays DEF Quiet
  <2>4. PageFlags'
    BY <1>2, <2>2, PageStays
  <2> QED
    BY <2>1, <2>3, <2>4 DEF FlagInv
<1> QED
  BY <1>4, <1>5

\* A step on a page without a list.
LEMMA NoPageFlags ==
  ASSUME route' \notin {"alerts", "status-pages", "settings"}
  PROVE  PageFlags'
BY DEF PageFlags

\* What the user does on a page.
LEMMA PageActsFlags ==
  ASSUME FlagInv, NetInv, StrangerInv, PanelInv, OnPage
  PROVE  FlagInv'
<1>1. UNCHANGED <<signedIn, initializing, route>>
  BY DEF OnPage, Reload, RefreshMonitors, Poll, Select, AddMonitor, AddChannel, AddPage,
     RemoveMonitor, RemoveChannel, RemovePage, TestChannel, ToggleChannel, TogglePref, EditPage,
     Act, ActOnStore, StoreUnchanged
<1>2. /\ DOMAIN view = {"list", "loaded", "loading", "busy", "saving", "sel", "panel"}
      /\ DOMAIN store = {"list", "fresh", "loading"}
  BY DEF PanelInv, ViewFields, StrangerInv, ShownInv
<1>3. CASE Reload
  <2>1. PICK q, requests : /\ q = Request("list", PageKind[route], "page", cookie)
                           /\ requests = <<q>>
    OBVIOUS
  <2>2. /\ Send(net, requests, {}) /\ store' = store
        /\ view' = [view EXCEPT !.loading = TRUE] /\ route \in DOMAIN PageKind
    BY <1>3, <2>1 DEF Reload, Act, ForPage
  <2>3. DOMAIN q = RequestFields /\ q.op = "list" /\ q.what = PageKind[route] /\ q.by = "page"
    BY <2>1, MadeRow
  <2>4. /\ messy \subseteq messy' /\ net \subseteq net'
        /\ \A y \in net' : y \in net \/ Like(y, q)
        /\ \E y \in net' : Like(y, q)
    BY <2>1, <2>2, <2>3, OneRow
  <2>5. \A y \in net' : y \in net \/ y.by = "page"
    BY <2>3, <2>4 DEF Like
  <2>6. \A y \in net' : GoneRow(y)'
    BY <1>1, <2>4, <2>5, GoneStays
  <2>7. StoreFlags'
    BY <1>1, <2>2, <2>4, <2>5, StoreStays DEF Awaited
  <2>8. Awaited(PageKind[route], "page")'
    <3>1. PICK y \in net' : Like(y, q)
      BY <2>4
    <3>2. y.op = "list" /\ y.what = PageKind[route'] /\ y.by = "page"
      BY <1>1, <2>3, <3>1 DEF Like
    <3> QED
      BY <3>1, <3>2 DEF Awaited
  <2>9. view'.loaded = view.loaded /\ view'.loading = TRUE
    BY <1>2, <2>2
  <2>10. PageFlags'
    BY <1>1, <2>2, <2>8, <2>9 DEF PageFlags, FlagInv, PageKind
  <2> QED
    BY <2>6, <2>7, <2>10 DEF FlagInv
<1>4. CASE RefreshMonitors
  <2>1. PICK q, requests : /\ q = Request("list", "monitors", "store", cookie)
                           /\ requests = FetchMonitors(store, cookie)
    OBVIOUS
  <2>2. /\ Send(net, requests, {}) /\ store' = Loading(store, requests)
        /\ view' = view /\ route = "monitors"
    BY <1>4, <2>1 DEF RefreshMonitors
  <2>3. requests = <<q>> \/ requests = <<>>
    BY <2>1 DEF FetchMonitors
  <2>4. DOMAIN q = RequestFields /\ q.op = "list" /\ q.what = "monitors" /\ q.by = "store"
    BY <2>1, MadeRow
  <2>5. /\ messy \subseteq messy' /\ net \subseteq net'
        /\ \A y \in net' : y \in net \/ (requests = <<q>> /\ Like(y, q))
    BY <2>2, <2>3, <2>4, OneRow
  <2>6. \A y \in net' : y \in net \/ y.by = "store"
    BY <2>4, <2>5 DEF Like
  <2>7. \A y \in net' : GoneRow(y)'
    BY <1>1, <2>5, <2>6, GoneStays
  <2>8. StoreFlags'
    <3>1. CASE requests = <<>>
      <4>1. store' = store
        BY <2>2, <3>1 DEF Loading
      <4>2. requests # <<q>>
        BY <3>1
      <4>3. \A y \in net' : y \in net
        BY <2>5, <4>2
      <4> QED
        BY <1>1, <2>5, <4>1, <4>3, StoreStays DEF Awaited
    <3>2. CASE requests # <<>>
      <4>1. store'.loading = TRUE /\ store'.fresh = store.fresh
        BY <1>2, <2>2, <3>2 DEF Loading
      <4> QED
        BY <1>1, <2>5, <4>1 DEF FlagInv, StoreFlags
    <3> QED
      BY <3>1, <3>2
  <2>9. PageFlags'
    BY <1>1, <2>2, NoPageFlags
  <2> QED
    BY <2>7, <2>8, <2>9 DEF FlagInv
<1>5. ASSUME NEW i \in Item, Select(i)
      PROVE  FlagInv'
  <2>1. Focus(i, net, {}) /\ store' = store /\ route \in {"dashboard", "incident"}
    BY <1>5 DEF Select
  <2>2. /\ messy \subseteq messy'
        /\ \A y \in net' : y \in net \/ (y.op = "panel" /\ y.by = "page")
        /\ \A x \in net : x \in net' \/ x.op = "panel"
    BY <2>1, FocusRows
  <2>3. \A y \in net' : GoneRow(y)'
    BY <1>1, <2>2, GoneStays
  <2>4. StoreFlags'
    BY <1>1, <2>1, <2>2, StoreStays DEF Awaited
  <2>5. PageFlags'
    BY <1>1, <2>1, NoPageFlags
  <2> QED
    BY <2>3, <2>4, <2>5 DEF FlagInv
<1>6. ASSUME NEW op \in {"panel", "create", "delete", "test"}, NEW i, NEW page,
             Act(ForPage(op, i), page), page.loaded = view.loaded, page.loading = view.loading
      PROVE  FlagInv'
  <2>1. PICK q : q = Request(op, i, "page", cookie)
    OBVIOUS
  <2>2. DOMAIN q = RequestFields /\ q.op # "list" /\ q.by # "gone"
    BY <2>1, MadeRow
  <2>3. Send(net, <<q>>, {}) /\ view' = page /\ store' = store
    BY <1>6, <2>1 DEF Act, ForPage
  <2> QED
    BY <1>1, <1>6, <2>2, <2>3, ActFlags
<1>7. ASSUME NEW op \in {"create", "delete"}, NEW i, NEW page,
             ActOnStore(op, i, page), page.loaded = view.loaded, page.loading = view.loading
      PROVE  FlagInv'
  <2>1. PICK q : q = Request(op, i, "store", cookie)
    OBVIOUS
  <2>2. DOMAIN q = RequestFields /\ q.op # "list" /\ q.by # "gone"
    BY <2>1, MadeRow
  <2>3. Send(net, <<q>>, {}) /\ view' = page /\ store' = [store EXCEPT !.loading = TRUE]
    BY <1>7, <2>1 DEF ActOnStore
  <2>4. store'.loading = TRUE /\ store'.fresh = store.fresh
    BY <1>2, <2>3
  <2> QED
    BY <1>1, <1>7, <2>2, <2>3, <2>4, ActFlags
<1>8. ASSUME NEW i, NEW page, Act(Switch(i), page),
             page.loaded = view.loaded, page.loading = view.loading
      PROVE  FlagInv'
  <2>1. PICK q : q = Switch(i)
    OBVIOUS
  <2>2. DOMAIN q = RequestFields /\ q.op # "list" /\ q.by # "gone"
    BY <2>1, SwitchRow
  <2>3. Send(net, <<q>>, {}) /\ view' = page /\ store' = store
    BY <1>8, <2>1 DEF Act
  <2> QED
    BY <1>1, <1>8, <2>2, <2>3, ActFlags
<1>9. CASE Poll
  BY <1>6, <1>9 DEF Poll
<1>10. ASSUME NEW i \in Item, AddMonitor(i) \/ RemoveMonitor(i)
       PROVE  FlagInv'
  <2>1. PICK op, page : /\ op \in {"create", "delete"} /\ ActOnStore(op, i, page)
                        /\ page = view \/ page = [view EXCEPT !.busy = i]
    BY <1>10 DEF AddMonitor, RemoveMonitor
  <2>2. page.loaded = view.loaded /\ page.loading = view.loading
    BY <1>2, <2>1
  <2> QED
    BY <1>7, <2>1, <2>2
<1>11. ASSUME NEW i \in Item,
              AddChannel(i) \/ AddPage(i) \/ RemoveChannel(i) \/ RemovePage(i) \/ TestChannel(i)
       PROVE  FlagInv'
  <2>1. PICK op, page : /\ op \in {"create", "delete", "test"} /\ Act(ForPage(op, i), page)
                        /\ \/ page = [view EXCEPT !.saving = TRUE]
                           \/ page = [view EXCEPT !.busy = i]
    BY <1>11 DEF AddChannel, AddPage, RemoveChannel, RemovePage, TestChannel
  <2>2. page.loaded = view.loaded /\ page.loading = view.loading
    BY <1>2, <2>1
  <2> QED
    BY <1>6, <2>1, <2>2
<1>12. ASSUME NEW i \in Item, ToggleChannel(i) \/ TogglePref(i) \/ EditPage(i)
       PROVE  FlagInv'
  <2>1. PICK v, page : /\ Act(Switch(i), page)
                       /\ \/ page = [view EXCEPT !.list[i] = v]
                          \/ page = [view EXCEPT !.list[i] = v, !.busy = i]
                          \/ page = [view EXCEPT !.saving = TRUE]
    BY <1>12 DEF ToggleChannel, TogglePref, EditPage
  <2>2. page.loaded = view.loaded /\ page.loading = view.loading
    BY <1>2, <2>1
  <2> QED
    BY <1>8, <2>1, <2>2
<1> QED
  BY <1>3, <1>4, <1>5, <1>9, <1>10, <1>11, <1>12 DEF OnPage

\* The list of monitors is on its way among the requests n.
Fetched(n) == \E x \in n : x.op = "list" /\ x.what = "monitors" /\ x.by = "store"

\* A page is shown: its list is on its way, and the page is loading.
LEMMA ShowFlags ==
  ASSUME NEW rt, NEW subject, NEW st, NEW n, Told(n), NEW c, NEW u, NEW as, NEW late,
         NEW remount \in BOOLEAN, Show(rt, subject, st, n, c, u, as, late, remount),
         StrangerInv', \A x \in n : AskRow(x, route),
         \A x \in n : x.by = "gone" /\ Kind[x.what] = "monitors" => x.what \in messy',
         DOMAIN st = {"list", "fresh", "loading"},
         st.fresh /\ ~signedIn' => Of("monitors") \subseteq messy',
         ~st.loading /\ Fetched(n) =>
           Of("monitors") = {} \/ Of("monitors") \intersect messy' # {}
  PROVE  FlagInv'
<1>1. PICK v, s : v = view' /\ s = store'
  OBVIOUS
<1>2. /\ route' = rt /\ v = Fresh(rt, subject, u)
      /\ s = IF rt \in {"dashboard", "monitors"} /\ ~Cached(st)
             THEN [st EXCEPT !.loading = TRUE] ELSE st
  BY <1>1 DEF Show
<1>3. /\ messy \subseteq messy'
      /\ \E stays : /\ Left(n, stays) \subseteq net'
                    /\ \A x \in net' : x \in Left(n, stays) \/ Opens(x, rt, st, as)
      /\ \A q : Wants(rt, st, q, as) => \E x \in net' : Like(x, q)
  <2>1. Told(n) /\ Show(rt, subject, st, n, c, u, as, late, remount)
    OBVIOUS
  <2> QED
    BY ONLY <2>1, remount \in BOOLEAN, ShowSends
<1>4. PICK stays : \A x \in net' : x \in Left(n, stays) \/ Opens(x, rt, st, as)
  BY <1>3
<1>5. rt \in DOMAIN PageKind =>
        \E x \in net' : /\ x.op = "list" /\ x.what = PageKind[rt] /\ x.by = "page"
  BY <1>3, ShowAwaits
<1>6. \A x \in net' : AskRow(x, rt)
  BY <1>2 DEF StrangerInv, RowsFit
<1>7. ASSUME NEW x \in net', x.by = "gone", Kind[x.what] # "prefs", Kind[x.what] = KindOf(rt)
      PROVE  x.what \in messy'
  <2>1. x.op \in {"create", "set", "delete"} /\ x.what \in Item
    BY <1>6, <1>7 DEF AskRow
  <2>2. Kind[x.what] # "none"
    BY <2>1, ClientAssumption
  <2>3. rt \in DOMAIN PageKind /\ KindOf(rt) = PageKind[rt]
    BY <1>7, <2>2 DEF KindOf
  <2>4. PICK y \in net' : y.op = "list" /\ y.what = PageKind[rt] /\ y.by = "page"
    BY <1>5, <2>3
  <2>5. Touched(y) = Of(PageKind[rt]) /\ Touched(x) = {x.what}
    BY <1>7, <2>1, <2>4 DEF Touched
  <2>6. x.what \in Of(PageKind[rt])
    BY <1>7, <2>1, <2>3 DEF Of
  <2>7. x # y /\ x.op # "list"
    BY <1>7, <2>1, <2>4
  <2>8. Apart(x, y, messy')
    BY <2>7 DEF StrangerInv, RowsFit
  <2> QED
    BY <2>5, <2>6, <2>7, <2>8 DEF Apart
<1>8. ASSUME NEW x \in net', x.by = "gone", Kind[x.what] = "monitors"
      PROVE  x.what \in messy'
  <2>1. x \in Left(n, stays)
    BY <1>4, <1>8 DEF Opens
  <2>2. CASE x \in n
    BY <1>8, <2>2
  <2>3. ASSUME NEW y \in n, y.by = "page", y.op \in {"create", "set", "delete"},
               x = [y EXCEPT !.by = "gone"]
        PROVE  FALSE
    <3>1. AskRow(y, route)
      OBVIOUS
    <3>2. x.what = y.what
      BY <2>3, <3>1 DEF AskRow, RequestFields
    <3>3. Kind[y.what] = KindOf(route) /\ route \in {"alerts", "status-pages", "settings"}
      BY <2>3, <3>1 DEF AskRow
    <3>4. KindOf(route) # "monitors"
      BY <3>3 DEF KindOf, PageKind
    <3> QED
      BY <1>8, <3>2, <3>3, <3>4
  <2> QED
    BY <2>1, <2>2, <2>3, LeftAre
<1>9. \A x \in net' : GoneRow(x)'
  BY <1>2, <1>7, <1>8 DEF GoneRow
<1>10. ASSUME s.fresh, ~signedIn' PROVE Of("monitors") \subseteq messy'
  <2>1. s.fresh = st.fresh
    BY <1>2
  <2> QED
    BY <1>10, <2>1
<1>11. ASSUME ~s.loading, Awaited("monitors", "store")'
       PROVE  Of("monitors") = {} \/ Of("monitors") \intersect messy' # {}
  <2>1. ~(rt \in {"dashboard", "monitors"} /\ ~Cached(st)) /\ ~st.loading
    BY <1>2, <1>11
  <2>2. PICK x \in net' : x.op = "list" /\ x.what = "monitors" /\ x.by = "store"
    BY <1>11 DEF Awaited
  <2>3. PICK q, p : /\ q = Request("list", "monitors", "store", as)
                    /\ p = Request("list", PageKind[rt], "page", as)
    OBVIOUS
  <2>4. q.by = "store" /\ p.by = "page"
    BY <2>3 DEF Request
  <2>5. ~Wants(rt, st, q, as)
    BY <2>1, <2>3, <2>4 DEF Wants
  <2>6. x \in Left(n, stays)
    BY <1>4, <2>2, <2>3, <2>5 DEF Opens
  <2>7. x \in n
    BY <2>2, <2>6, LeftAre
  <2> QED
    BY <2>1, <2>2, <2>7 DEF Fetched
<1>12. StoreFlags'
  BY <1>1, <1>10, <1>11 DEF StoreFlags
<1>13. v.loaded = (rt = "settings") /\ v.loading = Loads(rt)
  BY <1>2 DEF Fresh
<1>14. PageFlags'
  <2>1. rt = "settings" => v.loaded
    BY <1>13
  <2>2. ASSUME rt \in {"alerts", "status-pages"}
        PROVE  Awaited(PageKind[rt], "page")' /\ v.loading
    BY <1>5, <1>13, <2>2 DEF Awaited, Loads, PageKind
  <2> QED
    BY <1>1, <1>2, <2>1, <2>2 DEF PageFlags
<1> QED
  BY <1>9, <1>12, <1>14 DEF FlagInv

\* Links, and the logout button.
LEMMA LinksFlags ==
  ASSUME FlagInv, NetInv, StrangerInv, StrangerInv',
         LogoutClick \/ \E rt : Navigate(rt)
  PROVE  FlagInv'
<1>1. UNCHANGED <<signedIn, initializing>> /\ DOMAIN store = {"list", "fresh", "loading"}
  BY DEF LogoutClick, Navigate, StrangerInv, ShownInv
<1>2. /\ \A x \in net : AskRow(x, route)
      /\ \A x \in net : x.by = "gone" /\ Kind[x.what] = "monitors" => x.what \in messy
      /\ store.fresh /\ ~signedIn => Of("monitors") \subseteq messy
      /\ ~store.loading /\ Fetched(net) =>
           Of("monitors") = {} \/ Of("monitors") \intersect messy # {}
  BY DEF StrangerInv, RowsFit, FlagInv, GoneRow, StoreFlags, Awaited, Fetched
<1>3. ASSUME NEW rt, Navigate(rt) PROVE FlagInv'
  <2>1. PICK s : Show(rt, s, store, net, conn, me, cookie, {}, FALSE)
    BY <1>3 DEF Navigate
  <2>2. messy \subseteq messy' /\ Told(net)
    BY <2>1 DEF Show, Send, NetInv
  <2> QED
    BY <1>1, <1>2, <2>1, <2>2, ShowFlags
<1>4. CASE LogoutClick
  <2>1. PICK q : q = Request("logout", None, "session", cookie)
    OBVIOUS
  <2>2. /\ NetRow(q) /\ DOMAIN q = RequestFields /\ q.op = "logout" /\ q.by = "session"
    BY <2>1 DEF Request, RequestFields, NetRow
  <2>3. PICK n : n = Post(net, q)
    OBVIOUS
  <2>4. Told(n)
    BY <2>2, <2>3, ToldOne DEF NetInv, Post
  <2>5. PICK s : Show("dashboard", s, store, n, conn, me, cookie, {}, TRUE)
    BY <1>4, <2>1, <2>3 DEF LogoutClick
  <2>6. messy \subseteq messy'
    BY <2>5 DEF Show, Send
  <2>7. n = net \cup {[<<q>>[k] EXCEPT !.tag = FreeTag(net, k)] : k \in {1}}
    BY <2>3 DEF Post, PostAll
  <2>8. \A x \in n : x \in net \/ \E t : x = [q EXCEPT !.tag = t]
    BY <2>7
  <2>9. \A x \in n : \/ x \in net
                     \/ DOMAIN x = RequestFields /\ x.op = "logout" /\ x.by = "session"
    BY <2>2, <2>8 DEF RequestFields
  <2>10. \A x \in n : AskRow(x, route)
    BY <1>2, <2>9 DEF AskRow
  <2>11. \A x \in n : x.by = "gone" /\ Kind[x.what] = "monitors" => x.what \in messy'
    BY <1>2, <2>6, <2>9
  <2>12. ~store.loading /\ Fetched(n) =>
           Of("monitors") = {} \/ Of("monitors") \intersect messy' # {}
    BY <1>2, <2>6, <2>9 DEF Fetched
  <2>13. store.fresh /\ ~signedIn' => Of("monitors") \subseteq messy'
    BY <1>1, <1>2, <2>6
  <2> QED
    BY <1>1, <2>4, <2>5, <2>10, <2>11, <2>12, <2>13, ShowFlags
<1> QED
  BY <1>3, <1>4

\* An answer loads the list of a page, and else leaves its flags.
LEMMA ViewAfterFlags ==
  ASSUME DOMAIN view = ViewFields, NEW r, AskRow(r, route), r.by = "page",
         NEW v, v = ViewAfter(r)
  PROVE  /\ DOMAIN v = ViewFields
         /\ r.op = "list" /\ r.ok => v.loaded
         /\ r.op = "list" /\ ~r.ok => v.loaded = view.loaded
         /\ r.op # "list" => v.loaded = view.loaded
         /\ r.op # "list" /\ route \notin {"incident", "public"} => v.loading = view.loading
<1>1. CASE r.op = "list"
  BY <1>1 DEF ViewAfter, Loaded, ViewFields
<1>2. CASE r.op = "panel"
  BY <1>2 DEF ViewAfter, PanelAfter, DetailAfter, PublicAfter, ViewFields
<1>3. CASE r.op = "set"
  BY <1>3 DEF ViewAfter, ChannelSwitched, PrefSaved, PageSaved, ViewFields
<1>4. CASE r.op = "create"
  BY <1>4 DEF ViewAfter, PageSaved, ViewFields
<1>5. CASE r.op = "delete"
  BY <1>5 DEF ViewAfter, Removed, ViewFields
<1>6. CASE r.op = "test"
  BY <1>6 DEF ViewAfter, Tested, ViewFields
<1>7. r.op \in {"panel", "list", "create", "set", "delete", "test"}
  BY DEF AskRow
<1> QED
  BY <1>1, <1>2, <1>3, <1>4, <1>5, <1>6, <1>7

\* The requests that remain when an answer came, and the one that is gone.
LEMMA DoneLess ==
  ASSUME NetInv, NEW q \in net, NEW r, r.tag = q.tag, NEW n, n = Done(net, r)
  PROVE  n \in SUBSET net /\ Told(n) /\ \A x \in net : x \in n \/ x = q
<1>1. n \in SUBSET net /\ \A x \in net : x \in n \/ x = q
  BY DEF NetInv, Told, Done
<1> QED
  BY <1>1, ToldLess DEF NetInv

\* An answer for the hooks of the store: whatever it was, the store is not loading.
LEMMA StoreAnswerFlags ==
  ASSUME FlagInv, NetInv, StrangerInv, PanelInv, NEW q \in net, NEW r, Heard(r),
         r.tag = q.tag, r.by = q.by, r.op = q.op, SettleStore(r)
  PROVE  FlagInv'
<1>1. PICK n : n = Done(net, r)
  OBVIOUS
<1>2. n \in SUBSET net /\ Told(n) /\ \A x \in net : x \in n \/ x = q
  BY <1>1, DoneLess
<1>3. /\ r.by = "store" /\ store' = StoreAfter(r)
      /\ UNCHANGED <<signedIn, initializing, route>>
      /\ \/ /\ route = "dashboard" /\ \E s : Focus(s, n, Missed(r))
         \/ /\ view' = view \/ view' = [view EXCEPT !.busy = None]
            /\ Send(n, <<>>, Missed(r))
  BY <1>1 DEF SettleStore
<1>4. /\ messy \subseteq messy'
      /\ \A y \in net' : y \in n \/ (y.op = "panel" /\ y.by = "page")
      /\ \A x \in n : x \in net' \/ x.op = "panel"
  <2>1. PICK late : late = Missed(r)
    OBVIOUS
  <2>2. ASSUME NEW s, Focus(s, n, late)
        PROVE  /\ messy \subseteq messy'
               /\ \A y \in net' : y \in n \/ (y.op = "panel" /\ y.by = "page")
               /\ \A x \in n : x \in net' \/ x.op = "panel"
    BY ONLY <1>2, <2>2, NetInv, FocusRows
  <2>3. CASE Send(n, <<>>, late)
    BY <2>3, NoneAdds
  <2> QED
    BY <1>3, <2>1, <2>2, <2>3
<1>5. /\ Touched(r) \subseteq Of("monitors")
      /\ Of("monitors") = {} \/ Touched(r) # {}
      /\ r.op \in {"list", "create", "delete"}
  <2>1. /\ AskRow(r, route)
        /\ \/ r.op = "list" /\ r.what = "monitors"
           \/ r.op \in {"create", "delete"} /\ Kind[r.what] = "monitors" /\ r.what \in Item
    BY <1>3 DEF Heard, AskRow
  <2> QED
    BY <2>1 DEF Touched, Of
<1>6. PICK st : st = store'
  OBVIOUS
<1>7. /\ st.loading = FALSE
      /\ st.fresh = store.fresh \/ (r.op = "list" /\ r.ok)
  BY <1>3, <1>5, <1>6 DEF StoreAfter, StrangerInv, ShownInv
<1>8. ASSUME st.fresh, ~signedIn' PROVE Of("monitors") \subseteq messy'
  <2>1. CASE r.op = "list"
    <3>1. Touched(r) = Of("monitors")
      BY <1>5, <2>1, <1>3 DEF Touched, Heard, AskRow
    <3>2. Touched(r) \subseteq messy
      BY <1>3, <1>8 DEF Heard, SessionRow
    <3> QED
      BY <1>4, <3>1, <3>2
  <2>2. CASE st.fresh = store.fresh
    BY <1>3, <1>4, <1>8, <2>2 DEF FlagInv, StoreFlags
  <2> QED
    BY <1>7, <2>1, <2>2
<1>9. ASSUME Awaited("monitors", "store")'
      PROVE  Of("monitors") = {} \/ Of("monitors") \intersect messy' # {}
  <2>1. PICK x \in n : x.op = "list" /\ x.what = "monitors" /\ x.by = "store"
    BY <1>4, <1>9 DEF Awaited
  <2>2. Apart(r, x, messy) /\ Touched(x) = Of("monitors")
    BY <1>1, <2>1 DEF Heard, Touched
  <2>3. Touched(r) \intersect Of("monitors") \subseteq messy
    BY <1>3, <2>1, <2>2 DEF Apart
  <2> QED
    BY <1>4, <1>5, <2>3
<1>10. StoreFlags'
  BY <1>6, <1>8, <1>9 DEF StoreFlags
<1>11. \A y \in net' : GoneRow(y)'
  <2>1. \A y \in net' : y \in net \/ y.by # "gone"
    BY <1>2, <1>4
  <2> QED
    BY <1>3, <1>4, <2>1, GoneStays
<1>12. PageFlags'
  <2>1. CASE route = "dashboard"
    BY <1>3, <2>1, NoPageFlags
  <2>2. CASE route # "dashboard"
    <3>1. view'.loaded = view.loaded /\ view'.loading = view.loading
      BY <1>3, <2>2 DEF PanelInv, ViewFields
    <3>2. \A k : Awaited(k, "page")' <=> Awaited(k, "page")
      BY <1>2, <1>3, <1>4 DEF Awaited
    <3> QED
      BY <1>3, <1>4, <3>1, <3>2, PageStays
  <2> QED
    BY <2>1, <2>2
<1> QED
  BY <1>10, <1>11, <1>12 DEF FlagInv

\* An answer for the page.
LEMMA PageAnswerFlags ==
  ASSUME FlagInv, NetInv, StrangerInv, PanelInv, NEW q \in net, NEW r, Heard(r),
         r.tag = q.tag, r.by = q.by, r.op = q.op, SettlePage(r)
  PROVE  FlagInv'
<1>1. PICK n : n = Done(net, r)
  OBVIOUS
<1>2. n \in SUBSET net /\ Told(n) /\ \A x \in net : x \in n \/ x = q
  BY <1>1, DoneLess
<1>3. PICK p, requests, late, v :
        /\ p = Request("list", PageKind[route], "page", cookie)
        /\ requests = IF Reloads(r) THEN <<p>> ELSE <<>>
        /\ late = Missed(r) /\ v = ViewAfter(r)
  OBVIOUS
<1>4. /\ r.by = "page" /\ Send(n, requests, late)
      /\ view' = IF Reloads(r) THEN [v EXCEPT !.loading = TRUE] ELSE v
      /\ UNCHANGED <<signedIn, store, initializing, route>>
  BY <1>1, <1>3 DEF SettlePage
<1>5. DOMAIN p = RequestFields /\ p.op = "list" /\ p.what = PageKind[route] /\ p.by = "page"
  BY <1>3, MadeRow
<1>6. /\ messy \subseteq messy' /\ late \subseteq messy' /\ n \subseteq net'
      /\ \A y \in net' : y \in n \/ (requests = <<p>> /\ Like(y, p))
      /\ requests = <<p>> => \E y \in net' : Like(y, p)
  <2>1. requests = <<p>> \/ requests = <<>>
    BY <1>3
  <2> QED
    BY <1>2, <1>4, <1>5, <2>1, OneRow
<1>7. \A y \in net' : y \in n \/ (y.op = "list" /\ y.by = "page" /\ Reloads(r))
  <2>1. requests = <<p>> => Reloads(r)
    BY <1>3
  <2> QED
    BY <1>5, <1>6, <2>1 DEF Like
<1>8. \A y \in net' : GoneRow(y)'
  <2>1. \A y \in net' : y \in net \/ y.by # "gone"
    BY <1>2, <1>7
  <2> QED
    BY <1>4, <1>6, <2>1, GoneStays
<1>9. StoreFlags'
  <2>1. Awaited("monitors", "store")' => Awaited("monitors", "store")
    BY <1>2, <1>7 DEF Awaited
  <2> QED
    BY <1>4, <1>6, <2>1, StoreStays
<1>10. /\ DOMAIN v = ViewFields
       /\ r.op = "list" /\ r.ok => v.loaded
       /\ r.op = "list" /\ ~r.ok => v.loaded = view.loaded
       /\ r.op # "list" => v.loaded = view.loaded
       /\ r.op # "list" /\ route \notin {"incident", "public"} => v.loading = view.loading
  BY <1>3, <1>4, ViewAfterFlags DEF PanelInv, Heard
<1>11. /\ view'.loaded = v.loaded
       /\ view'.loading = IF Reloads(r) THEN TRUE ELSE v.loading
  BY <1>4, <1>10 DEF ViewFields
<1>12. PageFlags'
  <2>1. CASE r.op = "list"
    <3>1. route \in DOMAIN PageKind /\ r.what = PageKind[route]
      BY <1>4, <2>1 DEF Heard, AskRow
    <3>2. Touched(r) = Of(PageKind[route])
      BY <2>1, <3>1 DEF Touched
    <3>3. ~Reloads(r)
      BY <2>1 DEF Reloads
    <3>4. \A y \in net' : y \in n
      BY <1>7, <3>3
    <3>5. CASE ~r.ok
      <4>1. late = Of(PageKind[route])
        BY <1>3, <2>1, <3>2, <3>5 DEF Missed
      <4>2. route # "settings"
        BY <3>1 DEF PageKind
      <4> QED
        BY <1>4, <1>6, <4>1, <4>2 DEF PageFlags
    <3>6. ASSUME NEW x \in n, x.op = "list", x.what = PageKind[route], x.by = "page"
          PROVE  PageFlags'
      <4>1. Apart(r, x, messy) /\ Touched(x) = Of(PageKind[route])
        BY <1>1, <3>6 DEF Heard, Touched
      <4>2. Of(PageKind[route]) \subseteq messy
        BY <1>4, <3>2, <3>6, <4>1 DEF Apart
      <4>3. route # "settings"
        BY <3>1 DEF PageKind
      <4> QED
        BY <1>4, <1>6, <4>2, <4>3 DEF PageFlags
    <3>7. CASE r.ok /\ \A x \in n : ~(x.op = "list" /\ x.what = PageKind[route] /\ x.by = "page")
      <4>1. ~Awaited(PageKind[route], "page")'
        BY <1>4, <3>4, <3>7 DEF Awaited
      <4>2. view'.loaded
        BY <1>10, <1>11, <2>1, <3>7
      <4> QED
        BY <1>4, <4>1, <4>2 DEF PageFlags
    <3> QED
      BY <3>5, <3>6, <3>7
  <2>2. CASE Reloads(r)
    <3>1. requests = <<p>>
      BY <1>3, <2>2
    <3>2. PICK y \in net' : Like(y, p)
      BY <1>6, <3>1
    <3>3. y.op = "list" /\ y.what = PageKind[route'] /\ y.by = "page"
      BY <1>4, <1>5, <3>2 DEF Like
    <3>4. Awaited(PageKind[route], "page")'
      BY <3>2, <3>3 DEF Awaited
    <3>5. view'.loading = TRUE
      BY <1>11, <2>2
    <3>6. r.op # "list"
      BY <2>2 DEF Reloads
    <3>7. view'.loaded = view.loaded
      BY <1>10, <1>11, <3>6
    <3> QED
      BY <1>4, <3>4, <3>5, <3>7 DEF PageFlags, FlagInv
  <2>3. CASE r.op # "list" /\ ~Reloads(r)
    <3>1. \A y \in net' : y \in n
      BY <1>7, <2>3
    <3>2. \A k : Awaited(k, "page")' <=> Awaited(k, "page")
      BY <1>2, <1>6, <2>3, <3>1 DEF Awaited
    <3>3. CASE route \in {"incident", "public"}
      BY <1>4, <3>3, NoPageFlags
    <3>4. CASE route \notin {"incident", "public"}
      <4>1. view'.loaded = view.loaded /\ view'.loading = view.loading
        BY <1>10, <1>11, <2>3, <3>4
      <4> QED
        BY <1>4, <1>6, <3>2, <4>1, PageStays
    <3> QED
      BY <3>3, <3>4
  <2> QED
    BY <2>1, <2>2, <2>3
<1> QED
  BY <1>8, <1>9, <1>12 DEF FlagInv

\* Answers for the session: a page is shown, or none of the lists changes.
LEMMA SessionAnswerFlags ==
  ASSUME FlagInv, NetInv, StrangerInv, StrangerInv', RoomInv, PanelInv, NEW q \in net, NEW r,
         Heard(r), r.tag = q.tag, r.by = q.by, r.op = q.op,
         SettleFirstProfile(r) \/ SettleSignIn(r) \/ SettleLogout(r)
  PROVE  FlagInv'
<1>1. PICK n : n = Done(net, r)
  OBVIOUS
<1>2. n \in SUBSET net /\ Told(n) /\ \A x \in net : x \in n \/ x = q
  BY <1>1, DoneLess
<1>3. /\ \A x \in n : AskRow(x, route)
      /\ \A x \in n : x.by = "gone" /\ Kind[x.what] = "monitors" => x.what \in messy
      /\ store.fresh /\ ~signedIn => Of("monitors") \subseteq messy
      /\ ~store.loading /\ Fetched(n) =>
           Of("monitors") = {} \/ Of("monitors") \intersect messy # {}
      /\ DOMAIN store = {"list", "fresh", "loading"}
  <2>1. \A x \in net : AskRow(x, route)
    BY DEF StrangerInv, RowsFit
  <2>2. \A x \in net : x.by = "gone" /\ Kind[x.what] = "monitors" => x.what \in messy
    BY DEF FlagInv, GoneRow
  <2>3. Fetched(n) => Awaited("monitors", "store")
    BY <1>2 DEF Fetched, Awaited
  <2> QED
    BY <1>2, <2>1, <2>2, <2>3 DEF FlagInv, StoreFlags, StrangerInv, ShownInv
<1>4. CASE SettleFirstProfile(r)
  <2>1. ~signedIn /\ n = {}
    BY <1>1, <1>4 DEF SettleFirstProfile, Heard, StrangerInv, ShownInv
  <2>2. PICK p : p = Request("profile", None, "session", cookie)
    OBVIOUS
  <2>3. /\ NetRow(p) /\ DOMAIN p = RequestFields /\ p.op = "profile" /\ p.by = "session"
    BY <2>2 DEF Request, RequestFields, NetRow
  <2>4. PICK m : m = Post(n, p)
    OBVIOUS
  <2>5. Told(m)
    BY <1>2, <2>3, <2>4, ToldOne DEF Post
  <2>6. m = n \cup {[<<p>>[k] EXCEPT !.tag = FreeTag(n, k)] : k \in {1}}
    BY <2>4 DEF Post, PostAll
  <2>7. \A x \in m : \E t : x = [p EXCEPT !.tag = t]
    BY <2>1, <2>6
  <2>8. \A x \in m : DOMAIN x = RequestFields /\ x.op = "profile" /\ x.by = "session"
    BY <2>3, <2>7 DEF RequestFields
  <2>9. /\ \A x \in m : AskRow(x, route)
        /\ \A x \in m : x.by = "gone" /\ Kind[x.what] = "monitors" => x.what \in messy'
        /\ ~Fetched(m)
    BY <2>8 DEF AskRow, Fetched
  <2>10. PICK rt, s, u : Show(rt, s, store, m, conn, u, cookie, {}, FALSE)
    BY <1>1, <1>4, <2>2, <2>4 DEF SettleFirstProfile
  <2>11. messy \subseteq messy'
    BY <2>10 DEF Show, Send
  <2>12. store.fresh /\ ~signedIn' => Of("monitors") \subseteq messy'
    BY <1>3, <2>1, <2>11
  <2> QED
    BY <1>3, <2>5, <2>9, <2>10, <2>12, ShowFlags
<1>5. CASE SettleSignIn(r)
  <2>1. signedIn => signedIn'
    BY <1>5, SessionEffect DEF SettleSignIn, RoomInv
  <2>2. CASE route = "login" /\ signedIn'
    <3>1. PICK s, u, as : Show("dashboard", s, store, n, conn, u, as, {}, FALSE)
      BY <1>1, <1>5, <2>2 DEF SettleSignIn
    <3>2. messy \subseteq messy'
      BY <3>1 DEF Show, Send
    <3>3. \A x \in n : x.by = "gone" /\ Kind[x.what] = "monitors" => x.what \in messy'
      BY <1>3, <3>2
    <3>4. ~store.loading /\ Fetched(n) =>
            Of("monitors") = {} \/ Of("monitors") \intersect messy' # {}
      BY <1>3, <3>2
    <3> QED
      BY <1>2, <1>3, <2>2, <3>1, <3>3, <3>4, ShowFlags
  <2>3. CASE ~(route = "login" /\ signedIn')
    <3>1. /\ r.op \in {"profile", "login"} /\ store' = store /\ UNCHANGED <<route, initializing>>
          /\ \/ view' = WithUser(me') \/ view' = view \/ view' = [view EXCEPT !.saving = FALSE]
          /\ Send(n, <<>>, IF r.op = "login" /\ signedIn THEN Item ELSE {})
      BY <1>1, <1>5, <2>3 DEF SettleSignIn
    <3>2. net' = n /\ messy \subseteq messy'
      BY <3>1, NoneAdds
    <3>3. view'.loaded = view.loaded /\ view'.loading = view.loading
      BY <3>1 DEF WithUser, PanelInv, ViewFields
    <3>4. \A k : Awaited(k, "page")' <=> Awaited(k, "page")
      BY <1>2, <3>1, <3>2 DEF Awaited
    <3>5. Awaited("monitors", "store")' => Awaited("monitors", "store")
      BY <1>2, <3>2 DEF Awaited
    <3>6. StoreFlags'
      BY <2>1, <3>1, <3>2, <3>5 DEF StoreFlags, FlagInv
    <3>7. PageFlags'
      BY <3>1, <3>2, <3>3, <3>4, PageStays
    <3>8. \A y \in net' : GoneRow(y)'
      BY <1>2, <3>1, <3>2, GoneStays
    <3> QED
      BY <3>6, <3>7, <3>8 DEF FlagInv
  <2> QED
    BY <2>2, <2>3
<1>6. CASE SettleLogout(r)
  <2>1. PICK late : late = UNION {Touched(x) : x \in n}
    OBVIOUS
  <2>2. ~signedIn' /\ r.op = "logout"
    BY <1>6 DEF SettleLogout, SessionAfter
  <2>3. Wiped.fresh = FALSE /\ DOMAIN Wiped = {"list", "fresh", "loading"}
    BY DEF Wiped, EmptyStore
  <2>4. Fetched(n) => Of("monitors") \subseteq late
    <3>1. ASSUME NEW x \in n, x.op = "list", x.what = "monitors"
          PROVE  Of("monitors") \subseteq late
      <4>1. Touched(x) = Of("monitors")
        BY <3>1 DEF Touched
      <4> QED
        BY <2>1, <4>1
    <3> QED
      BY <3>1 DEF Fetched
  <2>5. CASE route \in Protected
    <3>1. PICK c : Show("login", None, Wiped, n, c, None, None, late, FALSE)
      BY <1>1, <1>6, <2>1, <2>5 DEF SettleLogout
    <3>2. messy \subseteq messy' /\ late \subseteq messy'
      BY <3>1 DEF Show, Send
    <3>3. \A x \in n : x.by = "gone" /\ Kind[x.what] = "monitors" => x.what \in messy'
      BY <1>3, <3>2
    <3>4. Fetched(n) => Of("monitors") = {} \/ Of("monitors") \intersect messy' # {}
      BY <2>4, <3>2
    <3>5. PICK w : w = Wiped
      OBVIOUS
    <3>6. w.fresh = FALSE /\ DOMAIN w = {"list", "fresh", "loading"}
      BY <2>3, <3>5
    <3>7. Show("login", None, w, n, c, None, None, late, FALSE)
      BY <3>1, <3>5
    <3> QED
      BY <1>2, <1>3, <3>3, <3>4, <3>6, <3>7, ShowFlags
  <2>6. CASE route \notin Protected
    <3>1. /\ store' = Wiped /\ UNCHANGED <<route, initializing>>
          /\ view' = [view EXCEPT !.saving = FALSE]
          /\ Send(n, <<>>, late)
      BY <1>1, <1>6, <2>1, <2>6 DEF SettleLogout
    <3>2. net' = n /\ messy' = messy \cup late
      BY <3>1, NoneAdds
    <3>3. \A k : Awaited(k, "page")' <=> Awaited(k, "page")
      BY <1>2, <2>2, <3>2 DEF Awaited
    <3>4. Awaited("monitors", "store")' => Fetched(n)
      BY <3>2 DEF Awaited, Fetched
    <3>5. StoreFlags'
      BY <2>3, <2>4, <3>1, <3>2, <3>4 DEF StoreFlags
    <3>6. PageFlags'
      BY <3>1, <3>2, <3>3, PageStays
    <3>7. \A y \in net' : GoneRow(y)'
      BY <1>2, <3>1, <3>2, GoneStays
    <3> QED
      BY <3>5, <3>6, <3>7 DEF FlagInv
  <2> QED
    BY <2>5, <2>6
<1> QED
  BY <1>4, <1>5, <1>6

\* Answers for the navbar, and those that nobody waits for.
LEMMA OtherAnswerFlags ==
  ASSUME FlagInv, NetInv, StrangerInv, PanelInv, NEW q \in net, NEW r, Heard(r),
         r.tag = q.tag, r.by = q.by, r.op = q.op, SettleBell(r) \/ SettleGone(r)
  PROVE  FlagInv'
<1>1. PICK n : n = Done(net, r)
  OBVIOUS
<1>2. n \in SUBSET net /\ Told(n) /\ \A x \in net : x \in n \/ x = q
  BY <1>1, DoneLess
<1>3. /\ UNCHANGED <<route, initializing, signedIn, store>>
      /\ view' = view \/ view' = WithUser(r.data)
      /\ \E late : Send(n, <<>>, late)
  BY <1>1 DEF SettleBell, SettleGone, pageVars
<1>4. q.op # "list" \/ q.by = "bell"
  BY DEF SettleBell, SettleGone, Heard, AskRow
<1>5. net' = n /\ messy \subseteq messy'
  BY <1>3, NoneAdds
<1>6. Quiet
  BY <1>2, <1>4, <1>5 DEF Quiet
<1>7. view'.loaded = view.loaded /\ view'.loading = view.loading
  BY <1>3 DEF WithUser, PanelInv, ViewFields
<1> QED
  BY <1>3, <1>6, <1>7, QuietFlags

\* Every step.
LEMMA FlagStep ==
  FlagInv /\ NetInv /\ StrangerInv /\ StrangerInv' /\ RoomInv /\ PanelInv /\ [Next]_vars
    => FlagInv'
<1> SUFFICES ASSUME FlagInv, NetInv, StrangerInv, StrangerInv', RoomInv, PanelInv, [Next]_vars
             PROVE  FlagInv'
  OBVIOUS
<1>1. ASSUME NEW q \in net, Settle(q) PROVE FlagInv'
  <2>1. PICK r : /\ \/ q.stage = "answered" /\ r = q
                    \/ q.stage = "sent" /\ r = Answered(q)
                 /\ SettleAnswered(r)
    BY <1>1 DEF Settle
  <2>2. Heard(r)
    BY <2>1, SettledIsHeard
  <2>3. DOMAIN q = RequestFields
    BY DEF NetInv, Told, NetRow
  <2>4. r.tag = q.tag /\ r.by = q.by /\ r.op = q.op
    BY <2>1, <2>3 DEF Answered, RequestFields
  <2> QED
    BY <2>1, <2>2, <2>4, StoreAnswerFlags, PageAnswerFlags, OtherAnswerFlags,
       SessionAnswerFlags DEF SettleAnswered
<1>2. CASE OfUser
  <2>1. ASSUME NEW u \in User, SignIn(u) PROVE FlagInv'
    <3>1. PICK p : p = Request("login", u, "session", cookie)
      OBVIOUS
    <3>2. DOMAIN p = RequestFields /\ p.op # "list" /\ p.by # "gone"
      BY <3>1 DEF Request, RequestFields
    <3>3. /\ Send(net, <<p>>, {}) /\ store' = store /\ view' = [view EXCEPT !.saving = TRUE]
          /\ UNCHANGED <<route, initializing, signedIn>>
      BY <2>1, <3>1 DEF SignIn, StoreUnchanged
    <3>4. view'.loaded = view.loaded /\ view'.loading = view.loading
      BY <3>3 DEF PanelInv, ViewFields
    <3> QED
      BY <3>2, <3>3, <3>4, ActFlags
  <2>2. CASE LogoutClick \/ \E rt : Navigate(rt)
    BY <2>2, LinksFlags
  <2>3. CASE OnPage
    BY <2>3, PageActsFlags
  <2> QED
    BY <1>2, <2>1, <2>2, <2>3 DEF OfUser
<1>3. CASE OfNet
  BY <1>3, NetFlags
<1>4. CASE OfSocket \/ OnShell
  BY <1>4, ShellFlags
<1>5. CASE GrowStale /\ UNCHANGED <<socketVars, initializing, route, view>>
  <2>1. /\ UNCHANGED <<signedIn, net, messy, initializing, route, view>>
        /\ store' = [store EXCEPT !.fresh = FALSE] /\ DOMAIN store = {"list", "fresh", "loading"}
    BY <1>5 DEF GrowStale, StrangerInv, ShownInv
  <2>2. store'.fresh = FALSE /\ store'.loading = store.loading
    BY <2>1
  <2> QED
    BY <2>1, <2>2, QuietFlags DEF Quiet
<1>6. CASE UNCHANGED vars
  BY <1>6, QuietFlags DEF Quiet, vars, dataVars, pageVars
<1> QED
  BY <1>1, <1>2, <1>3, <1>4, <1>5, <1>6 DEF Next

\* A tab is opened.
LEMMA FlagInit == Init => FlagInv
<1> SUFFICES ASSUME Init PROVE FlagInv
  OBVIOUS
<1>1. PICK q : q = Request("profile", None, "session", cookie)
  OBVIOUS
<1>2. PICK x : x = [q EXCEPT !.tag = 1]
  OBVIOUS
<1>3. net = {x} /\ store.fresh = FALSE /\ initializing = TRUE
  BY <1>1, <1>2 DEF Init, DataInit, EmptyStore
<1>4. x.op = "profile" /\ x.by = "session"
  BY <1>1, <1>2 DEF Request
<1> QED
  BY <1>3, <1>4 DEF FlagInv, GoneRow, StoreFlags, PageFlags, Awaited

\* The flags of the lists tell whether they are shown, loading or neither: what is still
\* on its way, what failed, and what was left behind, is disturbed or announced.
THEOREM FlagInvariant == Spec => []FlagInv
<1>1. FlagInv /\ NetInv /\ StrangerInv /\ StrangerInv' /\ RoomInv /\ PanelInv /\ [Next]_vars
        => FlagInv'
  BY FlagStep
<1> QED
  BY <1>1, FlagInit, NetInvariant, StrangerInvariant, RoomInvariant, PanelInvariant, PTL DEF Spec

-----------------------------------------------------------------------------
(* What the lists show *)

\* The requests that touch an item.
About(i) == {x \in net : i \in Touched(x)}

\* A list shows of an item what the server has.
Fits(list, i) ==
  IF server[i] = "absent" THEN i \notin DOMAIN list ELSE i \in DOMAIN list /\ list[i] = server[i]

\* The server has done it, and the tab will hear so.
Took(x) == x.stage = "answered" /\ x.ok

\* The switches that are shown in their new position before the answer.
Optimistic(x) == x.op = "set" /\ x.by = "page" /\ route \in {"alerts", "settings"}

\* What the item is after a request to change it.
Wanted(x) ==
  CASE x.op = "create" -> "on" [] x.op = "delete" -> "absent" [] OTHER -> x.value

\* What is under way for an item tells what the server has, or had at the click.
Tells(x, i) ==
  /\ Took(x) =>
       /\ x.op = "list" => Fits(x.data, i)
       /\ x.op = "set" /\ Kind[x.what] = "prefs" => Fits(x.data.prefs, i)
       /\ x.op \in {"create", "delete", "set"} /\ Kind[x.what] # "prefs" => server[i] = Wanted(x)
  /\ Optimistic(x) /\ view.loaded =>
       /\ ~Took(x) => Fits(x.old, i)
       /\ route = "alerts" =>
            /\ i \in DOMAIN view.list /\ view.list[i] = x.value
            /\ ~Took(x) => server[i] # "absent"

\* Neither a list nor a change that was made is on its way to the tab.
Settled(i) == \A x \in About(i) : x.op # "list" /\ ~Took(x)

\* Then the item is shown as it is, unless its switch is being saved.
Placed(i) ==
  Settled(i) =>
    /\ Kind[i] = "monitors" /\ (store.fresh \/ route \in {"dashboard", "monitors"}) =>
         Fits(store.list, i)
    /\ Kind[i] = "prefs" => Fits(me.prefs, i)
    /\ Kind[i] = KindOf(route) /\ view.loaded /\ (\A x \in About(i) : ~Optimistic(x)) =>
         Fits(view.list, i)

ItemInv(i) == Placed(i) /\ \A x \in About(i) : Tells(x, i)

\* The items of the session that nothing has disturbed.
Own(i) == signedIn /\ Owner[i] = cookie /\ Kind[i] # "incidents" /\ i \notin messy

ListInv == \A i \in Item : Own(i) => ItemInv(i)

\* One request at a time is about an item that is not disturbed.
OnlyOne ==
  \A i \in Item : i \notin messy /\ Kind[i] # "incidents" =>
    \A x, y \in About(i) : x = y

\* Requests that touch an item are apart, or the item is disturbed.
LEMMA Alone == StrangerInv => OnlyOne
<1> SUFFICES ASSUME StrangerInv, NEW i \in Item, i \notin messy, Kind[i] # "incidents",
                    NEW x \in About(i), NEW y \in About(i), x # y
             PROVE  FALSE
  BY DEF OnlyOne
<1>1. x \in net /\ y \in net /\ i \in Touched(x) /\ i \in Touched(y)
  BY DEF About
<1>2. Apart(x, y, messy) /\ AskRow(x, route) /\ AskRow(y, route)
  BY <1>1 DEF StrangerInv, RowsFit
<1>3. x.op = "list" /\ y.op = "list" /\ x.by # y.by
  BY <1>1, <1>2 DEF Apart
<1>4. x.what = Kind[i] /\ y.what = Kind[i]
  BY <1>1, <1>3 DEF Touched, Of
<1>5. PageKind[route] # "monitors" \/ route \notin DOMAIN PageKind
  BY DEF PageKind
<1> QED
  BY <1>2, <1>3, <1>4, <1>5 DEF AskRow

\* The same after a step.
LEMMA AloneAfter == StrangerInv' => OnlyOne'
BY Alone, PTL

\* Two lists that show the same of an item.
SameAt(l, m, i) == (i \in DOMAIN l <=> i \in DOMAIN m) /\ (i \in DOMAIN l => m[i] = l[i])

\* A step that does not touch an item.
LEMMA Untouched ==
  ASSUME StrangerInv, OnlyOne', NEW i \in Item, i \notin messy', Kind[i] # "incidents",
         ItemInv(i), route' = route, server'[i] = server[i],
         \A x \in net : i \in Touched(x) => x \in net',
         \A x \in net' : i \in Touched(x) =>
           x \in net \/ (x.op = "list" /\ x.stage = "sent"),
         Kind[i] = "monitors" =>
           (store'.fresh => store.fresh) /\ SameAt(store.list, store'.list, i),
         Kind[i] = "prefs" => SameAt(me.prefs, me'.prefs, i),
         Kind[i] = KindOf(route) =>
           (view'.loaded => view.loaded) /\ SameAt(view.list, view'.list, i)
  PROVE  ItemInv(i)'
<1>1. CASE \E y \in net' : i \in Touched(y) /\ y.op = "list" /\ y.stage = "sent"
  <2>1. PICK y \in About(i)' : y.op = "list" /\ y.stage = "sent"
    BY <1>1 DEF About
  <2>2. \A x \in About(i)' : x = y
    BY <2>1 DEF OnlyOne
  <2>3. ~Settled(i)'
    BY <2>1 DEF Settled
  <2>4. Tells(y, i)'
    BY <2>1 DEF Tells, Took, Optimistic
  <2> QED
    BY <2>2, <2>3, <2>4 DEF ItemInv, Placed
<1>2. CASE ~\E y \in net' : i \in Touched(y) /\ y.op = "list" /\ y.stage = "sent"
  <2>1. About(i)' = About(i)
    BY <1>2 DEF About
  <2>2. Settled(i)' <=> Settled(i)
    BY <2>1 DEF Settled, Took
  <2>3. /\ \A l : Fits(l, i)' <=> Fits(l, i)
        /\ \A x : Optimistic(x)' <=> Optimistic(x)
    BY DEF Fits, Optimistic
  <2>4. Placed(i)'
    <3>1. ASSUME Settled(i)', Kind[i] = "monitors",
                 store'.fresh \/ route' \in {"dashboard", "monitors"}
          PROVE  Fits(store.list, i)'
      BY <2>2, <3>1 DEF ItemInv, Placed, Fits, SameAt
    <3>2. ASSUME Settled(i)', Kind[i] = "prefs" PROVE Fits(me.prefs, i)'
      BY <2>2, <3>2 DEF ItemInv, Placed, Fits, SameAt
    <3>3. ASSUME Settled(i)', Kind[i] = KindOf(route), view'.loaded,
                 \A x \in About(i)' : ~Optimistic(x)'
          PROVE  Fits(view.list, i)'
      BY <2>1, <2>2, <2>3, <3>3 DEF ItemInv, Placed, Fits, SameAt
    <3> QED
      BY <3>1, <3>2, <3>3 DEF Placed
  <2>5. ASSUME NEW x \in About(i)' PROVE Tells(x, i)'
    <3>1. x \in net /\ i \in Touched(x) /\ Tells(x, i)
      BY <2>1, <2>5 DEF About, ItemInv
    <3>2. AskRow(x, route)
      BY <3>1 DEF StrangerInv, RowsFit
    <3>3. Took(x)' <=> Took(x)
      BY DEF Took
    <3>4. ASSUME Optimistic(x) PROVE Kind[i] = KindOf(route)
      <4>1. x.op = "set" /\ Kind[x.what] = KindOf(route)
        BY <3>2, <3>4 DEF AskRow, Optimistic
      <4> QED
        BY <3>1, <4>1 DEF Touched, Of
    <3>5. (Took(x) =>
            /\ x.op = "list" => Fits(x.data, i)
            /\ x.op = "set" /\ Kind[x.what] = "prefs" => Fits(x.data.prefs, i)
            /\ x.op \in {"create", "delete", "set"} /\ Kind[x.what] # "prefs" =>
                 server[i] = Wanted(x))'
      BY <2>3, <3>1, <3>3 DEF Tells, Wanted
    <3>6. ASSUME Optimistic(x)', view'.loaded
          PROVE  /\ ~Took(x)' => Fits(x.old, i)'
                 /\ route' = "alerts" =>
                      /\ i \in DOMAIN view'.list /\ view'.list[i] = x.value
                      /\ ~Took(x)' => server'[i] # "absent"
      BY <2>3, <3>1, <3>3, <3>4, <3>6 DEF Tells, SameAt
    <3> QED
      BY <3>5, <3>6 DEF Tells
  <2> QED
    BY <2>4, <2>5 DEF ItemInv
<1> QED
  BY <1>1, <1>2

\* Nothing is under way for an item that is neither unsettled nor on an awaited list.
LEMMA NothingAbout ==
  ASSUME StrangerInv, NEW i \in Item, i \notin Unsettled, Kind[i] # "incidents",
         Kind[i] = "monitors" => ~Awaited("monitors", "store"),
         Kind[i] = KindOf(route) /\ route \in DOMAIN PageKind => ~Awaited(PageKind[route], "page")
  PROVE  About(i) = {} /\ Settled(i)
<1>1. ASSUME NEW x \in About(i) PROVE FALSE
  <2>1. x \in net /\ i \in Touched(x) /\ AskRow(x, route)
    BY DEF About, StrangerInv, RowsFit
  <2>2. x.op = "list"
    BY <2>1 DEF Unsettled
  <2>3. x.what = Kind[i]
    BY <2>1, <2>2 DEF Touched, Of
  <2>4. CASE x.by = "store"
    BY <2>1, <2>2, <2>3, <2>4 DEF AskRow, Awaited
  <2>5. CASE x.by = "page"
    <3>1. route \in DOMAIN PageKind /\ x.what = PageKind[route]
      BY <2>1, <2>2, <2>5 DEF AskRow
    <3>2. Kind[i] = KindOf(route)
      BY <2>3, <3>1 DEF KindOf, PageKind
    <3> QED
      BY <2>1, <2>2, <2>5, <3>1, <3>2 DEF Awaited
  <2>6. CASE x.by = "bell"
    BY <2>1, <2>3, <2>6 DEF AskRow
  <2>7. x.by \in {"store", "page", "bell"}
    BY <2>1, <2>2 DEF AskRow
  <2> QED
    BY <2>4, <2>5, <2>6, <2>7
<1> QED
  BY <1>1 DEF Settled

\* At rest the lists show what the server has.
LEMMA ListsMean ==
  ASSUME ListInv, FlagInv, StrangerInv
  PROVE  ListsSettle
<1> SUFFICES ASSUME signedIn PROVE ListsSettle
  BY DEF ListsSettle
<1>1. ASSUME NEW list, NEW kind, kind # "incidents",
             \A i \in Of(kind) \ (messy \cup Unsettled) : Owner[i] = cookie => Fits(list, i)
      PROVE  Agrees(list, kind)
  BY <1>1 DEF Agrees, Fits
<1>2. ASSUME store.fresh, ~Awaited("monitors", "store") PROVE Agrees(store.list, "monitors")
  <2>1. ASSUME NEW i \in Of("monitors"), i \notin messy \cup Unsettled, Owner[i] = cookie
        PROVE  Fits(store.list, i)
    <3>1. i \in Item /\ Kind[i] = "monitors" /\ Kind[i] # KindOf(route)
      BY DEF Of, KindOf, PageKind
    <3>2. Settled(i)
      BY <1>2, <2>1, <3>1, NothingAbout
    <3>3. ItemInv(i)
      BY <2>1, <3>1 DEF ListInv, Own
    <3> QED
      BY <1>2, <3>1, <3>2, <3>3 DEF ItemInv, Placed
  <2> QED
    BY <1>1, <2>1
<1>3. ASSUME route \in {"alerts", "status-pages"}, view.loaded,
             ~Awaited(PageKind[route], "page")
      PROVE  Agrees(view.list, PageKind[route])
  <2>1. /\ PageKind[route] \in {"channels", "pages"} /\ KindOf(route) = PageKind[route]
    BY <1>3 DEF PageKind, KindOf
  <2>2. ASSUME NEW i \in Of(PageKind[route]), i \notin messy \cup Unsettled, Owner[i] = cookie
        PROVE  Fits(view.list, i)
    <3>1. i \in Item /\ Kind[i] = PageKind[route]
      BY DEF Of
    <3>2. Settled(i) /\ About(i) = {}
      BY <1>3, <2>1, <2>2, <3>1, NothingAbout
    <3>3. ItemInv(i)
      BY <2>1, <2>2, <3>1 DEF ListInv, Own
    <3> QED
      BY <1>3, <2>1, <3>1, <3>2, <3>3 DEF ItemInv, Placed
  <2> QED
    BY <1>1, <2>1, <2>2
<1>4. ASSUME route = "settings" PROVE Agrees(view.list, "prefs")
  <2>1. view.loaded /\ KindOf(route) = "prefs" /\ route \notin DOMAIN PageKind
    BY <1>4 DEF FlagInv, PageFlags, StrangerInv, ShownInv, KindOf, PageKind
  <2>2. ASSUME NEW i \in Of("prefs"), i \notin messy \cup Unsettled, Owner[i] = cookie
        PROVE  Fits(view.list, i)
    <3>1. i \in Item /\ Kind[i] = "prefs"
      BY DEF Of
    <3>2. Settled(i) /\ About(i) = {}
      BY <2>1, <2>2, <3>1, NothingAbout
    <3>3. ItemInv(i)
      BY <2>2, <3>1 DEF ListInv, Own
    <3> QED
      BY <2>1, <3>1, <3>2, <3>3 DEF ItemInv, Placed
  <2> QED
    BY <1>1, <2>2
<1> QED
  BY <1>2, <1>3, <1>4 DEF ListsSettle

\* An empty list is said to be empty when there is nothing.
LEMMA NothingMeans ==
  ASSUME ListInv, FlagInv, StrangerInv
  PROVE  NothingMeansNothing
<1> SUFFICES ASSUME signedIn, cookie # None, Screen = "nothing yet"
             PROVE  /\ route = "monitors" =>
                         \/ Mine("monitors", cookie) \subseteq messy \union Unsettled
                         \/ /\ Awaited("monitors", "store")
                            /\ Of("monitors") \intersect messy # {}
                    /\ route \in {"alerts", "status-pages"} =>
                         Mine(PageKind[route], cookie) \subseteq messy \union Unsettled
  BY DEF NothingMeansNothing
<1>1. ASSUME NEW kind, NEW i \in Mine(kind, cookie)
      PROVE  /\ i \in Item /\ Kind[i] = kind /\ Owner[i] = cookie /\ server[i] # "absent"
             /\ i \in Of(kind)
  BY DEF Mine, Of
<1>2. ASSUME NEW list, NEW loading, Rows(list, loading) = "nothing yet"
      PROVE  DOMAIN list = {} /\ ~loading
  BY <1>2 DEF Rows
<1>3. ASSUME route = "monitors"
      PROVE  \/ Mine("monitors", cookie) \subseteq messy \union Unsettled
             \/ Awaited("monitors", "store") /\ Of("monitors") \intersect messy # {}
  <2>1. DOMAIN store.list = {} /\ ~store.loading
    BY <1>2, <1>3 DEF Screen, MonitorsScreen
  <2>2. CASE Awaited("monitors", "store")
    <3>1. Of("monitors") = {} \/ Of("monitors") \intersect messy # {}
      BY <2>1, <2>2 DEF FlagInv, StoreFlags
    <3> QED
      BY <1>1, <2>2, <3>1
  <2>3. CASE ~Awaited("monitors", "store")
    <3>1. ASSUME NEW i \in Mine("monitors", cookie), i \notin messy \cup Unsettled PROVE FALSE
      <4>1. /\ i \in Item /\ Kind[i] = "monitors" /\ Owner[i] = cookie /\ server[i] # "absent"
            /\ Kind[i] # KindOf(route)
        BY <1>1, <1>3 DEF KindOf, PageKind
      <4>2. Settled(i)
        BY <2>3, <3>1, <4>1, NothingAbout
      <4>3. ItemInv(i)
        BY <3>1, <4>1 DEF ListInv, Own
      <4>4. Fits(store.list, i)
        BY <1>3, <4>1, <4>2, <4>3 DEF ItemInv, Placed
      <4> QED
        BY <2>1, <4>1, <4>4 DEF Fits
    <3> QED
      BY <3>1
  <2> QED
    BY <2>2, <2>3
<1>4. ASSUME route \in {"alerts", "status-pages"}
      PROVE  Mine(PageKind[route], cookie) \subseteq messy \union Unsettled
  <2>1. DOMAIN view.list = {} /\ ~view.loading
    BY <1>2, <1>4 DEF Screen, AlertsScreen, PagesScreen
  <2>2. /\ PageKind[route] \in {"channels", "pages"} /\ KindOf(route) = PageKind[route]
    BY <1>4 DEF PageKind, KindOf
  <2>3. \/ Of(PageKind[route]) \subseteq messy
        \/ ~Awaited(PageKind[route], "page") /\ view.loaded
    BY <1>4, <2>1 DEF FlagInv, PageFlags, StrangerInv, ShownInv
  <2>4. CASE Of(PageKind[route]) \subseteq messy
    BY <1>1, <2>4
  <2>5. CASE ~Awaited(PageKind[route], "page") /\ view.loaded
    <3>1. ASSUME NEW i \in Mine(PageKind[route], cookie), i \notin messy \cup Unsettled
          PROVE  FALSE
      <4>1. /\ i \in Item /\ Kind[i] = PageKind[route] /\ Owner[i] = cookie
            /\ server[i] # "absent"
        BY <1>1
      <4>2. Settled(i) /\ About(i) = {}
        BY <2>2, <2>5, <3>1, <4>1, NothingAbout
      <4>3. ItemInv(i)
        BY <2>2, <3>1, <4>1 DEF ListInv, Own
      <4>4. Fits(view.list, i)
        BY <2>2, <2>5, <4>1, <4>2, <4>3 DEF ItemInv, Placed
      <4> QED
        BY <2>1, <4>1, <4>4 DEF Fits
    <3> QED
      BY <3>1
  <2> QED
    BY <2>3, <2>4, <2>5
<1> QED
  BY <1>3, <1>4

\* What a request is about, if it touches an item.
LEMMA TouchedRow ==
  ASSUME NEW x, NEW i \in Touched(x)
  PROVE  \/ x.op = "list" /\ x.what = Kind[i] /\ i \in Item
         \/ /\ x.op \in {"create", "delete", "set"}
            /\ IF Kind[x.what] = "prefs" THEN Kind[i] = "prefs" /\ i \in Item ELSE i = x.what
         \/ x.op \in {"profile", "login"} /\ Kind[i] = "prefs" /\ i \in Item
BY DEF Touched, Of

\* The server handles the request about an item.
LEMMA ServeListed ==
  ASSUME StrangerInv, NetInv, DocInv, NEW r \in net, Serve(r), UNCHANGED <<route, view>>,
         NEW i \in Item, Own(i)', ItemInv(i), i \in Touched(r), About(i) = {r}
  PROVE  ItemInv(i)'
<1>1. PICK y : y = Answered(r)
  OBVIOUS
<1>2. /\ r.stage = "sent" /\ r.op \notin AtOnce /\ server' = Changed(r)
      /\ net' = (net \ {r}) \cup {y}
      /\ UNCHANGED <<cookie, me, signedIn, store, messy>>
  BY <1>1 DEF Serve
<1>3. NetRow(r) /\ AskRow(r, route) /\ DocRow(r) /\ DOMAIN r = RequestFields
  BY DEF NetInv, Told, StrangerInv, RowsFit, DocInv, NetRow
<1>4. /\ y.op = r.op /\ y.what = r.what /\ y.by = r.by /\ y.value = r.value /\ y.old = r.old
      /\ y.stage = "answered" /\ y.ok = Granted(r) /\ y.data = Answer(r)
  BY <1>1, <1>3 DEF Answered, RequestFields
<1>5. About(i)' = {y}
  <2>1. i \in Touched(y)
    BY <1>4, SameTouched
  <2>2. \A x \in net : i \in Touched(x) => x = r
    BY DEF About
  <2> QED
    BY <1>2, <2>1, <2>2 DEF About
<1>6. r.as = cookie /\ Owner[i] = cookie /\ i \notin messy /\ Kind[i] # "incidents"
  BY <1>2 DEF StrangerInv, RowsFit, SessionRow, Own
<1>7. \/ r.op = "list" /\ r.what = Kind[i]
      \/ /\ r.op \in {"create", "delete", "set"} /\ r.what \in Item
         /\ IF Kind[r.what] = "prefs" THEN Kind[i] = "prefs" ELSE i = r.what
  BY <1>2, <1>3, TouchedRow DEF AtOnce, AskRow
<1>8. server \in [Item -> {"absent", "on", "off"}]
  BY DEF DocInv
<1>9. (~Granted(r) \/ r.op = "list") => server' = server
  BY <1>2 DEF Changed
<1>10. ASSUME Granted(r), r.op = "list" PROVE Fits(y.data, i)'
  <2>1. y.data = Documents(Kind[i], cookie)
    BY <1>4, <1>6, <1>7, <1>10 DEF Answer
  <2>2. i \in Mine(Kind[i], cookie) <=> server[i] # "absent"
    BY <1>6 DEF Mine, Of
  <2> QED
    BY <1>9, <1>10, <2>1, <2>2 DEF Fits, Documents
<1>11. ASSUME Granted(r), r.op = "set", Kind[r.what] = "prefs" PROVE Fits(y.data.prefs, i)'
  <2>1. PICK d, p : d = Documents("prefs", cookie) /\ p = Put(d, r.what, r.value)
    OBVIOUS
  <2>2. y.data = [id |-> cookie, prefs |-> p]
    BY <1>4, <1>6, <1>11, <2>1 DEF Answer
  <2>3. server' = [server EXCEPT ![r.what] = r.value] /\ r.value # "absent"
    BY <1>2, <1>3, <1>11 DEF Changed, NetRow
  <2>4. Kind[i] = "prefs"
    BY <1>7, <1>11
  <2>5. i \in DOMAIN d <=> server[i] # "absent"
    BY <1>6, <2>1, <2>4 DEF Documents, Mine, Of
  <2>6. i \in DOMAIN d => d[i] = server[i]
    BY <2>1 DEF Documents
  <2>7. /\ DOMAIN p = DOMAIN d \cup {r.what}
        /\ i \in DOMAIN p => p[i] = IF i = r.what THEN r.value ELSE d[i]
    BY <2>1 DEF Put
  <2>8. server'[i] = IF i = r.what THEN r.value ELSE server[i]
    BY <1>8, <2>3
  <2>9. Fits(p, i)'
    BY <2>3, <2>5, <2>6, <2>7, <2>8 DEF Fits
  <2> QED
    BY <2>2, <2>9
<1>12. ASSUME Granted(r), r.op \in {"create", "delete", "set"}, Kind[r.what] # "prefs"
       PROVE  server'[i] = Wanted(y)
  BY <1>2, <1>4, <1>7, <1>8, <1>12 DEF Changed, Wanted
<1>13. ~Took(r) /\ Tells(r, i) /\ (r.op # "list" => Settled(i))
  BY <1>2 DEF Took, ItemInv, Settled
<1>14. Took(y) <=> Granted(r)
  BY <1>4 DEF Took
<1>15. Optimistic(y)' <=> Optimistic(r)
  BY <1>4 DEF Optimistic
<1>16. Tells(y, i)'
  <2>1. ASSUME Took(y)
        PROVE  (/\ y.op = "list" => Fits(y.data, i)
                /\ y.op = "set" /\ Kind[y.what] = "prefs" => Fits(y.data.prefs, i)
                /\ y.op \in {"create", "delete", "set"} /\ Kind[y.what] # "prefs" =>
                     server[i] = Wanted(y))'
    BY <1>4, <1>10, <1>11, <1>12, <1>14, <2>1 DEF Wanted
  <2>2. ASSUME Optimistic(y)', view.loaded
        PROVE  (/\ ~Took(y) => Fits(y.old, i)
                /\ route = "alerts" =>
                     /\ i \in DOMAIN view.list /\ view.list[i] = y.value
                     /\ ~Took(y) => server[i] # "absent")'
    <3>1. Optimistic(r)
      BY <1>15, <2>2
    <3>2. /\ Fits(r.old, i)
          /\ route = "alerts" =>
               /\ i \in DOMAIN view.list /\ view.list[i] = r.value /\ server[i] # "absent"
      BY <1>13, <2>2, <3>1 DEF Tells
    <3>3. ~Took(y) => server' = server
      BY <1>9, <1>14
    <3>4. ~Took(y)' => ~Took(y)
      BY DEF Took
    <3> QED
      BY <1>4, <3>2, <3>3, <3>4 DEF Fits
  <2> QED
    BY <2>1, <2>2 DEF Tells, Took
<1>17. Placed(i)'
  <2> SUFFICES ASSUME Settled(i)' PROVE Placed(i)'
    BY DEF Placed
  <2>1. y.op # "list" /\ ~Took(y)
    BY <1>5 DEF Settled, Took
  <2>2. server' = server /\ Settled(i)
    BY <1>4, <1>9, <1>13, <1>14, <2>1
  <2>3. \A l : Fits(l, i)' <=> Fits(l, i)
    BY <2>2 DEF Fits
  <2>4. (\A x \in About(i)' : ~Optimistic(x)') => \A x \in About(i) : ~Optimistic(x)
    BY <1>5, <1>15
  <2> QED
    BY <1>2, <2>2, <2>3, <2>4 DEF ItemInv, Placed
<1> QED
  BY <1>5, <1>16, <1>17 DEF ItemInv

\* The request about an item fails before it is handled.
LEMMA LoseListed ==
  ASSUME StrangerInv, NetInv, NEW r \in net, r.stage = "sent", NEW y,
         y = [r EXCEPT !.stage = "answered", !.ok = FALSE, !.data = None],
         net' = (net \ {r}) \cup {y}, UNCHANGED <<server, me, store, route, view>>,
         NEW i \in Item, ItemInv(i), i \in Touched(r), About(i) = {r}
  PROVE  ItemInv(i)'
<1>1. DOMAIN r = RequestFields
  BY DEF NetInv, Told, NetRow
<1>2. /\ y.op = r.op /\ y.what = r.what /\ y.by = r.by /\ y.value = r.value /\ y.old = r.old
      /\ y.ok = FALSE
  BY <1>1 DEF RequestFields
<1>3. About(i)' = {y}
  <2>1. i \in Touched(y)
    BY <1>2, SameTouched
  <2>2. \A x \in net : i \in Touched(x) => x = r
    BY DEF About
  <2> QED
    BY <2>1, <2>2 DEF About
<1>4. ~Took(r) /\ ~Took(y) /\ Tells(r, i)
  BY <1>2 DEF Took, ItemInv
<1>5. Optimistic(y)' <=> Optimistic(r)
  BY <1>2 DEF Optimistic
<1>6. \A l : Fits(l, i)' <=> Fits(l, i)
  BY DEF Fits
<1>7. Tells(y, i)'
  <2>1. ~Took(y)'
    BY <1>4 DEF Took
  <2>2. ASSUME Optimistic(y)', view.loaded
        PROVE  (/\ Fits(y.old, i)
                /\ route = "alerts" =>
                     /\ i \in DOMAIN view.list /\ view.list[i] = y.value
                     /\ server[i] # "absent")'
    <3>1. Optimistic(r)
      BY <1>5, <2>2
    <3> QED
      BY <1>2, <1>4, <1>6, <2>2, <3>1 DEF Tells
  <2> QED
    BY <2>1, <2>2 DEF Tells
<1>8. Placed(i)'
  <2>1. Settled(i)' => Settled(i)
    BY <1>2, <1>3, <1>4 DEF Settled
  <2>2. (\A x \in About(i)' : ~Optimistic(x)') => \A x \in About(i) : ~Optimistic(x)
    BY <1>3, <1>5
  <2> QED
    BY <1>6, <2>1, <2>2 DEF ItemInv, Placed
<1> QED
  BY <1>3, <1>7, <1>8 DEF ItemInv

\* Lists look the same of every item when they are the same.
LEMMA SameLook == \A l, i : SameAt(l, l, i)
BY DEF SameAt

\* The server handles a request, or an answer is lost.
LEMMA NetLists ==
  ASSUME ListInv, StrangerInv, StrangerInv', NetInv, DocInv, OfNet
  PROVE  ListInv'
<1>1. UNCHANGED <<cookie, me, signedIn, store, route, view>> /\ messy \subseteq messy'
  BY DEF OfNet, Serve, Lose, pageVars
<1>2. OnlyOne /\ OnlyOne'
  BY Alone, AloneAfter
<1> SUFFICES ASSUME NEW i \in Item, Own(i)' PROVE ItemInv(i)'
  BY DEF ListInv
<1>3. Own(i) /\ ItemInv(i) /\ i \notin messy' /\ Kind[i] # "incidents"
  BY <1>1 DEF Own, ListInv
<1>4. PICK r \in net : Serve(r) \/ Lose(r)
  BY DEF OfNet
<1>5. NetRow(r) /\ AskRow(r, route) /\ DOMAIN r = RequestFields
  BY DEF NetInv, Told, StrangerInv, RowsFit, NetRow
<1>6. CASE i \in Touched(r)
  <2>1. About(i) = {r}
    BY <1>2, <1>3, <1>6 DEF OnlyOne, About, Own
  <2>2. CASE Serve(r)
    BY <1>1, <1>3, <1>6, <2>1, <2>2, ServeListed
  <2>3. CASE Lose(r)
    <3>1. PICK y : y = [r EXCEPT !.stage = "answered", !.ok = FALSE, !.data = None]
      OBVIOUS
    <3>2. r.stage = "sent" /\ net' = (net \ {r}) \cup {y} /\ server' = server
      BY <1>3, <1>6, <2>3, <3>1 DEF Lose
    <3> QED
      BY <1>1, <1>3, <1>6, <2>1, <3>1, <3>2, LoseListed
  <2> QED
    BY <1>4, <2>2, <2>3
<1>7. CASE i \notin Touched(r)
  <2>1. PICK y, n : /\ \/ y = Answered(r)
                       \/ y = [r EXCEPT !.stage = "answered", !.ok = FALSE, !.data = None]
                    /\ n = (net \ {r}) \cup {y}
                    /\ \/ net' = n
                       \/ net' = Post(n, [r EXCEPT !.by = "gone"])
    BY <1>4 DEF Serve, Lose
  <2>2. i \notin Touched(y)
    <3>1. y.op = r.op /\ y.what = r.what
      BY <1>5, <2>1, AnsweredTold
    <3> QED
      BY <1>7, <3>1, SameTouched
  <2>3. n \subseteq net' /\ \A x \in net' : x \in n \/ i \notin Touched(x)
    <3>1. PICK g : g = [r EXCEPT !.by = "gone"]
      OBVIOUS
    <3>2. DOMAIN g = RequestFields /\ g.op = r.op /\ g.what = r.what
      BY <1>5, <3>1 DEF RequestFields
    <3>3. CASE net' = Post(n, g)
      <4>1. net' = n \cup {[<<g>>[k] EXCEPT !.tag = FreeTag(n, k)] : k \in {1}}
        BY <3>3 DEF Post, PostAll
      <4>2. \A x \in net' : x \in n \/ \E t : x = [g EXCEPT !.tag = t]
        BY <4>1
      <4>3. ASSUME NEW x, NEW t, x = [g EXCEPT !.tag = t] PROVE i \notin Touched(x)
        <5>1. x.op = r.op /\ x.what = r.what
          BY <3>2, <4>3 DEF RequestFields
        <5> QED
          BY <1>7, <5>1, SameTouched
      <4> QED
        BY <4>1, <4>2, <4>3
    <3> QED
      BY <2>1, <3>1, <3>3
  <2>4. server'[i] = server[i]
    <3>1. server' = server \/ Serve(r)
      BY <1>4 DEF Lose
    <3>2. CASE Serve(r)
      <4>1. r.op \in {"create", "set", "delete"} => r.what # i
        BY <1>5, <1>7 DEF Touched, AskRow, Of
      <4>2. \/ server' = server
            \/ /\ r.op \in {"create", "set", "delete"}
               /\ \E v : server' = [server EXCEPT ![r.what] = v]
        BY <3>2 DEF Serve, Changed
      <4> QED
        BY <4>1, <4>2 DEF DocInv
    <3> QED
      BY <3>1, <3>2
  <2>5. /\ \A x \in net : i \in Touched(x) => x \in net'
        /\ \A x \in net' : i \in Touched(x) => x \in net
    BY <1>7, <2>1, <2>2, <2>3
  <2> QED
    BY <1>1, <1>2, <1>3, <2>4, <2>5, SameLook, Untouched
<1> QED
  BY <1>6, <1>7

\* Of the requests n those about an item stay, and only lists are sent.
LEMMA OnwardAbout ==
  ASSUME NEW n, Onward(n), NEW i
  PROVE  /\ \A x \in n : i \in Touched(x) => x \in net'
         /\ \A x \in net' : i \in Touched(x) =>
              x \in n \/ (x.op = "list" /\ x.stage = "sent")
<1>1. \A x : x.op = "panel" => i \notin Touched(x)
  BY DEF Touched
<1> QED
  BY <1>1 DEF Onward, Asked

\* The navbar and its socket; incidents open.
LEMMA ShellLists ==
  ASSUME ListInv, StrangerInv, StrangerInv', NetInv, DocInv, OfSocket \/ OnShell
  PROVE  ListInv'
<1>1. UNCHANGED <<cookie, me, signedIn, store, route, view>>
  BY DEF OfSocket, OnShell, Handshake, Established, Refused, Drop, Offline, Emit,
     LookAtBadge, Say, Retry, IncidentOpens, dataVars, pageVars
<1>2. Onward(net)
  BY ShellOnward
<1>3. OnlyOne'
  BY AloneAfter
<1> SUFFICES ASSUME NEW i \in Item, Own(i)' PROVE ItemInv(i)'
  BY DEF ListInv
<1>4. Own(i) /\ ItemInv(i) /\ i \notin messy' /\ Kind[i] # "incidents"
  BY <1>1, <1>2 DEF Own, ListInv, Onward
<1>5. server'[i] = server[i]
  <2>1. server' = server \/ \E j \in Item : Kind[j] = "incidents" /\ server' = [server EXCEPT ![j] = "on"]
    BY DEF OfSocket, OnShell, Handshake, Established, Refused, Drop, Offline, Emit,
       LookAtBadge, Say, Retry, IncidentOpens, dataVars
  <2> QED
    BY <1>4, <2>1 DEF DocInv
<1> QED
  BY <1>1, <1>2, <1>3, <1>4, <1>5, OnwardAbout, SameLook, Untouched

\* Lists and panels are asked for, at most, and what is shown stays.
LEMMA OnwardLists ==
  ASSUME ListInv, StrangerInv, StrangerInv', Onward(net),
         UNCHANGED <<server, cookie, me, signedIn, route>>,
         store'.list = store.list, store'.fresh => store.fresh,
         view'.list = view.list, view'.loaded => view.loaded
  PROVE  ListInv'
<1>1. OnlyOne'
  BY AloneAfter
<1> SUFFICES ASSUME NEW i \in Item, Own(i)' PROVE ItemInv(i)'
  BY DEF ListInv
<1>2. Own(i) /\ ItemInv(i) /\ i \notin messy' /\ Kind[i] # "incidents"
  BY DEF Own, ListInv, Onward
<1> QED
  BY <1>1, <1>2, OnwardAbout, SameLook, Untouched

\* A request about an item that it does not disturb is the only one about it.
LEMMA ActAlone ==
  ASSUME StrangerInv', NetInv, NEW q, DOMAIN q = RequestFields, Send(net, <<q>>, {}),
         NEW i \in Item, i \notin messy', Kind[i] # "incidents", i \in Touched(q)
  PROVE  About(i) = {} /\ \E y : Like(y, q) /\ About(i)' = {y}
<1>1. PICK requests : requests = <<q>>
  OBVIOUS
<1>2. Adds(net, {q}) /\ \E y \in net' : y \notin net /\ Like(y, q)
  BY <1>1, OneAdds DEF NetInv
<1>3. PICK y \in net' : y \notin net /\ Like(y, q)
  BY <1>2
<1>4. i \in Touched(y)
  BY <1>3, SameTouched DEF Like
<1>5. OnlyOne'
  BY AloneAfter
<1>6. \A z \in net' : i \in Touched(z) => z = y
  BY <1>3, <1>4, <1>5 DEF OnlyOne, About
<1> QED
  BY <1>2, <1>3, <1>4, <1>6 DEF Adds, About

\* A request that is sent about other items.
LEMMA ActElsewhere ==
  ASSUME StrangerInv, StrangerInv', NetInv, NEW q, DOMAIN q = RequestFields,
         q.stage = "sent", Send(net, <<q>>, {}),
         UNCHANGED <<server, me, route>>, store'.list = store.list, store'.fresh = store.fresh,
         view'.loaded = view.loaded,
         NEW i \in Item, Own(i), i \notin messy', ItemInv(i), SameAt(view.list, view'.list, i),
         i \notin Touched(q) \/ q.op = "list"
  PROVE  ItemInv(i)'
<1>1. PICK requests : requests = <<q>>
  OBVIOUS
<1>2. Adds(net, {q})
  BY <1>1, OneAdds DEF NetInv
<1>3. \A y : Like(y, q) => Touched(y) = Touched(q)
  BY SameTouched DEF Like
<1>4. /\ \A x \in net : i \in Touched(x) => x \in net'
      /\ \A x \in net' : i \in Touched(x) => x \in net \/ (x.op = "list" /\ x.stage = "sent")
  BY <1>2, <1>3 DEF Adds, Like
<1>5. OnlyOne'
  BY AloneAfter
<1>6. Kind[i] # "incidents"
  BY DEF Own
<1> QED
  BY <1>4, <1>5, <1>6, SameLook, Untouched

\* One more request of the user, for which the page waits.
LEMMA ActLists ==
  ASSUME ListInv, StrangerInv, StrangerInv', NetInv, NEW q, DOMAIN q = RequestFields,
         q.stage = "sent", Send(net, <<q>>, {}),
         q.op = "set" => route \notin {"alerts", "settings"},
         UNCHANGED <<server, cookie, me, signedIn, route>>,
         store'.list = store.list, store'.fresh = store.fresh,
         view'.list = view.list, view'.loaded = view.loaded
  PROVE  ListInv'
<1> SUFFICES ASSUME NEW i \in Item, Own(i)' PROVE ItemInv(i)'
  BY DEF ListInv
<1>1. messy \subseteq messy'
  BY DEF Send
<1>2. Own(i) /\ ItemInv(i) /\ i \notin messy' /\ Kind[i] # "incidents"
  BY <1>1 DEF Own, ListInv
<1>3. CASE i \notin Touched(q) \/ q.op = "list"
  BY <1>2, <1>3, SameLook, ActElsewhere
<1>4. CASE i \in Touched(q) /\ q.op # "list"
  <2>1. About(i) = {} /\ \E y : Like(y, q) /\ About(i)' = {y}
    BY <1>2, <1>4, ActAlone
  <2>2. PICK y : Like(y, q) /\ About(i)' = {y}
    BY <2>1
  <2>3. Settled(i)
    BY <2>1 DEF Settled
  <2>4. y.op = q.op /\ y.stage = "sent"
    BY <2>2 DEF Like
  <2>5. Tells(y, i)'
    BY <2>4 DEF Tells, Took, Optimistic
  <2>6. Placed(i)'
    <3>1. \A l : Fits(l, i)' <=> Fits(l, i)
      BY DEF Fits
    <3>2. \A x \in About(i) : ~Optimistic(x)
      BY <2>1
    <3> QED
      BY <1>2, <2>3, <3>1, <3>2 DEF ItemInv, Placed
  <2> QED
    BY <2>2, <2>5, <2>6 DEF ItemInv
<1> QED
  BY <1>3, <1>4

\* A switch that is shown in its new position at once.
LEMMA SwitchLists ==
  ASSUME ListInv, StrangerInv, StrangerInv', NetInv, NEW j \in Item,
         j \in DOMAIN view.list, route \in {"alerts", "settings"}, NEW q, q = Switch(j),
         Send(net, <<q>>, {}), UNCHANGED <<server, cookie, me, signedIn, store, route>>,
         view'.list = [view.list EXCEPT ![j] = q.value], view'.loaded = view.loaded
  PROVE  ListInv'
<1> SUFFICES ASSUME NEW i \in Item, Own(i)' PROVE ItemInv(i)'
  BY DEF ListInv
<1>1. messy \subseteq messy'
  BY DEF Send
<1>2. Own(i) /\ ItemInv(i) /\ i \notin messy' /\ Kind[i] # "incidents"
  BY <1>1 DEF Own, ListInv
<1>3. /\ DOMAIN q = RequestFields /\ q.op = "set" /\ q.what = j /\ q.by = "page"
      /\ q.stage = "sent" /\ q.old = view.list
  BY SwitchRow
<1>4. Kind[j] = KindOf(route) /\ j \in Of(KindOf(route))
  BY DEF StrangerInv, ShownInv, Of
<1>5. Touched(q) = IF route = "settings" THEN Of("prefs") ELSE {j}
  BY <1>3, <1>4 DEF Touched, KindOf, PageKind
<1>6. CASE i \notin Touched(q)
  <2>1. i # j
    BY <1>4, <1>5, <1>6 DEF KindOf
  <2>2. SameAt(view.list, view'.list, i)
    BY <2>1 DEF SameAt
  <2> QED
    BY <1>2, <1>3, <1>6, <2>2, ActElsewhere
<1>7. CASE i \in Touched(q)
  <2>1. About(i) = {} /\ \E y : Like(y, q) /\ About(i)' = {y}
    BY <1>2, <1>3, <1>7, ActAlone
  <2>2. PICK y : Like(y, q) /\ About(i)' = {y}
    BY <2>1
  <2>3. Settled(i) /\ \A x \in About(i) : ~Optimistic(x)
    BY <2>1 DEF Settled
  <2>4. /\ y.op = "set" /\ y.by = "page" /\ y.stage = "sent" /\ y.old = view.list
        /\ y.value = q.value
    BY <1>3, <2>2 DEF Like
  <2>5. Kind[i] = KindOf(route) /\ Kind[i] # "monitors"
    BY <1>4, <1>5, <1>7 DEF Of, KindOf, PageKind
  <2>6. view.loaded => Fits(view.list, i)
    BY <1>2, <2>3, <2>5 DEF ItemInv, Placed
  <2>7. \A l : Fits(l, i)' <=> Fits(l, i)
    BY DEF Fits
  <2>8. Tells(y, i)'
    <3>1. ~Took(y)'
      BY <2>4 DEF Took
    <3>2. ASSUME view'.loaded PROVE Fits(y.old, i)'
      BY <2>4, <2>6, <2>7, <3>2
    <3>3. ASSUME view'.loaded, route' = "alerts"
          PROVE  i \in DOMAIN view'.list /\ view'.list[i] = y.value /\ server'[i] # "absent"
      <4>1. i = j
        BY <1>5, <1>7, <3>3
      <4>2. server[i] # "absent"
        BY <2>6, <3>3, <4>1 DEF Fits
      <4> QED
        BY <2>4, <4>1, <4>2
    <3> QED
      BY <3>1, <3>2, <3>3 DEF Tells
  <2>9. Placed(i)'
    <3>1. Optimistic(y)'
      BY <2>4 DEF Optimistic
    <3>2. ~\A x \in About(i)' : ~Optimistic(x)'
      BY <2>2, <3>1
    <3>3. Kind[i] = "prefs" => Fits(me.prefs, i)'
      BY <1>2, <2>3, <2>7 DEF ItemInv, Placed
    <3> QED
      BY <2>5, <3>2, <3>3 DEF Placed
  <2> QED
    BY <2>2, <2>8, <2>9 DEF ItemInv
<1> QED
  BY <1>6, <1>7

\* What the user does on a page.
LEMMA PageActsLists ==
  ASSUME ListInv, NetInv, StrangerInv, StrangerInv', PanelInv, OnPage
  PROVE  ListInv'
<1>1. UNCHANGED <<server, cookie, me, signedIn, route>>
  BY DEF OnPage, Reload, RefreshMonitors, Poll, Select, AddMonitor, AddChannel, AddPage,
     RemoveMonitor, RemoveChannel, RemovePage, TestChannel, ToggleChannel, TogglePref, EditPage,
     Act, ActOnStore, StoreUnchanged
<1>2. /\ DOMAIN view = ViewFields
      /\ DOMAIN store = {"list", "fresh", "loading"}
  BY DEF PanelInv, StrangerInv, ShownInv
<1>3. CASE RefreshMonitors
  <2>1. PICK q, requests : /\ q = Request("list", "monitors", "store", cookie)
                           /\ requests = FetchMonitors(store, cookie)
    OBVIOUS
  <2>2. /\ Send(net, requests, {}) /\ store' = Loading(store, requests) /\ view' = view
    BY <1>3, <2>1 DEF RefreshMonitors
  <2>3. requests = <<Request("list", "monitors", "store", cookie)>> \/ requests = <<>>
    BY <2>1 DEF FetchMonitors
  <2>4. Onward(net)
    BY <2>2, <2>3, SendOnward DEF NetInv
  <2>5. store'.list = store.list /\ store'.fresh = store.fresh
    BY <1>2, <2>2 DEF Loading
  <2> QED
    BY <1>1, <2>2, <2>4, <2>5, OnwardLists
<1>4. ASSUME NEW i \in Item, Select(i)
      PROVE  ListInv'
  <2>1. Focus(i, net, {}) /\ store' = store
    BY <1>4 DEF Select
  <2>2. Onward(net)
    BY <2>1, FocusOnward DEF NetInv
  <2>3. view'.list = view.list /\ view'.loaded = view.loaded
    BY <1>2, <2>1 DEF Focus, ViewFields
  <2> QED
    BY <1>1, <2>1, <2>2, <2>3, OnwardLists
<1>5. ASSUME NEW op \in {"list", "panel", "create", "delete", "test"}, NEW i, NEW page,
             Act(ForPage(op, i), page), page.list = view.list, page.loaded = view.loaded
      PROVE  ListInv'
  <2>1. PICK q : q = Request(op, i, "page", cookie)
    OBVIOUS
  <2>2. DOMAIN q = RequestFields /\ q.op # "set" /\ q.stage = "sent"
    BY <2>1, MadeRow
  <2>3. Send(net, <<q>>, {}) /\ view' = page /\ store' = store
    BY <1>5, <2>1 DEF Act, ForPage
  <2> QED
    BY <1>1, <1>5, <2>2, <2>3, ActLists
<1>6. ASSUME NEW op \in {"create", "delete"}, NEW i, NEW page,
             ActOnStore(op, i, page), page.list = view.list, page.loaded = view.loaded
      PROVE  ListInv'
  <2>1. PICK q : q = Request(op, i, "store", cookie)
    OBVIOUS
  <2>2. DOMAIN q = RequestFields /\ q.op # "set" /\ q.stage = "sent"
    BY <2>1, MadeRow
  <2>3. Send(net, <<q>>, {}) /\ view' = page /\ store' = [store EXCEPT !.loading = TRUE]
    BY <1>6, <2>1 DEF ActOnStore
  <2>4. store'.list = store.list /\ store'.fresh = store.fresh
    BY <1>2, <2>3
  <2> QED
    BY <1>1, <1>6, <2>2, <2>3, <2>4, ActLists
<1>7. CASE Reload
  <2>1. PICK page : page = [view EXCEPT !.loading = TRUE]
    OBVIOUS
  <2>2. page.list = view.list /\ page.loaded = view.loaded
    BY <1>2, <2>1 DEF ViewFields
  <2> QED
    BY <1>5, <1>7, <2>1, <2>2 DEF Reload
<1>8. CASE Poll
  BY <1>5, <1>8 DEF Poll
<1>9. ASSUME NEW i \in Item, AddMonitor(i) \/ RemoveMonitor(i)
      PROVE  ListInv'
  <2>1. PICK op, page : /\ op \in {"create", "delete"} /\ ActOnStore(op, i, page)
                        /\ page = view \/ page = [view EXCEPT !.busy = i]
    BY <1>9 DEF AddMonitor, RemoveMonitor
  <2>2. page.list = view.list /\ page.loaded = view.loaded
    BY <1>2, <2>1 DEF ViewFields
  <2> QED
    BY <1>6, <2>1, <2>2
<1>10. ASSUME NEW i \in Item,
              AddChannel(i) \/ AddPage(i) \/ RemoveChannel(i) \/ RemovePage(i) \/ TestChannel(i)
       PROVE  ListInv'
  <2>1. PICK op, page : /\ op \in {"create", "delete", "test"} /\ Act(ForPage(op, i), page)
                        /\ \/ page = [view EXCEPT !.saving = TRUE]
                           \/ page = [view EXCEPT !.busy = i]
    BY <1>10 DEF AddChannel, AddPage, RemoveChannel, RemovePage, TestChannel
  <2>2. page.list = view.list /\ page.loaded = view.loaded
    BY <1>2, <2>1 DEF ViewFields
  <2> QED
    BY <1>5, <2>1, <2>2
<1>11. ASSUME NEW i \in Item, ToggleChannel(i) \/ TogglePref(i)
       PROVE  ListInv'
  <2>1. PICK q, page : /\ q = Switch(i) /\ Act(q, page)
                       /\ i \in DOMAIN view.list /\ route \in {"alerts", "settings"}
                       /\ \/ page = [view EXCEPT !.list[i] = q.value]
                          \/ page = [view EXCEPT !.list[i] = q.value, !.busy = i]
    BY <1>11 DEF ToggleChannel, TogglePref
  <2>2. page.list = [view.list EXCEPT ![i] = q.value] /\ page.loaded = view.loaded
    BY <1>2, <2>1 DEF ViewFields
  <2>3. Send(net, <<q>>, {}) /\ view' = page /\ store' = store
    BY <2>1 DEF Act
  <2> QED
    BY <1>1, <2>1, <2>2, <2>3, SwitchLists
<1>12. ASSUME NEW i \in Item, EditPage(i)
       PROVE  ListInv'
  <2>1. PICK q, page : /\ q = Switch(i) /\ Act(q, page) /\ route = "status-pages"
                       /\ page = [view EXCEPT !.saving = TRUE]
    BY <1>12 DEF EditPage
  <2>2. page.list = view.list /\ page.loaded = view.loaded
    BY <1>2, <2>1 DEF ViewFields
  <2>3. Send(net, <<q>>, {}) /\ view' = page /\ store' = store
    BY <2>1 DEF Act
  <2>4. DOMAIN q = RequestFields /\ q.stage = "sent"
    BY <2>1, SwitchRow
  <2> QED
    BY <1>1, <2>1, <2>2, <2>3, <2>4, ActLists
<1> QED
  BY <1>3, <1>4, <1>7, <1>8, <1>9, <1>10, <1>11, <1>12 DEF OnPage

\* A form of the login page is sent.
LEMMA SignInLists ==
  ASSUME ListInv, NetInv, StrangerInv, StrangerInv', PanelInv, NEW u \in User, SignIn(u)
  PROVE  ListInv'
<1>1. PICK q : q = Request("login", u, "session", cookie)
  OBVIOUS
<1>2. DOMAIN q = RequestFields /\ q.op # "set" /\ q.stage = "sent"
  BY <1>1 DEF Request, RequestFields
<1>3. /\ Send(net, <<q>>, {}) /\ store' = store /\ view' = [view EXCEPT !.saving = TRUE]
      /\ UNCHANGED <<server, cookie, me, signedIn, route>>
  BY <1>1 DEF SignIn, StoreUnchanged
<1>4. view'.list = view.list /\ view'.loaded = view.loaded
  BY <1>3 DEF PanelInv, ViewFields
<1> QED
  BY <1>2, <1>3, <1>4, ActLists

\* What is settled is an answer that was on its way, or comes at once.
Hears(q, r) ==
  \/ q.stage = "answered" /\ r = q
  \/ q.stage = "sent" /\ q.op \in AtOnce /\ r = Answered(q)

\* An answer is to its request; one that lists or changes something is the request's own.
LEMMA HearsRow ==
  ASSUME NetInv, NEW q \in net, NEW r, Hears(q, r)
  PROVE  /\ r.tag = q.tag /\ r.op = q.op /\ r.what = q.what /\ r.by = q.by /\ r.as = q.as
         /\ Touched(r) = Touched(q) /\ r.stage = "answered"
         /\ r.op \in {"list", "create", "delete", "set"} => r = q
<1>1. NetRow(q)
  BY DEF NetInv, Told
<1>2. /\ r.tag = q.tag /\ r.op = q.op /\ r.what = q.what /\ r.by = q.by /\ r.as = q.as
      /\ r.stage = "answered"
  BY <1>1, AnsweredTold DEF Hears
<1>3. Touched(r) = Touched(q)
  BY <1>2, SameTouched
<1> QED
  BY <1>2, <1>3 DEF Hears, AtOnce

\* The item of the answer: nothing else is under way for it, nor will be but a list.
LEMMA HeardAlone ==
  ASSUME StrangerInv, NetInv, NEW q \in net, NEW r, Hears(q, r),
         NEW i \in Item, Own(i), i \in Touched(r), Onward(Done(net, r))
  PROVE  /\ About(i) = {q}
         /\ \A x \in About(i)' : x.op = "list" /\ x.stage = "sent"
<1>1. r.tag = q.tag /\ i \in Touched(q)
  BY HearsRow
<1>2. About(i) = {q}
  BY <1>1, Alone DEF OnlyOne, About, Own
<1>3. PICK n : n = Done(net, r)
  OBVIOUS
<1>4. n \in SUBSET net /\ q \notin n
  BY <1>1, <1>3 DEF Done
<1>5. \A x \in net' : i \in Touched(x) => x \in n \/ (x.op = "list" /\ x.stage = "sent")
  BY <1>3, OnwardAbout
<1> QED
  BY <1>2, <1>4, <1>5 DEF About

\* An answer about other items.
LEMMA HeardElsewhere ==
  ASSUME StrangerInv, StrangerInv', NetInv, NEW q \in net, NEW r, Hears(q, r),
         Onward(Done(net, r)), NEW i \in Item, Own(i), i \notin messy', ItemInv(i),
         i \notin Touched(r), UNCHANGED <<server, route>>,
         Kind[i] = "monitors" =>
           (store'.fresh => store.fresh) /\ SameAt(store.list, store'.list, i),
         Kind[i] = "prefs" => SameAt(me.prefs, me'.prefs, i),
         Kind[i] = KindOf(route) =>
           (view'.loaded => view.loaded) /\ SameAt(view.list, view'.list, i)
  PROVE  ItemInv(i)'
<1>1. r.tag = q.tag /\ i \notin Touched(q)
  BY HearsRow
<1>2. PICK n : n = Done(net, r)
  OBVIOUS
<1>3. n \in SUBSET net /\ \A x \in net : x \in n \/ x = q
  BY <1>1, <1>2, DoneLess
<1>4. /\ \A x \in net : i \in Touched(x) => x \in net'
      /\ \A x \in net' : i \in Touched(x) => x \in net \/ (x.op = "list" /\ x.stage = "sent")
  BY <1>1, <1>2, <1>3, OnwardAbout
<1>5. OnlyOne' /\ Kind[i] # "incidents"
  BY AloneAfter DEF Own
<1> QED
  BY <1>4, <1>5, Untouched

\* Nothing is under way then but lists, of which the tab has heard nothing.
LEMMA ListedAfter ==
  ASSUME NEW i, \A x \in About(i)' : x.op = "list" /\ x.stage = "sent",
         About(i)' = {} => Placed(i)'
  PROVE  ItemInv(i)'
<1>1. ASSUME NEW x \in About(i)' PROVE Tells(x, i)'
  BY <1>1 DEF Tells, Took, Optimistic
<1>2. Placed(i)'
  BY DEF Placed, Settled
<1> QED
  BY <1>1, <1>2 DEF ItemInv

\* An answer for the hooks of the store.
LEMMA StoreAnswerLists ==
  ASSUME ListInv, NetInv, StrangerInv, StrangerInv', PanelInv, NEW q \in net, NEW r,
         Hears(q, r), Heard(r), SettleStore(r)
  PROVE  ListInv'
<1>1. /\ r.by = "store" /\ store' = StoreAfter(r) /\ DOMAIN store = {"list", "fresh", "loading"}
      /\ UNCHANGED <<server, cookie, me, signedIn, route>>
  BY DEF SettleStore, StrangerInv, ShownInv
<1>2. Onward(Done(net, r)) /\ Missed(r) \subseteq messy' /\ messy \subseteq messy'
  BY <1>1, AnswerOnward DEF Onward, SettleGone
<1>3. view'.list = view.list /\ view'.loaded = view.loaded
  BY DEF SettleStore, Focus, PanelInv, ViewFields
<1>4. \/ r.op = "list" /\ r.what = "monitors"
      \/ r.op \in {"create", "delete"} /\ Kind[r.what] = "monitors" /\ r.what \in Item
  BY <1>1 DEF Heard, AskRow
<1>5. r = q
  BY <1>4, HearsRow
<1>6. PICK st : st = store'
  OBVIOUS
<1>7. /\ st.list = IF ~r.ok THEN store.list
                   ELSE IF r.op = "list" THEN r.data
                   ELSE IF r.op = "create" THEN Put(store.list, r.what, "on")
                   ELSE Without(store.list, r.what)
      /\ st.fresh = store.fresh \/ (r.op = "list" /\ r.ok)
  BY <1>1, <1>4, <1>6 DEF StoreAfter
<1> SUFFICES ASSUME NEW i \in Item, Own(i)' PROVE ItemInv(i)'
  BY DEF ListInv
<1>8. Own(i) /\ ItemInv(i) /\ i \notin messy' /\ Kind[i] # "incidents"
  BY <1>1, <1>2 DEF Own, ListInv
<1>9. CASE i \notin Touched(r)
  <2>1. Kind[i] = "monitors" => i # r.what /\ r.op # "list"
    BY <1>4, <1>9 DEF Touched, Of
  <2>2. Kind[i] = "monitors" => st.fresh = store.fresh /\ SameAt(store.list, st.list, i)
    BY <1>4, <1>7, <2>1 DEF SameAt, Put, Without
  <2> QED
    BY <1>1, <1>2, <1>3, <1>6, <1>8, <1>9, <2>2, SameLook, HeardElsewhere
<1>10. CASE i \in Touched(r)
  <2>1. /\ About(i) = {q}
        /\ \A x \in About(i)' : x.op = "list" /\ x.stage = "sent"
    BY <1>2, <1>8, <1>10, HeardAlone
  <2>2. /\ Kind[i] = "monitors" /\ Kind[i] # KindOf(route)
        /\ r.op = "list" \/ i = r.what
    BY <1>4, <1>10, TouchedRow DEF KindOf, PageKind
  <2>3. Tells(r, i)
    BY <1>5, <1>8, <2>1 DEF ItemInv
  <2>4. Took(r) <=> r.ok
    BY HearsRow DEF Took
  <2>5. CASE r.op = "list"
    <3>1. r.ok
      BY <1>2, <1>8, <1>10, <2>5 DEF Missed
    <3>2. Fits(r.data, i)
      BY <2>3, <2>4, <2>5, <3>1 DEF Tells
    <3>3. Fits(store.list, i)'
      BY <1>1, <1>6, <1>7, <2>5, <3>1, <3>2 DEF Fits
    <3> QED
      BY <1>1, <2>1, <2>2, <3>3, ListedAfter DEF Placed
  <2>6. CASE r.op # "list" /\ r.ok
    <3>1. server[i] = IF r.op = "create" THEN "on" ELSE "absent"
      BY <1>4, <2>2, <2>3, <2>4, <2>6 DEF Tells, Wanted
    <3>2. Fits(st.list, i)'
      BY <1>1, <1>4, <1>7, <2>2, <2>6, <3>1 DEF Fits, Put, Without
    <3> QED
      BY <1>1, <1>6, <2>1, <2>2, <3>2, ListedAfter DEF Placed
  <2>7. CASE r.op # "list" /\ ~r.ok
    <3>1. Settled(i)
      BY <1>5, <2>1, <2>4, <2>7 DEF Settled
    <3>2. st.list = store.list /\ st.fresh = store.fresh
      BY <1>7, <2>7
    <3>3. \A l : Fits(l, i)' <=> Fits(l, i)
      BY <1>1 DEF Fits
    <3>4. Placed(i)'
      BY <1>1, <1>6, <1>8, <2>2, <3>1, <3>2, <3>3 DEF Placed, ItemInv
    <3> QED
      BY <2>1, <3>4, ListedAfter
  <2> QED
    BY <2>5, <2>6, <2>7
<1> QED
  BY <1>9, <1>10

\* The rows of the page after an answer.
ListAfter(r) ==
  CASE r.op = "list"   -> IF r.ok THEN r.data ELSE view.list
    [] r.op = "set"    -> (CASE route = "alerts"   -> IF r.ok THEN view.list ELSE Reverted(r)
                             [] route = "settings" -> IF r.ok THEN r.data.prefs ELSE r.old
                             [] OTHER              -> view.list)
    [] r.op = "delete" -> IF r.ok THEN Without(view.list, r.what) ELSE view.list
    [] OTHER           -> view.list

\* It is what the page shows then.
LEMMA ViewAfterList ==
  ASSUME DOMAIN view = ViewFields, NEW r, AskRow(r, route), r.by = "page",
         NEW v, v = ViewAfter(r)
  PROVE  v.list = ListAfter(r)
<1>1. CASE r.op = "list"
  BY <1>1 DEF ViewAfter, Loaded, ViewFields, ListAfter
<1>2. CASE r.op = "panel"
  BY <1>2 DEF ViewAfter, PanelAfter, DetailAfter, PublicAfter, ViewFields, ListAfter
<1>3. CASE r.op = "set"
  <2>1. route = "settings" => Reverted(r) = r.old
    BY DEF Reverted
  <2> QED
    BY <1>3, <2>1 DEF ViewAfter, ChannelSwitched, PrefSaved, PageSaved, ViewFields, ListAfter
<1>4. CASE r.op = "create"
  BY <1>4 DEF ViewAfter, PageSaved, ViewFields, ListAfter
<1>5. CASE r.op = "delete"
  BY <1>5 DEF ViewAfter, Removed, ViewFields, ListAfter
<1>6. CASE r.op = "test"
  BY <1>6 DEF ViewAfter, Tested, ViewFields, ListAfter
<1>7. r.op \in {"panel", "list", "create", "set", "delete", "test"}
  BY DEF AskRow
<1> QED
  BY <1>1, <1>2, <1>3, <1>4, <1>5, <1>6, <1>7

\* An answer for the page about an item, unless the page loads its list again.
LEMMA PageAnswerItem ==
  ASSUME NetInv, StrangerInv, DOMAIN view = ViewFields, NEW q \in net, NEW r,
         Hears(q, r), Heard(r), SettlePage(r), ~Reloads(r), Missed(r) \subseteq messy',
         NEW v, view'.list = ListAfter(r), v = view'.loaded, r.op # "list" => v = view.loaded,
         NEW i \in Item, Own(i), ItemInv(i), i \notin messy', i \in Touched(r), About(i) = {q},
         About(i)' = {}
  PROVE  Placed(i)'
<1>1. /\ r.by = "page" /\ UNCHANGED <<server, store, route>>
      /\ me' = IF r.op = "set" /\ route = "settings" /\ r.ok THEN r.data ELSE me
  BY DEF SettlePage
<1>2. /\ \/ r.op = "list" /\ route \in DOMAIN PageKind /\ r.what = PageKind[route]
         \/ /\ r.op \in {"create", "set", "delete"} /\ Kind[r.what] = KindOf(route)
            /\ route \in {"alerts", "status-pages", "settings"} /\ (route = "settings" => r.op = "set")
  BY <1>1, TouchedRow DEF Heard, AskRow
<1>3. /\ Kind[i] = KindOf(route) /\ Kind[i] # "monitors"
      /\ Kind[i] = "prefs" <=> route = "settings"
      /\ r.op = "list" \/ route = "settings" \/ i = r.what
  <2>1. /\ KindOf(route) # "monitors"
        /\ KindOf(route) = "prefs" <=> route = "settings"
        /\ route \in DOMAIN PageKind => PageKind[route] = KindOf(route)
    BY DEF KindOf, PageKind
  <2> QED
    BY <1>2, <2>1, TouchedRow
<1>4. r = q /\ r.stage = "answered" /\ Tells(r, i)
  BY <1>2, HearsRow DEF ItemInv
<1>5. Took(r) <=> r.ok
  BY <1>4 DEF Took
<1>6. ~r.ok /\ r.op # "list" =>
        /\ Kind[i] = "prefs" => Fits(me.prefs, i)
        /\ view.loaded /\ ~Optimistic(r) => Fits(view.list, i)
  BY <1>3, <1>4, <1>5 DEF ItemInv, Placed, Settled
<1>7. \A l : Fits(l, i)' <=> Fits(l, i)
  BY <1>1 DEF Fits
<1>8. SUFFICES ASSUME v
               PROVE  Fits(ListAfter(r), i) /\ (Kind[i] = "prefs" => Fits(me'.prefs, i))
  <2>1. CASE ~v
    <3>1. Kind[i] = "prefs" => Fits(me'.prefs, i)
      <4>1. ASSUME route = "settings" PROVE r.op = "set"
        BY <1>2, <4>1 DEF PageKind
      <4>2. ASSUME route = "settings", r.ok PROVE Fits(r.data.prefs, i)
        BY <1>2, <1>4, <1>5, <4>1, <4>2 DEF Tells, KindOf
      <4> QED
        BY <1>1, <1>3, <1>6, <4>1, <4>2
    <3> QED
      BY <1>1, <1>3, <1>7, <2>1, <3>1 DEF Placed
  <2>2. CASE v
    BY <1>1, <1>3, <1>7, <1>8, <2>2 DEF Placed
  <2> QED
    BY <2>1, <2>2
<1>9. CASE r.op = "list"
  <2>1. r.ok
    BY <1>9 DEF Missed
  <2>2. Fits(r.data, i)
    BY <1>4, <1>5, <1>9, <2>1 DEF Tells
  <2>3. route # "settings"
    BY <1>2, <1>9 DEF PageKind
  <2> QED
    BY <1>3, <1>9, <2>1, <2>2, <2>3 DEF ListAfter
<1>10. CASE r.op = "create"
  <2>1. ~r.ok /\ route # "settings"
    BY <1>2, <1>10 DEF Reloads
  <2>2. ~Optimistic(r)
    BY <1>10 DEF Optimistic
  <2> QED
    BY <1>3, <1>6, <1>8, <1>10, <2>1, <2>2 DEF ListAfter
<1>11. CASE r.op = "delete"
  <2>1. ~Optimistic(r) /\ route # "settings" /\ i = r.what
    BY <1>2, <1>3, <1>11 DEF Optimistic
  <2>2. r.ok => server[i] = "absent"
    BY <1>2, <1>3, <1>4, <1>5, <1>11, <2>1 DEF Tells, Wanted
  <2>3. r.ok => Fits(Without(view.list, i), i)
    BY <2>2 DEF Fits, Without
  <2> QED
    BY <1>3, <1>6, <1>8, <1>11, <2>1, <2>3 DEF ListAfter
<1>12. CASE r.op = "set" /\ route = "status-pages"
  <2>1. ~r.ok /\ ~Optimistic(r)
    BY <1>12 DEF Reloads, Optimistic
  <2> QED
    BY <1>3, <1>6, <1>8, <1>12, <2>1 DEF ListAfter
<1>13. CASE r.op = "set" /\ route = "settings"
  <2>1. Optimistic(r) /\ Kind[r.what] = "prefs"
    BY <1>1, <1>2, <1>13 DEF Optimistic, KindOf
  <2>2. r.ok => Fits(r.data.prefs, i)
    BY <1>4, <1>5, <1>13, <2>1 DEF Tells
  <2>3. ~r.ok => Fits(r.old, i)
    BY <1>4, <1>5, <1>8, <1>13, <2>1 DEF Tells
  <2> QED
    BY <1>1, <1>3, <1>6, <1>13, <2>2, <2>3 DEF ListAfter
<1>14. CASE r.op = "set" /\ route = "alerts"
  <2>1. Optimistic(r) /\ Kind[r.what] # "prefs" /\ Kind[i] # "prefs" /\ i = r.what
    BY <1>1, <1>2, <1>3, <1>14 DEF Optimistic, KindOf, PageKind
  <2>2. i \in DOMAIN view.list /\ view.list[i] = r.value
    BY <1>4, <1>8, <1>14, <2>1 DEF Tells
  <2>3. ASSUME r.ok PROVE Fits(view.list, i)
    <3>1. server[i] = r.value
      BY <1>4, <1>5, <1>14, <2>1, <2>3 DEF Tells, Wanted
    <3>2. r.value # "absent"
      BY <1>4 DEF NetInv, Told, NetRow
    <3> QED
      BY <2>2, <3>1, <3>2 DEF Fits
  <2>4. ASSUME ~r.ok PROVE Fits(Reverted(r), i)
    <3>1. Fits(r.old, i) /\ server[i] # "absent"
      BY <1>4, <1>5, <1>8, <1>14, <2>1, <2>4 DEF Tells
    <3>2. Reverted(r) = Put(view.list, i, r.old[i])
      BY <1>14, <2>1, <2>2 DEF Reverted
    <3> QED
      BY <3>1, <3>2 DEF Fits, Put
  <2> QED
    BY <1>14, <2>1, <2>3, <2>4 DEF ListAfter
<1> QED
  BY <1>2, <1>9, <1>10, <1>11, <1>12, <1>13, <1>14

\* An answer for the page.
LEMMA PageAnswerLists ==
  ASSUME ListInv, NetInv, StrangerInv, StrangerInv', PanelInv, NEW q \in net, NEW r,
         Hears(q, r), Heard(r), SettlePage(r)
  PROVE  ListInv'
<1>1. /\ r.by = "page" /\ UNCHANGED <<server, cookie, signedIn, store, route>>
      /\ me' = IF r.op = "set" /\ route = "settings" /\ r.ok THEN r.data ELSE me
  BY DEF SettlePage
<1>2. Onward(Done(net, r)) /\ Missed(r) \subseteq messy' /\ messy \subseteq messy'
  BY <1>1, AnswerOnward DEF Onward, SettleGone
<1>3. PICK v : v = ViewAfter(r)
  OBVIOUS
<1>4. AskRow(r, route) /\ DOMAIN view = ViewFields
  BY DEF Heard, PanelInv
<1>5. /\ DOMAIN v = ViewFields /\ v.list = ListAfter(r)
      /\ r.op # "list" => v.loaded = view.loaded
  BY <1>1, <1>3, <1>4, ViewAfterFlags, ViewAfterList
<1>6. view'.list = ListAfter(r) /\ (r.op # "list" => view'.loaded = view.loaded)
  <2>1. view' = v \/ view' = [v EXCEPT !.loading = TRUE]
    BY <1>3 DEF SettlePage
  <2> QED
    BY <1>5, <2>1 DEF ViewFields
<1> SUFFICES ASSUME NEW i \in Item, Own(i)' PROVE ItemInv(i)'
  BY DEF ListInv
<1>7. Own(i) /\ ItemInv(i) /\ i \notin messy' /\ Kind[i] # "incidents"
  BY <1>1, <1>2 DEF Own, ListInv
<1>8. CASE i \notin Touched(r)
  <2>1. ASSUME Kind[i] = KindOf(route)
        PROVE  r.op # "list" /\ SameAt(view.list, ListAfter(r), i)
    <3>1. r.op # "list"
      <4>1. ASSUME r.op = "list" PROVE FALSE
        <5>1. r.what = KindOf(route)
          BY <1>1, <1>4, <4>1 DEF AskRow, KindOf, PageKind
        <5> QED
          BY <1>8, <2>1, <4>1, <5>1 DEF Touched, Of
      <4> QED
        BY <4>1
    <3>2. r.op \in {"set", "delete"} => r.what # i /\ route # "settings"
      <4>1. ASSUME r.op \in {"set", "delete"} PROVE r.what # i /\ route # "settings"
        <5>1. r.what \in Item /\ Kind[r.what] = KindOf(route)
          BY <1>1, <1>4, <4>1 DEF AskRow
        <5> QED
          BY <1>8, <2>1, <4>1, <5>1 DEF Touched, Of, KindOf
      <4> QED
        BY <4>1
    <3>3. \/ ListAfter(r) = view.list
          \/ ListAfter(r) = Without(view.list, r.what)
          \/ ListAfter(r) = Put(view.list, r.what, r.old[r.what])
      BY <3>1, <3>2 DEF ListAfter, Reverted
    <3>4. r.op \notin {"set", "delete"} => ListAfter(r) = view.list
      BY <3>1 DEF ListAfter
    <3> QED
      BY <3>1, <3>2, <3>3, <3>4 DEF SameAt, Put, Without
  <2>2. ASSUME Kind[i] = "prefs" PROVE me' = me
    <3>1. ASSUME r.op = "set", route = "settings" PROVE FALSE
      <4>1. Kind[r.what] = "prefs"
        BY <1>1, <1>4, <3>1 DEF AskRow, KindOf
      <4> QED
        BY <1>8, <2>2, <3>1, <4>1 DEF Touched, Of
    <3> QED
      BY <1>1, <3>1
  <2> QED
    BY <1>1, <1>2, <1>6, <1>7, <1>8, <2>1, <2>2, SameLook, HeardElsewhere
<1>9. CASE i \in Touched(r)
  <2>1. /\ About(i) = {q}
        /\ \A x \in About(i)' : x.op = "list" /\ x.stage = "sent"
    BY <1>2, <1>7, <1>9, HeardAlone
  <2>2. CASE ~Reloads(r)
    <3>1. About(i)' = {} => Placed(i)'
      BY <1>2, <1>4, <1>6, <1>7, <1>9, <2>1, <2>2, PageAnswerItem
    <3> QED
      BY <2>1, <3>1, ListedAfter
  <2>3. CASE Reloads(r)
    <3>1. PICK n, p, requests, late :
            /\ n = Done(net, r) /\ p = Request("list", PageKind[route], "page", cookie)
            /\ requests = <<p>> /\ late = Missed(r)
      OBVIOUS
    <3>2. Send(n, requests, late)
      BY <2>3, <3>1 DEF SettlePage
    <3>3. DOMAIN p = RequestFields /\ p.op = "list" /\ p.what = PageKind[route]
      BY <3>1, MadeRow
    <3>4. n \in SUBSET net
      BY <3>1 DEF Done
    <3>5. PICK y \in net' : Like(y, p)
      BY <3>1, <3>2, <3>3, <3>4, OneRow
    <3>6. y.op = "list" /\ y.what = PageKind[route]
      BY <3>3, <3>5 DEF Like
    <3>7. Kind[i] = PageKind[route]
      <4>1. r.op \in {"create", "set"}
        BY <1>9, <2>3 DEF Reloads, Touched
      <4>2. /\ Kind[r.what] = KindOf(route) /\ route \in {"alerts", "status-pages"}
        BY <1>1, <1>4, <2>3, <4>1 DEF AskRow, Reloads
      <4>3. KindOf(route) = PageKind[route] /\ KindOf(route) # "prefs"
        BY <4>2 DEF KindOf, PageKind
      <4> QED
        BY <1>9, <4>1, <4>2, <4>3, TouchedRow
    <3>8. y \in About(i)'
      BY <3>6, <3>7 DEF About, Touched, Of
    <3> QED
      BY <2>1, <3>8, ListedAfter
  <2> QED
    BY <2>2, <2>3
<1> QED
  BY <1>8, <1>9

\* An answer for the navbar.
LEMMA BellAnswerLists ==
  ASSUME ListInv, NetInv, StrangerInv, StrangerInv', NEW q \in net, NEW r,
         Hears(q, r), Heard(r), SettleBell(r)
  PROVE  ListInv'
<1>1. /\ r.by = "bell" /\ UNCHANGED <<server, cookie, me, signedIn, store, route, view>>
  BY DEF SettleBell, pageVars
<1>2. Onward(Done(net, r)) /\ messy \subseteq messy'
  BY AnswerOnward DEF Onward
<1>3. Touched(r) = Of("incidents")
  BY <1>1 DEF Heard, AskRow, Touched
<1> SUFFICES ASSUME NEW i \in Item, Own(i)' PROVE ItemInv(i)'
  BY DEF ListInv
<1>4. Own(i) /\ ItemInv(i) /\ i \notin messy' /\ i \notin Touched(r)
  BY <1>1, <1>2, <1>3 DEF Own, ListInv, Of
<1> QED
  BY <1>1, <1>2, <1>4, SameLook, HeardElsewhere

\* An answer that nobody waits for: preferences are taken over; other items are not shown,
\* or were disturbed.
LEMMA GoneAnswerLists ==
  ASSUME ListInv, FlagInv, NetInv, StrangerInv, StrangerInv', PanelInv, NEW q \in net, NEW r,
         Hears(q, r), Heard(r), SettleGone(r)
  PROVE  ListInv'
<1>1. /\ r.by = "gone" /\ UNCHANGED <<server, cookie, signedIn, store, route>>
      /\ r.op \in {"create", "set", "delete"} /\ r.what \in Item
  BY DEF SettleGone, Heard, AskRow
<1>2. Onward(Done(net, r)) /\ messy \subseteq messy'
  BY AnswerOnward DEF Onward
<1>3. r = q /\ r \in net /\ r.stage = "answered" /\ NetRow(r)
  BY <1>1, HearsRow DEF NetInv, Told
<1>4. PICK told \in BOOLEAN : told = (r.op = "set" /\ Kind[r.what] = "prefs" /\ r.ok)
  OBVIOUS
<1>5. /\ me' = IF told THEN r.data ELSE me
      /\ view' = IF told THEN WithUser(r.data) ELSE view
  BY <1>4 DEF SettleGone
<1>6. /\ view'.loaded = view.loaded
      /\ view'.list = IF told /\ route = "settings" THEN r.data.prefs ELSE view.list
  BY <1>5 DEF WithUser, PanelInv, ViewFields
<1> SUFFICES ASSUME NEW i \in Item, Own(i)' PROVE ItemInv(i)'
  BY DEF ListInv
<1>7. Own(i) /\ ItemInv(i) /\ i \notin messy' /\ i \notin messy
  BY <1>1, <1>2 DEF Own, ListInv
<1>8. CASE i \notin Touched(r)
  <2>1. told => Kind[i] # "prefs"
    BY <1>1, <1>4, <1>8 DEF Touched, Of
  <2>2. Kind[i] = KindOf(route) => view'.list = view.list
    BY <1>6, <2>1 DEF KindOf
  <2> QED
    BY <1>1, <1>2, <1>5, <1>6, <1>7, <1>8, <2>1, <2>2, SameLook, HeardElsewhere
<1>9. CASE i \in Touched(r)
  <2>1. /\ About(i) = {q}
        /\ \A x \in About(i)' : x.op = "list" /\ x.stage = "sent"
    BY <1>2, <1>7, <1>9, HeardAlone
  <2>2. Tells(r, i) /\ (Took(r) <=> r.ok)
    BY <1>3, <1>7, <2>1 DEF ItemInv, Took
  <2>3. \A l : Fits(l, i)' <=> Fits(l, i)
    BY <1>1 DEF Fits
  <2>4. CASE Kind[r.what] # "prefs"
    <3>1. i = r.what
      BY <1>1, <1>9, <2>4, TouchedRow
    <3>2. Kind[i] # "monitors" /\ Kind[i] # KindOf(route)
      BY <1>1, <1>3, <1>7, <2>4, <3>1 DEF FlagInv, GoneRow
    <3>3. Placed(i)'
      BY <1>1, <2>4, <3>1, <3>2 DEF Placed
    <3> QED
      BY <2>1, <3>3, ListedAfter
  <2>5. CASE Kind[r.what] = "prefs" /\ told
    <3>1. Kind[i] = "prefs"
      BY <1>1, <1>9, <2>5, TouchedRow
    <3>2. Fits(r.data.prefs, i)
      BY <1>4, <2>2, <2>5 DEF Tells
    <3>3. KindOf(route) = "prefs" => route = "settings"
      BY DEF KindOf, PageKind
    <3>4. Placed(i)'
      BY <1>1, <1>5, <1>6, <2>3, <2>5, <3>1, <3>2, <3>3 DEF Placed
    <3> QED
      BY <2>1, <3>4, ListedAfter
  <2>6. CASE Kind[r.what] = "prefs" /\ ~told
    <3>1. Kind[i] = "prefs" /\ ~r.ok
      BY <1>1, <1>3, <1>4, <1>9, <2>6, TouchedRow DEF NetRow
    <3>2. Settled(i) /\ \A x \in About(i) : ~Optimistic(x)
      BY <1>1, <1>3, <2>1, <2>2, <3>1 DEF Settled, Optimistic
    <3>3. Placed(i)'
      BY <1>1, <1>5, <1>7, <2>3, <2>6, <3>1, <3>2 DEF Placed, ItemInv
    <3> QED
      BY <2>1, <3>3, ListedAfter
  <2> QED
    BY <2>4, <2>5, <2>6
<1> QED
  BY <1>8, <1>9

\* A page is shown in the same session: what is under way for an item goes on, or is
\* dropped with the list of its page.
LEMMA ShowLists ==
  ASSUME ListInv, StrangerInv, StrangerInv', NetInv, DocInv,
         NEW rt, NEW subject, NEW n, Told(n), NEW c, NEW late,
         NEW remount \in BOOLEAN, Show(rt, subject, store, n, c, me, cookie, late, remount),
         UNCHANGED <<server, cookie, me, signedIn>>,
         net \subseteq n, \A x \in n : x \in net \/ x.op = "logout"
  PROVE  ListInv'
<1>1. PICK v, s : v = view' /\ s = store'
  OBVIOUS
<1>2. /\ route' = rt /\ v = Fresh(rt, subject, me)
      /\ s = IF rt \in {"dashboard", "monitors"} /\ ~Cached(store)
             THEN [store EXCEPT !.loading = TRUE] ELSE store
  BY <1>1 DEF Show
<1>3. /\ messy \subseteq messy'
      /\ \E stays : /\ Left(n, stays) \subseteq net'
                    /\ \A x \in net' : x \in Left(n, stays) \/ Opens(x, rt, store, cookie)
      /\ \A q : Wants(rt, store, q, cookie) => \E x \in net' : Like(x, q)
  <2>1. Told(n) /\ Show(rt, subject, store, n, c, me, cookie, late, remount)
    OBVIOUS
  <2> QED
    BY ONLY <2>1, remount \in BOOLEAN, ShowSends
<1>4. PICK stays : /\ Left(n, stays) \subseteq net'
                   /\ \A x \in net' : x \in Left(n, stays) \/ Opens(x, rt, store, cookie)
  BY <1>3
<1>5. rt \in {"dashboard", "monitors"} /\ ~Cached(store) =>
        \E x \in net' : /\ x.op = "list" /\ x.what = "monitors" /\ x.by = "store"
  BY <1>3, ShowAwaits
<1>6. DOMAIN store = {"list", "fresh", "loading"} /\ OnlyOne /\ OnlyOne'
  BY Alone, AloneAfter DEF StrangerInv, ShownInv
<1> SUFFICES ASSUME NEW i \in Item, Own(i)' PROVE ItemInv(i)'
  BY DEF ListInv
<1>7. Own(i) /\ ItemInv(i) /\ i \notin messy' /\ Kind[i] # "incidents" /\ signedIn
  BY <1>3 DEF Own, ListInv
<1>8. \A x : x.op \in {"logout", "panel"} => i \notin Touched(x)
  BY DEF Touched
<1>9. ASSUME NEW z \in About(i)'
      PROVE  \/ z.op = "list" /\ z.stage = "sent"
             \/ /\ z.by # "page"
                /\ \E y \in About(i) : /\ z.op = y.op /\ z.what = y.what /\ z.stage = y.stage
                                       /\ z.ok = y.ok /\ z.data = y.data /\ z.value = y.value
  <2>1. z \in net' /\ i \in Touched(z)
    BY DEF About
  <2>2. CASE Opens(z, rt, store, cookie)
    BY <1>8, <2>1, <2>2 DEF Opens
  <2>3. CASE z \in n /\ z.by # "page"
    BY <1>8, <2>1, <2>3 DEF About
  <2>4. ASSUME NEW y \in n, z = [y EXCEPT !.by = "gone"], z.by = "gone"
        PROVE  <1>9!2
    <3>1. DOMAIN y = RequestFields
      BY DEF Told, NetRow
    <3>2. /\ z.op = y.op /\ z.what = y.what /\ z.stage = y.stage
          /\ z.ok = y.ok /\ z.data = y.data /\ z.value = y.value
      BY <2>4, <3>1 DEF RequestFields
    <3>3. i \in Touched(y)
      BY <2>1, <3>2, SameTouched
    <3>4. y \in About(i)
      BY <1>8, <3>3 DEF About
    <3> QED
      BY <2>4, <3>2, <3>4
  <2> QED
    BY <1>4, <2>1, <2>2, <2>3, <2>4, LeftAre
<1>10. CASE \E z \in About(i)' : z.op = "list" /\ z.stage = "sent"
  <2>1. PICK z \in About(i)' : z.op = "list" /\ z.stage = "sent"
    BY <1>10
  <2>2. \A x \in About(i)' : x = z
    BY <1>6, <1>7 DEF OnlyOne
  <2> QED
    BY <2>1, <2>2, ListedAfter
<1>11. CASE ~\E z \in About(i)' : z.op = "list" /\ z.stage = "sent"
  <2>1. \A l : Fits(l, i)' <=> Fits(l, i)
    BY DEF Fits
  <2>2. ASSUME NEW z \in About(i)' PROVE Tells(z, i)'
    <3>1. PICK y \in About(i) : /\ z.op = y.op /\ z.what = y.what /\ z.stage = y.stage
                                /\ z.ok = y.ok /\ z.data = y.data /\ z.value = y.value
      BY <1>9, <1>11
    <3>2. Tells(y, i)
      BY <1>7 DEF ItemInv
    <3>3. ~Optimistic(z)'
      BY <1>9, <1>11 DEF Optimistic
    <3>4. (Took(z)' <=> Took(y)) /\ Wanted(z) = Wanted(y)
      BY <3>1 DEF Took, Wanted
    <3> QED
      BY <2>1, <3>1, <3>2, <3>3, <3>4 DEF Tells, Wanted
  <2>3. ASSUME Settled(i)', Kind[i] \in {"monitors", "prefs"} PROVE Settled(i)
    <3>1. ASSUME NEW y \in About(i) PROVE y.op # "list" /\ ~Took(y)
      <4>1. y \in net /\ y \in n /\ i \in Touched(y) /\ AskRow(y, route)
            /\ DOMAIN y = RequestFields
        BY DEF About, StrangerInv, RowsFit, AskRow
      <4>2. CASE y.by \notin {"page", "bell"}
        <5>1. y \in About(i)'
          BY <1>4, <4>1, <4>2, LeftAre DEF About
        <5> QED
          BY <2>3, <5>1 DEF Settled, Took
      <4>3. CASE y.by = "bell"
        BY <1>7, <4>1, <4>3, TouchedRow DEF AskRow
      <4>4. CASE y.by = "page"
        <5>1. route \in DOMAIN PageKind => PageKind[route] \notin {"monitors", "prefs"}
          BY DEF PageKind
        <5>2. y.op \in {"create", "set", "delete"}
          BY <1>8, <2>3, <4>1, <4>4, <5>1, TouchedRow DEF AskRow
        <5>3. PICK z : z = [y EXCEPT !.by = "gone"]
          OBVIOUS
        <5>4. z.op = y.op /\ z.what = y.what /\ z.stage = y.stage /\ z.ok = y.ok
          BY <4>1, <5>3 DEF RequestFields
        <5>5. z \in net'
          BY <1>4, <4>1, <4>4, <5>2, <5>3, LeftAre
        <5>6. z \in About(i)'
          BY <4>1, <5>4, <5>5, SameTouched DEF About
        <5> QED
          BY <2>3, <5>2, <5>4, <5>6 DEF Settled, Took
      <4> QED
        BY <4>2, <4>3, <4>4
    <3> QED
      BY <3>1 DEF Settled
  <2>4. ASSUME Settled(i)', Kind[i] = "monitors", s.fresh \/ rt \in {"dashboard", "monitors"}
        PROVE  Fits(s.list, i)
    <3>1. ~(rt \in {"dashboard", "monitors"} /\ ~Cached(store))
      <4>1. ASSUME NEW x \in net', x.op = "list", x.what = "monitors" PROVE FALSE
        <5>1. x \in About(i)'
          BY <2>4, <4>1 DEF About, Touched, Of
        <5> QED
          BY <2>4, <4>1, <5>1 DEF Settled
      <4> QED
        BY <1>5, <4>1
    <3>2. s = store /\ store.fresh
      BY <1>2, <2>4, <3>1 DEF Cached
    <3> QED
      BY <1>7, <2>3, <2>4, <3>2 DEF ItemInv, Placed
  <2>5. ASSUME Settled(i)', Kind[i] = "prefs" PROVE Fits(me.prefs, i)
    BY <1>7, <2>3, <2>5 DEF ItemInv, Placed
  <2>6. ASSUME Settled(i)', Kind[i] = KindOf(rt), v.loaded PROVE Fits(v.list, i)
    <3>1. rt = "settings" /\ Kind[i] = "prefs"
      BY <1>2, <2>6 DEF Fresh, KindOf
    <3>2. me # None
      BY <1>7, ClientAssumption DEF DocInv
    <3>3. v.list = me.prefs
      BY <1>2, <3>1, <3>2 DEF Fresh
    <3> QED
      BY <2>5, <2>6, <3>1, <3>3
  <2>7. Placed(i)'
    BY <1>1, <1>2, <2>1, <2>4, <2>5, <2>6 DEF Placed
  <2> QED
    BY <2>2, <2>7 DEF ItemInv
<1> QED
  BY <1>10, <1>11

\* Links, and the logout button.
LEMMA LinksLists ==
  ASSUME ListInv, StrangerInv, StrangerInv', NetInv, DocInv,
         LogoutClick \/ \E rt : Navigate(rt)
  PROVE  ListInv'
<1>1. UNCHANGED <<server, cookie, me, signedIn>>
  BY DEF LogoutClick, Navigate
<1>2. ASSUME NEW rt, Navigate(rt) PROVE ListInv'
  <2>1. PICK s : Show(rt, s, store, net, conn, me, cookie, {}, FALSE)
    BY <1>2 DEF Navigate
  <2> QED
    BY <1>1, <2>1, ShowLists DEF NetInv
<1>3. CASE LogoutClick
  <2>1. PICK q : q = Request("logout", None, "session", cookie)
    OBVIOUS
  <2>2. NetRow(q) /\ DOMAIN q = RequestFields /\ q.op = "logout"
    BY <2>1 DEF Request, RequestFields, NetRow
  <2>3. PICK n : n = Post(net, q)
    OBVIOUS
  <2>4. Told(n)
    BY <2>2, <2>3, ToldOne DEF NetInv, Post
  <2>5. PICK s : Show("dashboard", s, store, n, conn, me, cookie, {}, TRUE)
    BY <1>3, <2>1, <2>3 DEF LogoutClick
  <2>6. n = net \cup {[<<q>>[k] EXCEPT !.tag = FreeTag(net, k)] : k \in {1}}
    BY <2>3 DEF Post, PostAll
  <2>7. \A x \in n : x \in net \/ \E t : x = [q EXCEPT !.tag = t]
    BY <2>6
  <2>8. net \subseteq n /\ \A x \in n : x \in net \/ x.op = "logout"
    BY <2>2, <2>6, <2>7 DEF RequestFields
  <2> QED
    BY <1>1, <2>4, <2>5, <2>8, ShowLists
<1> QED
  BY <1>2, <1>3

\* The answer for the session brings the preferences as they are.
LEMMA SessionDoc ==
  ASSUME DocInv, DocInv', NetInv, StrangerInv, NEW q \in net, NEW r, Hears(q, r), Heard(r),
         r.op \in {"profile", "login"}, r.ok, SessionAfter(r), server' = server,
         NEW i \in Item, Kind[i] = "prefs", i \notin messy, Own(i)'
  PROVE  Fits(me.prefs, i)'
<1>1. NetRow(q) /\ AskRow(q, route) /\ DocRow(q)
  BY DEF NetInv, Told, StrangerInv, RowsFit, DocInv
<1>2. r.op = q.op /\ r.what = q.what /\ r.as = q.as
  BY HearsRow
<1>3. r = Answered(q)
  BY <1>1, <1>2 DEF Hears, DocRow, AtOnce
<1>4. r.ok = Granted(q) /\ r.data = Answer(q)
  BY <1>1, <1>3 DEF Answered, NetRow, RequestFields
<1>5. PICK u : u = IF q.op = "login" THEN q.what ELSE q.as
  OBVIOUS
<1>6. r.data = UserDoc(u)
  BY <1>2, <1>4, <1>5 DEF Answer
<1>7. me' = r.data /\ cookie' = IF r.op = "login" THEN r.data.id ELSE cookie
  BY DEF SessionAfter
<1>8. i \in Touched(r)
  BY DEF Touched, Of
<1>9. cookie' = u
  <2>1. CASE r.op = "login"
    BY <1>6, <1>7, <2>1 DEF UserDoc
  <2>2. CASE r.op = "profile"
    BY <1>2, <1>5, <1>7, <1>8, <2>2 DEF Heard, SessionRow
  <2> QED
    BY <2>1, <2>2
<1>10. Owner[i] = u
  BY <1>9 DEF Own
<1>11. PICK d : d = Documents("prefs", u)
  OBVIOUS
<1>12. /\ i \in DOMAIN d <=> server[i] # "absent"
       /\ i \in DOMAIN d => d[i] = server[i]
  BY <1>10, <1>11 DEF Documents, Mine, Of
<1>13. me'.prefs = d
  BY <1>6, <1>7, <1>11 DEF UserDoc
<1> QED
  BY <1>12, <1>13 DEF Fits

\* Before a session begins nothing is under way for its items but the session itself.
LEMMA OnlySession ==
  ASSUME StrangerInv, DocInv, ~signedIn, NEW x \in net, NEW i \in Touched(x), i \notin messy
  PROVE  x.by = "session" /\ ~Took(x)
<1>1. AskRow(x, route) /\ SessionRow(x, messy, cookie, signedIn) /\ DocRow(x)
  BY DEF StrangerInv, RowsFit, DocInv
<1>2. x.by = "session"
  BY <1>1 DEF SessionRow
<1> QED
  BY <1>1, <1>2 DEF AskRow, DocRow, AtOnce, Took

\* A session begins and a page is shown: its lists come from the server or the session.
LEMMA StartLists ==
  ASSUME StrangerInv', NEW rt, NEW subject, NEW n, Told(n), NEW c, NEW u, NEW as, NEW late,
         Show(rt, subject, store, n, c, u, as, late, FALSE), u = me', u # None,
         DOMAIN store = {"list", "fresh", "loading"},
         NEW i \in Item, Own(i)', Kind[i] = "monitors" => ~store.fresh,
         \A x \in n : i \in Touched(x) => x.by = "session" /\ ~Took(x),
         Kind[i] = "prefs" => Fits(me.prefs, i)'
  PROVE  ItemInv(i)'
<1>1. PICK v, s : v = view' /\ s = store'
  OBVIOUS
<1>2. /\ route' = rt /\ v = Fresh(rt, subject, u)
      /\ s = IF rt \in {"dashboard", "monitors"} /\ ~Cached(store)
             THEN [store EXCEPT !.loading = TRUE] ELSE store
  BY <1>1 DEF Show
<1>3. /\ \E stays : \A x \in net' : x \in Left(n, stays) \/ Opens(x, rt, store, as)
      /\ \A q : Wants(rt, store, q, as) => \E x \in net' : Like(x, q)
  <2>1. PICK no \in BOOLEAN : no = FALSE
    OBVIOUS
  <2>2. Told(n) /\ Show(rt, subject, store, n, c, u, as, late, no)
    BY <2>1
  <2> QED
    BY ONLY <2>2, no \in BOOLEAN, ShowSends
<1>4. PICK stays : \A x \in net' : x \in Left(n, stays) \/ Opens(x, rt, store, as)
  BY <1>3
<1>5. rt \in {"dashboard", "monitors"} /\ ~Cached(store) =>
        \E x \in net' : /\ x.op = "list" /\ x.what = "monitors" /\ x.by = "store"
  BY <1>3, ShowAwaits
<1>6. ASSUME NEW x \in About(i)' PROVE ~Took(x) /\ ~Optimistic(x)'
  <2>1. x \in net' /\ i \in Touched(x)
    BY <1>6 DEF About
  <2>2. CASE Opens(x, rt, store, as)
    BY <2>2 DEF Opens, Took, Optimistic
  <2>3. CASE x \in n
    BY <2>1, <2>3 DEF Took, Optimistic
  <2>4. ASSUME NEW y \in n, y.by = "page", x = [y EXCEPT !.by = "gone"] PROVE FALSE
    <3>1. DOMAIN y = RequestFields
      BY DEF Told, NetRow
    <3>2. x.op = y.op /\ x.what = y.what
      BY <2>4, <3>1 DEF RequestFields
    <3>3. i \in Touched(y)
      BY <2>1, <3>2, SameTouched
    <3> QED
      BY <2>4, <3>3
  <2>5. ASSUME x \in Left(n, stays) PROVE x \in n
    <3>1. \/ x \in n
          \/ \E y \in n : y.by = "page" /\ x = [y EXCEPT !.by = "gone"]
      BY <2>5, LeftAre
    <3> QED
      BY <2>4, <3>1
  <2> QED
    BY <1>4, <2>1, <2>2, <2>3, <2>5
<1>7. ASSUME NEW x \in About(i)' PROVE Tells(x, i)'
  BY <1>6, <1>7 DEF Tells, Took
<1>8. ASSUME Settled(i)', Kind[i] = "monitors", s.fresh \/ rt \in {"dashboard", "monitors"}
      PROVE  FALSE
  <2>1. ~s.fresh
    BY <1>2, <1>8
  <2>2. rt \in {"dashboard", "monitors"} /\ ~Cached(store)
    BY <1>8, <2>1 DEF Cached
  <2>3. PICK x \in net' : x.op = "list" /\ x.what = "monitors"
    BY <1>5, <2>2
  <2>4. x \in About(i)'
    BY <1>8, <2>3 DEF About, Touched, Of
  <2> QED
    BY <1>8, <2>3, <2>4 DEF Settled
<1>9. ASSUME Kind[i] = KindOf(rt), v.loaded PROVE Fits(v.list, i)'
  <2>1. rt = "settings"
    BY <1>2, <1>9 DEF Fresh
  <2>2. Kind[i] = "prefs"
    BY <1>9, <2>1 DEF KindOf
  <2>3. v.list = u.prefs
    BY <1>2, <2>1 DEF Fresh
  <2> QED
    BY <2>2, <2>3 DEF Fits
<1>10. Placed(i)'
  BY <1>1, <1>2, <1>8, <1>9 DEF Placed, Fits
<1> QED
  BY <1>7, <1>10 DEF ItemInv

\* The answer for the session when there was none, or not.
LEMMA SessionBegins ==
  ASSUME DocInv', NEW r, r.op \in {"profile", "login"}, SessionAfter(r), ~signedIn, signedIn'
  PROVE  /\ r.ok /\ me' \in UserDocs /\ me' # None
         /\ r.op = "profile" => cookie' = cookie
<1>1. r.ok /\ (r.op = "profile" => cookie' = cookie)
  BY DEF SessionAfter
<1>2. me' \in UserDocs
  BY DEF DocInv
<1> QED
  BY <1>1, <1>2, ClientAssumption

\* The first answer: the page that was asked for is shown, or the login page.
LEMMA FirstProfileLists ==
  ASSUME FlagInv, DocInv, DocInv', NetInv, StrangerInv, StrangerInv', NEW q \in net, NEW r,
         Hears(q, r), Heard(r), SettleFirstProfile(r)
  PROVE  ListInv'
<1>1. /\ r.op = "profile" /\ SessionAfter(r) /\ server' = server
      /\ ~signedIn /\ Done(net, r) = {}
  BY DEF SettleFirstProfile, Heard, StrangerInv, ShownInv
<1>2. PICK p : p = Request("profile", None, "session", cookie)
  OBVIOUS
<1>3. NetRow(p) /\ DOMAIN p = RequestFields /\ p.by = "session" /\ p.stage = "sent"
  BY <1>2 DEF Request, RequestFields, NetRow
<1>4. PICK n, m : m = {} /\ n = Post(m, p)
  OBVIOUS
<1>5. Told(n)
  <2>1. m = Done(net, r) /\ Told(m)
    BY <1>1, <1>4, HearsRow, DoneLess
  <2> QED
    BY <1>3, <1>4, <2>1, ToldOne DEF Post
<1>6. \A x \in n : x.by = "session" /\ ~Took(x)
  <2>1. n = m \cup {[<<p>>[k] EXCEPT !.tag = FreeTag(m, k)] : k \in {1}}
    BY <1>4 DEF Post, PostAll
  <2>2. \A x \in n : \E t : x = [p EXCEPT !.tag = t]
    BY <1>4, <2>1
  <2> QED
    BY <1>3, <2>2 DEF RequestFields, Took
<1>7. PICK rt, s : Show(rt, s, store, n, conn, me', cookie, {}, FALSE)
  BY <1>1, <1>2, <1>4 DEF SettleFirstProfile
<1>8. messy \subseteq messy'
  BY <1>7 DEF Show, Send
<1> SUFFICES ASSUME NEW i \in Item, Own(i)' PROVE ItemInv(i)'
  BY DEF ListInv
<1>9. i \notin messy /\ signedIn' /\ DOMAIN store = {"list", "fresh", "loading"}
  BY <1>8 DEF Own, StrangerInv, ShownInv
<1>10. PICK u : u = me' /\ u # None
  BY <1>1, <1>9, SessionBegins
<1>11. Kind[i] = "prefs" => Fits(me.prefs, i)'
  BY <1>1, <1>9, SessionBegins, SessionDoc
<1>12. Kind[i] = "monitors" => ~store.fresh
  BY <1>1, <1>9 DEF FlagInv, StoreFlags, Of
<1>13. Show(rt, s, store, n, conn, u, cookie, {}, FALSE)
  BY <1>7, <1>10
<1> QED
  BY <1>5, <1>6, <1>9, <1>10, <1>11, <1>12, <1>13, StartLists

\* The second answer, or that of a sign-in, while there is a session.
LEMMA ProfileLists ==
  ASSUME ListInv, DocInv, DocInv', NetInv, StrangerInv, StrangerInv', PanelInv,
         NEW q \in net, NEW r, Hears(q, r), Heard(r), SettleSignIn(r), signedIn
  PROVE  ListInv'
<1>1. /\ r.op \in {"profile", "login"} /\ ~initializing /\ SessionAfter(r) /\ server' = server
      /\ route # "login"
  BY DEF SettleSignIn, StrangerInv, ShownInv
<1>2. PICK n : n = Done(net, r)
  OBVIOUS
<1>3. /\ Send(n, <<>>, IF r.op = "login" THEN Item ELSE {})
      /\ UNCHANGED <<store, route>>
      /\ view' = IF route \in Open THEN [view EXCEPT !.saving = FALSE]
                 ELSE IF r.ok THEN WithUser(me') ELSE view
  BY <1>1, <1>2 DEF SettleSignIn
<1>4. /\ net' = n /\ messy \subseteq messy'
      /\ r.op = "login" => Item \subseteq messy'
  BY <1>3, NoneAdds
<1>5. Onward(n)
  BY <1>4 DEF Onward
<1> SUFFICES ASSUME NEW i \in Item, Own(i)' PROVE ItemInv(i)'
  BY DEF ListInv
<1>6. i \notin messy' /\ i \notin messy /\ r.op = "profile"
  BY <1>1, <1>4 DEF Own
<1>7. /\ cookie' = cookie
      /\ me' = IF r.ok THEN r.data ELSE me
  BY <1>1, <1>6 DEF SessionAfter
<1>8. /\ view'.loaded = view.loaded
      /\ view'.list = IF r.ok /\ route = "settings" THEN me'.prefs ELSE view.list
  BY <1>3 DEF WithUser, Open, PanelInv, ViewFields
<1>9. Own(i) /\ ItemInv(i)
  BY <1>6, <1>7 DEF Own, ListInv
<1>10. Touched(r) = Of("prefs")
  BY <1>6 DEF Touched
<1>11. \A l : Fits(l, i)' <=> Fits(l, i)
  BY <1>1 DEF Fits
<1>12. CASE i \notin Touched(r)
  <2>1. Kind[i] # "prefs"
    BY <1>10, <1>12 DEF Of
  <2>2. Kind[i] = KindOf(route) => view'.list = view.list
    BY <1>8, <2>1 DEF KindOf
  <2> QED
    BY <1>1, <1>2, <1>3, <1>5, <1>6, <1>8, <1>9, <1>12, <2>1, <2>2, SameLook, HeardElsewhere
<1>13. CASE i \in Touched(r)
  <2>1. /\ About(i) = {q} /\ Kind[i] = "prefs"
        /\ \A x \in About(i)' : x.op = "list" /\ x.stage = "sent"
    BY <1>2, <1>5, <1>9, <1>10, <1>13, HeardAlone DEF Of
  <2>2. KindOf(route) = "prefs" => route = "settings"
    BY DEF KindOf, PageKind
  <2>3. CASE r.ok
    <3>1. Fits(me.prefs, i)'
      BY <1>1, <1>6, <2>1, <2>3, SessionDoc
    <3>2. Placed(i)'
      BY <1>3, <1>8, <2>1, <2>2, <2>3, <3>1 DEF Placed, Fits
    <3> QED
      BY <2>1, <3>2, ListedAfter
  <2>4. CASE ~r.ok
    <3>1. q.op = "profile" /\ DocRow(q)
      BY <1>6, HearsRow DEF DocInv
    <3>2. Settled(i) /\ \A x \in About(i) : ~Optimistic(x)
      BY <2>1, <3>1 DEF Settled, Optimistic, Took, DocRow, AtOnce
    <3>3. Placed(i)'
      BY <1>3, <1>7, <1>8, <1>9, <1>11, <2>1, <2>4, <3>2 DEF Placed, ItemInv
    <3> QED
      BY <2>1, <3>3, ListedAfter
  <2> QED
    BY <2>3, <2>4
<1> QED
  BY <1>12, <1>13

\* The same while there is none yet: the page stays, or the dashboard is shown.
LEMMA LoginLists ==
  ASSUME FlagInv, DocInv, DocInv', NetInv, StrangerInv, StrangerInv', RoomInv,
         NEW q \in net, NEW r, Hears(q, r), Heard(r), SettleSignIn(r), ~signedIn
  PROVE  ListInv'
<1>1. /\ r.op \in {"profile", "login"} /\ ~initializing /\ SessionAfter(r) /\ server' = server
  BY DEF SettleSignIn
<1>2. PICK n : n = Done(net, r)
  OBVIOUS
<1>3. n \in SUBSET net /\ Told(n)
  BY <1>2, HearsRow, DoneLess
<1>4. messy \subseteq messy'
  BY DEF SettleSignIn, Show, Send
<1> SUFFICES ASSUME NEW i \in Item, Own(i)' PROVE ItemInv(i)'
  BY DEF ListInv
<1>5. i \notin messy /\ signedIn' /\ DOMAIN store = {"list", "fresh", "loading"}
  BY <1>4 DEF Own, StrangerInv, ShownInv
<1>6. PICK u : u = me' /\ u # None
  BY <1>1, <1>5, SessionBegins
<1>7. Kind[i] = "prefs" => Fits(me.prefs, i)'
  BY <1>1, <1>5, SessionBegins, SessionDoc
<1>8. Kind[i] = "monitors" => ~store.fresh
  BY <1>5 DEF FlagInv, StoreFlags, Of
<1>9. \A x \in net : i \in Touched(x) => x.by = "session" /\ ~Took(x)
  BY <1>5, OnlySession
<1>10. CASE route = "login"
  <2>1. PICK s, as : Show("dashboard", s, store, n, conn, u, as, {}, FALSE)
    BY <1>2, <1>5, <1>6, <1>10 DEF SettleSignIn
  <2> QED
    BY <1>3, <1>5, <1>6, <1>7, <1>8, <1>9, <2>1, StartLists
<1>11. CASE route # "login"
  <2>1. Send(n, <<>>, {}) /\ UNCHANGED <<store, route>>
    BY <1>2, <1>11 DEF SettleSignIn
  <2>2. net' = n
    BY <2>1, NoneAdds
  <2>3. ASSUME NEW x \in About(i)' PROVE Tells(x, i)'
    <3>1. x.by = "session" /\ ~Took(x)
      BY <1>3, <1>9, <2>2 DEF About
    <3> QED
      BY <3>1 DEF Tells, Took, Optimistic
  <2>4. route \notin Protected
    BY <1>1 DEF RoomInv
  <2>5. /\ route \notin {"dashboard", "monitors", "settings"}
        /\ route \notin DOMAIN PageKind
    BY <2>4 DEF Protected
  <2>6. KindOf(route) = "none"
    BY <2>5 DEF KindOf
  <2>7. Kind[i] # "none"
    BY ClientAssumption
  <2>8. Placed(i)'
    BY <1>7, <1>8, <2>1, <2>5, <2>6, <2>7 DEF Placed
  <2> QED
    BY <2>3, <2>8 DEF ItemInv
<1> QED
  BY <1>10, <1>11

\* Every answer.
LEMMA AnswerLists ==
  ASSUME ListInv, FlagInv, DocInv, DocInv', NetInv, StrangerInv, StrangerInv', RoomInv,
         PanelInv, NEW q \in net, NEW r, Hears(q, r), Heard(r), SettleAnswered(r)
  PROVE  ListInv'
<1>1. CASE SettleStore(r)
  BY <1>1, StoreAnswerLists
<1>2. CASE SettleBell(r)
  BY <1>2, BellAnswerLists
<1>3. CASE SettlePage(r)
  BY <1>3, PageAnswerLists
<1>4. CASE SettleGone(r)
  BY <1>4, GoneAnswerLists
<1>5. CASE SettleFirstProfile(r)
  BY <1>5, FirstProfileLists
<1>6. CASE SettleSignIn(r)
  BY <1>6, ProfileLists, LoginLists
<1>7. CASE SettleLogout(r)
  <2>1. ~signedIn'
    BY <1>7 DEF SettleLogout, SessionAfter
  <2> QED
    BY <2>1 DEF ListInv, Own
<1> QED
  BY <1>1, <1>2, <1>3, <1>4, <1>5, <1>6, <1>7 DEF SettleAnswered

\* Every step.
LEMMA ListStep ==
  ListInv /\ FlagInv /\ DocInv /\ DocInv' /\ NetInv /\ StrangerInv /\ StrangerInv' /\ RoomInv
      /\ PanelInv /\ [Next]_vars
    => ListInv'
<1> SUFFICES ASSUME ListInv, FlagInv, DocInv, DocInv', NetInv, StrangerInv, StrangerInv', RoomInv,
                    PanelInv, [Next]_vars
             PROVE  ListInv'
  OBVIOUS
<1>1. ASSUME NEW q \in net, Settle(q) PROVE ListInv'
  <2>1. PICK r : Hears(q, r) /\ SettleAnswered(r)
    BY <1>1 DEF Settle, Hears
  <2>2. Heard(r)
    BY <2>1, SettledIsHeard DEF Hears
  <2> QED
    BY <2>1, <2>2, AnswerLists
<1>2. CASE OfUser
  BY <1>2, SignInLists, LinksLists, PageActsLists DEF OfUser
<1>3. CASE OfNet
  BY <1>3, NetLists
<1>4. CASE OfSocket \/ OnShell
  BY <1>4, ShellLists
<1>5. ASSUME UNCHANGED <<server, cookie, me, signedIn, net, messy, route, view>>,
             store'.list = store.list, store'.fresh => store.fresh
      PROVE  ListInv'
  BY <1>5, OnwardLists DEF Onward
<1>6. CASE GrowStale /\ UNCHANGED <<socketVars, initializing, route, view>>
  <2>1. /\ UNCHANGED <<server, cookie, me, signedIn, net, messy, route, view>>
        /\ store' = [store EXCEPT !.fresh = FALSE] /\ DOMAIN store = {"list", "fresh", "loading"}
    BY <1>6 DEF GrowStale, StrangerInv, ShownInv
  <2>2. store'.fresh = FALSE /\ store'.list = store.list
    BY <2>1
  <2> QED
    BY <1>5, <2>1, <2>2
<1>7. CASE UNCHANGED vars
  BY <1>5, <1>7 DEF vars, dataVars, pageVars
<1> QED
  BY <1>1, <1>2, <1>3, <1>4, <1>6, <1>7 DEF Next

\* A tab is opened: there is no session.
LEMMA ListInit == Init => ListInv
BY DEF Init, DataInit, ListInv, Own

\* What the tab knows of an undisturbed item of the session is what the server has: what is
\* on its way says so, and when nothing is, the lists do.
THEOREM ListInvariant == Spec => []ListInv
<1>1. ListInv /\ FlagInv /\ DocInv /\ DocInv' /\ NetInv /\ StrangerInv /\ StrangerInv' /\ RoomInv
        /\ PanelInv /\ [Next]_vars => ListInv'
  BY ListStep
<1> QED
  BY <1>1, ListInit, FlagInvariant, DocInvariant, NetInvariant, StrangerInvariant, RoomInvariant,
     PanelInvariant, PTL DEF Spec

\* At rest the pages of monitors, channels, status pages and preferences show what the
\* server has (handleGetMonitors, onToggle, onTogglePref, load and their answers), whatever
\* overtook what, for every item whose requests did not overlap or get lost.
THEOREM ListsShowTheServer == Spec => []ListsSettle
<1>1. ListInv /\ FlagInv /\ StrangerInv => ListsSettle
  BY ListsMean
<1> QED
  BY <1>1, ListInvariant, FlagInvariant, StrangerInvariant, PTL

\* "No monitors yet" and its like are not said to an owner who has some, unless a request
\* failed or was overtaken.
THEOREM NothingIsSaidOfNothing == Spec => []NothingMeansNothing
<1>1. ListInv /\ FlagInv /\ StrangerInv => NothingMeansNothing
  BY NothingMeans
<1> QED
  BY <1>1, ListInvariant, FlagInvariant, StrangerInvariant, PTL
=============================================================================
