------------------------------- MODULE Client -------------------------------
(***************************************************************************)
(* The single-page application in one browser tab: App and the router, the *)
(* sign-in pages, the layout, and the pages with the lists they load and   *)
(* change, over the store and the requests (ClientStore) and the socket    *)
(* (ClientSocket).                                                         *)
(*                                                                         *)
(* Every page keeps its state in its component, and loses it when another  *)
(* page is shown; answers for a component that is gone change nothing, but *)
(* those for the store and for auth.user are dispatched all the same.      *)
(***************************************************************************)
EXTENDS ClientSocket

CONSTANTS Arrivals,      \* how tabs are opened: with what cookie, at which page
          MaxGestures,   \* bound: what people, timers and monitors do after loading
          MaxFlight      \* bound: requests under way when the user does something

VARIABLES initializing,  \* App: the session is being restored
          route,         \* the page shown; the page asked for, while initializing
          view,          \* the state of its component
          gestures

pageVars == <<initializing, route, view, gestures>>
vars == <<dataVars, socketVars, pageVars>>

PageKind ==
  [r \in {"incidents", "alerts", "status-pages"} |->
     CASE r = "alerts" -> "channels" [] r = "status-pages" -> "pages"
       [] OTHER -> "incidents"]

Protected == DOMAIN PageKind \union {"dashboard", "monitors", "incident", "settings"}
Open == {"login", "public"}

Gesture ==
  /\ ~initializing /\ Cardinality(net) <= MaxFlight
  /\ gestures < MaxGestures /\ gestures' = gestures + 1

------------------------------------------------------------------------------
(* Showing a page *)

\* The dashboard's subject: the one selected while it is in the list, else the
\* first of the list, which here is any.
Subjects(list, sel) ==
  IF DOMAIN list = {} THEN {None} ELSE IF sel \in DOMAIN list THEN {sel} ELSE DOMAIN list

\* Faulty variant: the spinner waits for nothing.
Loads_later(rt) == FALSE

\* The pages that have set `loading` by the time they are first seen.
Loads(rt) == rt \in {"alerts", "status-pages", "incident", "public", "incidents"}

\* The forms of the login page wait for `loading` of the auth slice, which requests for
\* the session set when they are sent and reset when any of them is answered; while no
\* layout is shown, one page hands it to the next.
AuthLoading(rt) ==
  rt \in Open /\ (initializing \/ (route \in Open /\ view.saving))

\* The state a component starts in.
Fresh(rt, subject, user) ==
  [list |-> IF rt = "settings" /\ user # None THEN user.prefs ELSE <<>>,
   loaded |-> rt = "settings",
   loading |-> Loads(rt),
   busy |-> None, saving |-> AuthLoading(rt), sel |-> subject,
   panel |-> IF subject = None THEN None ELSE "loading"]

PanelRequest(subject, as) ==
  IF subject = None THEN <<>> ELSE <<Request("panel", subject, "page", as)>>

\* What it asks for when it is mounted.
Opening(rt, subject, st, as) ==
  (IF rt \in {"dashboard", "monitors"} THEN FetchMonitors(st, as) ELSE <<>>)
    \o (IF rt \in DOMAIN PageKind THEN <<Request("list", PageKind[rt], "page", as)>> ELSE <<>>)
    \o PanelRequest(subject, as)

\* The requests that still matter when the page goes, or the layout with it: the
\* server will handle those that change something, and nobody waits for the answer.
Left(n, shellStays) ==
  {IF r.by = "page" THEN [r EXCEPT !.by = "gone"] ELSE r :
     r \in {r \in n : /\ r.by = "page" => r.op \in {"create", "set", "delete"}
                      /\ r.by = "bell" => shellStays}}

\* Page rt is shown, about subject, with the store st and the requests n so far,
\* the socket c, the user document u, the cookie as, and some more items disturbed.
Show(rt, subject, st, n, c, u, as, late, remount) ==
  LET stays    == rt \in Protected /\ ShellShown /\ ~remount
      opening  == Opening(rt, subject, st, as)
      requests == opening \o (IF rt \in Protected /\ ~stays THEN <<LoadBadge(as)>> ELSE <<>>)
      fetches  == rt \in {"dashboard", "monitors"} /\ ~Cached(st)
  IN  /\ route' = rt
      /\ view' = Fresh(rt, subject, u)
      /\ store' = IF fetches THEN [st EXCEPT !.loading = TRUE] ELSE st
      /\ Send(Left(n, stays), requests, late)
      /\ IF stays THEN /\ conn' = c
                       /\ UNCHANGED <<indicator, connectedBefore, badge, bubbles, typing, owed>>
         ELSE IF rt \in Protected THEN MountShell(c) ELSE UnmountShell(c)

\* The subjects a page may be opened with.
SubjectsOf(rt, st) ==
  CASE rt = "dashboard" -> Subjects(st.list, None)
    [] rt = "incident"  -> DOMAIN badge
    [] rt = "public"    -> Of("pages")
    [] OTHER            -> {None}

\* ProtectedRoute, Home and Login: where a page leads with this session.
Redirected(rt, in) ==
  CASE rt \in Protected /\ ~in -> "login"
    [] rt = "login" /\ in      -> "dashboard"
    [] OTHER                   -> rt

\* A link is followed.
Navigate(rt) ==
  /\ Gesture /\ rt # route /\ (signedIn \/ rt \in Open) /\ ~(signedIn /\ rt = "login")
  /\ \E s \in SubjectsOf(rt, store) :
       Show(rt, s, store, net, conn, me, cookie, {}, FALSE)
  /\ UNCHANGED <<server, cookie, me, signedIn, upsets, asked, outbox, streams, strayed,
                 initializing>>

------------------------------------------------------------------------------
(* Answers *)

\* Faulty variant: the answer for the monitor selected before is still waited for.
Withdrawn_not(n) == n

\* UptimeWindows and ResponseTimeHistory cancel the request of the monitor selected
\* before; IncidentDetail does not.
Withdrawn(n) == IF route = "dashboard" THEN {r \in n : r.op # "panel"} ELSE n

\* The view about another subject, and the request for it.
Focus(s, n, late) ==
  /\ view' = [view EXCEPT !.sel = s, !.panel = IF s = None THEN None ELSE "loading",
                          !.loading = route = "incident"]
  /\ Send(Withdrawn(n), PanelRequest(s, cookie), late)

\* An answer for a hook of the store; the dashboard keeps its selection valid.
SettleStore(r) ==
  /\ r.by = "store"
  /\ store' = StoreAfter(r)
  /\ \E s \in IF route = "dashboard" THEN Subjects(store'.list, view.sel) ELSE {view.sel} :
       IF s # view.sel THEN Focus(s, Done(net, r), Missed(r))
       ELSE /\ view' = IF r.op = "delete" /\ view.busy = r.what
                       THEN [view EXCEPT !.busy = None] ELSE view
            /\ Send(Done(net, r), <<>>, Missed(r))
  /\ UNCHANGED <<server, cookie, me, signedIn, upsets, socketVars, initializing, route,
                 gestures>>

SettleBell(r) ==
  /\ r.by = "bell"
  /\ badge' = BadgeAfter(r)
  /\ Send(Done(net, r), <<>>, Missed(r))
  /\ UNCHANGED <<server, cookie, me, signedIn, store, upsets, conn, indicator,
                 connectedBefore, chatVars, owed, strayed, pageVars>>

\* Faulty variant: the whole list goes back to what it was at the click.
Reverted_wholeList(r) == r.old

\* The switch that could not be saved: Alerts puts back that switch, Settings all
\* of them, as they were at the click.
Reverted(r) ==
  IF route = "alerts"
  THEN IF r.what \in DOMAIN view.list THEN Put(view.list, r.what, r.old[r.what]) ELSE view.list
  ELSE IF route = "settings" THEN r.old ELSE view.list

\* load(): the list is replaced, or kept when the request failed.  Alerts and StatusPages
\* also load a list they only choose from, and look at neither answer before both are
\* there: a later arrival of this one.
Loaded(r) ==
  IF ~r.ok THEN [view EXCEPT !.loading = FALSE]
  ELSE [view EXCEPT !.list = r.data, !.loaded = TRUE, !.loading = FALSE]

\* The panels of the dashboard, an incident, a public page: what was asked for, or
\* an error in its place.
PanelAfter(r) == [view EXCEPT !.panel = IF r.ok THEN r.what ELSE "error"]
DetailAfter(r) == [PanelAfter(r) EXCEPT !.loading = FALSE]
PublicAfter(r) == [PanelAfter(r) EXCEPT !.loading = FALSE]

\* The catch of onToggle; the catch and the finally of onTogglePref, whose answer is
\* the account; the finally of the form of a page.
ChannelSwitched(r) == IF r.ok THEN view ELSE [view EXCEPT !.list = Reverted(r)]
PrefSaved(r) ==
  [view EXCEPT !.busy = None, !.list = IF r.ok THEN r.data.prefs ELSE Reverted(r)]
PageSaved(r) == [view EXCEPT !.saving = FALSE]

\* Removals, and the test of a channel, give the buttons back.
Removed(r) ==
  [view EXCEPT !.busy = None, !.list = IF r.ok THEN Without(@, r.what) ELSE @]
Tested(r) == [view EXCEPT !.busy = None]

\* The page after the answer, but for a load that may follow.
ViewAfter(r) ==
  CASE r.op = "list"   -> Loaded(r)
    [] r.op = "panel"  -> (CASE route = "incident" -> DetailAfter(r)
                             [] route = "public"   -> PublicAfter(r)
                             [] OTHER              -> PanelAfter(r))
    [] r.op = "set"    -> (CASE route = "alerts"   -> ChannelSwitched(r)
                             [] route = "settings" -> PrefSaved(r)
                             [] OTHER              -> PageSaved(r))
    [] r.op = "create" -> PageSaved(r)
    [] r.op = "delete" -> Removed(r)
    [] r.op = "test"   -> Tested(r)

\* Additions, edits of a page and test dispatches end with load().
Reloads(r) ==
  /\ r.ok
  /\ r.op \in {"create", "test"} \/ (r.op = "set" /\ route = "status-pages")

SettlePage(r) ==
  /\ r.by = "page"
  /\ view' = IF Reloads(r) THEN [ViewAfter(r) EXCEPT !.loading = TRUE] ELSE ViewAfter(r)
  /\ Send(Done(net, r),
          IF Reloads(r) THEN <<Request("list", PageKind[route], "page", cookie)>> ELSE <<>>,
          Missed(r))
  /\ me' = IF r.op = "set" /\ route = "settings" /\ r.ok THEN r.data ELSE me
  /\ UNCHANGED <<server, cookie, signedIn, store, upsets, socketVars, initializing,
                 route, gestures>>

\* auth.user has changed: Settings takes its preferences.
WithUser(u) == IF route = "settings" THEN [view EXCEPT !.list = u.prefs] ELSE view

\* Nobody waits any more, but Settings dispatches setUser() all the same.
SettleGone(r) ==
  LET told == r.op = "set" /\ Kind[r.what] = "prefs" /\ r.ok
  IN  /\ r.by = "gone"
      /\ me' = IF told THEN r.data ELSE me
      /\ view' = IF told THEN WithUser(r.data) ELSE view
      /\ Send(Done(net, r), <<>>, {})
      /\ UNCHANGED <<server, cookie, signedIn, store, upsets, socketVars, initializing,
                     route, gestures>>

\* App: the first answer decides what is shown; its effect then runs once more.
SettleFirstProfile(r) ==
  /\ r.op = "profile" /\ initializing
  /\ initializing' = FALSE
  /\ SessionAfter(r)
  /\ \E s \in SubjectsOf(Redirected(route, signedIn'), store) :
       Show(Redirected(route, signedIn'), s, store,
            Post(Done(net, r), Request("profile", None, "session", cookie)),
            conn, me', cookie, {}, FALSE)
  /\ UNCHANGED <<server, upsets, asked, outbox, streams, strayed, gestures>>

\* The answer of the second run, or of a sign-in.  The login page leaves for the
\* dashboard once there is a session; it may have begun with a late profile, which
\* leaves a sign-in on top of another session.
SettleSignIn(r) ==
  /\ r.op \in {"profile", "login"} /\ ~initializing
  /\ SessionAfter(r)
  /\ IF route = "login" /\ signedIn'
     THEN \E s \in Subjects(store.list, None) :
            Show("dashboard", s, store, Done(net, r), conn, me', cookie', {}, FALSE)
     ELSE /\ view' = IF route \in Open THEN [view EXCEPT !.saving = FALSE]
                     ELSE IF r.ok THEN WithUser(me') ELSE view
          /\ Send(Done(net, r), <<>>, IF r.op = "login" /\ signedIn THEN Item ELSE {})
          /\ UNCHANGED <<store, route, conn, indicator, connectedBefore, badge, bubbles,
                         typing, owed>>
  /\ strayed' = (strayed \/ (r.op = "login" /\ signedIn))
  /\ UNCHANGED <<server, upsets, asked, outbox, streams, initializing, gestures>>

\* handleLogout: whatever the answer, the socket is dropped and the store wiped.
\* What is still under way then will be dispatched into the wiped store.
SettleLogout(r) ==
  LET n    == Done(net, r)
      late == UNION {Touched(x) : x \in n}
      c    == DisconnectSocket(conn)
  IN  /\ r.op = "logout"
      /\ SessionAfter(r)
      /\ streams' = IF c.state = "up" THEN streams ELSE <<>>
      /\ strayed' = (strayed \/ conn.state \in {"connecting", "shaking"}
                             \/ \E x \in n : x.by = "session")
      /\ IF route \in Protected
         THEN Show("login", None, Wiped, n, c, None, None, late, FALSE)
         ELSE /\ store' = Wiped /\ conn' = c
              /\ view' = [view EXCEPT !.saving = FALSE]
              /\ Send(n, <<>>, late)
              /\ UNCHANGED <<route, indicator, connectedBefore, badge, bubbles, typing,
                             owed>>
      /\ UNCHANGED <<server, upsets, asked, outbox, initializing, gestures>>

SettleAnswered(r) ==
  \/ SettleStore(r) \/ SettleBell(r) \/ SettlePage(r) \/ SettleGone(r)
  \/ SettleFirstProfile(r) \/ SettleSignIn(r) \/ SettleLogout(r)

Settle(r) ==
  \/ r.stage = "answered" /\ SettleAnswered(r)
  \/ r.stage = "sent" /\ r.op \in AtOnce /\ SettleAnswered(Answered(r))

------------------------------------------------------------------------------
(* What the user does on the pages *)

StoreUnchanged == UNCHANGED <<server, cookie, me, signedIn, upsets, socketVars,
                              initializing, route>>

\* A form of the login page is sent.
SignIn(u) ==
  /\ Gesture /\ route = "login" /\ ~view.saving
  /\ view' = [view EXCEPT !.saving = TRUE]
  /\ Send(net, <<Request("login", u, "session", cookie)>>, {})
  /\ UNCHANGED store /\ StoreUnchanged

\* The sidebar does not wait for the answer before it goes to the login page, which
\* still finds a session and goes back to a new dashboard.
LogoutClick ==
  /\ Gesture /\ route \in Protected
  /\ \E s \in Subjects(store.list, None) :
       Show("dashboard", s, store, Post(net, Request("logout", None, "session", cookie)),
            conn, me, cookie, {}, TRUE)
  /\ UNCHANGED <<server, cookie, me, signedIn, upsets, asked, outbox, streams, strayed,
                 initializing>>

\* A hand on the page: it changes the view and sends a request.
Act(request, page) ==
  /\ Gesture /\ view' = page
  /\ Send(net, <<request>>, {})
  /\ UNCHANGED store /\ StoreUnchanged

ForPage(op, i) == Request(op, i, "page", cookie)

\* The same for the hooks of the store, which set `loading` first.
ActOnStore(op, i, page) ==
  /\ Gesture /\ view' = page
  /\ Send(net, <<Request(op, i, "store", cookie)>>, {})
  /\ store' = [store EXCEPT !.loading = TRUE]
  /\ StoreUnchanged

\* The reload buttons, disabled while a list is loading.
Reload ==
  /\ route \in DOMAIN PageKind /\ ~view.loading
  /\ Act(ForPage("list", PageKind[route]), [view EXCEPT !.loading = TRUE])

RefreshMonitors ==
  /\ Gesture /\ route = "monitors" /\ ~store.loading
  /\ Send(net, FetchMonitors(store, cookie), {})
  /\ store' = Loading(store, FetchMonitors(store, cookie))
  /\ UNCHANGED view /\ StoreUnchanged

\* The timer of a public page.
Poll == route = "public" /\ ~view.loading /\ Act(ForPage("panel", view.sel), view)

\* Another monitor on the dashboard, or the link to another incident on the page of one.
Select(i) ==
  /\ Gesture /\ i # view.sel
  /\ \/ route = "dashboard" /\ i \in DOMAIN store.list
     \/ route = "incident" /\ i \in DOMAIN badge
  /\ Focus(i, net, {})
  /\ UNCHANGED store /\ StoreUnchanged

New(i) == server[i] = "absent" /\ Owner[i] = cookie

\* The forms of AddMonitoring, Alerts and StatusPages.
AddMonitor(i) ==
  /\ route = "monitors" /\ Kind[i] = "monitors" /\ New(i)
  /\ ActOnStore("create", i, view)

AddChannel(i) ==
  /\ route = "alerts" /\ Kind[i] = "channels" /\ New(i) /\ ~view.saving
  /\ Act(ForPage("create", i), [view EXCEPT !.saving = TRUE])

AddPage(i) ==
  /\ route = "status-pages" /\ Kind[i] = "pages" /\ New(i) /\ ~view.saving
  /\ Act(ForPage("create", i), [view EXCEPT !.saving = TRUE])

\* Confirmed removals, and a test dispatch: the buttons of the item are disabled.
RemoveMonitor(i) ==
  /\ route = "monitors" /\ i \in DOMAIN store.list /\ view.busy = None
  /\ ActOnStore("delete", i, [view EXCEPT !.busy = i])

RemoveChannel(i) ==
  /\ route = "alerts" /\ i \in DOMAIN view.list /\ view.busy # i
  /\ Act(ForPage("delete", i), [view EXCEPT !.busy = i])

RemovePage(i) ==
  /\ route = "status-pages" /\ i \in DOMAIN view.list /\ view.busy # i
  /\ Act(ForPage("delete", i), [view EXCEPT !.busy = i])

TestChannel(i) ==
  /\ route = "alerts" /\ i \in DOMAIN view.list /\ view.busy # i
  /\ Act(ForPage("test", i), [view EXCEPT !.busy = i])

\* A request for the other position of a switch, with the list as it is at the click.
Switch(i) ==
  [ForPage("set", i) EXCEPT !.value = IF view.list[i] = "on" THEN "off" ELSE "on",
                            !.old = view.list]

\* Channels and preferences show the new value at once; the form of a page waits.
ToggleChannel(i) ==
  /\ route = "alerts" /\ i \in DOMAIN view.list
  /\ Act(Switch(i), [view EXCEPT !.list[i] = Switch(i).value])

TogglePref(i) ==
  /\ route = "settings" /\ i \in DOMAIN view.list /\ view.busy # i
  /\ Act(Switch(i), [view EXCEPT !.list[i] = Switch(i).value, !.busy = i])

EditPage(i) ==
  /\ route = "status-pages" /\ i \in DOMAIN view.list /\ ~view.saving
  /\ Act(Switch(i), [view EXCEPT !.saving = TRUE])

------------------------------------------------------------------------------
(* What is on the screen *)

\* A page of a list: the rows it has, a spinner, or "nothing yet".
Rows(list, loading) ==
  IF DOMAIN list # {} THEN "rows" ELSE IF loading THEN "spinner" ELSE "nothing yet"

\* A page of one thing: a spinner, an error, or the thing that came.
Thing(loading) == IF loading THEN "spinner" ELSE view.panel

MonitorsScreen == Rows(store.list, store.loading)
AlertsScreen == Rows(view.list, view.loading)
PagesScreen == Rows(view.list, view.loading)
IncidentsScreen == Rows(view.list, view.loading)
DetailScreen == Thing(view.loading)
PublicScreen == Thing(view.loading)

\* The two panels about the selected monitor.  Without monitors there is no selection:
\* the first panel is left out, and what the second goes on showing is not modelled.
DashboardScreen ==
  IF DOMAIN store.list = {} THEN "nothing yet" ELSE Thing(view.panel = "loading")

Screen ==
  CASE route = "monitors"     -> MonitorsScreen
    [] route = "alerts"       -> AlertsScreen
    [] route = "status-pages" -> PagesScreen
    [] route = "incidents"    -> IncidentsScreen
    [] route = "incident"     -> DetailScreen
    [] route = "public"       -> PublicScreen
    [] route = "dashboard"    -> DashboardScreen
    [] OTHER                  -> "form"

------------------------------------------------------------------------------

Init ==
  /\ DataInit /\ SocketInit
  /\ initializing = TRUE /\ route \in {a[2] : a \in {a \in Arrivals : a[1] = cookie}}
  /\ view = Fresh("login", None, None)
  /\ gestures = 0

\* Hands on the shell of the signed-in pages, and incidents.
OnShell ==
  /\ Gesture
  /\ \/ LookAtBadge \/ Say \/ Retry("connecting") \/ Retry(indicator)
     \/ \E i \in Item : IncidentOpens(i)
  /\ UNCHANGED <<initializing, route, view>>

OfSocket ==
  /\ \/ Handshake \/ Established \/ Refused \/ Drop \/ Offline
     \/ \E id \in DOMAIN streams : Emit(id)
  /\ UNCHANGED pageVars

OfNet ==
  /\ \E r \in net : Serve(r) \/ Lose(r)
  /\ UNCHANGED <<socketVars, pageVars>>

OnPage ==
  \/ Reload \/ RefreshMonitors \/ Poll
  \/ \E i \in Item :
       \/ Select(i) \/ AddMonitor(i) \/ AddChannel(i) \/ AddPage(i)
       \/ RemoveMonitor(i) \/ RemoveChannel(i) \/ RemovePage(i) \/ TestChannel(i)
       \/ ToggleChannel(i) \/ TogglePref(i) \/ EditPage(i)

OfUser ==
  \/ LogoutClick \/ OnPage
  \/ \E rt \in (Protected \union Open) \ {route} : Navigate(rt)
  \/ \E u \in User : SignIn(u)

Next ==
  \/ OfUser \/ OnShell \/ OfSocket \/ OfNet
  \/ \E r \in net : Settle(r)
  \/ Gesture /\ GrowStale /\ UNCHANGED <<socketVars, initializing, route, view>>

Spec == Init /\ [][Next]_vars

------------------------------------------------------------------------------
(* Properties *)

\* The items an unsettled request, other than a list, is about.
Unsettled == UNION {Touched(r) : r \in {r \in net : r.op # "list"}}

\* Are lists of the kind still on their way to that place?
Awaited(kind, by) == \E r \in net : r.op = "list" /\ r.what = kind /\ r.by = by

\* At rest a list shows exactly what the server has, switch by switch, for every item
\* whose requests did not overlap and got their answers: optimistic switches, their
\* reverts, removals and reloads of some items never falsify what is shown of others.
Agrees(list, kind) ==
  \A i \in Of(kind) \ (messy \union Unsettled) :
    Owner[i] = cookie =>
      IF server[i] = "absent" THEN i \notin DOMAIN list
      ELSE i \in DOMAIN list /\ list[i] = server[i]

ListsSettle ==
  signedIn =>
    /\ (store.fresh /\ ~Awaited("monitors", "store")) => Agrees(store.list, "monitors")
    /\ (route \in {"alerts", "status-pages"} /\ view.loaded /\ ~Awaited(PageKind[route], "page"))
         => Agrees(view.list, PageKind[route])
    /\ route = "settings" => Agrees(view.list, "prefs")

\* app.store.js:16 "Wipe the WHOLE store on logout": the next account on the tab is
\* never shown the monitors of the one before, nor its profile, but for answers that
\* were under way at the logout.
NoStrangers ==
  signedIn /\ cookie # None =>
    /\ \A i \in DOMAIN store.list : Owner[i] = cookie \/ i \in messy
    /\ me.id = cookie \/ Of("prefs") \subseteq messy

\* "No monitors yet", "No status pages yet" is never said to an owner who has some; a
\* failed or overtaken request may cause it, and so may one that ends while the monitors
\* are still being fetched, since all requests of the store share one `loading`.
NothingMeansNothing ==
  signedIn /\ cookie # None /\ Screen = "nothing yet" =>
    /\ route = "monitors" =>
         \/ Mine("monitors", cookie) \subseteq messy \union Unsettled
         \/ Awaited("monitors", "store") /\ Of("monitors") \intersect messy # {}
    /\ route \in {"alerts", "status-pages"} =>
         Mine(PageKind[route], cookie) \subseteq messy \union Unsettled

\* The panels of the dashboard show the numbers of the monitor that is selected,
\* however late the answers for the ones selected before.
ShownIsSelected ==
  route = "dashboard" /\ Screen \in Item => Screen = view.sel

\* useRealtime.js:20 "every (re)connection triggers a full refetch": while the navbar
\* says it is connected, the socket is, and once the refetch is answered the incidents
\* that were open at the last reconnection are listed.
GapsAreRefetched ==
  indicator = "connected" =>
    /\ conn.state = "up"
    /\ ~Awaited("incidents", "bell") => owed \subseteq DOMAIN badge \union messy

\* The socket of a signed-in tab is in the room of its user, even after another account
\* has signed in.  Excepted, as `strayed`: a logout while a connection was being made or
\* an answer for the session was under way, and a sign-in on top of a session.
RoomIsOwn == signedIn /\ conn.state = "up" /\ ~strayed => conn.as = cookie

\* The text of an answer is made of its own chunks, in order and without gaps, however
\* many answers are streamed at once and whichever of them were cut by a lost connection;
\* a model that failed in mid-answer begins it again, once, after what it has said.
RepliesAreWhole ==
  \A id \in DOMAIN bubbles :
    \E said \in 0..Pieces :
      LET text == SubSeq(Whole(id), 1, said) \o Whole(id)
      IN  \E first, last \in DOMAIN text : bubbles[id] = SubSeq(text, first, last)
==============================================================================
