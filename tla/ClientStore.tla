----------------------------- MODULE ClientStore -----------------------------
(***************************************************************************)
(* The data layer of one browser tab, and the API behind it: the requests  *)
(* under way (apiRequest and the service modules), the redux store with    *)
(* the hooks that fill it, and the session (authSlice, useAuth).           *)
(*                                                                         *)
(* A document is an item of a kind, absent or with one switch on or off: a *)
(* channel's `active`, a page's `isPublic`, a preference.  A request is    *)
(* handled by the server at one time and its answer reaches the tab at a   *)
(* later one; requests overtake each other at both.                        *)
(***************************************************************************)
EXTENDS Integers, FiniteSets, Sequences

CONSTANTS User, Item,
          Kind,       \* of each item: monitors, channels, pages, prefs, incidents
          Owner,      \* of each item
          Existing,   \* the items there are when the tab is opened
          None,
          MaxUpsets   \* bound: failures and lost connections

\* The shape of user documents, for any user and any of the preferences.
UserDocs ==
  [id : User, prefs : UNION {[P -> {"on", "off"}] : P \in SUBSET {i \in Item : Kind[i] = "prefs"}}]

ASSUME ClientAssumption ==
  /\ Kind \in [Item -> {"monitors", "channels", "pages", "prefs", "incidents"}]
  /\ Owner \in [Item -> User]
  /\ Existing \subseteq Item /\ {i \in Item : Kind[i] = "prefs"} \subseteq Existing
  /\ None \notin User \union Item \union UserDocs
  /\ {"loading", "error", "spinner", "nothing yet"} \intersect Item = {}
  /\ MaxUpsets \in Nat

VARIABLES server,    \* of each item: "absent", "on" or "off"
          cookie,    \* the user of the auth cookie, None without one
          me,        \* auth.user: [id, prefs], None without one
          signedIn,  \* auth.isAuthenticated
          store,     \* the monitor slice: list, fresh (lastFetched), loading
          net,       \* the requests under way
          upsets,    \* how many upsets there have been
          messy      \* history: items whose requests overlapped, were lost, or
                     \* were under way when the store was wiped

dataVars == <<server, cookie, me, signedIn, store, net, upsets, messy>>

Of(kind) == {i \in Item : Kind[i] = kind}
Mine(kind, user) == {i \in Of(kind) : Owner[i] = user /\ server[i] # "absent"}

\* What the API answers for a kind: the user's documents.
Documents(kind, user) == [i \in Mine(kind, user) |-> server[i]]

UserDoc(user) == [id |-> user, prefs |-> Documents("prefs", user)]

EmptyStore == [list |-> <<>>, fresh |-> FALSE, loading |-> FALSE]

Put(list, item, value) ==
  [i \in DOMAIN list \union {item} |-> IF i = item THEN value ELSE list[i]]
Without(list, item) == [i \in DOMAIN list \ {item} |-> list[i]]

Upset == upsets < MaxUpsets /\ upsets' = upsets + 1

------------------------------------------------------------------------------
(* Requests *)

\* The requests whose handling makes no difference until they are answered.
AtOnce == {"profile", "login", "logout", "panel", "test"}

\* A request by the store's hooks, by the page shown, by the navbar or for the
\* session; the cookie goes with it when it is sent.
Request(op, what, by, as) ==
  [op |-> op, what |-> what, by |-> by, as |-> as, value |-> "on", old |-> None,
   stage |-> "sent", ok |-> TRUE, data |-> None, tag |-> 0]

\* The items an answer to the request may change or show.
Touched(r) ==
  CASE r.op \in {"list"}                    -> Of(r.what)
    [] r.op \in {"create", "delete", "set"} -> IF Kind[r.what] = "prefs" THEN Of("prefs")
                                               ELSE {r.what}
    [] r.op \in {"profile", "login"}         -> Of("prefs")
    [] OTHER                                -> {}

\* Two lists for two places do not disturb each other.
Disturbed(r, n) ==
  UNION {Touched(r) \intersect Touched(x) :
           x \in {x \in n : ~(x.op = "list" /\ r.op = "list" /\ x.by # r.by)}}

\* The k-th lowest tag that none of the requests has.
FreeTag(n, k) ==
  CHOOSE t \in 1..(Cardinality(n) + k) :
    /\ \A x \in n : x.tag # t
    /\ Cardinality({u \in 1..t : \A x \in n : x.tag # u}) = k

\* The requests with some more, told apart by a tag, and with one less.
PostAll(n, requests) ==
  n \union {[requests[k] EXCEPT !.tag = FreeTag(n, k)] : k \in DOMAIN requests}

Post(n, r) == PostAll(n, <<r>>)

Done(n, r) == {x \in n : x.tag # r.tag}

DisturbedAll(n, requests) ==
  UNION {Disturbed(requests[k], PostAll(n, SubSeq(requests, 1, k - 1))) :
           k \in DOMAIN requests}

\* Requests are sent: net' and messy' when the requests before were n, and
\* the items in `late` have been disturbed by other means.
Send(n, requests, late) ==
  /\ net' = PostAll(n, requests)
  /\ messy' = messy \union late \union DisturbedAll(n, requests)

\* May the server do it?  Lists answer with what there is; a public page needs no
\* session; the rest is limited to the owner's documents (see Tenant).
Granted(r) ==
  CASE r.op = "login"  -> TRUE
    [] r.op = "logout" -> r.as # None
    [] r.op = "panel" /\ Kind[r.what] = "pages" -> server[r.what] = "on"
    [] r.op = "create" -> r.as = Owner[r.what] /\ server[r.what] = "absent"
    [] r.op \in {"set", "delete", "test"} \/ (r.op = "panel" /\ Kind[r.what] # "pages") ->
         r.as = Owner[r.what] /\ server[r.what] # "absent"
    [] OTHER -> r.as # None

Changed(r) ==
  IF ~Granted(r) THEN server
  ELSE CASE r.op = "create" -> [server EXCEPT ![r.what] = "on"]
         [] r.op = "set"    -> [server EXCEPT ![r.what] = r.value]
         [] r.op = "delete" -> [server EXCEPT ![r.what] = "absent"]
         [] OTHER           -> server

\* The answer; a preference is answered with the whole user document.
Answer(r) ==
  IF ~Granted(r) THEN None
  ELSE CASE r.op = "list"    -> Documents(r.what, r.as)
         [] r.op = "profile" -> UserDoc(r.as)
         [] r.op = "login"   -> UserDoc(r.what)
         [] r.op = "set" /\ Kind[r.what] = "prefs" ->
              [id |-> r.as, prefs |-> Put(Documents("prefs", r.as), r.what, r.value)]
         [] OTHER            -> None

Answered(r) == [r EXCEPT !.stage = "answered", !.ok = Granted(r), !.data = Answer(r)]

Serve(r) ==
  /\ r.stage = "sent" /\ r.op \notin AtOnce
  /\ server' = Changed(r)
  /\ net' = (net \ {r}) \union {Answered(r)}
  /\ UNCHANGED <<cookie, me, signedIn, store, upsets, messy>>

\* The answer does not come within apiRequest's timeout: the request was never
\* handled, or it was, or it will be.
Lose(r) ==
  LET failed == [r EXCEPT !.stage = "answered", !.ok = FALSE, !.data = None]
  IN  /\ r.ok /\ r.by # "gone" /\ Upset
      /\ \/ /\ r.stage = "sent"
            /\ net' = (net \ {r}) \union {failed}
            /\ UNCHANGED messy
         \/ /\ r.stage = "answered"
            /\ net' = (net \ {r}) \union {failed}
            /\ messy' = messy \union Touched(r)
         \/ /\ r.stage = "sent" /\ r.op \in {"create", "set", "delete"}
            /\ net' = Post((net \ {r}) \union {failed}, [r EXCEPT !.by = "gone"])
            /\ messy' = messy \union Touched(r)
      /\ UNCHANGED <<server, cookie, me, signedIn, store>>

\* An item the list request failed to bring is not expected to be shown.
Missed(r) == IF r.op = "list" /\ ~r.ok THEN Touched(r) ELSE {}

------------------------------------------------------------------------------
(* The store *)

\* handleGetMonitors: a list that is not empty and younger than two minutes will do.
Cached(st) == st.fresh /\ DOMAIN st.list # {}
FetchMonitors(st, as) ==
  IF Cached(st) THEN <<>> ELSE <<Request("list", "monitors", "store", as)>>

Loading(st, requests) ==
  IF requests = <<>> THEN st ELSE [st EXCEPT !.loading = TRUE]

\* setMonitors, addMonitor, removeMonitor, or setError; loading ends in any case.
StoreAfter(r) ==
  LET st == [store EXCEPT !.loading = FALSE]
  IN  IF ~r.ok THEN st
      ELSE CASE r.op = "list"   -> [st EXCEPT !.list = r.data, !.fresh = TRUE]
             [] r.op = "create" -> [st EXCEPT !.list = Put(@, r.what, "on")]
             [] r.op = "delete" -> [st EXCEPT !.list = Without(@, r.what)]

\* Two minutes later.
GrowStale ==
  /\ store.fresh /\ store' = [store EXCEPT !.fresh = FALSE]
  /\ UNCHANGED <<server, cookie, me, signedIn, net, upsets, messy>>

\* Faulty variant: only the auth slice is reset.
Wiped_authOnly == store

\* clearAuthState resets every slice.
Wiped == EmptyStore

\* setUser() and setAuthenticated() after an answer for the session; the cookie
\* comes with the answer too.
SessionAfter(r) ==
  CASE r.op = "logout" ->
         /\ me' = None /\ signedIn' = FALSE
         /\ cookie' = IF ~r.ok THEN cookie ELSE None
    [] r.op \in {"profile", "login"} /\ r.ok ->
         /\ me' = r.data /\ signedIn' = TRUE
         /\ cookie' = IF r.op = "login" THEN r.data.id ELSE cookie
    [] OTHER -> UNCHANGED <<me, signedIn, cookie>>

DataInit ==
  /\ server = [i \in Item |-> IF i \in Existing THEN "on" ELSE "absent"]
  /\ cookie \in User \union {None}
  /\ me = None /\ signedIn = FALSE
  /\ store = EmptyStore
  /\ net = {[Request("profile", None, "session", cookie) EXCEPT !.tag = 1]}
  /\ upsets = 0 /\ messy = {}
==============================================================================
