---------------------------- MODULE Account_proofs ----------------------------
(***************************************************************************)
(* What is proved of Account, for any number of browsers, addresses and    *)
(* requests under way at once: one account for each address, name and      *)
(* Google identity; handlers that do not undo each other; and reset links  *)
(* that nobody takes up once they were used, replaced or have expired.     *)
(***************************************************************************)
EXTENDS Account, SequenceTheorems, TLAPS

-----------------------------------------------------------------------------
(* The inductive invariant *)

UserFields == {"email", "username", "password", "token", "tokenLive", "verified",
               "otp", "otpLive", "google", "alerts"}
RequestFields == {"op", "stage", "id", "patch", "args"}

DocsOK ==
  /\ Len(users) \in Nat /\ users = [i \in 1..Len(users) |-> users[i]]
  /\ \A i \in Ids : DOMAIN users[i] = UserFields
  /\ issued \in Nat /\ inbox \subseteq 1..issued
  /\ \A b \in Browser : cookie[b] \in Ids \union {0}
  /\ cookie = [b \in Browser |-> cookie[b]]

\* What each handler is about to save.
Patched(r) ==
  \/ r.op = "register" /\ r.patch = [verified |-> TRUE]
  \/ r.op = "verify" /\ r.patch = [verified |-> TRUE, otp |-> None, otpLive |-> FALSE]
  \/ r.op = "forgot" /\ r.patch = [token |-> r.patch.token, tokenLive |-> TRUE]
  \/ r.op = "reset" /\ r.patch = Consume(r.args.password)
  \/ r.op = "change" /\ r.patch = [password |-> r.args.new]
  \/ r.op = "profile" /\ r.patch = [alerts |-> r.args.alerts]
  \/ r.op = "google" /\ r.patch = [google |-> r.args.sub, verified |-> TRUE]

\* The link a request of forgotPassword is storing or mailing.
Links(r) == r.op = "forgot" /\ r.stage \in {"saving", "mailing"}

SoundRequest(r) ==
  /\ DOMAIN r = RequestFields
  /\ r.op \in {"verify", "change", "profile"} => r.args.id \in Ids
  /\ r.stage = "saving" => r.id \in Ids /\ Patched(r)
  /\ r.stage = "mailing" => r.op = "forgot"
  /\ Links(r) => r.patch.token \in 1..issued
  /\ r.op = "reset" => r.args.token \in 1..issued

RequestsOK ==
  /\ request = [b \in Browser |-> request[b]]
  /\ \A b \in Browser : SoundRequest(request[b])

\* A link is stored once, by the request that made it, and until then nobody has it.
Pending(b) == request[b].op = "forgot" /\ request[b].stage = "saving"
Token(b) == request[b].patch.token

PendingOK(b) ==
  /\ Token(b) \notin spent /\ Token(b) \notin inbox
  /\ \A i \in Ids : users[i].token # Token(b)
  /\ \A c \in Browser \ {b} : Links(request[c]) => Token(c) # Token(b)
  /\ \A c \in Browser : request[c].op = "reset" => Args(c).token # Token(b)

TokensOK ==
  /\ \A i \in Ids : users[i].token \in 0..issued /\ (users[i].tokenLive => users[i].token # 0)
  /\ \A i, j \in Ids : users[i].token = users[j].token /\ users[i].token # 0 => i = j
  /\ spent \subseteq 1..issued
  /\ \A b \in Browser : Pending(b) => PendingOK(b)
  /\ \A b \in Browser : request[b].op = "reset" /\ request[b].stage = "saving" =>
       \A i \in Ids : users[i].token = Args(b).token => i = request[b].id

\* Each link issued has its count of uses.
UsesOK == issued <= MaxTokens /\ uses = [t \in 1..MaxTokens |-> uses[t]]

AccountInv ==
  DocsOK /\ RequestsOK /\ NothingOverwritten /\ OneAccountEach /\ TokensOK
    /\ DeadLinksStayDead /\ UsesOK

-----------------------------------------------------------------------------
(* Requests *)

\* A handler's own request moves on; documents are only added and links issued.
Grows == Ids \subseteq Ids' /\ issued \in Nat /\ issued' \in Nat /\ issued <= issued'

\* What a sound request relies on stays true as accounts are added and rewritten.
LEMMA OthersSound ==
  ASSUME Grows, NEW r, SoundRequest(r)
  PROVE  SoundRequest(r)'
<1>1. \A i \in Ids : i \in Ids'
  BY DEF Grows
<1>2. \A n \in 1..issued : n \in 1..issued'
  BY DEF Grows
<1>3. Patched(r)' = Patched(r) /\ Links(r)' = Links(r)
  BY DEF Patched, Links, Consume
<1> QED
  BY <1>1, <1>2, <1>3 DEF SoundRequest

\* One browser's request moves on; those of the others stay sound.
LEMMA RequestMoves ==
  ASSUME RequestsOK, Grows, NEW b \in Browser, NEW r,
         request' = [request EXCEPT ![b] = r], SoundRequest(r)'
  PROVE  RequestsOK'
<1>1. request' = [c \in Browser |-> IF c = b THEN r ELSE request[c]]
  BY DEF RequestsOK
<1>2. ASSUME NEW c \in Browser
      PROVE  SoundRequest(request[c])'
  <2>1. CASE c = b
    BY <1>1, <2>1 DEF SoundRequest
  <2>2. CASE c # b
    <3>1. PICK q : q = request[c]
      OBVIOUS
    <3>2. SoundRequest(q)'
      BY <3>1, OthersSound DEF RequestsOK
    <3>3. request'[c] = q
      BY <1>1, <2>2, <3>1
    <3> QED
      BY <3>2, <3>3 DEF SoundRequest
  <2> QED
    BY <2>1, <2>2
<1>3. request' = [c \in Browser |-> request'[c]]
  BY <1>1
<1> QED
  BY <1>2, <1>3 DEF RequestsOK

\* A request keeps the fields a handler does not set.
LEMMA MoveFields ==
  ASSUME RequestsOK, NEW b \in Browser, NEW fields, Move(b, fields)
  PROVE  \E r : /\ request' = [request EXCEPT ![b] = r]
                /\ DOMAIN r = RequestFields
                /\ \A f \in RequestFields :
                     r[f] = IF f \in DOMAIN fields THEN fields[f] ELSE request[b][f]
<1> DEFINE r == Overlay(fields, request[b])
<1>1. request' = [request EXCEPT ![b] = r]
  BY DEF Move
<1>2. DOMAIN request[b] = RequestFields
  BY DEF RequestsOK, SoundRequest
<1>3. /\ DOMAIN r = RequestFields
      /\ \A f \in RequestFields :
           r[f] = IF f \in DOMAIN fields THEN fields[f] ELSE request[b][f]
  BY <1>2 DEF Overlay
<1> QED
  BY <1>1, <1>3

\* A request that only changes its stage keeps everything else.
LEMMA StageFields ==
  ASSUME RequestsOK, NEW b \in Browser, NEW stage, Move(b, [stage |-> stage])
  PROVE  \E r : /\ request' = [request EXCEPT ![b] = r]
                /\ DOMAIN r = RequestFields
                /\ r.op = request[b].op /\ r.stage = stage /\ r.id = request[b].id
                /\ r.patch = request[b].patch /\ r.args = request[b].args
<1> DEFINE fields == [stage |-> stage]
<1>1. DOMAIN fields = {"stage"} /\ fields.stage = stage
  OBVIOUS
<1> HIDE DEF fields
<1>2. Move(b, fields)
  BY DEF fields
<1> QED
  BY <1>1, <1>2, MoveFields DEF RequestFields

\* A request about to save carries the patch and the account of its handler.
LEMMA SaveFields ==
  ASSUME RequestsOK, NEW b \in Browser, NEW id, NEW patch, WillSave(b, id, patch)
  PROVE  \E r : /\ request' = [request EXCEPT ![b] = r]
                /\ DOMAIN r = RequestFields
                /\ r.op = request[b].op /\ r.stage = "saving" /\ r.id = id
                /\ r.patch = patch /\ r.args = request[b].args
<1> DEFINE fields == [stage |-> "saving", id |-> id, patch |-> patch]
<1>1. /\ DOMAIN fields = {"stage", "id", "patch"}
      /\ fields.stage = "saving" /\ fields.id = id /\ fields.patch = patch
  OBVIOUS
<1> HIDE DEF fields
<1>2. Move(b, fields)
  BY DEF WillSave, fields
<1> QED
  BY <1>1, <1>2, MoveFields DEF RequestFields

\* A new request carries its operation and its arguments.
LEMMA AskFields ==
  ASSUME RequestsOK, NEW b \in Browser, NEW op, NEW args, Ask(b, op, args)
  PROVE  \E r : /\ request' = [request EXCEPT ![b] = r]
                /\ DOMAIN r = RequestFields
                /\ r.op = op /\ r.stage = "finding" /\ r.args = args
<1> DEFINE fields == [op |-> op, stage |-> "finding", args |-> args]
<1>1. /\ DOMAIN fields = {"op", "stage", "args"}
      /\ fields.op = op /\ fields.stage = "finding" /\ fields.args = args
  OBVIOUS
<1> HIDE DEF fields
<1>2. Move(b, fields)
  BY DEF Ask, fields
<1> QED
  BY <1>1, <1>2, MoveFields DEF RequestFields

\* A browser without a request is sound.
LEMMA NoRequestSound ==
  SoundRequest(NoRequest)
BY DEF SoundRequest, NoRequest, RequestFields, Links

\* The request is answered.
LEMMA RequestDone ==
  ASSUME RequestsOK, Grows, NEW b \in Browser, Done(b)
  PROVE  RequestsOK'
<1>1. SoundRequest(NoRequest)'
  BY DEF SoundRequest, NoRequest, RequestFields, Links
<1> QED
  BY <1>1, RequestMoves DEF Done

\* The handler goes on to another stage that saves nothing.
LEMMA RequestStaged ==
  ASSUME RequestsOK, Grows, NEW b \in Browser, NEW stage, Move(b, [stage |-> stage]),
         stage \notin {"saving", "mailing"}
  PROVE  RequestsOK'
<1>1. PICK r : /\ request' = [request EXCEPT ![b] = r] /\ DOMAIN r = RequestFields
               /\ r.op = request[b].op /\ r.stage = stage /\ r.args = request[b].args
  BY StageFields
<1>2. SoundRequest(r)'
  BY <1>1 DEF SoundRequest, Links, RequestsOK, Grows
<1> QED
  BY <1>1, <1>2, RequestMoves

\* allocateUsername: the name is kept for the creation that follows.
LEMMA RequestNamed ==
  ASSUME RequestsOK, NEW b \in Browser, AllocateUsername(b)
  PROVE  \E r : /\ request' = [request EXCEPT ![b] = r]
                /\ DOMAIN r = RequestFields
                /\ r.op = "google" /\ r.stage = "creating" /\ r.args = request[b].args
<1>1. PICK name : Move(b, [stage |-> "creating", patch |-> [username |-> name]])
  BY DEF AllocateUsername
<1> DEFINE fields == [stage |-> "creating", patch |-> [username |-> name]]
<1>2. DOMAIN fields = {"stage", "patch"} /\ fields.stage = "creating"
  OBVIOUS
<1> HIDE DEF fields
<1>3. Move(b, fields)
  BY <1>1 DEF fields
<1>4. request[b].op = "google"
  BY DEF AllocateUsername, At
<1> QED
  BY <1>2, <1>3, <1>4, MoveFields DEF RequestFields

\* It goes on to save a patch of its own.
LEMMA RequestSaves ==
  ASSUME RequestsOK, Grows, NEW b \in Browser, NEW id \in Ids', NEW patch,
         WillSave(b, id, patch),
         \A r : r.op = request[b].op /\ r.patch = patch /\ r.args = request[b].args
                 => Patched(r),
         request[b].op = "forgot" => patch.token \in 1..issued'
  PROVE  RequestsOK'
<1>1. PICK r : /\ request' = [request EXCEPT ![b] = r] /\ DOMAIN r = RequestFields
               /\ r.op = request[b].op /\ r.stage = "saving" /\ r.id = id
               /\ r.patch = patch /\ r.args = request[b].args
  BY SaveFields
<1>2. SoundRequest(r)'
  BY <1>1 DEF SoundRequest, Links, RequestsOK, Grows
<1> QED
  BY <1>1, <1>2, RequestMoves

-----------------------------------------------------------------------------
(* Documents *)

\* Appending to a sequence adds one element and keeps the others.
LEMMA AppendIs ==
  ASSUME NEW s, NEW d, Len(s) \in Nat, s = [i \in 1..Len(s) |-> s[i]]
  PROVE  Append(s, d) = [i \in 1..(Len(s) + 1) |-> IF i <= Len(s) THEN s[i] ELSE d]
<1> DEFINE S == {s[i] : i \in 1..Len(s)} \union {d}
<1>1. s \in [1..Len(s) -> S]
  OBVIOUS
<1>2. s \in Seq(S) /\ d \in S
  BY <1>1
<1> HIDE DEF S
<1>3. /\ Append(s, d) \in Seq(S) /\ Len(Append(s, d)) = Len(s) + 1
      /\ \A i \in 1..(Len(s) + 1) :
           Append(s, d)[i] = IF i <= Len(s) THEN s[i] ELSE d
  BY <1>2
<1>4. Append(s, d) \in [1..(Len(s) + 1) -> S]
  BY <1>3, LenProperties
<1> QED
  BY <1>3, <1>4

\* A new document, of a registration or a first Google sign-in, has no link yet.
LEMMA NewAccountFields ==
  ASSUME NEW b, NEW user, user = NewAccount(b)
  PROVE  DOMAIN user = UserFields /\ user.token = 0 /\ user.tokenLive = FALSE
BY DEF NewAccount, NewUser, UserFields

\* One document more, or none.
Adds(b, user) ==
  /\ user = NewAccount(b) /\ Admitted(0, user)
  /\ users' = [i \in 1..(Len(users) + 1) |-> IF i <= Len(users) THEN users[i] ELSE user]
  /\ written' = [i \in 1..(Len(users) + 1) |-> IF i <= Len(users) THEN users[i] ELSE user]
  /\ \/ Done(b) /\ cookie' = [cookie EXCEPT ![b] = Len(users) + 1]
     \/ /\ request[b].op = "register" /\ UNCHANGED cookie
        /\ WillSave(b, Len(users) + 1, [verified |-> TRUE])

\* create() of an account: a duplicate is answered with an error, else one account is
\* added and nothing else is touched.
LEMMA CreateEffect ==
  ASSUME DocsOK, NothingOverwritten, NEW b \in Browser, Create(b)
  PROVE  /\ issued' = issued /\ spent' = spent /\ inbox' = inbox
         /\ request[b].stage = "creating"
         /\ \/ UNCHANGED <<users, cookie, written>> /\ Done(b)
            \/ \E user : Adds(b, user)
<1> USE DEF Ids
<1>1. ASSUME NEW user
      PROVE  Append(users, user) =
               [i \in 1..(Len(users) + 1) |-> IF i <= Len(users) THEN users[i] ELSE user]
  BY AppendIs DEF DocsOK
<1>2. written = users
  BY DEF NothingOverwritten
<1>3. PICK user : user = NewAccount(b)
  OBVIOUS
<1> QED
  BY <1>1, <1>2, <1>3 DEF Create, Adds

\* One document rewritten, the fields of the patch alone, or none.
Rewrites(b, id, new) ==
  /\ id \in Ids /\ new = Saved(b, id) /\ Admitted(id, new)
  /\ users' = [i \in 1..Len(users) |-> IF i = id THEN new ELSE users[i]]
  /\ written' = users'
  /\ DOMAIN new = UserFields
  /\ \A f \in UserFields :
       new[f] = IF f \in DOMAIN request[b].patch THEN request[b].patch[f] ELSE users[id][f]
  /\ spent' = spent \union ((IF new.token # users[id].token THEN {users[id].token} ELSE {}) \ {0})
                    \union (IF request[b].op = "reset" THEN {Args(b).token} ELSE {})
  /\ \/ Done(b) /\ (UNCHANGED cookie \/ cookie' = [cookie EXCEPT ![b] = id])
     \/ request[b].op = "forgot" /\ Move(b, [stage |-> "mailing"]) /\ UNCHANGED cookie

\* What the handler assigned is all that its patch writes.
LEMMA AssignedIsPatch ==
  ASSUME NEW b \in Browser, Patched(request[b]), NEW d, DOMAIN d = UserFields
  PROVE  Overlay(Assigned(b), d) = Overlay(request[b].patch, d)
<1>1. /\ DOMAIN Assigned(b) = DOMAIN request[b].patch
      /\ \A f \in DOMAIN request[b].patch : Assigned(b)[f] = request[b].patch[f]
  BY DEF Patched, Assigned, Consume
<1> QED
  BY <1>1 DEF Overlay

\* save(): the account is rewritten as the handler patched it, or nothing is written; the
\* request is answered either way.
LEMMA SaveEffect ==
  ASSUME DocsOK, RequestsOK, NothingOverwritten, NEW b \in Browser, Save(b)
  PROVE  /\ issued' = issued /\ inbox' = inbox
         /\ request[b].stage = "saving" /\ Patched(request[b])
         /\ \/ UNCHANGED <<users, cookie, written, spent>> /\ Done(b)
            \/ \E new : Rewrites(b, request[b].id, new)
<1> DEFINE id == request[b].id
           new == Saved(b, id)
<1> USE DEF Ids
<1>1. request[b].stage = "saving" /\ Patched(request[b]) /\ id \in Ids
  BY DEF Save, RequestsOK, SoundRequest
<1>2. /\ DOMAIN new = UserFields
      /\ \A f \in UserFields :
           new[f] = IF f \in DOMAIN request[b].patch THEN request[b].patch[f] ELSE users[id][f]
  BY <1>1 DEF Saved, Overlay, DocsOK
<1>3. /\ issued' = issued /\ inbox' = inbox
      /\ \/ UNCHANGED <<users, cookie, written, spent>> /\ Done(b)
         \/ /\ Admitted(id, new)
            /\ users' = [users EXCEPT ![id] = new]
            /\ written' = [written EXCEPT ![id] = Overlay(Assigned(b), @)]
            /\ spent' = spent \union ((IF new.token # users[id].token THEN {users[id].token} ELSE {}) \ {0})
                    \union (IF request[b].op = "reset" THEN {Args(b).token} ELSE {})
            /\ \/ Done(b) /\ (UNCHANGED cookie \/ cookie' = [cookie EXCEPT ![b] = id])
               \/ request[b].op = "forgot" /\ Move(b, [stage |-> "mailing"]) /\ UNCHANGED cookie
  BY DEF Save
<1>4. Overlay(Assigned(b), users[id]) = new
  BY <1>1, AssignedIsPatch DEF Saved, DocsOK
<1>5. users = [i \in 1..Len(users) |-> users[i]] /\ written = users
  BY DEF DocsOK, NothingOverwritten
<1> HIDE DEF new
<1>6. CASE UNCHANGED <<users, cookie, written, spent>> /\ Done(b)
  BY <1>1, <1>3, <1>6
<1>7. CASE /\ Admitted(id, new)
           /\ users' = [users EXCEPT ![id] = new]
           /\ written' = [written EXCEPT ![id] = Overlay(Assigned(b), @)]
           /\ spent' = spent \union ((IF new.token # users[id].token THEN {users[id].token} ELSE {}) \ {0})
                    \union (IF request[b].op = "reset" THEN {Args(b).token} ELSE {})
           /\ \/ Done(b) /\ (UNCHANGED cookie \/ cookie' = [cookie EXCEPT ![b] = id])
              \/ request[b].op = "forgot" /\ Move(b, [stage |-> "mailing"]) /\ UNCHANGED cookie
  <2>1. users' = [i \in 1..Len(users) |-> IF i = id THEN new ELSE users[i]]
    BY <1>5, <1>7
  <2>2. written' = users'
    BY <1>4, <1>5, <1>7
  <2>3. new = Saved(b, id)
    BY DEF new
  <2>4. Rewrites(b, id, new)
    BY <1>1, <1>2, <1>7, <2>1, <2>2, <2>3 DEF Rewrites
  <2> QED
    BY <1>1, <1>3, <2>4
<1> QED
  BY <1>3, <1>6, <1>7

\* A link's time runs out: its account loses it, and nothing else.
LEMMA ExpireEffect ==
  ASSUME DocsOK, NothingOverwritten, NEW i \in Ids, Expire(i)
  PROVE  /\ UNCHANGED <<request, cookie, issued, inbox>>
         /\ written' = users'
         /\ \E user : /\ users' = [k \in 1..Len(users) |-> IF k = i THEN user ELSE users[k]]
                      /\ DOMAIN user = UserFields
                      /\ user.email = users[i].email /\ user.username = users[i].username
                      /\ user.google = users[i].google /\ user.token = users[i].token
                      /\ \/ user.tokenLive = users[i].tokenLive /\ spent' = spent
                         \/ ~user.tokenLive /\ users[i].tokenLive
                             /\ spent' = spent \union {users[i].token}
<1> USE DEF Ids
<1>1. users = [k \in 1..Len(users) |-> users[k]] /\ written = users
  BY DEF DocsOK, NothingOverwritten
<1>2. ASSUME NEW d, DOMAIN d = UserFields
      PROVE  /\ DOMAIN [d EXCEPT !.tokenLive = FALSE] = UserFields
             /\ [d EXCEPT !.tokenLive = FALSE].email = d.email
             /\ [d EXCEPT !.tokenLive = FALSE].username = d.username
             /\ [d EXCEPT !.tokenLive = FALSE].google = d.google
             /\ [d EXCEPT !.tokenLive = FALSE].token = d.token
             /\ [d EXCEPT !.tokenLive = FALSE].tokenLive = FALSE
             /\ DOMAIN [d EXCEPT !.otpLive = FALSE] = UserFields
             /\ [d EXCEPT !.otpLive = FALSE].email = d.email
             /\ [d EXCEPT !.otpLive = FALSE].username = d.username
             /\ [d EXCEPT !.otpLive = FALSE].google = d.google
             /\ [d EXCEPT !.otpLive = FALSE].token = d.token
             /\ [d EXCEPT !.otpLive = FALSE].tokenLive = d.tokenLive
  BY <1>2 DEF UserFields
<1>3. DOMAIN users[i] = UserFields
  BY DEF DocsOK
<1>4. CASE /\ users[i].tokenLive
           /\ users' = [users EXCEPT ![i].tokenLive = FALSE]
           /\ written' = [written EXCEPT ![i].tokenLive = FALSE]
           /\ spent' = spent \union {users[i].token}
           /\ UNCHANGED <<request, cookie, inbox, issued, made, faults, uses>>
  <2> DEFINE user == [users[i] EXCEPT !.tokenLive = FALSE]
  <2>0. /\ DOMAIN user = UserFields
        /\ user.email = users[i].email /\ user.username = users[i].username
        /\ user.google = users[i].google /\ user.token = users[i].token
        /\ user.tokenLive = FALSE
    BY <1>2, <1>3
  <2>1. users' = [k \in 1..Len(users) |-> IF k = i THEN user ELSE users[k]]
    BY <1>1, <1>4
  <2>2. written' = users'
    BY <1>1, <1>4
  <2> HIDE DEF user
  <2> QED
    BY <1>4, <2>0, <2>1, <2>2
<1>5. CASE /\ users[i].otpLive
           /\ users' = [users EXCEPT ![i].otpLive = FALSE]
           /\ written' = [written EXCEPT ![i].otpLive = FALSE]
           /\ UNCHANGED <<request, cookie, inbox, issued, made, faults, spent, uses>>
  <2> DEFINE user == [users[i] EXCEPT !.otpLive = FALSE]
  <2>0. /\ DOMAIN user = UserFields
        /\ user.email = users[i].email /\ user.username = users[i].username
        /\ user.google = users[i].google /\ user.token = users[i].token
        /\ user.tokenLive = users[i].tokenLive
    BY <1>2, <1>3
  <2>1. users' = [k \in 1..Len(users) |-> IF k = i THEN user ELSE users[k]]
    BY <1>1, <1>5
  <2>2. written' = users'
    BY <1>1, <1>5
  <2> HIDE DEF user
  <2> QED
    BY <1>5, <2>0, <2>1, <2>2
<1> QED
  BY <1>4, <1>5 DEF Expire

\* The handlers that write no document.
Looks(b) ==
  \/ RegisterFind(b) \/ Login(b) \/ Logout(b) \/ VerifyFind(b) \/ ForgotFind(b)
  \/ ResetFind(b) \/ ChangeFind(b) \/ ProfileFind(b) \/ GoogleFind(b)
  \/ GoogleByEmail(b) \/ AllocateUsername(b) \/ MailLink(b) \/ Requests(b) \/ Fail(b)

\* Every step is one that only looks, a creation, a save or an expiry.
LEMMA StepKinds ==
  ASSUME [Next]_vars
  PROVE  \/ UNCHANGED vars
         \/ \E b \in Browser : Looks(b) \/ Create(b) \/ Save(b)
         \/ \E i \in Ids : Expire(i)
BY DEF Next, Handle, Looks

\* The steps that only look change no account; at most they issue a link's number.
LEMMA LooksEffect ==
  ASSUME DocsOK, RequestsOK, NEW b \in Browser, Looks(b)
  PROVE  /\ UNCHANGED <<users, written, spent>>
         /\ issued' \in {issued, issued + 1} /\ inbox' \subseteq 1..issued
         /\ \/ UNCHANGED cookie
            \/ \E i \in Ids \union {0} : cookie' = [cookie EXCEPT ![b] = i]
<1> USE DEF Ids
<1>0. inbox \subseteq 1..issued /\ issued \in {issued, issued + 1}
  BY DEF DocsOK
<1>1. CASE Login(b)
  <2>1. UNCHANGED <<users, inbox, issued, written, spent>>
    BY <1>1 DEF Login
  <2>2. \/ UNCHANGED cookie
        \/ \E i \in Ids : cookie' = [cookie EXCEPT ![b] = i]
    BY <1>1 DEF Login, Clashing
  <2> QED
    BY <1>0, <2>1, <2>2
<1>2. CASE Logout(b)
  BY <1>0, <1>2 DEF Logout
<1>3. CASE GoogleFind(b)
  BY <1>0, <1>3 DEF GoogleFind
<1>4. CASE \/ RegisterFind(b) \/ VerifyFind(b) \/ ResetFind(b) \/ ChangeFind(b)
           \/ ProfileFind(b) \/ GoogleByEmail(b) \/ AllocateUsername(b)
  <2>1. ReadOnly
    BY <1>4 DEF RegisterFind, VerifyFind, ResetFind, ChangeFind, ProfileFind, GoogleByEmail,
                AllocateUsername
  <2> QED
    BY <1>0, <2>1 DEF ReadOnly
<1>5. CASE ForgotFind(b)
  <2>1. UNCHANGED <<users, cookie, inbox, written, spent>>
    BY <1>5 DEF ForgotFind
  <2>2. issued' = issued \/ issued' = issued + 1
    BY <1>5 DEF ForgotFind
  <2> QED
    BY <1>0, <2>1, <2>2
<1>6. CASE MailLink(b)
  <2>1. request[b].patch.token \in 1..issued
    BY <1>6 DEF MailLink, RequestsOK, SoundRequest, Links
  <2> QED
    BY <1>0, <1>6, <2>1 DEF MailLink
<1>7. CASE Requests(b) \/ Fail(b)
  <2>1. UNCHANGED <<users, cookie, inbox, issued, written, spent>>
    BY <1>7 DEF Requests, Ask, AskSignedIn, Fail
  <2> QED
    BY <1>0, <2>1
<1> QED
  BY <1>1, <1>2, <1>3, <1>4, <1>5, <1>6, <1>7 DEF Looks

\* Every step keeps the accounts apart and whole, and never takes one away.
LEMMA DocStep ==
  ASSUME DocsOK, RequestsOK, NothingOverwritten, [Next]_vars
  PROVE  DocsOK' /\ NothingOverwritten' /\ Grows
<1> USE DEF Ids
<1>1. ASSUME UNCHANGED <<users, written>>, issued' \in {issued, issued + 1},
             inbox' \subseteq 1..issued,
             \/ UNCHANGED cookie
             \/ \E b \in Browser, i \in Ids \union {0} : cookie' = [cookie EXCEPT ![b] = i]
      PROVE  DocsOK' /\ NothingOverwritten' /\ Grows
  BY <1>1 DEF DocsOK, NothingOverwritten, Grows
<1>2. CASE UNCHANGED vars
  BY <1>1, <1>2 DEF vars, DocsOK
<1>3. ASSUME NEW b \in Browser, Looks(b)
      PROVE  DocsOK' /\ NothingOverwritten' /\ Grows
  BY <1>1, <1>3, LooksEffect
<1>4. ASSUME NEW b \in Browser, NEW user, Adds(b, user), issued' = issued, inbox' = inbox
      PROVE  DocsOK' /\ NothingOverwritten' /\ Grows
  <2>1. Len(users) \in Nat /\ Ids = 1..Len(users)
    BY DEF DocsOK
  <2>2. Len(users') = Len(users) + 1 /\ Ids' = 1..(Len(users) + 1)
    BY <1>4, <2>1 DEF Adds
  <2>3. \A i \in Ids' : DOMAIN users'[i] = UserFields
    <3>1. DOMAIN user = UserFields
      BY <1>4, NewAccountFields DEF Adds
    <3> QED
      BY <1>4, <2>1, <3>1 DEF Adds, DocsOK
  <2>4. \A c \in Browser : cookie'[c] \in Ids' \union {0}
    BY <1>4, <2>1, <2>2 DEF Adds, DocsOK
  <2>5. cookie' = [c \in Browser |-> cookie'[c]]
    BY <1>4 DEF Adds, DocsOK
  <2>6. users' = [i \in 1..Len(users') |-> users'[i]]
    BY <1>4, <2>1, <2>2 DEF Adds
  <2> QED
    BY <1>4, <2>1, <2>2, <2>3, <2>4, <2>5, <2>6 DEF Adds, DocsOK, NothingOverwritten, Grows
<1>5. ASSUME NEW id \in Ids, NEW user, DOMAIN user = UserFields, issued' = issued, inbox' = inbox,
             users' = [i \in 1..Len(users) |-> IF i = id THEN user ELSE users[i]],
             written' = users',
             \/ UNCHANGED cookie
             \/ \E b \in Browser : cookie' = [cookie EXCEPT ![b] = id]
      PROVE  DocsOK' /\ NothingOverwritten' /\ Grows
  <2>1. Len(users) \in Nat /\ Ids = 1..Len(users)
    BY DEF DocsOK
  <2>2. Len(users') = Len(users) /\ Ids' = Ids
    BY <1>5, <2>1
  <2>3. \A i \in Ids' : DOMAIN users'[i] = UserFields
    BY <1>5, <2>1, <2>2 DEF DocsOK
  <2>4. \A c \in Browser : cookie'[c] \in Ids' \union {0}
    BY <1>5, <2>2 DEF DocsOK
  <2>5. cookie' = [c \in Browser |-> cookie'[c]]
    BY <1>5 DEF DocsOK
  <2>6. users' = [i \in 1..Len(users') |-> users'[i]]
    BY <1>5, <2>1, <2>2
  <2> QED
    BY <1>5, <2>1, <2>2, <2>3, <2>4, <2>5, <2>6 DEF DocsOK, NothingOverwritten, Grows
<1>6. ASSUME NEW b \in Browser, Create(b)
      PROVE  DocsOK' /\ NothingOverwritten' /\ Grows
  BY <1>1, <1>4, <1>6, CreateEffect DEF DocsOK
<1>7. ASSUME NEW b \in Browser, Save(b)
      PROVE  DocsOK' /\ NothingOverwritten' /\ Grows
  <2>1. issued' = issued /\ inbox' = inbox
    BY <1>7, SaveEffect
  <2>2. CASE UNCHANGED <<users, cookie, written>>
    BY <1>1, <2>1, <2>2 DEF DocsOK
  <2>3. CASE \E new : Rewrites(b, request[b].id, new)
    BY <1>5, <2>1, <2>3 DEF Rewrites
  <2> QED
    BY <1>7, <2>2, <2>3, SaveEffect
<1>8. ASSUME NEW i \in Ids, Expire(i)
      PROVE  DocsOK' /\ NothingOverwritten' /\ Grows
  BY <1>5, <1>8, ExpireEffect
<1> QED
  BY <1>2, <1>3, <1>6, <1>7, <1>8, StepKinds

\* Every step leaves every request sound about the accounts there then are.
LEMMA RequestStep ==
  ASSUME DocsOK, RequestsOK, NothingOverwritten, [Next]_vars
  PROVE  RequestsOK'
<1> USE DEF Ids
<1>1. Grows
  BY DocStep
<1>2. CASE UNCHANGED request
  <2>1. ASSUME NEW b \in Browser
        PROVE  SoundRequest(request[b])'
    <3>1. PICK q : q = request[b]
      OBVIOUS
    <3>2. SoundRequest(q)'
      BY <1>1, <3>1, OthersSound DEF RequestsOK
    <3> QED
      BY <1>2, <3>1, <3>2 DEF SoundRequest
  <2> QED
    BY <1>2, <2>1 DEF RequestsOK
<1>3. ASSUME NEW b \in Browser, Done(b)
      PROVE  RequestsOK'
  BY <1>1, <1>3, RequestDone
<1>4. ASSUME NEW b \in Browser, NEW stage \in {"creating", "byEmail", "naming"}, Move(b, [stage |-> stage])
      PROVE  RequestsOK'
  BY <1>1, <1>4, RequestStaged
<1>5. ASSUME NEW b \in Browser, Requests(b)
      PROVE  RequestsOK'
  <2>1. ASSUME NEW op, NEW args, Ask(b, op, args),
               op \in {"verify", "change", "profile"} => args.id \in Ids,
               op = "reset" => args.token \in inbox
        PROVE  RequestsOK'
    <3>1. PICK r : /\ request' = [request EXCEPT ![b] = r] /\ DOMAIN r = RequestFields
                   /\ r.op = op /\ r.stage = "finding" /\ r.args = args
      BY <2>1, AskFields
    <3>2. users' = users /\ issued' = issued
      BY <2>1 DEF Ask
    <3>3. SoundRequest(r)'
      BY <2>1, <3>1, <3>2 DEF SoundRequest, Links, DocsOK
    <3> QED
      BY <1>1, <3>1, <3>3, RequestMoves
  <2>2. ASSUME NEW op \in {"register", "login", "forgot", "google", "logout"}, NEW args,
               Ask(b, op, args)
        PROVE  RequestsOK'
    BY <2>1, <2>2
  <2>3. ASSUME NEW t \in inbox, NEW p, Ask(b, "reset", [token |-> t, password |-> p])
        PROVE  RequestsOK'
    BY <2>1, <2>3
  <2>4. ASSUME NEW i \in Ids, NEW otp, Ask(b, "verify", [id |-> i, otp |-> otp])
        PROVE  RequestsOK'
    BY <2>1, <2>4
  <2>5. ASSUME NEW p, NEW q,
               AskSignedIn(b, "change", [id |-> cookie[b], old |-> p, new |-> q])
        PROVE  RequestsOK'
    BY <2>1, <2>5 DEF AskSignedIn, DocsOK
  <2>6. ASSUME NEW on, AskSignedIn(b, "profile", [id |-> cookie[b], alerts |-> on])
        PROVE  RequestsOK'
    BY <2>1, <2>6 DEF AskSignedIn, DocsOK
  <2>7. CASE AskSignedIn(b, "logout", <<>>)
    BY <2>2, <2>7 DEF AskSignedIn
  <2>8. CASE \/ \E a \in Application, p \in Password :
                  Ask(b, "register", [email |-> a.email, username |-> a.username, password |-> p])
             \/ \E e \in Email \union {None}, u \in Username \union {None}, p \in Password :
                  Ask(b, "login", [email |-> e, username |-> u, password |-> p])
             \/ \E e \in Email : Ask(b, "forgot", [email |-> e])
             \/ \E g \in Identity : Ask(b, "google", g)
    BY <2>2, <2>8
  <2> QED
    BY <1>5, <2>3, <2>4, <2>5, <2>6, <2>7, <2>8 DEF Requests
<1>6. ASSUME NEW b \in Browser, NEW id \in Ids, NEW patch, WillSave(b, id, patch),
             \A r : r.op = request[b].op /\ r.patch = patch /\ r.args = request[b].args
                     => Patched(r),
             request[b].op = "forgot" => patch.token \in 1..issued'
      PROVE  RequestsOK'
  <2>1. id \in Ids'
    BY <1>1 DEF Grows
  <2> QED
    BY <1>1, <1>6, <2>1, RequestSaves
<1>7. ASSUME NEW b \in Browser,
             VerifyFind(b) \/ ChangeFind(b) \/ ProfileFind(b)
      PROVE  RequestsOK'
  <2>1. Args(b).id \in Ids /\ request[b].op \in {"verify", "change", "profile"}
    BY <1>7 DEF VerifyFind, ChangeFind, ProfileFind, At, Args, RequestsOK, SoundRequest
  <2>2. CASE VerifyFind(b) /\ ~ Done(b)
    <3> DEFINE patch == [verified |-> TRUE, otp |-> None, otpLive |-> FALSE]
    <3>1. WillSave(b, Args(b).id, patch) /\ request[b].op = "verify"
      BY <2>2 DEF VerifyFind, At
    <3>2. \A r : r.op = request[b].op /\ r.patch = patch => Patched(r)
      BY <3>1 DEF Patched
    <3> HIDE DEF patch
    <3> QED
      BY <1>6, <2>1, <3>1, <3>2
  <2>3. CASE ChangeFind(b) /\ ~ Done(b)
    <3> DEFINE patch == [password |-> Args(b).new]
    <3>1. WillSave(b, Args(b).id, patch) /\ request[b].op = "change"
      BY <2>3 DEF ChangeFind, At
    <3>2. \A r : r.op = request[b].op /\ r.patch = patch /\ r.args = request[b].args => Patched(r)
      BY <3>1 DEF Patched, Args
    <3> HIDE DEF patch
    <3> QED
      BY <1>6, <2>1, <3>1, <3>2
  <2>4. CASE ProfileFind(b)
    <3> DEFINE patch == [alerts |-> Args(b).alerts]
    <3>1. WillSave(b, Args(b).id, patch) /\ request[b].op = "profile"
      BY <2>4 DEF ProfileFind, At
    <3>2. \A r : r.op = request[b].op /\ r.patch = patch /\ r.args = request[b].args => Patched(r)
      BY <3>1 DEF Patched, Args
    <3> HIDE DEF patch
    <3> QED
      BY <1>6, <2>1, <3>1, <3>2
  <2> QED
    BY <1>3, <1>7, <2>2, <2>3, <2>4
<1>8. ASSUME NEW b \in Browser, ForgotFind(b)
      PROVE  RequestsOK'
  <2>1. CASE Done(b)
    BY <1>3, <2>1
  <2>2. CASE ~ Done(b)
    <3> DEFINE patch == [token |-> issued', tokenLive |-> TRUE]
    <3>1. PICK i \in Ids : WillSave(b, i, patch) /\ issued' = issued + 1
      BY <1>8, <2>2 DEF ForgotFind, WithEmail
    <3>2. request[b].op = "forgot" /\ patch.token \in 1..issued'
      BY <1>8, <3>1 DEF ForgotFind, At, DocsOK
    <3>3. \A r : r.op = request[b].op /\ r.patch = patch => Patched(r)
      BY <3>2 DEF Patched
    <3> HIDE DEF patch
    <3> QED
      BY <1>6, <3>1, <3>2, <3>3
  <2> QED
    BY <2>1, <2>2
<1>9. ASSUME NEW b \in Browser, ResetFind(b)
      PROVE  RequestsOK'
  <2>1. CASE ~ Done(b)
    <3> DEFINE patch == Consume(Args(b).password)
    <3>1. PICK i \in Ids : WillSave(b, i, patch)
      BY <1>9, <2>1 DEF ResetFind, Redeemable
    <3>2. request[b].op = "reset"
      BY <1>9 DEF ResetFind, At
    <3>3. \A r : r.op = request[b].op /\ r.patch = patch /\ r.args = request[b].args => Patched(r)
      BY <3>2 DEF Patched, Args
    <3> HIDE DEF patch
    <3> QED
      BY <1>6, <3>1, <3>2, <3>3
  <2> QED
    BY <1>3, <2>1
<1>10. ASSUME NEW b \in Browser, GoogleByEmail(b)
       PROVE  RequestsOK'
  <2>1. CASE WithEmail(Args(b).email) # {}
    <3> DEFINE patch == [google |-> Args(b).sub, verified |-> TRUE]
    <3>1. PICK i \in Ids : WillSave(b, i, patch)
      BY <1>10, <2>1 DEF GoogleByEmail, WithEmail
    <3>2. request[b].op = "google"
      BY <1>10 DEF GoogleByEmail, At
    <3>3. \A r : r.op = request[b].op /\ r.patch = patch /\ r.args = request[b].args => Patched(r)
      BY <3>2 DEF Patched, Args
    <3> HIDE DEF patch
    <3> QED
      BY <1>6, <3>1, <3>2, <3>3
  <2> QED
    BY <1>4, <1>10, <2>1 DEF GoogleByEmail
<1>11. ASSUME NEW b \in Browser,
              \/ RegisterFind(b) \/ Login(b) \/ Logout(b) \/ GoogleFind(b) \/ MailLink(b)
              \/ Fail(b)
       PROVE  RequestsOK'
  BY <1>3, <1>4, <1>11 DEF RegisterFind, Login, Logout, GoogleFind, MailLink, Fail
<1>12. ASSUME NEW b \in Browser, Create(b)
       PROVE  RequestsOK'
  <2>1. CASE ~ Done(b)
    <3> DEFINE patch == [verified |-> TRUE]
    <3>1. PICK user : Adds(b, user)
      BY <1>12, <2>1, CreateEffect
    <3>2. WillSave(b, Len(users) + 1, patch) /\ request[b].op = "register"
      BY <2>1, <3>1 DEF Adds
    <3>3. Len(users) + 1 \in Ids'
      BY <3>1 DEF Adds, DocsOK
    <3>4. \A r : r.op = request[b].op /\ r.patch = patch => Patched(r)
      BY <3>2 DEF Patched
    <3> HIDE DEF patch
    <3> QED
      BY <1>1, <3>2, <3>3, <3>4, RequestSaves
  <2> QED
    BY <1>3, <2>1
<1>13. ASSUME NEW b \in Browser, Save(b)
       PROVE  RequestsOK'
  <2>1. CASE ~ Done(b)
    <3>1. /\ request[b].stage = "saving"
          /\ request[b].op = "forgot" /\ Move(b, [stage |-> "mailing"])
      BY <1>13, <2>1, SaveEffect DEF Rewrites
    <3>2. PICK r : /\ request' = [request EXCEPT ![b] = r] /\ DOMAIN r = RequestFields
                   /\ r.op = "forgot" /\ r.stage = "mailing"
                   /\ r.patch = request[b].patch /\ r.args = request[b].args
      BY <3>1, StageFields
    <3>3. r.patch.token \in 1..issued'
      BY <1>1, <3>1, <3>2 DEF RequestsOK, SoundRequest, Links, Grows
    <3>4. SoundRequest(r)'
      BY <3>2, <3>3 DEF SoundRequest, Links
    <3> QED
      BY <1>1, <3>2, <3>4, RequestMoves
  <2> QED
    BY <1>3, <2>1
<1>14. ASSUME NEW i \in Ids, Expire(i)
       PROVE  RequestsOK'
  BY <1>2, <1>14, ExpireEffect
<1>15. ASSUME NEW b \in Browser, AllocateUsername(b)
       PROVE  RequestsOK'
  <2>1. PICK r : /\ request' = [request EXCEPT ![b] = r] /\ DOMAIN r = RequestFields
                 /\ r.op = "google" /\ r.stage = "creating"
    BY <1>15, RequestNamed
  <2>2. SoundRequest(r)'
    BY <2>1 DEF SoundRequest, Links
  <2> QED
    BY <1>1, <2>1, <2>2, RequestMoves
<1>16. ASSUME NEW b \in Browser, Looks(b)
       PROVE  RequestsOK'
  BY <1>5, <1>7, <1>8, <1>9, <1>10, <1>11, <1>15, <1>16 DEF Looks
<1> QED
  BY <1>2, <1>12, <1>13, <1>14, <1>16, StepKinds DEF vars

-----------------------------------------------------------------------------
(* One account each *)

\* A save and a creation pass the unique indexes; nothing else writes what they cover.
LEMMA OneAccountStep ==
  ASSUME DocsOK, RequestsOK, NothingOverwritten, OneAccountEach, [Next]_vars
  PROVE  OneAccountEach'
<1> USE DEF Ids
<1>1. CASE UNCHANGED users
  BY <1>1 DEF OneAccountEach
<1>2. ASSUME NEW b \in Browser, NEW user, Adds(b, user)
      PROVE  OneAccountEach'
  <2>1. /\ Len(users) \in Nat /\ Ids = 1..Len(users) /\ DOMAIN users' = 1..(Len(users) + 1)
        /\ \A i \in 1..(Len(users) + 1) : users'[i] = IF i <= Len(users) THEN users[i] ELSE user
    BY <1>2 DEF Adds, DocsOK
  <2>2. \A i \in Ids : /\ users[i].email # user.email /\ users[i].username # user.username
                       /\ user.google # None => users[i].google # user.google
    BY <1>2, <2>1 DEF Adds, Admitted
  <2> QED
    BY <2>1, <2>2 DEF OneAccountEach
<1>3. ASSUME NEW b \in Browser, NEW id, NEW new, Rewrites(b, id, new)
      PROVE  OneAccountEach'
  <2>1. /\ Ids = 1..Len(users) /\ DOMAIN users' = 1..Len(users)
        /\ \A i \in 1..Len(users) : users'[i] = IF i = id THEN new ELSE users[i]
    BY <1>3 DEF Rewrites, DocsOK
  <2>2. \A i \in Ids \ {id} :
           /\ users[i].email # new.email /\ users[i].username # new.username
           /\ new.google # None => users[i].google # new.google
    BY <1>3 DEF Rewrites, Admitted
  <2> QED
    BY <2>1, <2>2 DEF OneAccountEach
<1>4. ASSUME NEW i \in Ids, Expire(i)
      PROVE  OneAccountEach'
  <2>1. PICK user : /\ users' = [k \in 1..Len(users) |-> IF k = i THEN user ELSE users[k]]
                    /\ user.email = users[i].email /\ user.username = users[i].username
                    /\ user.google = users[i].google
    BY <1>4, ExpireEffect
  <2>2. Ids = 1..Len(users)
    BY DEF DocsOK
  <2> QED
    BY <2>1, <2>2 DEF OneAccountEach
<1> QED
  BY <1>1, <1>2, <1>3, <1>4, StepKinds, LooksEffect, CreateEffect, SaveEffect DEF vars

-----------------------------------------------------------------------------
(* Reset links *)

\* From q to r a request takes up no link: it stays, ends, or goes on to mail its own.
Quiet(q, r) ==
  \/ r = q
  \/ /\ r.op # "reset"
     /\ Links(r) => Links(q) /\ r.stage = "mailing" /\ r.patch = q.patch

AllQuiet == \A c \in Browser : Quiet(request[c], request'[c])

\* One document's link is kept, killed, or stored by the request that made it, and the
\* links spent by that are dead everywhere.
Relinks(id, new) ==
  /\ Ids' = Ids \union {id}
  /\ \A i \in Ids' : users'[i] = IF i = id THEN new ELSE users[i]
  /\ \/ new.token = 0 /\ ~new.tokenLive
     \/ id \in Ids /\ new.token = users[id].token /\ (new.tokenLive => users[id].tokenLive)
     \/ \E b \in Browser : Pending(b) /\ new.token = Token(b) /\ ~Pending(b)'
  /\ spent \subseteq spent' /\ spent' \subseteq 1..issued
  /\ \A t \in spent' \ spent :
       /\ \/ \E i \in Ids : users[i].token = t
          \/ \E c \in Browser : request[c].op = "reset" /\ Args(c).token = t
       /\ \A i \in Ids \ {id} : users[i].token # t
       /\ new.tokenLive => new.token # t

\* Rewriting one account's link, as save() and the expiry do, revives no dead link.
LEMMA TokensRewritten ==
  ASSUME AccountInv, issued' = issued, inbox' = inbox, AllQuiet, NEW id, NEW new, Relinks(id, new)
  PROVE  TokensOK' /\ DeadLinksStayDead'
<1>0. /\ TokensOK /\ DeadLinksStayDead /\ issued \in Nat /\ inbox \subseteq 1..issued
      /\ \A c \in Browser : Links(request[c]) => Token(c) \in 1..issued
      /\ \A c \in Browser : request[c].op = "reset" => Args(c).token # 0
      /\ issued' = issued /\ inbox' = inbox
  BY DEF AccountInv, DocsOK, RequestsOK, SoundRequest, Token, Args
<1> USE <1>0 DEF Relinks, AllQuiet
<1>1. ASSUME NEW c \in Browser, Pending(c)'
      PROVE  Pending(c) /\ request'[c] = request[c] /\ Token(c)' = Token(c)
  BY <1>1 DEF Pending, Quiet, Links, Token
<1>2. ASSUME NEW c \in Browser, Links(request'[c])
      PROVE  Links(request[c]) /\ request'[c].patch = request[c].patch
  BY <1>2 DEF Quiet
<1>3. ASSUME NEW c \in Browser, request'[c].op = "reset"
      PROVE  request'[c] = request[c]
  BY <1>3 DEF Quiet
<1>4. ASSUME NEW b \in Browser, Pending(b)
      PROVE  PendingOK(b) /\ Token(b) \in 1..issued
  BY <1>4 DEF TokensOK, Pending, Links
<1>5. /\ new.token \in 0..issued /\ (new.tokenLive => new.token # 0)
      /\ new.token # 0 => \A i \in Ids \ {id} : users[i].token # new.token
  BY <1>4 DEF TokensOK, PendingOK
<1>6. /\ \A i \in Ids' : users'[i].token \in 0..issued /\ (users'[i].tokenLive => users'[i].token # 0)
      /\ \A i, j \in Ids' : users'[i].token = users'[j].token /\ users'[i].token # 0 => i = j
  BY <1>5 DEF TokensOK
<1>7. ASSUME NEW c \in Browser, Pending(c)'
      PROVE  PendingOK(c)'
  <2>1. Pending(c) /\ Token(c)' = Token(c) /\ PendingOK(c) /\ Token(c) # 0
    BY <1>1, <1>4, <1>7
  <2>2. Token(c) \notin spent' /\ Token(c) \notin inbox'
    BY <1>7, <2>1 DEF PendingOK
  <2>3. new.token # Token(c)
    BY <1>7, <2>1, <1>1, <1>4 DEF PendingOK, Pending, Links
  <2>4. \A i \in Ids' : users'[i].token # Token(c)
    BY <2>1, <2>3 DEF PendingOK
  <2>5. \A d \in Browser \ {c} : Links(request'[d]) => Token(d)' # Token(c)
    BY <1>2, <2>1 DEF PendingOK, Token
  <2>6. \A d \in Browser : request'[d].op = "reset" => Args(d)'.token # Token(c)
    BY <1>3, <2>1 DEF PendingOK, Args
  <2> QED
    BY <2>1, <2>2, <2>4, <2>5, <2>6 DEF PendingOK, Links
<1>8. ASSUME NEW c \in Browser, request'[c].op = "reset", request'[c].stage = "saving",
             NEW i \in Ids', users'[i].token = Args(c)'.token
      PROVE  i = request'[c].id
  <2>1. request'[c] = request[c] /\ Args(c)' = Args(c)
    BY <1>3, <1>8 DEF Args
  <2>2. CASE i \in Ids /\ users[i].token = Args(c).token
    BY <1>8, <2>1, <2>2 DEF TokensOK
  <2>3. CASE ~(i \in Ids /\ users[i].token = Args(c).token)
    <3>1. i = id /\ new.token = Args(c).token /\ Args(c).token # 0
      BY <1>8, <2>1, <2>3
    <3>2. PICK b \in Browser : Pending(b) /\ new.token = Token(b)
      BY <2>3, <3>1
    <3>3. request[c].op = "reset"
      BY <1>8, <2>1
    <3>4. PendingOK(b)
      BY <1>4, <3>2
    <3>5. Args(c).token # Token(b)
      BY <3>3, <3>4 DEF PendingOK
    <3> QED
      BY <3>1, <3>2, <3>5
  <2> QED
    BY <2>2, <2>3
<1>9. TokensOK'
  BY <1>6, <1>7, <1>8 DEF TokensOK
<1>10. ASSUME NEW i \in Ids', users'[i].tokenLive
       PROVE  users'[i].token \notin spent'
  BY <1>4, <1>10 DEF DeadLinksStayDead, PendingOK
<1> QED
  BY <1>9, <1>10 DEF DeadLinksStayDead

\* A request of b moves on and no document changes: it may issue a new link, deliver
\* its own, or take up one that was delivered.
Moves(b, r) ==
  /\ request' = [request EXCEPT ![b] = r] /\ UNCHANGED <<users, spent>>
  /\ \/ issued' = issued /\ ~Links(r)
     \/ issued' = issued + 1 /\ r.op # "reset" /\ (Links(r) => r.patch.token = issued')
  /\ \/ inbox' \subseteq inbox
     \/ Links(request[b]) /\ request[b].stage = "mailing" /\ inbox' \subseteq inbox \union {Token(b)}
  /\ r.op = "reset" =>
       /\ \/ r.args.token \in inbox
          \/ request[b].op = "reset" /\ r.args.token = Args(b).token
       /\ r.stage = "saving" => \A i \in Ids : users[i].token = r.args.token => i = r.id

\* A request that only moves on revives no dead link.
LEMMA TokensMoved ==
  ASSUME DocsOK, RequestsOK, TokensOK, DeadLinksStayDead, NEW b \in Browser, NEW r, Moves(b, r)
  PROVE  TokensOK' /\ DeadLinksStayDead'
<1>1. /\ request'[b] = r
      /\ \A c \in Browser \ {b} : request'[c] = request[c]
  BY DEF Moves, RequestsOK
<1>2. /\ users' = users /\ spent' = spent /\ Ids' = Ids
      /\ issued \in Nat /\ issued' \in Nat /\ issued <= issued' /\ inbox \subseteq 1..issued
  BY DEF Moves, DocsOK, Ids
<1>3. \A c \in Browser : Links(request[c]) => Token(c) \in 1..issued
  BY DEF RequestsOK, SoundRequest, Token
<1>4. \A c \in Browser : request[c].op = "reset" => Args(c).token \in 1..issued
  BY DEF RequestsOK, SoundRequest, Args
<1>5. ASSUME NEW c \in Browser, Pending(c)', c # b
      PROVE  PendingOK(c)'
  <2>1. Pending(c) /\ Token(c)' = Token(c) /\ PendingOK(c) /\ Token(c) \in 1..issued
    BY <1>1, <1>3, <1>5 DEF Pending, Token, TokensOK, Links
  <2>2. Token(c) \notin spent' /\ \A i \in Ids' : users'[i].token # Token(c)
    BY <1>2, <2>1 DEF PendingOK
  <2>3. Token(c) \notin inbox'
    BY <1>5, <2>1 DEF PendingOK, Moves
  <2>4. Links(r) => r.patch.token # Token(c)
    BY <1>2, <2>1 DEF Moves
  <2>5. \A d \in Browser \ {c} : Links(request'[d]) => Token(d)' # Token(c)
    BY <1>1, <2>1, <2>4 DEF PendingOK, Token
  <2>6. r.op = "reset" => r.args.token # Token(c)
    BY <2>1 DEF Moves, PendingOK
  <2>7. \A d \in Browser : request'[d].op = "reset" => Args(d)'.token # Token(c)
    BY <1>1, <2>1, <2>6 DEF PendingOK, Args
  <2> QED
    BY <2>1, <2>2, <2>3, <2>5, <2>7 DEF PendingOK, Links
<1>6. ASSUME Pending(b)'
      PROVE  PendingOK(b)'
  <2>1. Links(r) /\ r.op = "forgot" /\ Token(b)' = issued + 1 /\ issued' = issued + 1
    BY <1>1, <1>6 DEF Pending, Token, Links, Moves
  <2>2. issued + 1 \notin spent' /\ \A i \in Ids' : users'[i].token # issued + 1
    BY <1>2 DEF TokensOK
  <2>3. issued + 1 \notin inbox'
    BY <1>2, <1>3 DEF Moves
  <2>4. \A d \in Browser \ {b} : Links(request'[d]) => Token(d)' # issued + 1
    BY <1>1, <1>2, <1>3 DEF Token
  <2>5. \A d \in Browser : request'[d].op = "reset" => Args(d)'.token # issued + 1
    BY <1>1, <1>2, <1>4, <2>1 DEF Args
  <2> QED
    BY <2>1, <2>2, <2>3, <2>4, <2>5 DEF PendingOK, Links
<1>7. ASSUME NEW c \in Browser, request'[c].op = "reset", request'[c].stage = "saving",
             NEW i \in Ids', users'[i].token = Args(c)'.token
      PROVE  i = request'[c].id
  BY <1>1, <1>2, <1>7 DEF TokensOK, Moves, Args
<1>8. /\ \A i \in Ids' : users'[i].token \in 0..issued' /\ (users'[i].tokenLive => users'[i].token # 0)
      /\ \A i, j \in Ids' : users'[i].token = users'[j].token /\ users'[i].token # 0 => i = j
      /\ spent' \subseteq 1..issued'
  BY <1>2 DEF TokensOK
<1>9. TokensOK'
  BY <1>5, <1>6, <1>7, <1>8 DEF TokensOK
<1> QED
  BY <1>2, <1>9 DEF DeadLinksStayDead

\* What becomes of the links when no document is written.
LEMMA LooksMoves ==
  ASSUME DocsOK, RequestsOK, TokensOK, NEW b \in Browser, Looks(b)
  PROVE  \E r : Moves(b, r)
<1> USE DEF Ids
<1>1. UNCHANGED <<users, spent>>
  BY LooksEffect
<1>2. ASSUME Done(b), issued' = issued,
             \/ inbox' \subseteq inbox
             \/ request[b].stage = "mailing" /\ inbox' \subseteq inbox \union {Token(b)}
      PROVE  Moves(b, NoRequest)
  <2>1. request[b].stage = "mailing" => Links(request[b])
    BY DEF RequestsOK, SoundRequest, Links
  <2> QED
    BY <1>1, <1>2, <2>1 DEF Moves, Done, NoRequest, Links
<1>3. ASSUME NEW stage \in {"creating", "byEmail", "naming"}, Move(b, [stage |-> stage]),
             issued' = issued, inbox' = inbox
      PROVE  \E r : Moves(b, r)
  BY <1>1, <1>3, StageFields DEF Moves, Links, Args
<1>4. ASSUME NEW id, NEW patch, WillSave(b, id, patch), request[b].op \notin {"forgot", "reset"},
             issued' = issued, inbox' = inbox
      PROVE  \E r : Moves(b, r)
  BY <1>1, <1>4, SaveFields DEF Moves, Links
<1>5. CASE ForgotFind(b)
  <2>1. CASE Done(b) /\ issued' = issued
    BY <1>2, <1>5, <2>1 DEF ForgotFind
  <2>2. CASE ~(Done(b) /\ issued' = issued)
    <3> DEFINE patch == [token |-> issued', tokenLive |-> TRUE]
    <3>1. PICK i \in Ids : WillSave(b, i, patch) /\ issued' = issued + 1
      BY <1>5, <2>2 DEF ForgotFind, WithEmail
    <3>2. patch.token = issued' /\ request[b].op = "forgot" /\ inbox' = inbox
      BY <1>5 DEF ForgotFind, At
    <3> HIDE DEF patch
    <3>3. PICK r : /\ request' = [request EXCEPT ![b] = r] /\ r.op = request[b].op
                   /\ r.stage = "saving" /\ r.patch = patch
      BY <3>1, SaveFields
    <3> QED
      BY <1>1, <3>1, <3>2, <3>3 DEF Moves, Links
  <2> QED
    BY <2>1, <2>2
<1>6. CASE ResetFind(b)
  <2>0. issued' = issued /\ inbox' = inbox /\ request[b].op = "reset"
    BY <1>6 DEF ResetFind, ReadOnly, At
  <2>1. CASE Done(b)
    BY <1>2, <2>0, <2>1
  <2>2. CASE ~ Done(b)
    <3>1. PICK i \in Redeemable(Args(b).token) : WillSave(b, i, Consume(Args(b).password))
      BY <1>6, <2>2 DEF ResetFind
    <3>2. PICK r : /\ request' = [request EXCEPT ![b] = r] /\ r.op = request[b].op
                   /\ r.stage = "saving" /\ r.id = i /\ r.args = Args(b)
      BY <3>1, SaveFields DEF Args
    <3>3. \A j \in Ids : users[j].token = r.args.token => j = i
      BY <3>1, <3>2 DEF Redeemable, TokensOK
    <3> QED
      BY <1>1, <2>0, <3>2, <3>3 DEF Moves, Links
  <2> QED
    BY <2>1, <2>2
<1>7. CASE MailLink(b)
  BY <1>2, <1>7 DEF MailLink, Token
<1>8. CASE RegisterFind(b) \/ GoogleFind(b)
  BY <1>2, <1>3, <1>8 DEF RegisterFind, GoogleFind, ReadOnly
<1>9. CASE VerifyFind(b) \/ ChangeFind(b) \/ ProfileFind(b) \/ GoogleByEmail(b)
  BY <1>2, <1>3, <1>4, <1>9 DEF VerifyFind, ChangeFind, ProfileFind, GoogleByEmail, ReadOnly, At
<1>10. CASE Login(b) \/ Logout(b) \/ Fail(b)
  BY <1>2, <1>10 DEF Login, Logout, Fail
<1>11. CASE Requests(b)
  <2>1. ASSUME NEW op, NEW args, Ask(b, op, args), op = "reset" => args.token \in inbox
        PROVE  \E r : Moves(b, r)
    <3>1. issued' = issued /\ inbox' = inbox
      BY <2>1 DEF Ask
    <3> QED
      BY <1>1, <2>1, <3>1, AskFields DEF Moves, Links
  <2> QED
    BY <1>11, <2>1 DEF Requests, AskSignedIn
<1>12. CASE AllocateUsername(b)
  BY <1>1, <1>12, RequestNamed DEF Moves, Links, AllocateUsername, ReadOnly
<1> QED
  BY <1>5, <1>6, <1>7, <1>8, <1>9, <1>10, <1>11, <1>12 DEF Looks

\* No step revives a dead link.
LEMMA TokenStep ==
  ASSUME AccountInv, [Next]_vars
  PROVE  TokensOK' /\ DeadLinksStayDead'
<1>0. /\ DocsOK /\ RequestsOK /\ NothingOverwritten /\ TokensOK /\ DeadLinksStayDead
      /\ issued \in Nat /\ inbox \subseteq 1..issued /\ Ids = 1..Len(users) /\ Len(users) \in Nat
  BY DEF AccountInv, DocsOK, Ids
<1>1. /\ \A c \in Browser : Links(request[c]) => Token(c) \in 1..issued
      /\ \A c \in Browser : request[c].op = "reset" =>
           Args(c).token \in 1..issued /\ Args(c).token # 0
  BY <1>0 DEF RequestsOK, SoundRequest, Token, Args
<1>2. ASSUME NEW b \in Browser, NEW r, request' = [request EXCEPT ![b] = r]
      PROVE  request'[b] = r /\ \A c \in Browser \ {b} : request'[c] = request[c]
  BY <1>0, <1>2 DEF RequestsOK
<1>3. ASSUME NEW b \in Browser, Done(b)
      PROVE  AllQuiet
  BY <1>2, <1>3 DEF Done, AllQuiet, Quiet, NoRequest, Links
<1>4. CASE UNCHANGED <<users, request, inbox, issued, spent>>
  BY <1>0, <1>4 DEF TokensOK, DeadLinksStayDead, PendingOK, Pending, Token, Args, Ids, Links
<1>5. ASSUME NEW b \in Browser, Looks(b)
      PROVE  TokensOK' /\ DeadLinksStayDead'
  BY <1>0, <1>5, LooksMoves, TokensMoved
<1>6. ASSUME NEW b \in Browser, Done(b), UNCHANGED <<users, inbox, issued, spent>>
      PROVE  TokensOK' /\ DeadLinksStayDead'
  <2>1. Moves(b, NoRequest)
    BY <1>6 DEF Moves, Done, NoRequest, Links
  <2> QED
    BY <1>0, <2>1, TokensMoved
<1>7. ASSUME NEW b \in Browser, NEW user, Adds(b, user),
             issued' = issued, spent' = spent, inbox' = inbox
      PROVE  TokensOK' /\ DeadLinksStayDead'
  <2> DEFINE id == Len(users) + 1
  <2>1. /\ Ids' = Ids \union {id}
        /\ \A i \in Ids' : users'[i] = IF i = id THEN user ELSE users[i]
    BY <1>0, <1>7 DEF Adds, Ids
  <2>2. user.token = 0 /\ ~user.tokenLive
    BY <1>7, NewAccountFields DEF Adds
  <2>3. AllQuiet
    <3>1. CASE Done(b)
      BY <1>3, <3>1
    <3>2. CASE ~ Done(b)
      <4>1. request[b].op = "register" /\ WillSave(b, id, [verified |-> TRUE])
        BY <1>7, <3>2 DEF Adds
      <4>2. PICK r : request' = [request EXCEPT ![b] = r] /\ r.op = "register"
        BY <1>0, <4>1, SaveFields
      <4> QED
        BY <1>2, <4>2 DEF AllQuiet, Quiet, Links
    <3> QED
      BY <3>1, <3>2
  <2> HIDE DEF id
  <2>4. spent \subseteq spent' /\ spent' \subseteq 1..issued /\ spent' \ spent = {}
    BY <1>0, <1>7 DEF TokensOK
  <2>5. Relinks(id, user)
    BY <2>1, <2>2, <2>4 DEF Relinks
  <2> QED
    BY <1>7, <2>3, <2>5, TokensRewritten
<1>8. ASSUME NEW b \in Browser, Save(b), NEW new, Rewrites(b, request[b].id, new)
      PROVE  TokensOK' /\ DeadLinksStayDead'
  <2> DEFINE id == request[b].id
             old == users[id].token
  <2>1. /\ issued' = issued /\ inbox' = inbox /\ request[b].stage = "saving"
        /\ Patched(request[b])
    BY <1>0, <1>8, SaveEffect
  <2>2. /\ id \in Ids /\ Ids' = Ids \union {id}
        /\ \A i \in Ids' : users'[i] = IF i = id THEN new ELSE users[i]
    BY <1>0, <1>8 DEF Rewrites, Ids
  <2>3. AllQuiet
    <3>1. CASE Done(b)
      BY <1>3, <3>1
    <3>2. CASE ~ Done(b)
      <4>1. request[b].op = "forgot" /\ Move(b, [stage |-> "mailing"])
        BY <1>8, <3>2 DEF Rewrites
      <4>2. PICK r : /\ request' = [request EXCEPT ![b] = r] /\ r.op = "forgot"
                     /\ r.stage = "mailing" /\ r.patch = request[b].patch
        BY <1>0, <4>1, StageFields
      <4>3. Quiet(request[b], r)
        BY <2>1, <4>1, <4>2 DEF Quiet, Links
      <4>4. Quiet(request[b], request'[b])
        BY <1>2, <4>2, <4>3
      <4>5. \A c \in Browser \ {b} : Quiet(request[c], request'[c])
        BY <1>2, <4>2 DEF Quiet
      <4> QED
        BY <4>4, <4>5 DEF AllQuiet
    <3> QED
      BY <3>1, <3>2
  <2>4. /\ new.token = IF "token" \in DOMAIN request[b].patch THEN request[b].patch.token ELSE old
        /\ new.tokenLive = IF "tokenLive" \in DOMAIN request[b].patch
                           THEN request[b].patch.tokenLive ELSE users[id].tokenLive
        /\ spent' = spent \union ((IF new.token # old THEN {old} ELSE {}) \ {0})
                         \union (IF request[b].op = "reset" THEN {Args(b).token} ELSE {})
    BY <1>8 DEF Rewrites, UserFields
  <2>5. old \in 0..issued /\ (old # 0 => \A i \in Ids \ {id} : users[i].token # old)
    BY <1>0, <2>2 DEF TokensOK
  <2>6. spent \subseteq spent'
    BY <2>4
  <2> HIDE DEF id, old
  <2>7. ASSUME request[b].op = "forgot"
        PROVE  Relinks(id, new)
    <3>1. new.token = Token(b) /\ Pending(b) /\ PendingOK(b)
      BY <1>0, <2>1, <2>4, <2>7 DEF Patched, Token, Pending, TokensOK
    <3>2. spent' = spent \union ({old} \ {0}) /\ new.token # old
      BY <2>2, <2>4, <2>7, <3>1 DEF PendingOK, old
    <3>3. spent' \subseteq 1..issued
      <4>1. spent \subseteq 1..issued /\ {old} \ {0} \subseteq 1..issued
        BY <1>0, <2>5 DEF TokensOK
      <4> QED
        BY <3>2, <4>1
    <3>4. ~Pending(b)'
      <4>1. CASE Done(b)
        <5>1. request'[b] = NoRequest
          BY <1>2, <4>1 DEF Done
        <5> QED
          BY <5>1 DEF NoRequest, Pending
      <4>2. CASE Move(b, [stage |-> "mailing"])
        <5>1. PICK r : request' = [request EXCEPT ![b] = r] /\ r.stage = "mailing"
          BY <1>0, <4>2, StageFields
        <5>2. request'[b] = r
          BY <1>2, <5>1
        <5> QED
          BY <5>1, <5>2 DEF Pending
      <4> QED
        BY <1>8, <4>1, <4>2 DEF Rewrites
    <3>5. \A t \in spent' \ spent : t = old /\ t # 0
      BY <3>2
    <3>6. \E i \in Ids : users[i].token = old
      BY <2>2 DEF old
    <3>7. \A t \in spent' \ spent :
            /\ \E i \in Ids : users[i].token = t
            /\ \A i \in Ids \ {id} : users[i].token # t
            /\ new.tokenLive => new.token # t
      BY <2>5, <3>2, <3>5, <3>6
    <3>8. \E c \in Browser : Pending(c) /\ new.token = Token(c) /\ ~Pending(c)'
      BY <3>1, <3>4
    <3> QED
      BY <2>2, <2>6, <3>3, <3>7, <3>8 DEF Relinks
  <2>8. ASSUME request[b].op = "reset"
        PROVE  Relinks(id, new)
    <3>1. new.token = 0 /\ new.tokenLive = FALSE
      BY <2>1, <2>4, <2>8 DEF Patched, Consume
    <3>2. spent' \ spent \subseteq ({old} \ {0}) \union {Args(b).token}
      BY <2>4, <2>8
    <3>3. \A i \in Ids \ {id} : users[i].token # Args(b).token
      BY <1>0, <2>1, <2>8 DEF TokensOK, id
    <3>4. spent' \subseteq 1..issued
      <4>1. spent \subseteq 1..issued /\ Args(b).token \in 1..issued
        BY <1>0, <1>1, <2>8 DEF TokensOK
      <4>2. {old} \ {0} \subseteq 1..issued
        BY <1>0, <2>5
      <4> QED
        BY <2>4, <4>1, <4>2
    <3>5. \E i \in Ids : users[i].token = old
      BY <2>2 DEF old
    <3>6. \A t \in spent' \ spent :
           /\ \/ \E i \in Ids : users[i].token = t
              \/ \E c \in Browser : request[c].op = "reset" /\ Args(c).token = t
           /\ \A i \in Ids \ {id} : users[i].token # t
      BY <2>5, <2>8, <3>2, <3>3, <3>5
    <3>7. /\ new.token = 0 /\ ~new.tokenLive
          /\ \A t \in spent' \ spent : new.tokenLive => new.token # t
      BY <3>1
    <3> QED
      BY <2>2, <2>6, <3>4, <3>6, <3>7 DEF Relinks
  <2>9. ASSUME request[b].op \notin {"forgot", "reset"}
        PROVE  Relinks(id, new)
    <3>1. new.token = old /\ new.tokenLive = users[id].tokenLive /\ spent' = spent
      BY <2>1, <2>4, <2>9 DEF Patched
    <3>2. spent' \subseteq 1..issued /\ spent' \ spent = {} /\ new.token = users[id].token
      BY <1>0, <3>1 DEF TokensOK, old
    <3>3. id \in Ids /\ new.token = users[id].token /\ (new.tokenLive => users[id].tokenLive)
      BY <2>2, <3>1, <3>2
    <3>4. \A t \in spent' \ spent :
            /\ \E i \in Ids : users[i].token = t
            /\ \A i \in Ids \ {id} : users[i].token # t
            /\ new.tokenLive => new.token # t
      BY <3>2
    <3> QED
      BY <2>2, <2>6, <3>2, <3>3, <3>4 DEF Relinks
  <2> QED
    BY <2>1, <2>3, <2>7, <2>8, <2>9, TokensRewritten
<1>9. ASSUME NEW i \in Ids, Expire(i)
      PROVE  TokensOK' /\ DeadLinksStayDead'
  <2>1. PICK user :
          /\ users' = [k \in 1..Len(users) |-> IF k = i THEN user ELSE users[k]]
          /\ user.token = users[i].token
          /\ \/ user.tokenLive = users[i].tokenLive /\ spent' = spent
             \/ ~user.tokenLive /\ users[i].tokenLive /\ spent' = spent \union {users[i].token}
    BY <1>0, <1>9, ExpireEffect
  <2>2. UNCHANGED <<request, issued, inbox>>
    BY <1>0, <1>9, ExpireEffect
  <2>3. AllQuiet
    BY <2>2 DEF Quiet, AllQuiet
  <2>4. /\ Ids' = Ids \union {i}
        /\ \A k \in Ids' : users'[k] = IF k = i THEN user ELSE users[k]
    BY <1>0, <2>1 DEF Ids
  <2>5. spent \subseteq spent' /\ spent' \subseteq 1..issued
    <3>1. spent \subseteq 1..issued /\ (users[i].tokenLive => users[i].token \in 1..issued)
      BY <1>0, <1>9 DEF TokensOK
    <3> QED
      BY <2>1, <3>1
  <2>6. \A t \in spent' \ spent : t = users[i].token /\ t # 0 /\ ~user.tokenLive
    BY <1>0, <2>1 DEF TokensOK
  <2>7. \A t \in spent' \ spent : \A k \in Ids \ {i} : users[k].token # t
    BY <1>0, <1>9, <2>6 DEF TokensOK
  <2>8. user.token = users[i].token /\ (user.tokenLive => users[i].tokenLive)
    BY <2>1
  <2>9. \A t \in spent' \ spent :
           /\ \E k \in Ids : users[k].token = t
           /\ \A k \in Ids \ {i} : users[k].token # t
           /\ user.tokenLive => user.token # t
    BY <1>9, <2>6, <2>7
  <2>10. Relinks(i, user)
    BY <1>9, <2>4, <2>5, <2>8, <2>9 DEF Relinks
  <2> QED
    BY <2>2, <2>3, <2>10, TokensRewritten
<1> QED
  BY <1>0, <1>4, <1>5, <1>6, <1>7, <1>8, <1>9, StepKinds, CreateEffect, SaveEffect DEF vars

-----------------------------------------------------------------------------
(* Who takes up a link *)

\* Only forgotPassword issues links, within the bound; only a save of resetPassword
\* counts a use, of the link of its own request.
LEMMA UsesEffect ==
  ASSUME [Next]_vars
  PROVE  /\ issued' = issued \/ (issued < MaxTokens /\ issued' = issued + 1)
         /\ \/ uses' = uses
            \/ \E b \in Browser :
                 /\ Save(b) /\ request[b].op = "reset" /\ Done(b)
                 /\ uses' = [uses EXCEPT ![Args(b).token] = @ + 1]
<1>1. ASSUME NEW b \in Browser, Looks(b)
      PROVE  /\ issued' = issued \/ (issued < MaxTokens /\ issued' = issued + 1)
             /\ uses' = uses
  <2>1. CASE ForgotFind(b)
    BY <2>1 DEF ForgotFind
  <2>2. CASE Requests(b) \/ Fail(b) \/ MailLink(b) \/ Login(b) \/ Logout(b) \/ GoogleFind(b)
    BY <2>2 DEF Requests, Ask, AskSignedIn, Fail, MailLink, Login, Logout, GoogleFind
  <2>3. CASE \/ RegisterFind(b) \/ VerifyFind(b) \/ ResetFind(b) \/ ChangeFind(b)
             \/ ProfileFind(b) \/ GoogleByEmail(b) \/ AllocateUsername(b)
    <3>1. ReadOnly
      BY <2>3 DEF RegisterFind, VerifyFind, ResetFind, ChangeFind, ProfileFind, GoogleByEmail,
                  AllocateUsername
    <3> QED
      BY <3>1 DEF ReadOnly
  <2> QED
    BY <1>1, <2>1, <2>2, <2>3 DEF Looks
<1>2. ASSUME NEW b \in Browser, Create(b)
      PROVE  issued' = issued /\ uses' = uses
  BY <1>2 DEF Create
<1>3. ASSUME NEW b \in Browser, Save(b)
      PROVE  /\ issued' = issued
             /\ \/ uses' = uses
                \/ /\ request[b].op = "reset" /\ Done(b)
                   /\ uses' = [uses EXCEPT ![Args(b).token] = @ + 1]
  BY <1>3 DEF Save
<1>4. ASSUME NEW i \in Ids, Expire(i)
      PROVE  issued' = issued /\ uses' = uses
  BY <1>4 DEF Expire
<1> QED
  BY <1>1, <1>2, <1>3, <1>4, StepKinds DEF vars

\* A link keeps its count.
LEMMA UsesStep ==
  ASSUME DocsOK, UsesOK, [Next]_vars
  PROVE  UsesOK'
<1>1. issued \in Nat /\ MaxTokens \in Nat
  BY AccountAssumption DEF DocsOK
<1>2. issued' <= MaxTokens
  BY <1>1, UsesEffect DEF UsesOK
<1>3. uses' = [t \in 1..MaxTokens |-> uses'[t]]
  BY UsesEffect DEF UsesOK
<1> QED
  BY <1>2, <1>3 DEF UsesOK

\* A step makes a request hold a link only by resetPassword's look-up, which finds it.
LEMMA HoldersFound ==
  ASSUME DocsOK, RequestsOK, NothingOverwritten, [Next]_vars, NEW b \in Browser,
         request'[b].op = "reset", request'[b].stage = "saving"
  PROVE  request'[b] = request[b] \/ Redeemable(request'[b].args.token) # {}
<1>1. ASSUME NEW c \in Browser, NEW r, request' = [request EXCEPT ![c] = r]
      PROVE  request'[b] = IF b = c THEN r ELSE request[b]
  BY <1>1 DEF RequestsOK
<1>2. ASSUME NEW c \in Browser, Done(c)
      PROVE  request'[b] = request[b]
  BY <1>1, <1>2 DEF Done, NoRequest
<1>3. ASSUME NEW c \in Browser, NEW id, NEW patch, WillSave(c, id, patch),
             request[c].op # "reset"
      PROVE  request'[b] = request[b]
  BY <1>1, <1>3, SaveFields
<1>4. ASSUME NEW c \in Browser, NEW stage, stage # "saving", Move(c, [stage |-> stage])
      PROVE  request'[b] = request[b]
  BY <1>1, <1>4, StageFields
<1>5. ASSUME NEW c \in Browser, NEW op, NEW args, Ask(c, op, args)
      PROVE  request'[b] = request[b]
  BY <1>1, <1>5, AskFields
<1>6. ASSUME NEW c \in Browser, ResetFind(c)
      PROVE  request'[b] = request[b] \/ Redeemable(request'[b].args.token) # {}
  <2>1. CASE ~ Done(c)
    <3>1. PICK i \in Redeemable(Args(c).token) : WillSave(c, i, Consume(Args(c).password))
      BY <1>6, <2>1 DEF ResetFind
    <3>2. PICK r : request' = [request EXCEPT ![c] = r] /\ r.args = request[c].args
      BY <3>1, SaveFields
    <3> QED
      BY <1>1, <3>1, <3>2 DEF Args
  <2> QED
    BY <1>2, <2>1
<1>7. ASSUME NEW c \in Browser, AllocateUsername(c)
      PROVE  request'[b] = request[b]
  BY <1>1, <1>7, RequestNamed
<1>8. ASSUME NEW c \in Browser,
             VerifyFind(c) \/ ChangeFind(c) \/ ProfileFind(c) \/ GoogleByEmail(c) \/ ForgotFind(c)
      PROVE  request'[b] = request[b]
  <2>1. request[c].op # "reset"
    BY <1>8 DEF VerifyFind, ChangeFind, ProfileFind, GoogleByEmail, ForgotFind, At
  <2> QED
    BY <1>2, <1>3, <1>4, <1>8, <2>1
       DEF VerifyFind, ChangeFind, ProfileFind, GoogleByEmail, ForgotFind
<1>9. ASSUME NEW c \in Browser,
             \/ RegisterFind(c) \/ Login(c) \/ Logout(c) \/ GoogleFind(c) \/ MailLink(c)
             \/ Fail(c)
      PROVE  request'[b] = request[b]
  BY <1>2, <1>4, <1>9 DEF RegisterFind, Login, Logout, GoogleFind, MailLink, Fail
<1>10. ASSUME NEW c \in Browser, Requests(c)
       PROVE  request'[b] = request[b]
  BY <1>5, <1>10 DEF Requests, AskSignedIn
<1>11. ASSUME NEW c \in Browser, Looks(c)
       PROVE  request'[b] = request[b] \/ Redeemable(request'[b].args.token) # {}
  BY <1>6, <1>7, <1>8, <1>9, <1>10, <1>11 DEF Looks
<1>12. ASSUME NEW c \in Browser, Create(c)
       PROVE  request'[b] = request[b]
  <2>1. CASE ~ Done(c)
    <3>1. PICK user : Adds(c, user)
      BY <1>12, <2>1, CreateEffect
    <3>2. request[c].op = "register" /\ WillSave(c, Len(users) + 1, [verified |-> TRUE])
      BY <2>1, <3>1 DEF Adds
    <3> QED
      BY <1>3, <3>2
  <2> QED
    BY <1>2, <2>1
<1>13. ASSUME NEW c \in Browser, Save(c)
       PROVE  request'[b] = request[b]
  <2>1. Done(c) \/ Move(c, [stage |-> "mailing"])
    BY <1>13, SaveEffect DEF Rewrites
  <2> QED
    BY <1>2, <1>4, <2>1
<1>14. ASSUME NEW i \in Ids, Expire(i)
       PROVE  request'[b] = request[b]
  BY <1>14, ExpireEffect
<1> QED
  BY <1>11, <1>12, <1>13, <1>14, StepKinds DEF vars

\* After a link was used, replaced or has expired, a step takes one of its holders away at
\* most, and counts a use only with it.
LEMMA SpentStep ==
  ASSUME AccountInv, [Next]_vars, NEW t \in spent
  PROVE  \/ uses'[t] = uses[t] /\ Holders(t)' \subseteq Holders(t)
         \/ \E b \in Holders(t) :
              uses'[t] = uses[t] + 1 /\ Holders(t)' = Holders(t) \ {b}
<1>0. DocsOK /\ RequestsOK /\ NothingOverwritten /\ DeadLinksStayDead /\ UsesOK /\ TokensOK
  BY DEF AccountInv
<1>1. Redeemable(t) = {}
  BY <1>0 DEF Redeemable, DeadLinksStayDead
<1>2. Holders(t)' \subseteq Holders(t)
  <2> SUFFICES ASSUME NEW b \in Browser, request'[b].op = "reset", request'[b].stage = "saving",
                      request'[b].args.token = t
               PROVE  b \in Holders(t)
    BY DEF Holders, At, Args
  <2>1. request'[b] = request[b]
    BY <1>0, <1>1, HoldersFound
  <2> QED
    BY <2>1 DEF Holders, At, Args
<1>3. ASSUME NEW b \in Browser, Save(b), request[b].op = "reset", Done(b),
             uses' = [uses EXCEPT ![Args(b).token] = @ + 1], uses'[t] # uses[t]
      PROVE  \E c \in Holders(t) : uses'[t] = uses[t] + 1 /\ Holders(t)' = Holders(t) \ {c}
  <2>1. t \in 1..MaxTokens
    <3>1. t \in 1..issued /\ issued <= MaxTokens /\ issued \in Nat /\ MaxTokens \in Nat
      BY <1>0, AccountAssumption DEF TokensOK, UsesOK, DocsOK
    <3> QED
      BY <3>1
  <2>2. Args(b).token = t /\ uses'[t] = uses[t] + 1
    BY <1>0, <1>3, <2>1 DEF UsesOK
  <2>3. b \in Holders(t)
    BY <1>3, <2>2 DEF Save, Holders, At
  <2>4. \A c \in Browser : request'[c] = IF c = b THEN NoRequest ELSE request[c]
    BY <1>0, <1>3 DEF Done, RequestsOK
  <2>5. Holders(t)' = Holders(t) \ {b}
    BY <2>4 DEF Holders, At, Args, NoRequest
  <2> QED
    BY <2>2, <2>3, <2>5
<1> QED
  BY <1>2, <1>3, UsesEffect

-----------------------------------------------------------------------------
(* The theorems *)

\* Without accounts, requests or links everything holds.
LEMMA AccountInit ==
  ASSUME Init
  PROVE  AccountInv
<1>1. Len(users) = 0 /\ Ids = {} /\ written = users
  BY DEF Init, Ids
<1>2. DocsOK
  <2>1. users = [i \in 1..0 |-> users[i]]
    BY DEF Init
  <2> QED
    BY <1>1, <2>1 DEF Init, DocsOK
<1>3. RequestsOK
  BY NoRequestSound DEF Init, RequestsOK
<1>4. TokensOK
  <2>1. \A b \in Browser : request[b].op = "none"
    BY DEF Init, NoRequest
  <2> QED
    BY <1>1, <2>1 DEF Init, TokensOK, Pending
<1>5. UsesOK
  BY AccountAssumption DEF Init, UsesOK
<1> QED
  BY <1>1, <1>2, <1>3, <1>4, <1>5
     DEF AccountInv, NothingOverwritten, OneAccountEach, DeadLinksStayDead

\* The invariant holds whatever the handlers of user.controller.js and
\* googleAuth.controller.js do between their look-ups and their saves.
THEOREM AccountInvariant ==
  Spec => []AccountInv
<1>1. Init => AccountInv
  BY AccountInit
<1>2. AccountInv /\ [Next]_vars => AccountInv'
  <2> SUFFICES ASSUME AccountInv, [Next]_vars
               PROVE  AccountInv'
    OBVIOUS
  <2>1. DocsOK /\ RequestsOK /\ NothingOverwritten /\ OneAccountEach /\ UsesOK
    BY DEF AccountInv
  <2> QED
    BY <2>1, DocStep, RequestStep, OneAccountStep, TokenStep, UsesStep DEF AccountInv
<1> QED
  BY <1>1, <1>2, PTL DEF Spec

\* No address, name or Google identity ever has two accounts: registerUser and googleAuth
\* look before they create, and it is the unique indexes that decide between two of them.
THEOREM OneAccount ==
  Spec => []OneAccountEach
<1>1. AccountInv => OneAccountEach
  BY DEF AccountInv
<1> QED
  BY <1>1, AccountInvariant, PTL

\* No handler undoes another's: user.save() writes the fields the handler assigned and no
\* other, so every field of a document holds what was last assigned to it.
THEOREM SavesKeepTheRest ==
  Spec => []NothingOverwritten
<1>1. AccountInv => NothingOverwritten
  BY DEF AccountInv
<1> QED
  BY <1>1, AccountInvariant, PTL

\* No handler brings a spent link back: resetPassword unsets it in the save that sets the
\* password, and no other save writes a link but a new one; a request that looks a spent
\* link up finds no account.
THEOREM LinksDie ==
  Spec => []DeadLinksStayDead
<1>1. AccountInv => DeadLinksStayDead
  BY DEF AccountInv
<1> QED
  BY <1>1, AccountInvariant, PTL

\* Of the requests of resetPassword that overlap, only those that had found a link before
\* it was used, replaced or expired may use it afterwards, once each.
THEOREM LinksAreTakenUpInTime ==
  Spec => SpentLinksAreNotTakenUp
<1>1. AccountInv /\ [Next]_vars =>
        [\A t \in spent :
           \/ uses'[t] = uses[t] /\ Holders(t)' \subseteq Holders(t)
           \/ \E b \in Holders(t) :
                uses'[t] = uses[t] + 1 /\ Holders(t)' = Holders(t) \ {b}]_vars
  BY SpentStep
<1> QED
  BY <1>1, AccountInvariant, PTL DEF Spec, SpentLinksAreNotTakenUp
====
