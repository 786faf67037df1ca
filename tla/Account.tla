------------------------------- MODULE Account -------------------------------
(***************************************************************************)
(* Accounts and sessions: the handlers of controllers/user.controller.js   *)
(* and controllers/googleAuth.controller.js over the user documents.       *)
(*                                                                         *)
(* A browser has one request under way at a time; its handler is cut at    *)
(* its database calls.  Every handler but the sign-ins has the same shape: *)
(* it reads a document, decides on what it read, and saves.  A mongoose    *)
(* save writes the fields the handler assigned, by _id, whatever happened  *)
(* to the document since: that patch is kept in the request.  Sessions are *)
(* the cookies: a token is never looked up, so nothing revokes it.         *)
(***************************************************************************)
EXTENDS Integers, Sequences, FiniteSets

CONSTANTS Browser,      \* clients, each with one cookie jar
          Email, Username, Password,
          Application,  \* what registrations are made: [email, username] pairs
          Identity,     \* Google identities: [sub, email], address verified
          Variants,     \* the names allocateUsername() tries for a new account
          LateName,     \* the time-stamped name it takes when all are taken
          None,         \* an unset field
          AUTO_VERIFY_USERS,
          MaxTokens,    \* bound: reset tokens ever issued
          MaxRequests,  \* bound: requests ever made
          MaxFaults     \* bound: failed or abandoned database calls

ASSUME AccountAssumption ==
  /\ Application \subseteq [email : Email, username : Username]
  /\ \A i \in Identity : i.email \in Email /\ i.sub # None
  /\ None \notin Password \union Email \union Username
  /\ Variants \subseteq Username /\ LateName \in Username
  /\ AUTO_VERIFY_USERS \in BOOLEAN
  /\ MaxTokens \in Nat /\ MaxRequests \in Nat /\ MaxFaults \in Nat

VARIABLES users,     \* the user documents, by id (the order of creation)
          request,   \* the request each browser has under way
          cookie,    \* the user id of the browser's session, 0 without one
          inbox,     \* reset tokens whose mail was delivered
          issued,    \* reset tokens issued so far; they are numbered from 1
          made, faults,   \* history: requests made, faults so far
          written,   \* history: by user id, the value last saved in each field
          spent,     \* history: tokens used, replaced or expired
          uses       \* history: by token, how many resets it has made

vars == <<users, request, cookie, inbox, issued, made, faults, written, spent, uses>>

Ids == DOMAIN users

NewUser(email, username, password) ==
  [email |-> email, username |-> username, password |-> password,
   token |-> 0, tokenLive |-> FALSE, verified |-> FALSE, otp |-> None,
   otpLive |-> TRUE, google |-> None, alerts |-> TRUE]

NoPatch == <<>>

NoRequest == [op |-> "none", stage |-> "idle", id |-> 0, patch |-> NoPatch,
              args |-> <<>>]

Overlay(patch, user) ==
  [f \in DOMAIN user |-> IF f \in DOMAIN patch THEN patch[f] ELSE user[f]]

Init ==
  /\ users = <<>>
  /\ request = [b \in Browser |-> NoRequest]
  /\ cookie = [b \in Browser |-> 0]
  /\ inbox = {} /\ issued = 0 /\ made = 0 /\ faults = 0
  /\ written = <<>> /\ spent = {} /\ uses = [t \in 1..MaxTokens |-> 0]

Args(b) == request[b].args
At(b, op, stage) == request[b].op = op /\ request[b].stage = stage
Move(b, fields) == request' = [request EXCEPT ![b] = Overlay(fields, @)]

\* The answer is sent.
Done(b) == request' = [request EXCEPT ![b] = NoRequest]

\* A browser makes a request; what it asks for is the handler's input.
Ask(b, op, args) ==
  /\ request[b] = NoRequest /\ made < MaxRequests
  /\ made' = made + 1
  /\ Move(b, [op |-> op, stage |-> "finding", args |-> args])
  /\ UNCHANGED <<users, cookie, inbox, issued, faults, written, spent, uses>>

\* verifyJWT: the handlers behind it need a session, and look no further.
AskSignedIn(b, op, args) == cookie[b] # 0 /\ Ask(b, op, args)

\* Faulty variant: the save writes the whole document as it was found.
WillSave_wholeDocument(b, id, patch) ==
  Move(b, [stage |-> "saving", id |-> id,
           patch |-> IF id \in Ids THEN Overlay(patch, users[id]) ELSE patch])

\* The handler has decided: it will save these fields of this document.
WillSave(b, id, patch) == Move(b, [stage |-> "saving", id |-> id, patch |-> patch])

ReadOnly == UNCHANGED <<users, cookie, inbox, issued, made, faults, written, spent, uses>>

------------------------------------------------------------------------------
(* What each handler finds and decides *)

WithEmail(email) == {i \in Ids : users[i].email = email}
Clashing(email, username) ==
  {i \in Ids : users[i].email = email \/ users[i].username = username}

\* registerUser: an address or a name that is taken is refused (409).
RegisterFind(b) ==
  /\ At(b, "register", "finding")
  /\ IF Clashing(Args(b).email, Args(b).username) # {} THEN Done(b)
     ELSE Move(b, [stage |-> "creating"])
  /\ ReadOnly

\* loginUser: any one account with the address or the name (404), whose password
\* is right (401) and which is verified (401), gets a session.  Nobody else reads
\* this browser's cookie, so that it is set when the answer is decided.
Login(b) ==
  LET matched == Clashing(Args(b).email, Args(b).username)
      Accepts(i) == users[i].password = Args(b).password /\ users[i].verified
  IN  /\ At(b, "login", "finding")
      /\ \/ matched = {} /\ UNCHANGED cookie
         \/ \E i \in matched :
              cookie' = IF Accepts(i) THEN [cookie EXCEPT ![b] = i] ELSE cookie
      /\ Done(b)
      /\ UNCHANGED <<users, inbox, issued, made, faults, written, spent, uses>>

\* logoutUser: the cookie is cleared, and that is all.
Logout(b) ==
  /\ At(b, "logout", "finding")
  /\ cookie' = [cookie EXCEPT ![b] = 0]
  /\ Done(b)
  /\ UNCHANGED <<users, inbox, issued, made, faults, written, spent, uses>>

\* verifyUser: refused when verified already, or the code is wrong or expired.  No
\* document has a code (nothing calls generateOTP()), so the request that passes is
\* the one that sends none.
VerifyFind(b) ==
  LET u == users[Args(b).id]
  IN  /\ At(b, "verify", "finding")
      /\ IF u.verified \/ u.otp # Args(b).otp \/ ~u.otpLive THEN Done(b)
         ELSE WillSave(b, Args(b).id, [verified |-> TRUE, otp |-> None, otpLive |-> FALSE])
      /\ ReadOnly

\* forgotPassword: a fresh token for an account that exists, the same answer
\* for one that does not.
ForgotFind(b) ==
  /\ At(b, "forgot", "finding")
  /\ \/ /\ WithEmail(Args(b).email) = {} /\ Done(b)
        /\ UNCHANGED issued
     \/ \E i \in WithEmail(Args(b).email) :
          /\ issued < MaxTokens /\ issued' = issued + 1
          /\ WillSave(b, i, [token |-> issued', tokenLive |-> TRUE])
  /\ UNCHANGED <<users, cookie, inbox, made, faults, written, spent, uses>>

\* findUserByForgotToken: the expiry is part of the query.
Redeemable(token) == {i \in Ids : users[i].token = token /\ users[i].tokenLive}

\* Faulty variant: the token is left in place.
Consume_forgotten(password) == [password |-> password]

\* resetPassword sets the password and unsets the token and its expiry.
Consume(password) == [password |-> password, token |-> 0, tokenLive |-> FALSE]

ResetFind(b) ==
  /\ At(b, "reset", "finding")
  /\ \/ Redeemable(Args(b).token) = {} /\ Done(b)
     \/ \E i \in Redeemable(Args(b).token) : WillSave(b, i, Consume(Args(b).password))
  /\ ReadOnly

\* changePassword compares the old password, then saves the new one.
ChangeFind(b) ==
  /\ At(b, "change", "finding")
  /\ IF users[Args(b).id].password # Args(b).old \/ Args(b).old = None THEN Done(b)
     ELSE WillSave(b, Args(b).id, [password |-> Args(b).new])
  /\ ReadOnly

\* updateProfile: a $set of the preferences that were sent.
ProfileFind(b) ==
  /\ At(b, "profile", "finding")
  /\ WillSave(b, Args(b).id, [alerts |-> Args(b).alerts])
  /\ ReadOnly

\* googleAuth looks for the subject first.
GoogleFind(b) ==
  LET bySub == {i \in Ids : users[i].google = Args(b).sub}
  IN  /\ At(b, "google", "finding")
      /\ \/ /\ bySub = {} /\ Move(b, [stage |-> "byEmail"])
            /\ UNCHANGED cookie
         \/ \E i \in bySub :
              /\ cookie' = [cookie EXCEPT ![b] = i]
              /\ Done(b)
      /\ UNCHANGED <<users, inbox, issued, made, faults, written, spent, uses>>

\* Then for the address: an account that has it is linked, else one is created.
GoogleByEmail(b) ==
  /\ At(b, "google", "byEmail")
  /\ \/ /\ WithEmail(Args(b).email) = {}
        /\ Move(b, [stage |-> "naming"])
     \/ \E i \in WithEmail(Args(b).email) :
          WillSave(b, i, [google |-> Args(b).sub, verified |-> TRUE])
  /\ ReadOnly

\* allocateUsername: a variant that its look-up found free, or, when all were taken,
\* a name that is not looked up.
AllocateUsername(b) ==
  LET free == Variants \ {users[i].username : i \in Ids}
  IN  /\ At(b, "google", "naming")
      /\ \E name \in IF free = {} THEN {LateName} ELSE free :
           Move(b, [stage |-> "creating", patch |-> [username |-> name]])
      /\ ReadOnly

------------------------------------------------------------------------------
(* What is written *)

\* Faulty variant: no unique index behind the look-up.
Admitted_noIndex(id, user) == TRUE

\* The unique indexes on email, username and (where set) googleId, over every
\* document but the one being written.
Admitted(id, user) ==
  \A i \in Ids \ {id} :
    /\ users[i].email # user.email /\ users[i].username # user.username
    /\ user.google # None => users[i].google # user.google

\* A new document: a registration, or the first sign-in of a Google identity.
NewAccount(b) ==
  IF request[b].op = "register"
  THEN NewUser(Args(b).email, Args(b).username, Args(b).password)
  ELSE [NewUser(Args(b).email, request[b].patch.username, None)
          EXCEPT !.google = Args(b).sub, !.verified = TRUE]

\* User.create(): the index may still refuse what the look-ups allowed (500).  A
\* registration goes on to a second save that marks it verified, where the
\* deployment says so.
Create(b) ==
  LET user == NewAccount(b)
      id == Len(users) + 1
  IN  /\ request[b].stage = "creating"
      /\ IF ~Admitted(0, user)
         THEN Done(b) /\ UNCHANGED <<users, cookie, written>>
         ELSE /\ users' = Append(users, user)
              /\ written' = Append(written, user)
              /\ IF request[b].op = "register" /\ AUTO_VERIFY_USERS
                 THEN WillSave(b, id, [verified |-> TRUE]) /\ UNCHANGED cookie
                 ELSE Done(b) /\ cookie' = [cookie EXCEPT ![b] = id]
      /\ UNCHANGED <<inbox, issued, made, faults, spent, uses>>

\* The fields the handler of the request assigns, for the history.
Assigned(b) ==
  LET fields == CASE request[b].op = "register" -> {"verified"}
                  [] request[b].op = "verify"   -> {"verified", "otp", "otpLive"}
                  [] request[b].op = "forgot"   -> {"token", "tokenLive"}
                  [] request[b].op = "reset"    -> {"password", "token", "tokenLive"}
                  [] request[b].op = "change"   -> {"password"}
                  [] request[b].op = "profile"  -> {"alerts"}
                  [] request[b].op = "google"   -> {"google", "verified"}
  IN  [f \in fields \intersect DOMAIN request[b].patch |-> request[b].patch[f]]

\* Only the fields the handler assigned are written.
Saved(b, id) == Overlay(request[b].patch, users[id])

\* user.save(), and with it the session of the two sign-ins that save.
Save(b) ==
  LET id == request[b].id
      new == Saved(b, id)
      old == users[id].token
  IN  /\ request[b].stage = "saving"
      /\ IF ~Admitted(id, new)
         THEN Done(b) /\ UNCHANGED <<users, cookie, written, spent, uses>>
         ELSE /\ users' = [users EXCEPT ![id] = new]
              /\ written' = [written EXCEPT ![id] = Overlay(Assigned(b), @)]
              /\ spent' = spent \union ((IF new.token # old THEN {old} ELSE {}) \ {0})
                            \union (IF request[b].op = "reset" THEN {Args(b).token} ELSE {})
              /\ uses' = IF request[b].op = "reset"
                         THEN [uses EXCEPT ![Args(b).token] = @ + 1] ELSE uses
              /\ IF request[b].op \in {"register", "google"}
                 THEN Done(b) /\ cookie' = [cookie EXCEPT ![b] = id]
                 ELSE IF request[b].op = "forgot"
                      THEN Move(b, [stage |-> "mailing"]) /\ UNCHANGED cookie
                      ELSE Done(b) /\ UNCHANGED cookie
      /\ UNCHANGED <<inbox, issued, made, faults>>

\* sendNotificationEmail(): the link arrives or it does not; the answer is 200.
MailLink(b) ==
  /\ request[b].stage = "mailing"
  /\ \/ inbox' = inbox \union {request[b].patch.token}
     \/ UNCHANGED inbox
  /\ Done(b)
  /\ UNCHANGED <<users, cookie, issued, made, faults, written, spent, uses>>

\* A database call fails, or the process dies: the handler ends where it is.
Fail(b) ==
  /\ request[b].stage # "idle" /\ faults < MaxFaults
  /\ faults' = faults + 1
  /\ Done(b)
  /\ UNCHANGED <<users, cookie, inbox, issued, made, written, spent, uses>>

\* Fifteen minutes after the token, or twenty after the account.
Expire(i) ==
  \/ /\ users[i].tokenLive
     /\ users' = [users EXCEPT ![i].tokenLive = FALSE]
     /\ written' = [written EXCEPT ![i].tokenLive = FALSE]
     /\ spent' = spent \union {users[i].token}
     /\ UNCHANGED <<request, cookie, inbox, issued, made, faults, uses>>
  \/ /\ users[i].otpLive
     /\ users' = [users EXCEPT ![i].otpLive = FALSE]
     /\ written' = [written EXCEPT ![i].otpLive = FALSE]
     /\ UNCHANGED <<request, cookie, inbox, issued, made, faults, spent, uses>>

\* What people ask for: registrations and sign-ins of their own address, links
\* from their mail, changes of their own account.
Requests(b) ==
  \/ \E a \in Application, p \in Password :
       Ask(b, "register", [email |-> a.email, username |-> a.username, password |-> p])
  \/ \E e \in Email \union {None}, u \in Username \union {None}, p \in Password :
       /\ e # None \/ u # None
       /\ Ask(b, "login", [email |-> e, username |-> u, password |-> p])
  \/ \E e \in Email : Ask(b, "forgot", [email |-> e])
  \/ \E t \in inbox, p \in Password : Ask(b, "reset", [token |-> t, password |-> p])
  \/ \E g \in Identity : Ask(b, "google", g)
  \/ \E i \in Ids, otp \in {None, "code"} : Ask(b, "verify", [id |-> i, otp |-> otp])
  \/ AskSignedIn(b, "logout", <<>>)
  \/ \E p, q \in Password :
       AskSignedIn(b, "change", [id |-> cookie[b], old |-> p, new |-> q])
  \/ \E on \in BOOLEAN : AskSignedIn(b, "profile", [id |-> cookie[b], alerts |-> on])

Handle(b) ==
  \/ RegisterFind(b) \/ Login(b) \/ Logout(b) \/ VerifyFind(b) \/ ForgotFind(b)
  \/ ResetFind(b) \/ ChangeFind(b) \/ ProfileFind(b) \/ GoogleFind(b)
  \/ GoogleByEmail(b) \/ AllocateUsername(b) \/ Create(b) \/ Save(b) \/ MailLink(b)

Next ==
  \/ \E b \in Browser : Requests(b) \/ Handle(b) \/ Fail(b)
  \/ \E i \in Ids : Expire(i)

Spec == Init /\ [][Next]_vars

------------------------------------------------------------------------------
(* Properties *)

\* Every field of a document has its type, and an expiry goes with a token.
TypeOK ==
  /\ \A i \in Ids :
       /\ users[i].email \in Email /\ users[i].username \in Username
       /\ users[i].password \in Password \union {None}
       /\ users[i].token \in 0..issued
       /\ users[i].tokenLive => users[i].token # 0
  /\ \A b \in Browser : cookie[b] \in Ids \union {0}
  /\ inbox \subseteq 1..issued /\ spent \subseteq 1..issued

\* However registrations and Google sign-ins interleave between their look-ups
\* and their writes, no address, name or Google identity has two accounts.
OneAccountEach ==
  \A i, j \in Ids :
    i # j => /\ users[i].email # users[j].email
             /\ users[i].username # users[j].username
             /\ users[i].google # None => users[i].google # users[j].google

\* Handlers that decide on a document read long ago do not undo each other: every
\* field holds what was last assigned to it by a handler that saved, be it a new
\* password, a verification, a linked identity or a preference.
NothingOverwritten == users = written

\* No save of another handler brings back a link that was used, replaced by a newer
\* one or has expired: a look-up of it finds no account.
DeadLinksStayDead == \A i \in Ids : users[i].tokenLive => users[i].token \notin spent

\* The requests that have found a link and have not yet saved the new password.
Holders(t) == {b \in Browser : At(b, "reset", "saving") /\ Args(b).token = t}

\* Between its look-up and its save a handler of resetPassword holds a link that
\* others may have used, replaced or let expire meanwhile.  Once that has happened no
\* further request takes the link up: those that had found it before may still set
\* the password, once each, and nobody else can.
SpentLinksAreNotTakenUp ==
  [][\A t \in spent :
       \/ uses'[t] = uses[t] /\ Holders(t)' \subseteq Holders(t)
       \/ \E b \in Holders(t) :
            uses'[t] = uses[t] + 1 /\ Holders(t)' = Holders(t) \ {b}]_vars

\* user.controller.js:332 "A reset link must work exactly once": not so when two
\* requests find the token before either has consumed it.
LinkWorksOnce == \A t \in DOMAIN uses : uses[t] <= 1
==============================================================================
