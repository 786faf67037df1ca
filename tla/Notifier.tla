------------------------------- MODULE Notifier -------------------------------
(***************************************************************************)
(* Telling the owner: the announcements of MonitorCheck opened up into the *)
(* dispatch() of Backend/src/notifications/notifier.js with its two        *)
(* registered notifiers (notifications/index.js), email and webhook, each  *)
(* loading its channels, sending to all of them at once, and one audit row *)
(* for every outcome once all have settled.                                *)
(*                                                                         *)
(* A runner stays in the announcing stage of its check until dispatch()    *)
(* returns; two runners may dispatch at once, for different transitions.   *)
(* The owner may change channels and preferences at any time.              *)
(***************************************************************************)
EXTENDS MonitorCheck, Bags

CONSTANTS Channel,     \* channel documents of the owner: type, target, and `copy`,
                       \* which tells documents of one type and target apart
          Account,     \* the e-mail address of the account
          MaxUpsets    \* bound: disturbances (crashes, failures, owner's changes)

ASSUME NotifierAssumption ==
  /\ \A c \in Channel : c.type \in {"Email", "Webhook", "Slack", "SMS"}
  /\ MaxUpsets \in Nat

VARIABLES active,      \* the channels that are switched on
          optedOut,    \* preferences.incidentAlerts = false
          dispatch,    \* the dispatch() each runner has under way
          audit,       \* the notificationLog rows, a bag
          attempts,    \* history: what was really sent or refused, a bag
          lost,        \* history: notices whose dispatch a fault cut short
          upsets       \* history: disturbances so far

notices == <<active, optedOut, dispatch, audit, attempts, lost, upsets>>

Notifiers == {"Email", "Webhook"}

\* A dispatch not begun, or over.
NoDispatch == [phase |-> "off", load |-> {}, rejected |-> {}, todo |-> {},
               results |-> EmptyBag]

NotifierInit ==
  /\ Init
  /\ active = Channel /\ optedOut = FALSE
  /\ dispatch = [r \in Runner |-> NoDispatch]
  /\ audit = EmptyBag /\ attempts = EmptyBag
  /\ lost = {} /\ upsets = 0

Announcing(r) == run[r].stage \in {"announceOpened", "saving"}

\* Which transition runner r is announcing.
Notice(r) == [incident |-> run[r].incident,
              event |-> IF run[r].stage = "saving" THEN "CLOSED" ELSE "OPENED"]

Row(r, via, to, status) ==
  [notice |-> Notice(r), via |-> via, to |-> to, status |-> status]

Upset == upsets < MaxUpsets /\ upsets' = upsets + 1

Add(bag, x) == bag (+) SetToBag({x})
Set(r, fields) == dispatch' = [dispatch EXCEPT ![r] = Overlay(fields, @)]

\* The two notifiers loads run, unless the owner opted out: that is an audit row
\* of its own and the end of it.
BeginDispatch(r) ==
  /\ Announcing(r) /\ dispatch[r].phase = "off"
  /\ Set(r, IF optedOut
            THEN [phase |-> "recording",
                  results |-> SetToBag({Row(r, "Email", Account, "Skipped")})]
            ELSE [phase |-> "sending", load |-> Notifiers])
  /\ UNCHANGED <<vars, active, optedOut, audit, attempts, lost, upsets>>

\* The recipients of a mail: a set, so an address on file twice is mailed once.
Recipients(channels) ==
  {[via |-> "Email", to |-> a, copy |-> 1] :
     a \in {Account} \union {c.target : c \in {d \in channels : d.type = "Email"}}}

\* Every webhook and Slack channel is posted to: a target that two channels name,
\* which are copies, twice.
Hooks(channels) ==
  {[via |-> c.type, to |-> c.target, copy |-> c.copy] :
     c \in {d \in channels : d.type \in {"Webhook", "Slack"}}}

\* Faulty variant: a failed load of the extra channels sends to nobody.
Loaded_givesUp(n, channels, failed) ==
  IF failed THEN {} ELSE IF n = "Email" THEN Recipients(channels) ELSE Hooks(channels)

\* What a notifier sends to: when its channels cannot be loaded, the account's
\* address is still mailed and no hook is posted to.
Loaded(n, channels, failed) ==
  LET seen == IF failed THEN {} ELSE channels
  IN  IF n = "Email" THEN Recipients(seen) ELSE Hooks(seen)

\* channelModel.find() of one notifier answers or fails, and it sends to all.
LoadChannels(r, n) ==
  /\ dispatch[r].phase = "sending" /\ n \in dispatch[r].load
  /\ \E failed \in BOOLEAN :
       /\ IF failed THEN Upset ELSE UNCHANGED upsets
       /\ Set(r, [load |-> dispatch[r].load \ {n},
                  todo |-> dispatch[r].todo \union Loaded(n, active, failed)])
  /\ UNCHANGED <<vars, active, optedOut, audit, attempts, lost>>

\* How a call to a mail provider or to a receiver ends: both have a deadline.
Answers == {"accepted", "refused", "unreachable", "timeout"}

\* sendViaBrevo(), or the SMTP transport where no key is configured: whatever is not
\* an acceptance throws, and the other transport is not tried.
sendEmail(answer) == IF answer = "accepted" THEN "Delivered" ELSE "Failed"

\* fetch() of the target: the same, for any status but 2xx.
post(answer) == IF answer = "accepted" THEN "Delivered" ELSE "Failed"

\* One send of a notifier is over: a result either way, which stops no other send.
Deliver(r, send, status) ==
  LET row == Row(r, send.via, send.to, status)
  IN  /\ Set(r, [todo |-> dispatch[r].todo \ {send},
                 results |-> Add(dispatch[r].results, row)])
      /\ attempts' = Add(attempts, row)
      /\ IF status = "Failed" THEN Upset ELSE UNCHANGED upsets
      /\ UNCHANGED <<vars, active, optedOut, audit, lost>>

Mail(r) ==
  \E send \in {s \in dispatch[r].todo : s.via = "Email"} :
    \E status \in {sendEmail(answer) : answer \in Answers} : Deliver(r, send, status)

Post(r) ==
  \E send \in {s \in dispatch[r].todo : s.via # "Email"} :
    \E status \in {post(answer) : answer \in Answers} : Deliver(r, send, status)

\* A notifier throws before it sends: its rejection becomes one Failed result.
Reject(r, n) ==
  /\ dispatch[r].phase = "sending" /\ n \in dispatch[r].load
  /\ Upset
  /\ Set(r, [load |-> dispatch[r].load \ {n},
             rejected |-> dispatch[r].rejected \union {n},
             results |-> Add(dispatch[r].results, Row(r, n, "none", "Failed"))])
  /\ UNCHANGED <<vars, active, optedOut, audit, attempts, lost>>

\* Faulty variant: Promise.all, which one rejection settles with nothing.
Settled_all(d) ==
  IF d.rejected # {} THEN [done |-> TRUE, results |-> EmptyBag]
  ELSE [done |-> d.load = {} /\ d.todo = {}, results |-> d.results]

\* Promise.allSettled: every notifier is waited for, whatever the others did.
AllSettled(d) == [done |-> d.load = {} /\ d.todo = {}, results |-> d.results]

Settle(r) ==
  /\ dispatch[r].phase = "sending" /\ AllSettled(dispatch[r]).done
  /\ Set(r, [phase |-> "recording", results |-> AllSettled(dispatch[r]).results])
  /\ UNCHANGED <<vars, active, optedOut, audit, attempts, lost, upsets>>

\* Faulty variant: a dispatch with a failed delivery is made again.
EndDispatch_retried(r) ==
  LET results == dispatch[r].results
      failed == \E row \in BagToSet(results) : row.status = "Failed"
  IN  /\ dispatch[r].phase = "recording"
      /\ audit' = audit (+) results
      /\ IF failed
         THEN /\ incidents' = [incidents EXCEPT ![run[r].incident].openNotices = @ + 1]
              /\ UNCHANGED <<mon, exists, run, target, flips, edits, faults, streak,
                             chosen, unlogged>>
         ELSE AnnounceOpened(r) \/ AnnounceClosed(r)
      /\ dispatch' = [dispatch EXCEPT ![r] = NoDispatch]
      /\ UNCHANGED <<active, optedOut, attempts, upsets, lost>>

\* Promise.all over #record(): one row per result, concurrently; a row that cannot
\* be created is swallowed.  Then dispatch() returns and the transition is over.
EndDispatch(r) ==
  LET results == dispatch[r].results
  IN  /\ dispatch[r].phase = "recording"
      /\ \/ audit' = audit (+) results /\ UNCHANGED <<upsets, lost>>
         \/ /\ Upset /\ lost' = lost \union {Notice(r)}
            /\ \E row \in BagToSet(results) :
                 audit' = audit (+) (results (-) SetToBag({row}))
      /\ AnnounceOpened(r) \/ AnnounceClosed(r)
      /\ dispatch' = [dispatch EXCEPT ![r] = NoDispatch]
      /\ UNCHANGED <<active, optedOut, attempts>>

\* The process dies, or (before dispatch) the owner cannot be loaded: nobody is
\* told, or only some, and nothing more is recorded.
AbandonCheck(r) ==
  /\ Abandon(r) /\ Upset
  /\ dispatch' = [dispatch EXCEPT ![r] = NoDispatch]
  /\ lost' = IF Announcing(r) THEN lost \union {Notice(r)} ELSE lost
  /\ UNCHANGED <<active, optedOut, audit, attempts>>

\* The owner switches a channel or the alerts on or off, at any time.
ChangeChannels ==
  /\ Upset
  /\ \/ \E c \in Channel :
          /\ active' = IF c \in active THEN active \ {c} ELSE active \union {c}
          /\ UNCHANGED optedOut
     \/ optedOut' = ~optedOut /\ UNCHANGED active
  /\ UNCHANGED <<vars, dispatch, audit, attempts, lost>>

DispatchStep(r) ==
  \/ BeginDispatch(r) \/ Mail(r) \/ Post(r) \/ Settle(r) \/ EndDispatch(r)
  \/ \E n \in Notifiers : LoadChannels(r, n) \/ Reject(r, n)

\* Every other step of MonitorCheck, the announcements left to dispatch().
OtherStep(r) ==
  \/ StartCheck(r) \/ FinishProbe(r) \/ ApplyUpdate(r) \/ WriteLog(r)
  \/ MatchOngoing(r) \/ InsertIncident(r) \/ ResolveIncident(r)

NotifierNext ==
  \/ \E r \in Runner : DispatchStep(r) \/ AbandonCheck(r)
  \/ ChangeChannels
  \/ /\ \/ \E r \in Runner : OtherStep(r)
        \/ PassTime \/ FlipTarget \/ OwnerStep
     /\ UNCHANGED notices

NotifierSpec == NotifierInit /\ [][NotifierNext]_<<vars, notices>>

------------------------------------------------------------------------------
(* Properties *)

\* How many copies of x a bag holds.
Copies(x, bag) == IF BagIn(x, bag) THEN bag[x] ELSE 0

\* With the fan-out inside them the announcements still make checks as
\* MonitorCheck describes them, so whatever holds of its behaviours holds here.
CheckSpec == Spec

Announced == {n \in [incident : DOMAIN incidents, event : {"OPENED", "CLOSED"}] :
                (IF n.event = "OPENED" THEN incidents[n.incident].openNotices
                                       ELSE incidents[n.incident].closeNotices) > 0}

\* notifier.js:90 "Every attempt is recorded": when a dispatch is over and neither
\* a crash nor a failed insert cut it short, the audit trail holds exactly what
\* was attempted for its notice, each attempt once, and every notice left a row,
\* so that silence is explained too.
AttemptsAreAudited ==
  \A n \in Announced \ lost :
    /\ \E row \in BagToSet(audit) : row.notice = n
    /\ \A row \in BagToSet(attempts) \union BagToSet(audit) :
         row.notice = n /\ row.status # "Skipped" /\ row.to # "none" =>
           Copies(row, audit) = Copies(row, attempts)

\* email.notifier.js:10 "nobody is emailed twice for one transition": not by two
\* channels with one address, not by two runners.
NobodyMailedTwice ==
  \A row \in BagToSet(attempts) :
    row.via = "Email" =>
      /\ Copies(row, attempts) = 1
      /\ \A other \in BagToSet(attempts) :
           [other EXCEPT !.status = row.status] = row => other = row

\* email.notifier.js:42 "the account email is the guarantee": a notice that was
\* sent, by an owner who had not opted out, was tried at the account's address,
\* even when the channels could not be loaded.
AccountIsTried ==
  \A n \in Announced \ lost :
    \E row \in BagToSet(audit) :
      /\ row.notice = n /\ row.via = "Email"
      /\ row.to = Account \/ (row.to = "none" /\ row.status = "Failed")
==============================================================================
