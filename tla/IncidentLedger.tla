---------------------------- MODULE IncidentLedger ----------------------------
(***************************************************************************)
(* What the incidents of one monitor promise, whoever writes them: at most *)
(* one is ongoing; a resolved one stays resolved; its opening and its      *)
(* closing are each announced at most once, the closing only when it is    *)
(* resolved.                                                               *)
(***************************************************************************)
EXTENDS Naturals, Sequences

VARIABLE incidents   \* in the order they were opened

Incident == [status : {"ONGOING", "RESOLVED"},
             openNotices : {0, 1}, closeNotices : {0, 1}]

Fresh == [status |-> "ONGOING", openNotices |-> 0, closeNotices |-> 0]

SomeOngoing == \E i \in DOMAIN incidents : incidents[i].status = "ONGOING"

Init == incidents = <<>>

Open == ~SomeOngoing /\ incidents' = Append(incidents, Fresh)

Close(i) ==
  /\ incidents[i].status = "ONGOING"
  /\ incidents' = [incidents EXCEPT ![i].status = "RESOLVED"]

AnnounceOpened(i) ==
  /\ incidents[i].openNotices = 0
  /\ incidents' = [incidents EXCEPT ![i].openNotices = 1]

AnnounceClosed(i) ==
  /\ incidents[i].status = "RESOLVED" /\ incidents[i].closeNotices = 0
  /\ incidents' = [incidents EXCEPT ![i].closeNotices = 1]

Next ==
  \/ Open
  \/ \E i \in DOMAIN incidents : Close(i) \/ AnnounceOpened(i) \/ AnnounceClosed(i)

Spec == Init /\ [][Next]_incidents
==============================================================================
