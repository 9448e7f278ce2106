---------------------------- MODULE ContentReview ----------------------------
(***************************************************************************)
(* Reports on the contents of one author and on the author's account, the  *)
(* escalation of many reports to a review of the account, the automatic    *)
(* review by a language model and the decisions of administrators          *)
(* (social_platform/app/domains/content_safety/application.py,             *)
(* llm_moderation.py, admin_application.py, api/routers/reports.py).       *)
(*                                                                         *)
(* A request is one submission of a report: that of the reporter, and      *)
(* then the background task that reviews the report.  Tasks run on the     *)
(* thread pool and overlap; the administrator's decisions are one at a     *)
(* time and overlap with them.  Every transaction reads, computes, and     *)
(* writes what it computed.  What a sanction does to the author is the     *)
(* subject of Moderation; here "archived" contents and "sanctioned"        *)
(* accounts stand for it.                                                  *)
(***************************************************************************)
EXTENDS Naturals, FiniteSets, Platform

CONSTANTS
  Author,           \* the author, as a target of reports
  MaxReport,        \* bound: reports ever submitted
  MaxEscalation,    \* bound: escalations
  EscalationLimit   \* USER_REVIEW_ESCALATION_CONTENT_LIMIT: 5 in the code

ASSUME ReviewAssumption ==
  /\ Author \notin Contents /\ Admin \notin Requests
  /\ None \notin Nat \cup Contents \cup Users \cup {Author}
  /\ EscalationLimit \in Nat \ {0}
  /\ MaxReport \in Nat /\ MaxEscalation \in Nat

\* Ids are given in turn.
Reports == 1..MaxReport
Escalations == 1..MaxEscalation

Targets == Contents \cup {Author}
Reviewers == Requests \cup {Admin}

VARIABLES
  moderation,      \* moderation_status of each content
  report,       \* the ContentReport rows
  escalation,   \* status of the ContentReportEscalation rows
  reviewing,          \* what each request has read
  overlapped         \* history: which kinds of requests overlapped

reviewVars == <<moderation, report, escalation, reviewing, overlapped>>

Free == [reporter |-> None, target |-> None, status |-> "free", escalation |-> None]
NoReview == [stage |-> "idle", reporter |-> None, target |-> None, report |-> None,
         decision |-> "none", pending |-> {}, escalations |-> {}]

IsNext(n, used) == n = Cardinality(used) + 1

UnderWay(p) == reviewing[p].stage # "idle"

\* Mutation of Pending: the status is not looked at.
AnyReport(target) == {r \in Reports : report[r].status # "free" /\ report[r].target = target}

Pending(target) == {r \in Reports : report[r].status = "pending" /\ report[r].target = target}
PendingEscalations == {x \in Escalations : escalation[x] = "pending"}

\* Another request is in one of these stages.
Crosses(p, stages) == \E q \in Reviewers \ {p} : reviewing[q].stage \in stages

-----------------------------------------------------------------------------
(* create_content_report                                                   *)

\* Mutation of OwnPending: the earlier report is not looked up.
FindsNone(reporter, target) == {}

\* The reporter's pending report on the target, if any.
OwnPending(reporter, target) == {r \in Pending(target) : report[r].reporter = reporter}

Public(target) == target \in Contents => moderation[target] = "active"

\* The target must be public.
ReadSubmit(p, reporter, target) ==
  /\ ~UnderWay(p)
  /\ Public(target)
  /\ LET mine == OwnPending(reporter, target)
     IN  reviewing' = [reviewing EXCEPT ![p] =
                   [NoReview EXCEPT !.stage = "insert", !.reporter = reporter,
                      !.target = target,
                      !.report = IF mine = {} THEN None ELSE CHOOSE r \in mine : TRUE]]
  /\ overlapped' = (overlapped \cup {h \in {"submit"} : Crosses(p, {"insert"})})
  /\ UNCHANGED <<moderation, report, escalation>>

\* Mutation of PicksOnePerContent: several reports of one content count.
PicksAny(rep, S) == Cardinality(S) = EscalationLimit

\* Pending reports that belong to no escalation yet, one for each of as many
\* contents as the limit asks.  Reports on the account itself do not escalate.
PicksOnePerContent(rep, S) ==
  /\ Cardinality(S) = EscalationLimit
  /\ \A r \in S : /\ rep[r].status = "pending" /\ rep[r].escalation = None
                  /\ rep[r].target \in Contents
  /\ \A r, s \in S : r # s => rep[r].target # rep[s].target

\* A new report is inserted, or the reason of the old one updated.  After the
\* commit _maybe_create_user_review_escalation reads the reports again.
CommitSubmit(p, r) ==
  /\ reviewing[p].stage = "insert"
  /\ IF reviewing[p].report = None
     THEN /\ IsNext(r, {s \in Reports : report[s].status # "free"})
          /\ report' = [report EXCEPT ![r] =
                          [Free EXCEPT !.reporter = reviewing[p].reporter,
                             !.target = reviewing[p].target, !.status = "pending"]]
     ELSE r = reviewing[p].report /\ UNCHANGED report
  /\ LET sets == {S \in SUBSET Reports : PicksOnePerContent(report', S)}
     IN  IF sets = {}
         THEN reviewing' = [reviewing EXCEPT ![p].stage = "review", ![p].reporter = None,
                                             ![p].report = r]
         ELSE \E S \in sets :
                reviewing' = [reviewing EXCEPT ![p].stage = "escalate", ![p].reporter = None,
                                  ![p].report = r, ![p].pending = S]
  /\ overlapped' = (overlapped \cup {h \in {"escalate"} : Crosses(p, {"escalate"})})
  /\ UNCHANGED <<moderation, escalation>>

\* The escalation is inserted and its id written to the reports.
CommitEscalation(p, x) ==
  /\ reviewing[p].stage = "escalate" 
  /\ IsNext(x, {y \in Escalations : escalation[y] # "free"})
  /\ escalation' = [escalation EXCEPT ![x] = "pending"]
  /\ report' = [r \in Reports |->
                  IF r \in reviewing[p].pending THEN [report[r] EXCEPT !.escalation = x]
                  ELSE report[r]]
  /\ reviewing' = [reviewing EXCEPT ![p].stage = "review", ![p].pending = {}]
  /\ UNCHANGED <<moderation, overlapped>>

-----------------------------------------------------------------------------
(* review_report in the background                                         *)

\* If the review is switched off, or the report is not pending any more,
\* nothing happens; otherwise the model is asked, outside every lock.  The
\* administrators switch the review on and off at any moment.
StartReview(p, enabled) ==
  /\ reviewing[p].stage = "review"
  /\ reviewing' = [reviewing EXCEPT ![p] =
               IF enabled /\ report[reviewing[p].report].status = "pending"
               THEN [@ EXCEPT !.stage = "asking"] ELSE NoReview]
  /\ UNCHANGED <<moderation, report, escalation, overlapped>>

-----------------------------------------------------------------------------
(* release_reported_*, delete_reported_*, ban_reported_user_as_admin,      *)
(* moderate_reported_user_as_admin                                         *)

\* A release, and every decision on an account, needs something pending; the
\* deletion of a content needs the content to be public.
Refused(target, decision) ==
  IF decision = "delete" /\ target # Author
  THEN moderation[target] = "archived"
  ELSE Pending(target) = {} /\ (target = Author => PendingEscalations = {})

\* A decision that is not refused reads what is pending.
Decided(r, target, decision) ==
  [r EXCEPT !.stage = "commit", !.target = target, !.report = None, !.decision = decision,
     !.pending = Pending(target),
     !.escalations = IF target = Author THEN PendingEscalations ELSE {}]

\* "control" stands for control_username and control_bio and is for accounts
\* only; on contents, like "drop" and any answer that cannot be parsed, it
\* leaves the reports to the administrators.
Leaves(target, decision) == decision = "drop" \/ (decision = "control" /\ target # Author)

\* apply_llm_decision
Answer(p, decision) ==
  /\ reviewing[p].stage = "asking"
  /\ LET target == reviewing[p].target
         left == Leaves(target, decision) \/ Refused(target, decision)
     IN  reviewing' = [reviewing EXCEPT ![p] = IF left THEN NoReview
                                                ELSE Decided(@, target, decision)]
  /\ overlapped' = (overlapped \cup {h \in {"decide"} : Crosses(p, {"commit"})})
  /\ UNCHANGED <<moderation, report, escalation>>

\* An administrator decides on a target.
Decide(target, decision) ==
  /\ ~UnderWay(Admin)
  /\ decision = "control" => target = Author
  /\ ~Refused(target, decision)
  /\ reviewing' = [reviewing EXCEPT ![Admin] = Decided(NoReview, target, decision)]
  /\ overlapped' = (overlapped \cup {h \in {"decide"} : Crosses(Admin, {"commit"})})
  /\ UNCHANGED <<moderation, report, escalation>>

\* Mutation of Closing: the decision is written where its status belongs.
ClosesWithDecision(decision) == decision

Closing(decision) == IF decision = "pass" THEN "released" ELSE "confirmed"

\* The reports and escalations that were read are closed, and the content is
\* archived or the account sanctioned, in one transaction.
CommitDecision(p) ==
  LET r == reviewing[p] IN
  /\ r.stage = "commit"
  /\ report' = [x \in Reports |->
                  IF x \in r.pending THEN [report[x] EXCEPT !.status = Closing(r.decision)]
                  ELSE report[x]]
  /\ escalation' = [x \in Escalations |->
                      IF x \in r.escalations THEN Closing(r.decision) ELSE escalation[x]]
  /\ moderation' = [c \in Contents |->
                   IF c = r.target /\ r.decision = "delete" THEN "archived" ELSE moderation[c]]
  /\ reviewing' = [reviewing EXCEPT ![p] = NoReview]
  /\ UNCHANGED overlapped

-----------------------------------------------------------------------------
\* An administrator archives or restores a content without looking at the
\* reports on it.
Archive(c) ==
  /\ ~UnderWay(Admin) /\ moderation[c] = "active"
  /\ moderation' = [moderation EXCEPT ![c] = "archived"]
  /\ UNCHANGED <<report, escalation, reviewing, overlapped>>

Restore(c) ==
  /\ ~UnderWay(Admin) /\ moderation[c] = "archived"
  /\ moderation' = [moderation EXCEPT ![c] = "active"]
  /\ UNCHANGED <<report, escalation, reviewing, overlapped>>

\* The model or a handler fails, or the process ends.  Nothing retries a
\* review: the report stays for the administrators.
GiveUp(p) ==
  /\ UnderWay(p)
  /\ reviewing' = [reviewing EXCEPT ![p] = NoReview]
  /\ UNCHANGED <<moderation, report, escalation, overlapped>>

ReviewInit ==
  /\ moderation = [c \in Contents |-> "active"]
  /\ report = [r \in Reports |-> Free]
  /\ escalation = [x \in Escalations |-> "free"]
  /\ reviewing = [p \in Reviewers |-> NoReview]
  /\ overlapped = {}

ReviewNext ==
  \/ \E p \in Requests :
       \/ \E m \in Users, t \in Targets : ReadSubmit(p, m, t)
       \/ \E r \in Reports : CommitSubmit(p, r)
       \/ \E x \in Escalations : CommitEscalation(p, x)
       \/ \E enabled \in BOOLEAN : StartReview(p, enabled)
       \/ \E d \in {"pass", "delete", "control", "drop"} : Answer(p, d)
  \/ \E t \in Targets, d \in {"pass", "delete", "control"} : Decide(t, d)
  \/ \E p \in Reviewers : CommitDecision(p) \/ GiveUp(p)
  \/ \E c \in Contents : Archive(c) \/ Restore(c)

ReviewSpec == ReviewInit /\ [][ReviewNext]_reviewVars

-----------------------------------------------------------------------------
(* Properties                                                              *)

ReportRows == [reporter : Users \cup {None}, target : Targets \cup {None},
               status : {"free", "pending", "released", "confirmed"},
               escalation : Escalations \cup {None}]

Readings == [stage : {"idle", "insert", "escalate", "review", "asking", "commit"},
             reporter : Users \cup {None}, target : Targets \cup {None},
             report : Reports \cup {None},
             decision : {"none", "pass", "delete", "control"},
             pending : SUBSET Reports, escalations : SUBSET Escalations]

\* The values every variable can take.
ReviewTypeOK ==
  /\ moderation \in [Contents -> {"active", "archived"}]
  /\ report \in [Reports -> ReportRows]
  /\ escalation \in [Escalations -> {"free", "pending", "released", "confirmed"}]
  /\ reviewing \in [Reviewers -> Readings]
  /\ overlapped \subseteq {"submit", "escalate", "decide"}

\* As long as no two submissions overlap, a reporter has at most one pending
\* report on a target: a second one updates the reason of the first
\* (application.py:60-78).
OnePendingReport ==
  "submit" \notin overlapped =>
    \A r, s \in Reports :
      /\ report[r].status = "pending" /\ report[s].status = "pending"
      /\ report[r].target = report[s].target /\ report[r].reporter = report[s].reporter
      => r = s

\* As long as no two of them overlap, every escalation stands for as many
\* different contents as the limit asks, and no report is counted for two of
\* them, whatever is decided about the reports in the meantime
\* (application.py:92-145).
EscalationsBacked ==
  "escalate" \notin overlapped =>
    \A x \in Escalations : escalation[x] # "free" =>
      Cardinality({report[r].target : r \in {s \in Reports : report[s].escalation = x}})
        = EscalationLimit

\* Every report counts once: for its reporter, and for the escalation it is in.
ReportsCounted == OnePendingReport /\ EscalationsBacked

\* As long as decisions do not overlap, each report is decided once: what was
\* released is never confirmed by a review that comes back later, nor the
\* other way round (admin_application.py:568-608, 926-938).
DecidedOnce ==
  [][\A r \in Reports :
       report[r].status \in {"released", "confirmed"} /\ "decide" \notin overlapped
         => report'[r] = [report[r] EXCEPT !.escalation = report'[r].escalation]]_reviewVars
=============================================================================
