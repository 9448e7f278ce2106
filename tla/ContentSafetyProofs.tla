-------------------------- MODULE ContentSafetyProofs --------------------------
(***************************************************************************)
(* Proofs about ContentReview and Moderation, for every set of contents,   *)
(* users and overlapping requests and every number of reports, escalations *)
(* and violations.                                                         *)
(***************************************************************************)
EXTENDS Moderation, ContentReview, FiniteSetTheorems, TLAPS

\* If ids are given in turn, the next one is not used.
LEMMA NextIsFree ==
  ASSUME NEW N \in Nat, NEW S \in SUBSET (1..N), NEW n \in 0..N,
         \A i \in 1..N : i \in S <=> i <= n
  PROVE  /\ IsFiniteSet(S) /\ Cardinality(S) = n
         /\ Cardinality(S) + 1 \notin S
<1>1. S = 1..n
  <2>1. \A i : i \in S => i \in 1..n
    OBVIOUS
  <2>2. \A i \in 1..n : i \in 1..N
    OBVIOUS
  <2>3. \A i \in 1..n : i \in S
    BY <2>2
  <2>4. QED
    BY <2>1, <2>3
<1>2. IsFiniteSet(1..n) /\ Cardinality(1..n) = n
  BY FS_Interval
<1>3. QED
  BY <1>1, <1>2

\* A function that gives different values has as many as arguments.
LEMMA DistinctValues ==
  ASSUME NEW S, IsFiniteSet(S), NEW f, f \in [S -> {f[s] : s \in S}],
         \A r, s \in S : r # s => f[r] # f[s]
  PROVE  Cardinality({f[s] : s \in S}) = Cardinality(S)
<1> DEFINE T == {f[s] : s \in S}
<1>1. f \in Bijection(S, T)
  BY DEF Bijection, Injection, Surjection, IsInjective
<1>2. QED
  BY <1>1, FS_Bijection DEF ExistsBijection

-----------------------------------------------------------------------------
(***************************************************************************)
(* ContentReview.  A submission looks for the reporter's earlier report,   *)
(* an escalation for reports that count for none, and a decision for what  *)
(* is pending, each one step before it writes.  The invariant says what is *)
(* still true of that reading as long as no other request of the kind has  *)
(* come between.                                                           *)
(***************************************************************************)

\* Reports and escalations are numbered in turn, and a report belongs to an
\* escalation only if both are there.
RowsInTurn ==
  /\ \E n \in 0..MaxReport : \A r \in Reports : report[r].status # "free" <=> r <= n
  /\ \E n \in 0..MaxEscalation : \A x \in Escalations : escalation[x] # "free" <=> x <= n
  /\ \A r \in Reports :
       report[r].escalation # None => /\ report[r].status # "free"
                                      /\ escalation[report[r].escalation] # "free"

Stage(p) == reviewing[p].stage

\* One submission at a time is about to insert, and a new report if there is
\* none of its reporter on its target.
SubmitSound ==
  "submit" \notin overlapped =>
    /\ \A p, q \in Reviewers : Stage(p) = "insert" /\ Stage(q) = "insert" => p = q
    /\ \A p \in Reviewers : Stage(p) = "insert" /\ reviewing[p].report = None =>
         OwnPending(reviewing[p].reporter, reviewing[p].target) = {}

\* Reports of different contents that count for no escalation.
Uncounted(S) ==
  /\ Cardinality(S) = EscalationLimit
  /\ \A r \in S : report[r].status # "free" /\ report[r].escalation = None
  /\ \A r, s \in S : r # s => report[r].target # report[s].target

\* One request at a time is about to escalate, and what it has read is there
\* and counts for nothing else.
EscalateSound ==
  /\ \A p \in Reviewers : Stage(p) = "escalate" =>
       \A r \in reviewing[p].pending : report[r].status # "free"
  /\ "escalate" \notin overlapped =>
       /\ \A p, q \in Reviewers : Stage(p) = "escalate" /\ Stage(q) = "escalate" => p = q
       /\ \A p \in Reviewers : Stage(p) = "escalate" => Uncounted(reviewing[p].pending)

\* One decision at a time is about to be committed, and what it has read is
\* there and still pending.
DecisionSound ==
  /\ \A p \in Reviewers : Stage(p) = "commit" =>
       /\ \A r \in reviewing[p].pending : report[r].status # "free"
       /\ \A x \in reviewing[p].escalations : escalation[x] # "free"
  /\ "decide" \notin overlapped =>
       /\ \A p, q \in Reviewers : Stage(p) = "commit" /\ Stage(q) = "commit" => p = q
       /\ \A p \in Reviewers : Stage(p) = "commit" =>
            \A r \in reviewing[p].pending : report[r].status = "pending"

\* The inductive invariant.
ReviewInv ==
  /\ ReviewTypeOK /\ RowsInTurn
  /\ SubmitSound /\ OnePendingReport
  /\ EscalateSound /\ EscalationsBacked
  /\ DecisionSound

LEMMA PendingAreReports ==
  ASSUME ReviewTypeOK, NEW p \in Reviewers
  PROVE  reviewing[p].pending \subseteq Reports /\ reviewing[p].escalations \subseteq Escalations
BY DEF ReviewTypeOK, Readings

-----------------------------------------------------------------------------
(* Steps that only read                                                    *)

\* What concerns only the rows outlives every step that writes none.
LEMMA ReadingKeepsRows ==
  ASSUME ReviewInv, UNCHANGED <<report, escalation>>, overlapped \subseteq overlapped'
  PROVE  RowsInTurn' /\ OnePendingReport' /\ EscalationsBacked'
<1>1. RowsInTurn'
  BY DEF ReviewInv, RowsInTurn
<1>2. OnePendingReport'
  BY DEF ReviewInv, OnePendingReport
<1>3. EscalationsBacked'
  BY DEF ReviewInv, EscalationsBacked
<1>4. QED
  BY <1>1, <1>2, <1>3

\* A request that is about to write nothing of its own disturbs no reading.
LEMMA RestingKeepsReadings ==
  ASSUME ReviewInv, UNCHANGED <<report, escalation>>, overlapped \subseteq overlapped',
         NEW p \in Reviewers, NEW r, reviewing' = [reviewing EXCEPT ![p] = r],
         r.stage \in {"idle", "review", "asking"}
  PROVE  SubmitSound' /\ EscalateSound' /\ DecisionSound'
<1>1. \A q \in Reviewers : q # p => reviewing'[q] = reviewing[q]
  BY DEF ReviewInv, ReviewTypeOK
<1>2. reviewing'[p] = r
  BY DEF ReviewInv, ReviewTypeOK
<1>3. SubmitSound'
  BY <1>1, <1>2 DEF ReviewInv, SubmitSound, OwnPending, Pending, Stage
<1>4. EscalateSound'
  BY <1>1, <1>2 DEF ReviewInv, EscalateSound, Uncounted, Stage
<1>5. DecisionSound'
  BY <1>1, <1>2 DEF ReviewInv, DecisionSound, Stage
<1>6. QED
  BY <1>3, <1>4, <1>5

LEMMA StartReviewKeeps ==
  ASSUME ReviewInv, NEW p \in Requests, NEW enabled \in BOOLEAN, StartReview(p, enabled)
  PROVE  ReviewInv'
<1> USE DEF StartReview
<1>1. p \in Reviewers
  BY DEF Reviewers
<1>2. PICK r : /\ reviewing' = [reviewing EXCEPT ![p] = r]
               /\ r.stage \in {"asking", "idle"}
               /\ r = [reviewing[p] EXCEPT !.stage = "asking"] \/ r = NoReview
  BY <1>1 DEF ReviewInv, ReviewTypeOK, NoReview, Readings
<1>3. ReviewTypeOK'
  BY <1>1, <1>2 DEF ReviewInv, ReviewTypeOK, NoReview, Readings
<1>4. QED
  BY <1>1, <1>2, <1>3, ReadingKeepsRows, RestingKeepsReadings DEF ReviewInv

LEMMA GiveUpKeeps ==
  ASSUME ReviewInv, NEW p \in Reviewers, GiveUp(p)
  PROVE  ReviewInv'
<1> USE DEF GiveUp
<1>1. NoReview.stage = "idle"
  BY DEF NoReview
<1>2. ReviewTypeOK'
  BY DEF ReviewInv, ReviewTypeOK, NoReview, Readings
<1>3. QED
  BY <1>1, <1>2, ReadingKeepsRows, RestingKeepsReadings DEF ReviewInv

\* An administrator who archives or restores a content touches no report.
LEMMA StatusKeeps ==
  ASSUME ReviewInv, NEW c \in Contents, Archive(c) \/ Restore(c)
  PROVE  ReviewInv'
<1> USE DEF Archive, Restore
<1>1. ReviewTypeOK'
  BY DEF ReviewInv, ReviewTypeOK
<1>2. UNCHANGED <<report, escalation, reviewing, overlapped>>
  OBVIOUS
<1>3. SubmitSound' /\ EscalateSound' /\ DecisionSound'
  BY <1>2 DEF ReviewInv, SubmitSound, OwnPending, Pending, EscalateSound, Uncounted,
              DecisionSound, Stage
<1>4. QED
  BY <1>1, <1>2, <1>3, ReadingKeepsRows DEF ReviewInv

-----------------------------------------------------------------------------
(* Submissions                                                             *)

LEMMA ReadSubmitKeeps ==
  ASSUME ReviewInv, NEW p \in Requests, NEW m \in Users, NEW t \in Targets,
         ReadSubmit(p, m, t)
  PROVE  ReviewInv'
<1> DEFINE mine == OwnPending(m, t)
<1>1. PICK own :
        /\ own = IF mine = {} THEN None ELSE CHOOSE s \in mine : TRUE
        /\ reviewing' = [reviewing EXCEPT ![p] =
             [NoReview EXCEPT !.stage = "insert", !.reporter = m, !.target = t, !.report = own]]
  BY DEF ReadSubmit
<1>2. /\ UNCHANGED <<moderation, report, escalation>>
      /\ overlapped' = overlapped \cup {h \in {"submit"} : Crosses(p, {"insert"})}
  BY DEF ReadSubmit
<1> DEFINE r == [NoReview EXCEPT !.stage = "insert", !.reporter = m, !.target = t,
                                !.report = own]
<1>3. /\ p \in Reviewers
      /\ reviewing'[p] = r
      /\ \A q \in Reviewers : q # p => reviewing'[q] = reviewing[q]
      /\ reviewing' = [reviewing EXCEPT ![p] = r]
  <2> HIDE DEF r, mine
  <2>1. p \in Reviewers
    BY DEF Reviewers
  <2>2. QED
    BY <1>1, <2>1 DEF ReviewInv, ReviewTypeOK, r
<1>0. r.stage = "insert" /\ r.reporter = m /\ r.target = t /\ r.report = own /\ r.pending = {}
  BY DEF NoReview
<1>4. mine \subseteq Reports /\ None \notin Reports
  BY ReviewAssumption DEF OwnPending, Pending, Reports
<1>5. own \in Reports \cup {None} /\ (own = None => mine = {})
  BY <1>1, <1>4
<1>6. ReviewTypeOK'
  <2>1. r \in Readings
    BY <1>5 DEF NoReview, Readings
  <2>2. overlapped' \subseteq {"submit", "escalate", "decide"}
    BY <1>2 DEF ReviewInv, ReviewTypeOK
  <2> HIDE DEF r
  <2>3. QED
    BY <1>2, <1>3, <2>1, <2>2 DEF ReviewInv, ReviewTypeOK
<1>7. SubmitSound'
  <2> SUFFICES ASSUME "submit" \notin overlapped' PROVE SubmitSound'
    BY DEF SubmitSound
  <2>1. ~Crosses(p, {"insert"})
    BY <1>2
  <2>2. \A q \in Reviewers : Stage(q)' = "insert" => q = p
    BY <1>3, <2>1 DEF Crosses, Stage
  <2>3. OwnPending(m, t)' = mine
    BY <1>2 DEF OwnPending, Pending
  <2>4. \A q \in Reviewers : Stage(q)' = "insert" /\ reviewing'[q].report = None =>
          OwnPending(reviewing[q].reporter, reviewing[q].target)' = {}
    BY <1>3, <1>0, <1>5, <2>2, <2>3
  <2>5. QED
    BY <2>2, <2>4 DEF SubmitSound
<1>8. EscalateSound'
  BY <1>2, <1>3, <1>0 DEF ReviewInv, EscalateSound, Uncounted, Stage
<1>9. DecisionSound'
  BY <1>2, <1>3, <1>0 DEF ReviewInv, DecisionSound, Stage
<1>10. QED
  BY <1>2, <1>6, <1>7, <1>8, <1>9, ReadingKeepsRows DEF ReviewInv

\* The row that CommitSubmit inserts.
Inserted(p) == [Free EXCEPT !.reporter = reviewing[p].reporter,
                            !.target = reviewing[p].target, !.status = "pending"]

\* A new report takes a number that is free.
LEMMA SubmitInserts ==
  ASSUME ReviewInv, NEW p \in Requests, NEW r \in Reports, CommitSubmit(p, r)
  PROVE  \/ /\ reviewing[p].report = None /\ report[r].status = "free"
            /\ report' = [report EXCEPT ![r] = Inserted(p)]
            /\ \E n \in 0..MaxReport : \A s \in Reports : report'[s].status # "free" <=> s <= n
         \/ reviewing[p].report = r /\ UNCHANGED report
<1> DEFINE new == Inserted(p)
<1> USE DEF Inserted
<1>1. CASE reviewing[p].report = None
  <2> DEFINE used == {s \in Reports : report[s].status # "free"}
  <2>1. r = Cardinality(used) + 1 /\ report' = [report EXCEPT ![r] = new]
    BY <1>1 DEF CommitSubmit, IsNext
  <2>2. PICK n \in 0..MaxReport : \A s \in Reports : s \in used <=> s <= n
    BY DEF ReviewInv, RowsInTurn
  <2>3. Cardinality(used) = n /\ r \notin used
    <3>1. used \in SUBSET (1..MaxReport) /\ MaxReport \in Nat
      BY ReviewAssumption DEF Reports
    <3>2. QED
      BY <2>1, <2>2, <3>1, NextIsFree DEF Reports
  <2>4. \A s \in Reports : report'[s].status # "free" <=> s <= n + 1
    <3>1. report'[r].status = "pending"
      BY <2>1 DEF ReviewInv, ReviewTypeOK, Free
    <3>2. \A s \in Reports : s # r => report'[s] = report[s]
      BY <2>1 DEF ReviewInv, ReviewTypeOK
    <3>3. QED
      BY <2>1, <2>2, <2>3, <3>1, <3>2, ReviewAssumption DEF Reports
  <2>5. n + 1 \in 0..MaxReport
    BY <2>1, <2>3, ReviewAssumption DEF Reports
  <2>6. QED
    BY <1>1, <2>1, <2>3, <2>4, <2>5
<1>2. QED
  BY <1>1 DEF CommitSubmit

\* A submission changes no other report and no reading of another request.
LEMMA CommitSubmitKeeps ==
  ASSUME ReviewInv, NEW p \in Requests, NEW r \in Reports, CommitSubmit(p, r)
  PROVE  ReviewInv'
<1> DEFINE new == Inserted(p)
<1>1. /\ p \in Reviewers /\ Stage(p) = "insert"
      /\ UNCHANGED <<moderation, escalation>>
      /\ overlapped' = overlapped \cup {h \in {"escalate"} : Crosses(p, {"escalate"})}
  BY DEF CommitSubmit, Reviewers, Stage
<1>2. PICK v \in Readings :
        /\ reviewing' = [reviewing EXCEPT ![p] = v]
        /\ v.stage \in {"review", "escalate"}
        /\ v.stage = "escalate" => PicksOnePerContent(report', v.pending)
  <2> DEFINE sets == {S \in SUBSET Reports : PicksOnePerContent(report', S)}
             v1 == [reviewing[p] EXCEPT !.stage = "review", !.reporter = None, !.report = r]
             v2(S) == [reviewing[p] EXCEPT !.stage = "escalate", !.reporter = None,
                                           !.report = r, !.pending = S]
  <2>1. reviewing[p] \in Readings
    BY <1>1 DEF ReviewInv, ReviewTypeOK
  <2>2. CASE sets = {}
    <3>1. reviewing' = [reviewing EXCEPT ![p] = v1]
      BY <2>2 DEF CommitSubmit
    <3>2. v1 \in Readings /\ v1.stage = "review"
      BY <2>1 DEF Readings
    <3> HIDE DEF v1
    <3>3. QED
      BY <3>1, <3>2
  <2>3. CASE sets # {}
    <3>1. PICK S \in sets : reviewing' = [reviewing EXCEPT ![p] = v2(S)]
      BY <2>3 DEF CommitSubmit
    <3>2. v2(S) \in Readings /\ v2(S).stage = "escalate" /\ v2(S).pending = S
      BY <2>1 DEF Readings
    <3> HIDE DEF v2
    <3>3. PicksOnePerContent(report', S)
      OBVIOUS
    <3>4. QED
      BY <3>1, <3>2, <3>3
  <2>4. QED
    BY <2>2, <2>3
<1>3. \/ /\ reviewing[p].report = None /\ report[r].status = "free"
         /\ report' = [report EXCEPT ![r] = new]
         /\ \E n \in 0..MaxReport : \A s \in Reports : report'[s].status # "free" <=> s <= n
      \/ reviewing[p].report = r /\ UNCHANGED report
  BY SubmitInserts
<1>4. /\ new \in ReportRows /\ new.status = "pending" /\ new.escalation = None
      /\ new.reporter = reviewing[p].reporter /\ new.target = reviewing[p].target
  <2>1. reviewing[p] \in Readings
    BY <1>1 DEF ReviewInv, ReviewTypeOK
  <2>2. QED
    BY <2>1 DEF Inserted, Free, ReportRows, Readings
<1> HIDE DEF new
<1>5. /\ reviewing'[p] = v
      /\ \A q \in Reviewers : q # p => reviewing'[q] = reviewing[q]
  BY <1>1, <1>2 DEF ReviewInv, ReviewTypeOK
<1>6. /\ \A s \in Reports : s # r => report'[s] = report[s]
      /\ report'[r] \in {new, report[r]}
      /\ report[r].status = "free" \/ report'[r] = report[r]
  BY <1>3 DEF ReviewInv, ReviewTypeOK
<1>7. ReviewTypeOK'
  <2>1. report' \in [Reports -> ReportRows]
    BY <1>3, <1>4 DEF ReviewInv, ReviewTypeOK
  <2>2. reviewing' \in [Reviewers -> Readings]
    BY <1>2 DEF ReviewInv, ReviewTypeOK
  <2>3. QED
    BY <1>1, <2>1, <2>2 DEF ReviewInv, ReviewTypeOK
<1>8. RowsInTurn'
  BY <1>1, <1>3, <1>4, <1>6 DEF ReviewInv, RowsInTurn
<1>9. SubmitSound'
  BY <1>1, <1>2, <1>5 DEF ReviewInv, SubmitSound, Stage
<1>10. OnePendingReport'
  <2> SUFFICES ASSUME "submit" \notin overlapped
               PROVE  OnePendingReport'
    BY <1>1 DEF OnePendingReport
  <2>1. CASE UNCHANGED report
    BY <2>1 DEF ReviewInv, OnePendingReport
  <2>2. CASE reviewing[p].report = None /\ report' = [report EXCEPT ![r] = new]
    <3>1. OwnPending(new.reporter, new.target) = {}
      BY <1>1, <1>4, <2>2 DEF ReviewInv, SubmitSound
    <3>2. report'[r] = new
      BY <2>2 DEF ReviewInv, ReviewTypeOK
    <3>3. QED
      BY <1>6, <3>1, <3>2 DEF ReviewInv, OnePendingReport, OwnPending, Pending
  <2>3. QED
    BY <1>3, <2>1, <2>2
<1>11. EscalateSound'
  <2>1. Stage(p)' = "escalate" => Uncounted(reviewing[p].pending)'
    BY <1>2, <1>5 DEF Stage, PicksOnePerContent, Uncounted
  <2>2. \A q \in Reviewers : Stage(q)' = "escalate" =>
          \A s \in reviewing'[q].pending : report'[s].status # "free"
    BY <1>4, <1>5, <1>6, <2>1, PendingAreReports DEF ReviewInv, EscalateSound, Stage, Uncounted
  <2>3. ASSUME "escalate" \notin overlapped'
        PROVE  \A q \in Reviewers : Stage(q)' = "escalate" => q = p
    BY <1>1, <1>5, <2>3 DEF Crosses, Stage
  <2>4. QED
    BY <2>1, <2>2, <2>3 DEF EscalateSound
<1>12. EscalationsBacked'
  <2>1. \A s \in Reports : report'[s].escalation = report[s].escalation
    BY <1>4, <1>6 DEF ReviewInv, RowsInTurn
  <2>2. \A x \in Escalations, s \in Reports :
          report[s].escalation = x => report'[s] = report[s]
    BY <1>6, ReviewAssumption DEF ReviewInv, RowsInTurn, Escalations
  <2>3. \A x \in Escalations :
          {report'[s].target : s \in {u \in Reports : report'[u].escalation = x}}
          = {report[s].target : s \in {u \in Reports : report[u].escalation = x}}
    BY <2>1, <2>2
  <2>4. QED
    BY <1>1, <2>3 DEF ReviewInv, EscalationsBacked
<1>13. DecisionSound'
  BY <1>1, <1>2, <1>5, <1>6, PendingAreReports DEF ReviewInv, DecisionSound, Stage
<1>14. QED
  BY <1>7, <1>8, <1>9, <1>10, <1>11, <1>12, <1>13 DEF ReviewInv

\* The escalation takes a free number, and the reports it is written to were
\* in none.
LEMMA CommitEscalationKeeps ==
  ASSUME ReviewInv, NEW p \in Requests, NEW x \in Escalations, CommitEscalation(p, x)
  PROVE  ReviewInv'
<1> DEFINE S == reviewing[p].pending
           used == {y \in Escalations : escalation[y] # "free"}
<1>1. /\ p \in Reviewers /\ Stage(p) = "escalate" /\ S \subseteq Reports
      /\ UNCHANGED <<moderation, overlapped>>
      /\ x = Cardinality(used) + 1
      /\ escalation' = [escalation EXCEPT ![x] = "pending"]
  <2>1. p \in Reviewers /\ reviewing[p] \in Readings
    BY DEF Reviewers, ReviewInv, ReviewTypeOK
  <2>2. QED
    BY <2>1 DEF CommitEscalation, Stage, IsNext, Readings
<1>2. PICK v \in Readings : reviewing' = [reviewing EXCEPT ![p] = v] /\ v.stage = "review"
  <2>1. reviewing[p] \in Readings
    BY <1>1 DEF ReviewInv, ReviewTypeOK
  <2> DEFINE v1 == [reviewing[p] EXCEPT !.stage = "review", !.pending = {}]
  <2>2. v1 \in Readings /\ v1.stage = "review"
    BY <2>1 DEF Readings
  <2>3. reviewing' = [reviewing EXCEPT ![p] = v1]
    BY DEF CommitEscalation
  <2> HIDE DEF v1
  <2>4. QED
    BY <2>2, <2>3
<1>3. /\ reviewing'[p] = v
      /\ \A q \in Reviewers : q # p => reviewing'[q] = reviewing[q]
  BY <1>1, <1>2 DEF ReviewInv, ReviewTypeOK
<1>4. PICK n \in 0..MaxEscalation : \A y \in Escalations : y \in used <=> y <= n
  BY DEF ReviewInv, RowsInTurn
<1>5. n + 1 = x /\ escalation[x] = "free"
  <2>1. used \in SUBSET (1..MaxEscalation) /\ MaxEscalation \in Nat
    BY ReviewAssumption DEF Escalations
  <2>2. Cardinality(used) = n /\ x \notin used
    BY <1>1, <1>4, <2>1, NextIsFree DEF Escalations
  <2>3. QED
    BY <1>1, <2>2
<1>6. \A y \in Escalations : escalation'[y] = IF y = x THEN "pending" ELSE escalation[y]
  BY <1>1 DEF ReviewInv, ReviewTypeOK
<1>7. /\ \A r \in Reports : /\ r \in S => report'[r] = [report[r] EXCEPT !.escalation = x]
                            /\ r \notin S => report'[r] = report[r]
      /\ report' \in [Reports -> ReportRows]
  <2>1. \A r \in Reports : /\ report[r] \in ReportRows
                           /\ [report[r] EXCEPT !.escalation = x] \in ReportRows
    BY DEF ReviewInv, ReviewTypeOK, ReportRows
  <2>2. QED
    BY <2>1 DEF CommitEscalation
<1>8. \A r \in Reports : /\ report'[r].status = report[r].status
                         /\ report'[r].target = report[r].target
                         /\ report'[r].reporter = report[r].reporter
                         /\ report'[r].escalation = IF r \in S THEN x ELSE report[r].escalation
  BY <1>7 DEF ReviewInv, ReviewTypeOK, ReportRows
<1>9. ReviewTypeOK'
  BY <1>1, <1>2, <1>7 DEF ReviewInv, ReviewTypeOK
<1>10. SubmitSound'
  BY <1>1, <1>2, <1>3, <1>8 DEF ReviewInv, SubmitSound, OwnPending, Pending, Stage
<1>11. OnePendingReport'
  BY <1>1, <1>8 DEF ReviewInv, OnePendingReport
<1>12. EscalateSound'
  BY <1>1, <1>2, <1>3, <1>8, PendingAreReports DEF ReviewInv, EscalateSound, Stage
<1>13. DecisionSound'
  BY <1>1, <1>2, <1>3, <1>6, <1>8, PendingAreReports DEF ReviewInv, DecisionSound, Stage
<1>14. RowsInTurn'
  <2>1. n + 1 \in 0..MaxEscalation
    BY <1>5, ReviewAssumption DEF Escalations
  <2>2. \A y \in Escalations : escalation'[y] # "free" <=> y <= n + 1
    BY <1>4, <1>5, <1>6 DEF Escalations
  <2>3. \A r \in S : report[r].status # "free"
    BY <1>1 DEF ReviewInv, EscalateSound
  <2>4. \A r \in Reports : report'[r].escalation # None =>
          report'[r].status # "free" /\ escalation'[report'[r].escalation] # "free"
    <3> SUFFICES ASSUME NEW r \in Reports, report'[r].escalation # None
                 PROVE  report'[r].status # "free" /\ escalation'[report'[r].escalation] # "free"
      OBVIOUS
    <3>1. CASE r \in S
      BY <1>6, <1>8, <2>3, <3>1
    <3>2. CASE r \notin S
      <4>1. report[r].escalation \in Escalations
        BY <1>8, <3>2 DEF ReviewInv, ReviewTypeOK, ReportRows
      <4>2. QED
        BY <1>6, <1>8, <3>2, <4>1 DEF ReviewInv, RowsInTurn
    <3>3. QED
      BY <3>1, <3>2
  <2>5. \E m \in 0..MaxReport : \A r \in Reports : report'[r].status # "free" <=> r <= m
    BY <1>8 DEF ReviewInv, RowsInTurn
  <2>6. QED
    BY <2>1, <2>2, <2>4, <2>5 DEF RowsInTurn
<1>15. EscalationsBacked'
  <2> SUFFICES ASSUME "escalate" \notin overlapped, NEW y \in Escalations,
                      escalation'[y] # "free"
               PROVE  Cardinality({report'[r].target :
                                     r \in {s \in Reports : report'[s].escalation = y}})
                        = EscalationLimit
    BY <1>1 DEF EscalationsBacked
  <2>1. Uncounted(S)
    BY <1>1 DEF ReviewInv, EscalateSound
  <2>2. \A s \in Reports : report[s].escalation # x
    BY <1>5, ReviewAssumption DEF ReviewInv, RowsInTurn, Escalations
  <2>3. CASE y = x
    <3> DEFINE f == [r \in S |-> report[r].target]
    <3>1. {s \in Reports : report'[s].escalation = y} = S
      BY <1>1, <1>8, <2>2, <2>3
    <3>2. {report'[r].target : r \in S} = {f[r] : r \in S}
      BY <1>1, <1>8
    <3>3. IsFiniteSet(S)
      <4>1. IsFiniteSet(Reports)
        BY FS_Interval, ReviewAssumption DEF Reports
      <4> HIDE DEF S
      <4>2. QED
        BY <1>1, <4>1, FS_Subset
    <3>4. f \in [S -> {f[r] : r \in S}] /\ \A r, s \in S : r # s => f[r] # f[s]
      BY <2>1 DEF Uncounted
    <3>5. Cardinality({f[r] : r \in S}) = Cardinality(S)
      <4> HIDE DEF f
      <4>1. QED
        BY <3>3, <3>4, DistinctValues
    <3>6. QED
      BY <2>1, <3>1, <3>2, <3>5 DEF Uncounted
  <2>4. CASE y # x
    <3>1. {s \in Reports : report'[s].escalation = y}
            = {s \in Reports : report[s].escalation = y}
      BY <1>1, <1>8, <2>1, <2>4, ReviewAssumption DEF Uncounted, Escalations
    <3>2. {report'[r].target : r \in {s \in Reports : report'[s].escalation = y}}
            = {report[r].target : r \in {s \in Reports : report[s].escalation = y}}
      BY <1>8, <3>1
    <3>3. QED
      BY <1>6, <2>4, <3>2 DEF ReviewInv, EscalationsBacked
  <2>5. QED
    BY <2>3, <2>4
<1>16. QED
  BY <1>9, <1>10, <1>11, <1>12, <1>13, <1>14, <1>15 DEF ReviewInv

-----------------------------------------------------------------------------
(* Decisions                                                               *)

\* What is read for a decision is pending, and no other decision is under way
\* or the overlap is remembered.
LEMMA DecidingKeepsReadings ==
  ASSUME ReviewInv, UNCHANGED <<report, escalation>>, NEW p \in Reviewers, NEW v,
         reviewing' = [reviewing EXCEPT ![p] = v], v.stage = "commit",
         \A r \in v.pending : report[r].status = "pending",
         \A x \in v.escalations : escalation[x] = "pending",
         overlapped' = overlapped \cup {h \in {"decide"} : Crosses(p, {"commit"})}
  PROVE  SubmitSound' /\ EscalateSound' /\ DecisionSound'
<1>1. /\ reviewing'[p] = v
      /\ \A q \in Reviewers : q # p => reviewing'[q] = reviewing[q]
  BY DEF ReviewInv, ReviewTypeOK
<1>2. SubmitSound'
  BY <1>1 DEF ReviewInv, SubmitSound, OwnPending, Pending, Stage
<1>3. EscalateSound'
  BY <1>1 DEF ReviewInv, EscalateSound, Uncounted, Stage
<1>4. DecisionSound'
  <2>1. ASSUME "decide" \notin overlapped'
        PROVE  \A q \in Reviewers : Stage(q)' = "commit" => q = p
    BY <1>1, <2>1 DEF Crosses, Stage
  <2>2. QED
    BY <1>1, <2>1 DEF ReviewInv, DecisionSound, Stage
<1>5. QED
  BY <1>2, <1>3, <1>4

\* What a decision has read.
LEMMA DecidedReading ==
  ASSUME ReviewTypeOK, NEW r \in Readings, NEW t \in Targets \cup {None},
         NEW d \in {"pass", "delete", "control"}
  PROVE  /\ Decided(r, t, d) \in Readings
         /\ Decided(r, t, d).stage = "commit"
         /\ \A x \in Decided(r, t, d).pending : report[x].status = "pending"
         /\ \A x \in Decided(r, t, d).escalations : escalation[x] = "pending"
<1>1. Pending(t) \in SUBSET Reports /\ PendingEscalations \in SUBSET Escalations
  BY DEF Pending, PendingEscalations
<1>2. (IF t = Author THEN PendingEscalations ELSE {}) \in SUBSET Escalations
  BY <1>1
<1>3. /\ \A x \in Pending(t) : report[x].status = "pending"
      /\ \A x \in PendingEscalations : escalation[x] = "pending"
  BY DEF Pending, PendingEscalations
<1>4. QED
  BY <1>1, <1>2, <1>3 DEF Decided, Readings

LEMMA AnswerKeeps ==
  ASSUME ReviewInv, NEW p \in Requests, NEW d \in {"pass", "delete", "control", "drop"},
         Answer(p, d)
  PROVE  ReviewInv'
<1> DEFINE t == reviewing[p].target
           left == Leaves(t, d) \/ Refused(t, d)
<1>1. /\ p \in Reviewers /\ reviewing[p] \in Readings /\ t \in Targets \cup {None}
      /\ UNCHANGED <<moderation, report, escalation>>
      /\ overlapped' = overlapped \cup {h \in {"decide"} : Crosses(p, {"commit"})}
      /\ reviewing' = [reviewing EXCEPT ![p] = IF left THEN NoReview
                                                ELSE Decided(reviewing[p], t, d)]
  <2>1. p \in Reviewers
    BY DEF Reviewers
  <2>2. reviewing[p] \in Readings
    BY <2>1 DEF ReviewInv, ReviewTypeOK
  <2>3. t \in Targets \cup {None}
    BY <2>2 DEF Readings
  <2>4. QED
    BY <2>1, <2>2, <2>3 DEF Answer
<1>2. RowsInTurn' /\ OnePendingReport' /\ EscalationsBacked'
  BY <1>1, ReadingKeepsRows
<1>3. CASE left
  <2>1. reviewing' = [reviewing EXCEPT ![p] = NoReview]
    BY <1>1, <1>3
  <2>2. NoReview \in Readings /\ NoReview.stage = "idle"
    BY DEF NoReview, Readings
  <2>3. ReviewTypeOK'
    BY <1>1, <2>1, <2>2 DEF ReviewInv, ReviewTypeOK
  <2>4. SubmitSound' /\ EscalateSound' /\ DecisionSound'
    BY <1>1, <2>1, <2>2, RestingKeepsReadings
  <2>5. QED
    BY <1>2, <2>3, <2>4 DEF ReviewInv
<1>4. CASE ~left
  <2> DEFINE v == Decided(reviewing[p], t, d)
  <2>1. reviewing' = [reviewing EXCEPT ![p] = v]
    BY <1>1, <1>4
  <2>2. d \in {"pass", "delete", "control"}
    BY <1>4 DEF Leaves
  <2>3. /\ v \in Readings /\ v.stage = "commit"
        /\ \A x \in v.pending : report[x].status = "pending"
        /\ \A x \in v.escalations : escalation[x] = "pending"
    BY <1>1, <2>2, DecidedReading DEF ReviewInv
  <2> HIDE DEF v, left, t
  <2>4. ReviewTypeOK'
    BY <1>1, <2>1, <2>3 DEF ReviewInv, ReviewTypeOK
  <2>5. SubmitSound' /\ EscalateSound' /\ DecisionSound'
    BY <1>1, <2>1, <2>3, DecidingKeepsReadings
  <2>6. QED
    BY <1>2, <2>4, <2>5 DEF ReviewInv
<1>5. QED
  BY <1>3, <1>4

LEMMA DecideKeeps ==
  ASSUME ReviewInv, NEW t \in Targets, NEW d \in {"pass", "delete", "control"}, Decide(t, d)
  PROVE  ReviewInv'
<1> DEFINE v == Decided(NoReview, t, d)
<1>1. /\ Admin \in Reviewers
      /\ UNCHANGED <<moderation, report, escalation>>
      /\ overlapped' = overlapped \cup {h \in {"decide"} : Crosses(Admin, {"commit"})}
      /\ reviewing' = [reviewing EXCEPT ![Admin] = v]
  BY DEF Decide, Reviewers
<1>2. NoReview \in Readings
  BY DEF NoReview, Readings
<1>3. /\ v \in Readings /\ v.stage = "commit"
      /\ \A x \in v.pending : report[x].status = "pending"
      /\ \A x \in v.escalations : escalation[x] = "pending"
  BY <1>2, DecidedReading DEF ReviewInv
<1> HIDE DEF v
<1>4. ReviewTypeOK'
  BY <1>1, <1>3 DEF ReviewInv, ReviewTypeOK
<1>5. SubmitSound' /\ EscalateSound' /\ DecisionSound'
  BY <1>1, <1>3, DecidingKeepsReadings
<1>6. QED
  BY <1>1, <1>4, <1>5, ReadingKeepsRows DEF ReviewInv

\* Statuses leave "pending" and nothing else about a report changes.
LEMMA CommitDecisionKeeps ==
  ASSUME ReviewInv, NEW p \in Reviewers, CommitDecision(p)
  PROVE  ReviewInv'
<1> DEFINE S == reviewing[p].pending
           closed == Closing(reviewing[p].decision)
<1>1. /\ Stage(p) = "commit" /\ UNCHANGED overlapped
      /\ closed \in {"released", "confirmed"}
      /\ reviewing' = [reviewing EXCEPT ![p] = NoReview]
      /\ moderation' \in [Contents -> {"active", "archived"}]
  BY DEF CommitDecision, Closing, Stage, ReviewInv, ReviewTypeOK
<1>2. /\ reviewing'[p] = NoReview /\ NoReview \in Readings /\ NoReview.stage = "idle"
      /\ \A q \in Reviewers : q # p => reviewing'[q] = reviewing[q]
  BY <1>1 DEF ReviewInv, ReviewTypeOK, NoReview, Readings
<1>3. /\ \A r \in Reports : report'[r] = IF r \in S THEN [report[r] EXCEPT !.status = closed]
                                          ELSE report[r]
      /\ report' \in [Reports -> ReportRows]
  <2>1. \A r \in Reports : /\ report[r] \in ReportRows
                           /\ [report[r] EXCEPT !.status = closed] \in ReportRows
    BY <1>1 DEF ReviewInv, ReviewTypeOK, ReportRows
  <2>2. QED
    BY <2>1 DEF CommitDecision
<1>4. /\ \A x \in Escalations :
           escalation'[x] = escalation[x]
           \/ (escalation'[x] = closed /\ x \in reviewing[p].escalations)
      /\ escalation' \in [Escalations -> {"free", "pending", "released", "confirmed"}]
  <2>1. escalation' = [x \in Escalations |-> IF x \in reviewing[p].escalations THEN closed
                                             ELSE escalation[x]]
    BY DEF CommitDecision
  <2>2. /\ closed \in {"free", "pending", "released", "confirmed"}
        /\ escalation \in [Escalations -> {"free", "pending", "released", "confirmed"}]
    BY <1>1 DEF ReviewInv, ReviewTypeOK
  <2> HIDE DEF closed
  <2>3. \A x \in Escalations : escalation'[x] = IF x \in reviewing[p].escalations THEN closed
                                                ELSE escalation[x]
    BY <2>1
  <2>4. escalation' \in [Escalations -> {"free", "pending", "released", "confirmed"}]
    <3>1. \A x \in Escalations : escalation[x] \in {"free", "pending", "released", "confirmed"}
      BY <2>2
    <3>2. QED
      BY <2>1, <2>2, <3>1
  <2>5. QED
    BY <2>3, <2>4
<1>5. \A r \in Reports : /\ report'[r].target = report[r].target
                         /\ report'[r].reporter = report[r].reporter
                         /\ report'[r].escalation = report[r].escalation
                         /\ report'[r].status = IF r \in S THEN closed ELSE report[r].status
  BY <1>3 DEF ReviewInv, ReviewTypeOK, ReportRows
<1>6. ReviewTypeOK'
  BY <1>1, <1>2, <1>3, <1>4 DEF ReviewInv, ReviewTypeOK
<1>7. SubmitSound'
  BY <1>1, <1>2, <1>5 DEF ReviewInv, SubmitSound, OwnPending, Pending, Stage
<1>8. OnePendingReport'
  BY <1>1, <1>5 DEF ReviewInv, OnePendingReport
<1>9. DecisionSound'
  BY <1>1, <1>2, <1>4, <1>5, PendingAreReports DEF ReviewInv, DecisionSound, Stage
<1>10. /\ \A r \in Reports : report'[r].status = "free" <=> report[r].status = "free"
       /\ \A x \in Escalations : escalation'[x] = "free" <=> escalation[x] = "free"
  BY <1>1, <1>4, <1>5 DEF ReviewInv, DecisionSound
<1>11. RowsInTurn'
  <2>1. \A r \in Reports : report[r].escalation \in Escalations \cup {None}
    BY DEF ReviewInv, ReviewTypeOK, ReportRows
  <2>2. QED
    BY <1>5, <1>10, <2>1 DEF ReviewInv, RowsInTurn
<1>12. EscalateSound'
  BY <1>1, <1>2, <1>5, <1>10, PendingAreReports DEF ReviewInv, EscalateSound, Uncounted, Stage
<1>13. EscalationsBacked'
  <2>1. \A x \in Escalations :
          {report'[r].target : r \in {s \in Reports : report'[s].escalation = x}}
          = {report[r].target : r \in {s \in Reports : report[s].escalation = x}}
    BY <1>5
  <2>2. QED
    BY <1>1, <1>10, <2>1 DEF ReviewInv, EscalationsBacked
<1>14. QED
  BY <1>6, <1>7, <1>8, <1>9, <1>11, <1>12, <1>13 DEF ReviewInv

-----------------------------------------------------------------------------
(* Theorems                                                                *)

LEMMA ReviewInit_Inv == ReviewInit => ReviewInv
<1> SUFFICES ASSUME ReviewInit PROVE ReviewInv
  OBVIOUS
<1> USE DEF ReviewInit
<1>1. ReviewTypeOK
  BY DEF ReviewTypeOK, ReportRows, Readings, Free, NoReview
<1>2. RowsInTurn
  <2>1. 0 \in 0..MaxReport /\ 0 \in 0..MaxEscalation
    BY ReviewAssumption
  <2>2. /\ \A r \in Reports : report[r].status # "free" <=> r <= 0
        /\ \A x \in Escalations : escalation[x] # "free" <=> x <= 0
    BY ReviewAssumption DEF Reports, Escalations, Free
  <2>3. \A r \in Reports : report[r].escalation = None
    BY DEF Free
  <2>4. QED
    BY <2>1, <2>2, <2>3 DEF RowsInTurn
<1>3. SubmitSound /\ EscalateSound /\ DecisionSound
  BY DEF SubmitSound, EscalateSound, DecisionSound, Stage, NoReview
<1>4. OnePendingReport /\ EscalationsBacked
  BY DEF OnePendingReport, EscalationsBacked, Free
<1>5. QED
  BY <1>1, <1>2, <1>3, <1>4 DEF ReviewInv

LEMMA ReviewNext_Inv == ReviewInv /\ [ReviewNext]_reviewVars => ReviewInv'
<1> SUFFICES ASSUME ReviewInv, [ReviewNext]_reviewVars PROVE ReviewInv'
  OBVIOUS
<1>1. CASE UNCHANGED reviewVars
  BY <1>1 DEF reviewVars, ReviewInv, ReviewTypeOK, RowsInTurn, SubmitSound, OwnPending, Pending,
              OnePendingReport, EscalateSound, Uncounted, EscalationsBacked, DecisionSound, Stage
<1>2. CASE ReviewNext
  BY <1>2, ReadSubmitKeeps, CommitSubmitKeeps, CommitEscalationKeeps, StartReviewKeeps,
     AnswerKeeps, DecideKeeps, CommitDecisionKeeps, GiveUpKeeps, StatusKeeps DEF ReviewNext
<1>3. QED
  BY <1>1, <1>2

LEMMA ReviewInvariant == ReviewSpec => []ReviewInv
BY ReviewInit_Inv, ReviewNext_Inv, PTL DEF ReviewSpec

\* The rows of reports and escalations, and what requests have read, keep their
\* types.
THEOREM ReviewTypes == ReviewSpec => []ReviewTypeOK
<1>1. ReviewInv => ReviewTypeOK
  BY DEF ReviewInv
<1>2. QED
  BY <1>1, ReviewInvariant, PTL

\* A report counts once for its reporter and once for an escalation, for every
\* limit and however the submissions, escalations and decisions interleave
\* (application.py:60-145).
THEOREM EachReportCountsOnce == ReviewSpec => []ReportsCounted
<1>1. ReviewInv => ReportsCounted
  BY DEF ReviewInv, ReportsCounted
<1>2. QED
  BY <1>1, ReviewInvariant, PTL

\* What was decided about a report stays decided (llm_moderation.py:255,
\* admin_application.py:568-608).
THEOREM DecisionsStand == ReviewSpec => DecidedOnce
<1> DEFINE Stands == \A r \in Reports :
       report[r].status \in {"released", "confirmed"} /\ "decide" \notin overlapped
         => report'[r] = [report[r] EXCEPT !.escalation = report'[r].escalation]
<1>1. ReviewInv /\ [ReviewNext]_reviewVars => [Stands]_reviewVars
  <2> SUFFICES ASSUME ReviewInv, ReviewNext, NEW r \in Reports,
                      report[r].status \in {"released", "confirmed"}, "decide" \notin overlapped
               PROVE  report'[r] = [report[r] EXCEPT !.escalation = report'[r].escalation]
    OBVIOUS
  <2>1. report[r] = [report[r] EXCEPT !.escalation = report[r].escalation]
    BY DEF ReviewInv, ReviewTypeOK, ReportRows
  <2>2. CASE report'[r] = report[r]
    BY <2>1, <2>2
  <2>3. ASSUME NEW p \in Requests, NEW s \in Reports, CommitSubmit(p, s)
        PROVE  report'[r] = report[r]
    BY <2>3, SubmitInserts DEF ReviewInv, ReviewTypeOK
  <2>4. ASSUME NEW p \in Requests, NEW x \in Escalations, CommitEscalation(p, x)
        PROVE  \/ report'[r] = report[r]
               \/ report'[r] = [report[r] EXCEPT !.escalation = x]
    BY <2>4 DEF CommitEscalation
  <2>5. ASSUME NEW p \in Reviewers, CommitDecision(p)
        PROVE  report'[r] = report[r]
    <3>1. r \notin reviewing[p].pending
      BY <2>5 DEF CommitDecision, ReviewInv, DecisionSound, Stage
    <3>2. QED
      BY <2>5, <3>1 DEF CommitDecision
  <2>6. ASSUME NEW x, report'[r] = [report[r] EXCEPT !.escalation = x]
        PROVE  report'[r] = [report[r] EXCEPT !.escalation = report'[r].escalation]
    BY <2>6 DEF ReviewInv, ReviewTypeOK, ReportRows
  <2>7. \/ UNCHANGED report
        \/ \E p \in Requests, s \in Reports : CommitSubmit(p, s)
        \/ \E p \in Requests, x \in Escalations : CommitEscalation(p, x)
        \/ \E p \in Reviewers : CommitDecision(p)
    BY DEF ReviewNext, ReadSubmit, StartReview, Answer, Decide, GiveUp, Archive, Restore
  <2>8. QED
    BY <2>2, <2>3, <2>4, <2>5, <2>6, <2>7
<1>2. QED
  BY <1>1, ReviewInvariant, PTL DEF ReviewSpec, DecidedOnce

-----------------------------------------------------------------------------
(***************************************************************************)
(* Moderation.  A request computes the count it writes from the one it has *)
(* read.  Two violations cannot both hold the row of the user, so what a   *)
(* request has read is what the row still says, unless a release and a     *)
(* violation overlap (raced).  A content has one event, and whatever makes *)
(* the content public or grants an appeal has found that event first.      *)
(***************************************************************************)

\* Events are numbered in turn, a content has at most one, and an appeal is
\* against an event.
EventsSound ==
  /\ \E n \in 0..MaxEvent : \A e \in Events : e \in Recorded <=> e <= n
  /\ \A e, f \in Recorded :
       event[e].source # None /\ event[e].source = event[f].source => e = f
  /\ \A e \in Events : appeal[e] # "none" => e \in Recorded

\* The event a request is about to reverse belongs to its content and category.
Concerns(r) ==
  r.e \in Recorded /\ event[r.e].source = r.c /\ event[r.e].category = r.category

\* What a request carries to its commit.
RequestSound(p) ==
  /\ req[p].op \in ViolationOps => req[p].category \in Categories
  /\ req[p].stage = "lock" => req[p].op \in ViolationOps
  /\ req[p].op \in ReleaseOps => p = Admin /\ req[p].category \in Categories
  /\ req[p].op \in {"restore", "approve content"} => req[p].c \in Contents /\ Concerns(req[p])
  /\ req[p].op = "approve user" => req[p].c = None /\ Concerns(req[p])
  /\ req[p].op = "release" => req[p].c = None
  /\ req[p].stage = "mark" =>
       /\ req[p].op = "approve content"
       /\ req[p].category \in Counted => event[req[p].e].reversed

RequestsSound == \A p \in Sessions : RequestSound(p)

\* The inductive invariant behind RightedIsReversed.
RightingInv == TypeOK /\ EventsSound /\ RequestsSound /\ RightedIsReversed

\* One violation at a time holds the row of the user, and what a request has
\* read of the counts is what the row says.
ReadingsExact ==
  /\ \A p, q \in Sessions : Violating(p) /\ Violating(q) => p = q
  /\ ~raced => \A p \in Sessions :
                 InFlight(p) /\ req[p].stage = "write" /\ req[p].category \in Counted =>
                   req[p].seen.count = mod[req[p].category].count

\* The inductive invariant behind CountsExact.
CountingInv == RightingInv /\ ReadingsExact /\ CountsExact

-----------------------------------------------------------------------------
(* Helpers                                                                 *)

\* What a release writes is a row again.
LEMMA ReleasedType ==
  ASSUME NEW now \in Rows, NEW seen \in Rows, NEW e, NEW reverse \in BOOLEAN
  PROVE  Released(now, seen, e, reverse) \in Rows
<1> DEFINE lifted == [now EXCEPT !.term      = Written(@, seen.term, "none"),
                                 !.permanent = Written(@, seen.permanent, FALSE),
                                 !.current   = Written(@, seen.current, None)]
           row == IF Lifts(seen, e) THEN lifted ELSE now
           count == Reduced(row.count, seen.count, reverse)
<1>1. row \in Rows
  BY DEF Written, Rows
<1>2. count \in Nat
  BY <1>1 DEF Reduced, Written, OneLess, Rows
<1>3. Released(now, seen, e, reverse) = [row EXCEPT !.count = count]
  BY DEF Released
<1> HIDE DEF row, count
<1>4. QED
  BY <1>1, <1>2, <1>3 DEF Rows

LEMMA RestrictionType ==
  ASSUME NEW now \in Rows, NEW seen \in Rows, NEW e \in Events
  PROVE  Restriction(now, seen, e) \in Rows
<1> DEFINE long == seen.count + 1 >= PermanentAt
           term == IF long THEN Written(now.term, seen.term, "none") ELSE "running"
           permanent == Written(now.permanent, seen.permanent, long)
<1>1. seen.count + 1 \in Nat /\ long \in BOOLEAN
  BY ModerationAssumption DEF Rows
<1>2. term \in {"none", "running", "over"}
  BY DEF Written, Rows
<1>3. permanent \in BOOLEAN
  BY <1>1 DEF Written, Rows
<1>4. Restriction(now, seen, e) = [count |-> seen.count + 1, term |-> term,
                                   permanent |-> permanent, current |-> e]
  BY DEF Restriction
<1> HIDE DEF term, permanent
<1>5. QED
  BY <1>1, <1>2, <1>3, <1>4 DEF Rows

\* Steps that change neither events nor appeals nor what is public leave what
\* was righted alone.
LEMMA RightedKeeps ==
  ASSUME RightedIsReversed, UNCHANGED <<event, appeal, content>>
  PROVE  RightedIsReversed'
BY DEF RightedIsReversed, Recorded

LEMMA EventsKeep ==
  ASSUME EventsSound, UNCHANGED <<event, appeal>>
  PROVE  EventsSound'
BY DEF EventsSound, Recorded

\* A request that begins, and finds what it needs.
LEMMA BeginKeeps ==
  ASSUME RightingInv, UNCHANGED <<content, mod, event, appeal, raced>>,
         NEW p \in Sessions, NEW r \in InProgress, req' = [req EXCEPT ![p] = r],
         r.stage # "mark", r.stage = "lock" => r.op \in ViolationOps,
         r.op \in ViolationOps => r.category \in Categories,
         r.op \in ReleaseOps => p = Admin /\ r.category \in Categories,
         r.op \in {"restore", "approve content"} => r.c \in Contents /\ Concerns(r),
         r.op = "approve user" => r.c = None /\ Concerns(r),
         r.op = "release" => r.c = None
  PROVE  RightingInv'
<1>1. TypeOK'
  BY DEF RightingInv, TypeOK
<1>2. RequestsSound'
  <2>1. /\ req'[p] = r
        /\ \A q \in Sessions : q # p => req'[q] = req[q]
    BY DEF RightingInv, TypeOK
  <2>2. \A x : Concerns(x)' = Concerns(x)
    BY DEF Concerns, Recorded
  <2>3. QED
    <3> SUFFICES ASSUME NEW q \in Sessions PROVE RequestSound(q)'
      BY DEF RequestsSound
    <3>1. CASE q = p
      BY <2>1, <2>2, <3>1 DEF RequestSound
    <3>2. CASE q # p
      BY <2>1, <2>2, <3>2 DEF RightingInv, RequestsSound, RequestSound
    <3>3. QED
      BY <3>1, <3>2
<1>3. QED
  BY <1>1, <1>2, RightedKeeps, EventsKeep DEF RightingInv

LEMMA ReadArchiveKeeps ==
  ASSUME RightingInv, NEW p \in Sessions, NEW c \in Contents, NEW notify \in BOOLEAN,
         ReadArchive(p, c, notify)
  PROVE  RightingInv'
<1> DEFINE r == [Idle EXCEPT !.op = "archive", !.stage = "lock", !.c = c,
                             !.category = Content, !.notify = notify]
<1>1. req' = [req EXCEPT ![p] = r] /\ UNCHANGED <<content, mod, event, appeal, raced>>
  BY DEF ReadArchive
<1>2. r \in InProgress /\ r.stage = "lock" /\ r.op = "archive" /\ r.category = Content
  BY ModerationAssumption DEF Idle, InProgress, Unrestricted, Rows, ViolationOps
<1> HIDE DEF r
<1>3. QED
  BY <1>1, <1>2, BeginKeeps, ModerationAssumption DEF ViolationOps, ReleaseOps

LEMMA BeginSanctionKeeps ==
  ASSUME RightingInv, NEW p \in Sessions, NEW k \in Categories, BeginSanction(p, k)
  PROVE  RightingInv'
<1> DEFINE r == [Idle EXCEPT !.op = "sanction", !.stage = "lock", !.category = k,
                             !.notify = TRUE]
<1>1. req' = [req EXCEPT ![p] = r] /\ UNCHANGED <<content, mod, event, appeal, raced>>
  BY DEF BeginSanction
<1>2. r \in InProgress /\ r.stage = "lock" /\ r.op = "sanction" /\ r.category = k
  BY DEF Idle, InProgress, Unrestricted, Rows, ViolationOps
<1> HIDE DEF r
<1>3. QED
  BY <1>1, <1>2, BeginKeeps DEF ViolationOps, ReleaseOps

LEMMA LockUserKeeps ==
  ASSUME RightingInv, NEW p \in Sessions, LockUser(p)
  PROVE  RightingInv'
<1> DEFINE r == [req[p] EXCEPT !.stage = "write", !.seen = mod[req[p].category]]
<1>1. req' = [req EXCEPT ![p] = r] /\ UNCHANGED <<content, mod, event, appeal, raced>>
  BY DEF LockUser
<1>2. /\ req[p] \in InProgress /\ req[p].category \in Categories
      /\ req[p].op \in ViolationOps
  BY DEF RightingInv, TypeOK, RequestsSound, RequestSound, LockUser
<1>3. /\ r \in InProgress /\ r.stage = "write" /\ r.op = req[p].op
      /\ r.category = req[p].category
  BY <1>2 DEF RightingInv, TypeOK, InProgress
<1> HIDE DEF r
<1>4. QED
  BY <1>1, <1>2, <1>3, BeginKeeps DEF ViolationOps, ReleaseOps

LEMMA RollBackKeeps ==
  ASSUME RightingInv, NEW p \in Sessions, RollBack(p)
  PROVE  RightingInv'
<1>1. Idle \in InProgress /\ Idle.stage = "none" /\ Idle.op = "idle"
  BY DEF Idle, InProgress, Unrestricted, Rows
<1>2. QED
  BY <1>1, BeginKeeps DEF RollBack, ViolationOps, ReleaseOps

LEMMA ReadRestoreKeeps ==
  ASSUME RightingInv, NEW c \in Contents, ReadRestore(c)
  PROVE  RightingInv'
<1>1. PICK e \in EventOf(c) :
        req' = [req EXCEPT ![Admin] =
                 [Idle EXCEPT !.op = "restore", !.stage = "write", !.c = c,
                    !.category = event[e].category, !.e = e, !.seen = mod[event[e].category]]]
  BY DEF ReadRestore
<1> DEFINE r == [Idle EXCEPT !.op = "restore", !.stage = "write", !.c = c,
                    !.category = event[e].category, !.e = e, !.seen = mod[event[e].category]]
<1>2. UNCHANGED <<content, mod, event, appeal, raced>>
  BY DEF ReadRestore
<1>3. e \in Recorded /\ event[e].source = c /\ event[e].category \in Categories
  BY DEF EventOf, Recorded, RightingInv, TypeOK, EventRows
<1>4. r \in InProgress
  BY <1>3 DEF Idle, InProgress, ReleaseOps, Recorded, RightingInv, TypeOK
<1>5. r.stage = "write" /\ r.op = "restore" /\ r.c = c /\ r.category \in Categories /\ Concerns(r)
  BY <1>3 DEF Idle, Concerns
<1>6. Admin \in Sessions /\ req' = [req EXCEPT ![Admin] = r]
  BY <1>1 DEF Sessions
<1> HIDE DEF r
<1>7. QED
  BY <1>2, <1>4, <1>5, <1>6, BeginKeeps DEF ViolationOps

LEMMA ReadReleaseKeeps ==
  ASSUME RightingInv, NEW k \in Categories, ReadRelease(k)
  PROVE  RightingInv'
<1> DEFINE r == [Idle EXCEPT !.op = "release", !.stage = "write", !.category = k,
                             !.e = mod[k].current, !.seen = mod[k]]
<1>1. /\ Admin \in Sessions /\ req' = [req EXCEPT ![Admin] = r]
      /\ UNCHANGED <<content, mod, event, appeal, raced>>
  BY DEF ReadRelease, Sessions
<1>2. mod[k] \in Rows /\ mod[k].current \in Events \cup {None}
  BY DEF RightingInv, TypeOK, Rows
<1>3. r \in InProgress /\ r.stage = "write" /\ r.op = "release" /\ r.c = None /\ r.category = k
  BY <1>2 DEF Idle, InProgress, ReleaseOps
<1> HIDE DEF r
<1>4. QED
  BY <1>1, <1>3, BeginKeeps DEF ViolationOps

LEMMA ReadApproveKeeps ==
  ASSUME RightingInv, NEW e \in Events, ReadApprove(e)
  PROVE  RightingInv'
<1> DEFINE c == event[e].source
           op == IF c = None THEN "approve user" ELSE "approve content"
           r == [Idle EXCEPT !.op = op, !.stage = "write", !.c = c,
                             !.category = event[e].category, !.e = e,
                             !.seen = mod[event[e].category]]
<1>1. /\ Admin \in Sessions /\ req' = [req EXCEPT ![Admin] = r]
      /\ UNCHANGED <<content, mod, event, appeal, raced>>
      /\ appeal[e] = "pending"
  BY DEF ReadApprove, Sessions
<1>2. /\ e \in Recorded /\ event[e].category \in Categories
      /\ mod[event[e].category] \in Rows /\ c \in Contents \cup {None}
  BY <1>1 DEF RightingInv, EventsSound, TypeOK, EventRows, Recorded
<1>3. /\ op \in {"approve user", "approve content"}
      /\ op = "approve user" => c = None
      /\ op = "approve content" => c \in Contents
  BY <1>2
<1> HIDE DEF op, c
<1>4. r \in InProgress
  BY <1>2, <1>3 DEF Idle, InProgress, ReleaseOps
<1>5. r.stage = "write" /\ r.op = op /\ r.c = c /\ r.category \in Categories /\ Concerns(r)
  BY <1>2 DEF Idle, Concerns, c
<1> HIDE DEF r
<1>6. QED
  BY <1>1, <1>3, <1>4, <1>5, BeginKeeps DEF ViolationOps

-----------------------------------------------------------------------------
(* Commits                                                                 *)

\* A violation of a content that has an event changes neither events nor
\* counts; any other takes the next number for an event of its own.
LEMMA ViolationRecords ==
  ASSUME RightingInv, NEW p \in Sessions, NEW e \in Events, CommitViolation(p, e)
  PROVE  \/ req[p].c # None /\ EventOf(req[p].c) # {} /\ UNCHANGED <<mod, event>>
         \/ /\ req[p].c = None \/ EventOf(req[p].c) = {}
            /\ e \notin Recorded
            /\ \E n \in 0..MaxEvent : \A f \in Events : f \in Recorded \cup {e} <=> f <= n
            /\ event' = [event EXCEPT ![e] =
                 [NoEvent EXCEPT !.category = req[p].category, !.source = req[p].c,
                                 !.notified = req[p].notify]]
            /\ mod' = [mod EXCEPT ![req[p].category] =
                 IF req[p].category = Account
                 THEN [mod[req[p].category] EXCEPT !.term = "running", !.current = e]
                 ELSE Restriction(mod[req[p].category], req[p].seen, e)]
<1>1. CASE req[p].c # None /\ EventOf(req[p].c) # {}
  BY <1>1 DEF CommitViolation
<1>2. CASE ~(req[p].c # None /\ EventOf(req[p].c) # {})
  <2>1. PICK n \in 0..MaxEvent : \A f \in Events : f \in Recorded <=> f <= n
    BY DEF RightingInv, EventsSound
  <2>2. e = Cardinality(Recorded) + 1
    BY <1>2 DEF CommitViolation
  <2>3. Cardinality(Recorded) = n /\ e \notin Recorded
    <3>1. Recorded \in SUBSET (1..MaxEvent) /\ MaxEvent \in Nat
      BY ModerationAssumption DEF Recorded, Events
    <3>2. QED
      BY <2>1, <2>2, <3>1, NextIsFree DEF Events
  <2>4. n + 1 \in 0..MaxEvent /\ \A f \in Events : f \in Recorded \cup {e} <=> f <= n + 1
    BY <2>1, <2>2, <2>3, ModerationAssumption DEF Events
  <2>5. QED
    BY <1>2, <2>3, <2>4 DEF CommitViolation
<1>3. QED
  BY <1>1, <1>2

\* The new event has a content of its own, which is archived with it, and no
\* appeal yet.
LEMMA CommitViolationKeeps ==
  ASSUME RightingInv, NEW p \in Sessions, NEW e \in Events, CommitViolation(p, e)
  PROVE  RightingInv'
<1> DEFINE new == [NoEvent EXCEPT !.category = req[p].category, !.source = req[p].c,
                                  !.notified = req[p].notify]
           k == req[p].category
           row == IF k = Account THEN [mod[k] EXCEPT !.term = "running", !.current = e]
                  ELSE Restriction(mod[k], req[p].seen, e)
<1>1. /\ req[p] \in InProgress /\ k \in Categories /\ UNCHANGED appeal
      /\ content' = [c \in Contents |-> IF c = req[p].c THEN "archived" ELSE content[c]]
      /\ req' = [req EXCEPT ![p] = Idle] /\ raced' \in BOOLEAN
  BY DEF CommitViolation, Violating, ViolationOps, RightingInv, TypeOK, RequestsSound,
         RequestSound, Overlaps
<1>2. new \in EventRows /\ new.category = k /\ new.source = req[p].c /\ ~new.reversed
  BY <1>1 DEF NoEvent, EventRows, InProgress
<1>3. row \in Rows
  <2>1. mod[k] \in Rows /\ req[p].seen \in Rows
    BY <1>1 DEF RightingInv, TypeOK, InProgress
  <2>2. [mod[k] EXCEPT !.term = "running", !.current = e] \in Rows
    BY <2>1 DEF Rows
  <2>3. QED
    BY <2>1, <2>2, RestrictionType
<1>4. Idle \in InProgress /\ Idle.stage = "none" /\ Idle.op = "idle"
  BY DEF Idle, InProgress, Unrestricted, Rows
<1>5. \/ req[p].c # None /\ EventOf(req[p].c) # {} /\ UNCHANGED <<mod, event>>
      \/ /\ req[p].c = None \/ EventOf(req[p].c) = {}
         /\ e \notin Recorded
         /\ \E n \in 0..MaxEvent : \A f \in Events : f \in Recorded \cup {e} <=> f <= n
         /\ event' = [event EXCEPT ![e] = new] /\ mod' = [mod EXCEPT ![k] = row]
  BY ViolationRecords
<1> HIDE DEF new, row
<1>6. \/ UNCHANGED event /\ Recorded' = Recorded
      \/ /\ event'[e] = new /\ e \notin Recorded /\ Recorded' = Recorded \cup {e}
         /\ \A f \in Events : f # e => event'[f] = event[f]
         /\ new.source # None => \A f \in Recorded : event[f].source # new.source
         /\ \E n \in 0..MaxEvent : \A f \in Events : f \in Recorded \cup {e} <=> f <= n
  <2>1. CASE UNCHANGED event
    BY <2>1 DEF Recorded
  <2>2. CASE /\ req[p].c = None \/ EventOf(req[p].c) = {}
             /\ event' = [event EXCEPT ![e] = new] /\ e \notin Recorded
             /\ \E n \in 0..MaxEvent : \A f \in Events : f \in Recorded \cup {e} <=> f <= n
    <3>1. event'[e] = new /\ \A f \in Events : f # e => event'[f] = event[f]
      BY <2>2 DEF RightingInv, TypeOK
    <3>2. Recorded' = Recorded \cup {e}
      BY <1>1, <1>2, <3>1, ModerationAssumption DEF Recorded
    <3>3. new.source # None => \A f \in Recorded : event[f].source # new.source
      BY <1>2, <2>2 DEF EventOf
    <3>4. QED
      BY <2>2, <3>1, <3>2, <3>3
  <2>3. QED
    BY <1>5, <2>1, <2>2
<1>7. TypeOK'
  <2>1. event' \in [Events -> EventRows] /\ mod' \in [Categories -> Rows]
    BY <1>2, <1>3, <1>5 DEF RightingInv, TypeOK
  <2>2. content' \in [Contents -> {"active", "archived"}]
    BY <1>1 DEF RightingInv, TypeOK
  <2>3. QED
    BY <1>1, <1>4, <2>1, <2>2 DEF RightingInv, TypeOK
<1>8. EventsSound'
  BY <1>1, <1>2, <1>6 DEF RightingInv, EventsSound, Recorded
<1>9. RequestsSound'
  <2> SUFFICES ASSUME NEW q \in Sessions PROVE RequestSound(q)'
    BY DEF RequestsSound
  <2>1. CASE q = p
    BY <1>1, <1>4, <2>1 DEF RequestSound, RightingInv, TypeOK, ViolationOps, ReleaseOps
  <2>2. CASE q # p
    <3>1. req'[q] = req[q] /\ RequestSound(q)
      BY <1>1, <2>2 DEF RightingInv, TypeOK, RequestsSound
    <3>2. \A f \in Recorded : f \in Recorded' /\ event'[f] = event[f]
      BY <1>6 DEF Recorded
    <3>3. Concerns(req[q]) => Concerns(req[q])' 
      BY <3>1, <3>2 DEF Concerns
    <3>4. QED
      BY <3>1, <3>2, <3>3 DEF RequestSound, ReleaseOps, Concerns
  <2>3. QED
    BY <2>1, <2>2
<1>10. RightedIsReversed'
  <2> SUFFICES ASSUME NEW f \in Recorded', event'[f].category \in Counted
               PROVE  /\ event'[f].source # None /\ content'[event'[f].source] = "active"
                            => event'[f].reversed
                      /\ appeal'[f] = "approved" => event'[f].reversed
    BY DEF RightedIsReversed
  <2>1. CASE f \in Recorded
    <3>1. event'[f] = event[f] /\ event[f].source \in Contents \cup {None}
      BY <1>6, <2>1 DEF Recorded, RightingInv, TypeOK, EventRows
    <3>2. QED
      BY <1>1, <2>1, <3>1 DEF RightingInv, RightedIsReversed
  <2>2. CASE f \notin Recorded
    <3>1. f = e /\ event'[f] = new /\ f \in Events
      BY <1>6, <2>2 DEF Recorded
    <3>2. appeal[f] # "approved"
      BY <2>2, <3>1 DEF RightingInv, EventsSound
    <3>3. new.source # None => content'[new.source] = "archived"
      BY <1>1, <1>2 DEF EventRows
    <3>4. QED
      BY <1>1, <3>1, <3>2, <3>3
  <2>3. QED
    BY <2>1, <2>2
<1>11. QED
  BY <1>7, <1>8, <1>9, <1>10 DEF RightingInv

\* What a release writes: it reverses the event of the request or none, and
\* makes public the content of that event only.
LEMMA ReleaseWrites ==
  ASSUME RightingInv, CommitRelease
  PROVE  LET r == req[Admin]
             reverse == /\ r.e # None /\ Reverses(r.op)
                        /\ r.category \in Counted /\ ~event[r.e].reversed
         IN  /\ Admin \in Sessions /\ r \in InProgress /\ r.op \in ReleaseOps
             /\ r.stage = "write" /\ r.category \in Categories
             /\ content' = [c \in Contents |-> IF c = r.c THEN "active" ELSE content[c]]
             /\ mod' = [mod EXCEPT ![r.category] = Released(mod[r.category], r.seen, r.e, reverse)]
             /\ \A f \in Events :
                  event'[f] = IF f = r.e
                              THEN [event[f] EXCEPT !.released = TRUE,
                                                    !.reversed = event[f].reversed \/ reverse]
                              ELSE event[f]
             /\ event' \in [Events -> EventRows]
             /\ Recorded' = Recorded
             /\ \A f \in Events : /\ event'[f].source = event[f].source
                                  /\ event'[f].category = event[f].category
                                  /\ event'[f].reversed = (event[f].reversed \/ (f = r.e /\ reverse))
<1> DEFINE r == req[Admin]
           reverse == /\ r.e # None /\ Reverses(r.op)
                      /\ r.category \in Counted /\ ~event[r.e].reversed
<1>1. /\ Admin \in Sessions /\ r \in InProgress /\ r.op \in ReleaseOps
      /\ r.stage = "write" /\ r.category \in Categories
      /\ content' = [c \in Contents |-> IF c = r.c THEN "active" ELSE content[c]]
      /\ mod' = [mod EXCEPT ![r.category] = Released(@, r.seen, r.e, reverse)]
  BY DEF CommitRelease, Sessions, RightingInv, TypeOK, RequestsSound, RequestSound
<1>2. reverse \in BOOLEAN
  OBVIOUS
<1>3. event' = [f \in Events |->
                 IF f = r.e
                 THEN [event[f] EXCEPT !.released = TRUE, !.reversed = @ \/ reverse]
                 ELSE event[f]]
  BY DEF CommitRelease
<1> HIDE DEF reverse, r
<1>4. \A f \in Events : /\ event[f] \in EventRows
                        /\ [event[f] EXCEPT !.released = TRUE,
                                           !.reversed = event[f].reversed \/ reverse] \in EventRows
  BY <1>2 DEF RightingInv, TypeOK, EventRows
<1>5. /\ \A f \in Events :
           event'[f] = IF f = r.e
                       THEN [event[f] EXCEPT !.released = TRUE,
                                             !.reversed = event[f].reversed \/ reverse]
                       ELSE event[f]
      /\ event' \in [Events -> EventRows]
  BY <1>3, <1>4
<1>6. \A f \in Events : /\ event'[f].source = event[f].source
                        /\ event'[f].category = event[f].category
                        /\ event'[f].reversed = (event[f].reversed \/ (f = r.e /\ reverse))
  BY <1>2, <1>4, <1>5 DEF EventRows
<1>7. Recorded' = Recorded
  BY <1>6 DEF Recorded
<1>8. QED
  BY <1>1, <1>5, <1>6, <1>7 DEF r, reverse

LEMMA CommitReleaseKeeps ==
  ASSUME RightingInv, CommitRelease
  PROVE  RightingInv'
<1> DEFINE r == req[Admin]
           reverse == /\ r.e # None /\ Reverses(r.op)
                      /\ r.category \in Counted /\ ~event[r.e].reversed
           next == IF r.op = "approve content" THEN [r EXCEPT !.stage = "mark"] ELSE Idle
<1>1. /\ Admin \in Sessions /\ r \in InProgress /\ r.op \in ReleaseOps
      /\ r.stage = "write" /\ r.category \in Categories
      /\ content' = [c \in Contents |-> IF c = r.c THEN "active" ELSE content[c]]
      /\ mod' = [mod EXCEPT ![r.category] = Released(mod[r.category], r.seen, r.e, reverse)]
      /\ event' \in [Events -> EventRows]
      /\ Recorded' = Recorded
      /\ \A f \in Events : /\ event'[f].source = event[f].source
                           /\ event'[f].category = event[f].category
                           /\ event'[f].reversed = (event[f].reversed \/ (f = r.e /\ reverse))
  BY ReleaseWrites
<1>2. /\ appeal' = IF r.op = "approve user" THEN [appeal EXCEPT ![r.e] = "approved"] ELSE appeal
      /\ req' = [req EXCEPT ![Admin] = next] /\ raced' \in BOOLEAN
  BY DEF CommitRelease, Overlaps, RightingInv, TypeOK
<1>3. RequestSound(Admin)
  BY <1>1 DEF RightingInv, RequestsSound
<1>4. r.op # "release" /\ r.category \in Counted => event'[r.e].reversed
  <2> SUFFICES ASSUME r.op # "release", r.category \in Counted PROVE event'[r.e].reversed
    OBVIOUS
  <2>1. r.e \in Recorded
    BY <1>1, <1>3 DEF RequestSound, ReleaseOps, Concerns
  <2>2. r.e \in Events /\ r.e # None
    BY <2>1, ModerationAssumption DEF Recorded, Events
  <2>3. event[r.e].reversed \/ reverse
    BY <2>2 DEF Reverses
  <2> HIDE DEF reverse
  <2>4. QED
    BY <1>1, <2>2, <2>3
<1>5. next \in InProgress
  BY <1>1 DEF InProgress, Idle, Unrestricted, Rows
<1>6. /\ req'[Admin] = next
      /\ \A q \in Sessions : q # Admin => req'[q] = req[q]
  BY <1>1, <1>2 DEF RightingInv, TypeOK
<1>7. \/ next = Idle
      \/ /\ r.op = "approve content" /\ next = [r EXCEPT !.stage = "mark"]
         /\ next.op = r.op /\ next.c = r.c /\ next.e = r.e /\ next.category = r.category
         /\ next.stage = "mark"
  <2>1. CASE r.op = "approve content"
    <3>1. next = [r EXCEPT !.stage = "mark"]
      BY <2>1
    <3>2. QED
      BY <1>1, <2>1, <3>1 DEF InProgress
  <2>2. CASE r.op # "approve content"
    BY <2>2
  <2>3. QED
    BY <2>1, <2>2
<1>8. TypeOK'
  <2>1. mod' \in [Categories -> Rows]
    <3>1. mod[r.category] \in Rows /\ r.seen \in Rows /\ reverse \in BOOLEAN
      BY <1>1 DEF RightingInv, TypeOK, InProgress
    <3>2. Released(mod[r.category], r.seen, r.e, reverse) \in Rows
      BY <3>1, ReleasedType
    <3>3. QED
      BY <1>1, <3>2 DEF RightingInv, TypeOK
  <2>2. content' \in [Contents -> {"active", "archived"}]
    BY <1>1 DEF RightingInv, TypeOK
  <2>3. appeal' \in [Events -> {"none", "pending", "approved", "rejected"}]
    BY <1>2 DEF RightingInv, TypeOK
  <2> HIDE DEF next
  <2>4. QED
    BY <1>1, <1>2, <1>5, <2>1, <2>2, <2>3 DEF RightingInv, TypeOK
<1>9. EventsSound'
  <2>1. \A f \in Events : appeal'[f] # "none" => f \in Recorded
    BY <1>2, <1>3 DEF RightingInv, TypeOK, EventsSound, RequestSound, Concerns
  <2>2. Recorded \subseteq Events
    BY DEF Recorded
  <2>3. QED
    BY <1>1, <2>1, <2>2 DEF RightingInv, EventsSound
<1>10. RequestsSound'
  <2> SUFFICES ASSUME NEW q \in Sessions PROVE RequestSound(q)'
    BY DEF RequestsSound
  <2>1. \A x : Concerns(x)' <=> Concerns(x)
    BY <1>1 DEF Concerns, Recorded
  <2>2. CASE q = Admin /\ next = Idle
    <3>1. req'[q] = Idle
      BY <1>6, <2>2
    <3>2. QED
      BY <3>1 DEF RequestSound, Idle, ViolationOps, ReleaseOps
  <2>3. CASE q = Admin /\ next # Idle
    <3> HIDE DEF next
    <3>1. Concerns(next) <=> Concerns(r)
      BY <1>7, <2>3 DEF Concerns
    <3>2. QED
      BY <1>1, <1>3, <1>4, <1>6, <1>7, <2>1, <2>3, <3>1 DEF RequestSound, ViolationOps, ReleaseOps
  <2>4. CASE q # Admin
    BY <1>1, <1>6, <2>1, <2>4 DEF RightingInv, RequestsSound, RequestSound, ReleaseOps
  <2>5. QED
    BY <2>2, <2>3, <2>4
<1>11. RightedIsReversed'
  <2> SUFFICES ASSUME NEW f \in Recorded, event[f].category \in Counted, ~event'[f].reversed
               PROVE  /\ event[f].source # None => content'[event[f].source] # "active"
                      /\ appeal'[f] # "approved"
    BY <1>1 DEF RightedIsReversed, Recorded
  <2>1. ~event[f].reversed /\ f \in Events
    BY <1>1 DEF Recorded
  <2>2. f = r.e => r.op = "release"
    BY <1>1, <1>3, <1>4 DEF RequestSound, ReleaseOps, Concerns
  <2>3. appeal'[f] # "approved"
    BY <1>1, <1>2, <2>1, <2>2 DEF RightingInv, TypeOK, RightedIsReversed
  <2>4. ASSUME event[f].source # None
        PROVE  content'[event[f].source] # "active"
    <3>1. event[f].source \in Contents
      BY <2>1, <2>4 DEF RightingInv, TypeOK, EventRows
    <3>2. content[event[f].source] # "active"
      BY <2>1, <2>4 DEF RightingInv, RightedIsReversed
    <3>3. event[f].source # r.c
      <4>1. CASE r.op = "release"
        BY <1>3, <2>4, <4>1 DEF RequestSound
      <4>2. CASE r.op # "release"
        <5>1. Concerns(r)
          BY <1>1, <1>3, <4>2 DEF RequestSound, ReleaseOps
        <5>2. f # r.e
          BY <2>2, <4>2
        <5>3. QED
          BY <2>4, <5>1, <5>2 DEF Concerns, RightingInv, EventsSound
      <4>3. QED
        BY <4>1, <4>2
    <3>4. QED
      BY <1>1, <3>1, <3>2, <3>3
  <2>5. QED
    BY <2>3, <2>4
<1>12. QED
  BY <1>8, <1>9, <1>10, <1>11 DEF RightingInv

\* The event was reversed by the first transaction of the approval.
LEMMA MarkApprovedKeeps ==
  ASSUME RightingInv, MarkApproved
  PROVE  RightingInv'
<1> DEFINE r == req[Admin]
<1>1. /\ Admin \in Sessions /\ r.stage = "mark" /\ req' = [req EXCEPT ![Admin] = Idle]
      /\ appeal' = [appeal EXCEPT ![r.e] = "approved"]
      /\ UNCHANGED <<content, mod, event, raced>>
  BY DEF MarkApproved, Sessions
<1>2. RequestSound(Admin)
  BY <1>1 DEF RightingInv, RequestsSound
<1>3. /\ r.e \in Recorded /\ r.e \in Events
      /\ event[r.e].category \in Counted => event[r.e].reversed
  BY <1>1, <1>2 DEF RequestSound, Concerns, Recorded
<1>4. Idle \in InProgress /\ Idle.stage = "none" /\ Idle.op = "idle"
  BY DEF Idle, InProgress, Unrestricted, Rows
<1>5. TypeOK'
  BY <1>1, <1>4 DEF RightingInv, TypeOK
<1>6. EventsSound'
  BY <1>1, <1>3 DEF RightingInv, TypeOK, EventsSound, Recorded
<1>7. RequestsSound'
  <2> SUFFICES ASSUME NEW q \in Sessions PROVE RequestSound(q)'
    BY DEF RequestsSound
  <2>1. CASE q = Admin
    BY <1>1, <1>4, <2>1 DEF RequestSound, RightingInv, TypeOK, ViolationOps, ReleaseOps
  <2>2. CASE q # Admin
    <3>1. req'[q] = req[q] /\ RequestSound(q)
      BY <1>1, <2>2 DEF RightingInv, TypeOK, RequestsSound
    <3>2. QED
      BY <1>1, <3>1 DEF RequestSound, Concerns, Recorded
  <2>3. QED
    BY <2>1, <2>2
<1>8. RightedIsReversed'
  BY <1>1, <1>3 DEF RightingInv, TypeOK, RightedIsReversed, Recorded
<1>9. QED
  BY <1>5, <1>6, <1>7, <1>8 DEF RightingInv

\* Appeals are made and rejected, and restrictions end.
LEMMA AppealKeeps ==
  ASSUME RightingInv,
         \/ \E e \in Events : Appeal(e) \/ Reject(e)
         \/ \E k \in Categories : Expire(k)
  PROVE  RightingInv'
<1>1. /\ UNCHANGED <<content, event, req, raced>>
      /\ appeal' \in [Events -> {"none", "pending", "approved", "rejected"}]
      /\ \A e \in Events : /\ appeal'[e] # "none" => e \in Recorded
                           /\ appeal'[e] = "approved" => appeal[e] = "approved"
  BY DEF Appeal, Reject, Expire, Appealable, RightingInv, TypeOK, EventsSound
<1>2. mod' \in [Categories -> Rows]
  <2>1. CASE UNCHANGED mod
    BY <2>1 DEF RightingInv, TypeOK
  <2>2. CASE \E k \in Categories : Expire(k)
    <3>1. PICK k \in Categories : mod' = [mod EXCEPT ![k].term = "over"]
      BY <2>2 DEF Expire
    <3>2. [mod[k] EXCEPT !.term = "over"] \in Rows
      BY DEF RightingInv, TypeOK, Rows
    <3>3. QED
      BY <3>1, <3>2 DEF RightingInv, TypeOK
  <2>3. QED
    BY <2>1, <2>2 DEF Appeal, Reject
<1>3. TypeOK'
  BY <1>1, <1>2 DEF RightingInv, TypeOK
<1>4. EventsSound' /\ RightedIsReversed'
  <2>1. Recorded' = Recorded /\ Recorded \subseteq Events
    BY <1>1 DEF Recorded
  <2>2. EventsSound'
    BY <1>1, <2>1 DEF RightingInv, EventsSound
  <2>3. RightedIsReversed'
    BY <1>1, <2>1 DEF RightingInv, RightedIsReversed
  <2>4. QED
    BY <2>2, <2>3
<1>5. RequestsSound'
  BY <1>1 DEF RightingInv, RequestsSound, RequestSound, Concerns, Recorded
<1>6. QED
  BY <1>3, <1>4, <1>5 DEF RightingInv

LEMMA RightingInit == Init => RightingInv
<1> SUFFICES ASSUME Init PROVE RightingInv
  OBVIOUS
<1> USE DEF Init
<1>1. TypeOK
  BY DEF TypeOK, Rows, EventRows, InProgress, Unrestricted, NoEvent, Idle
<1>2. Recorded = {}
  BY DEF Recorded, NoEvent
<1>3. EventsSound
  <2>1. 0 \in 0..MaxEvent /\ \A e \in Events : e \in Recorded <=> e <= 0
    BY <1>2, ModerationAssumption DEF Events
  <2>2. QED
    BY <1>2, <2>1 DEF EventsSound
<1>4. RequestsSound
  BY DEF RequestsSound, RequestSound, Idle, ViolationOps, ReleaseOps
<1>5. RightedIsReversed
  BY <1>2 DEF RightedIsReversed
<1>6. QED
  BY <1>1, <1>3, <1>4, <1>5 DEF RightingInv

LEMMA RightingNext == RightingInv /\ [Next]_vars => RightingInv'
<1> SUFFICES ASSUME RightingInv, [Next]_vars PROVE RightingInv'
  OBVIOUS
<1>1. CASE UNCHANGED vars
  BY <1>1 DEF vars, RightingInv, TypeOK, EventsSound, RequestsSound, RequestSound, Concerns,
              RightedIsReversed, Recorded
<1>2. CASE Next
  BY <1>2, ReadArchiveKeeps, BeginSanctionKeeps, LockUserKeeps, CommitViolationKeeps,
     RollBackKeeps, ReadRestoreKeeps, ReadReleaseKeeps, ReadApproveKeeps, CommitReleaseKeeps,
     MarkApprovedKeeps, AppealKeeps DEF Next
<1>3. QED
  BY <1>1, <1>2

LEMMA RightingInvariant == Spec => []RightingInv
BY RightingInit, RightingNext, PTL DEF Spec

\* The rows of a user's sanctions, and what requests have read, keep their types.
THEOREM ModerationTypes == Spec => []TypeOK
<1>1. RightingInv => TypeOK
  BY DEF RightingInv
<1>2. QED
  BY <1>1, RightingInvariant, PTL

\* What is public again and what was appealed with success costs nothing any
\* more, for every number of events, reviews and permanent restrictions
\* (appeal_application.py:170-210, admin_application.py:254-268).
THEOREM RightedCostsNothing == Spec => []RightedIsReversed
<1>1. RightingInv => RightedIsReversed
  BY DEF RightingInv
<1>2. QED
  BY <1>1, RightingInvariant, PTL

-----------------------------------------------------------------------------
(* Counts                                                                  *)

\* The events that count for a category.
Standing(k) == {e \in Recorded : event[e].category = k /\ ~event[e].reversed}

LEMMA StandingFinite ==
  ASSUME NEW k
  PROVE  IsFiniteSet(Standing(k))
<1>1. IsFiniteSet(Events)
  BY FS_Interval, ModerationAssumption DEF Events
<1>2. Standing(k) \in SUBSET Events
  BY DEF Standing, Recorded
<1>3. QED
  BY <1>1, <1>2, FS_Subset

\* A request that begins, ends or reads changes no count; what it reads is
\* what the row says.
LEMMA CountsKeep ==
  ASSUME CountingInv, UNCHANGED event, raced => raced',
         \A k \in Counted : mod'[k].count = mod[k].count,
         \A p, q \in Sessions : Violating(p)' /\ Violating(q)' => p = q,
         \A p \in Sessions :
           InFlight(p)' /\ req'[p].stage = "write" /\ req'[p].category \in Counted =>
             \/ req'[p].seen.count = mod[req'[p].category].count
             \/ req'[p] = req[p]
  PROVE  ReadingsExact' /\ CountsExact'
<1>1. ReadingsExact'
  BY DEF CountingInv, ReadingsExact, InFlight
<1>2. CountsExact'
  BY DEF CountingInv, CountsExact, Recorded
<1>3. QED
  BY <1>1, <1>2

\* One request changes, and does not come to hold the row of the user.
LEMMA OneChanges ==
  ASSUME CountingInv, UNCHANGED event, raced => raced',
         \A k \in Counted : mod'[k].count = mod[k].count,
         NEW p \in Sessions, NEW r, req' = [req EXCEPT ![p] = r],
         ~(r.op \in ViolationOps /\ r.stage = "write"),
         \/ r.stage # "write"
         \/ r.op = "idle"
         \/ r.category \in Counted => r.seen.count = mod[r.category].count
  PROVE  ReadingsExact' /\ CountsExact'
<1>1. /\ req'[p] = r /\ \A q \in Sessions : q # p => req'[q] = req[q]
      /\ \A q, h \in Sessions : Violating(q) /\ Violating(h) => q = h
  BY DEF CountingInv, RightingInv, TypeOK, ReadingsExact
<1>2. \A q \in Sessions : Violating(q)' => Violating(q)
  BY <1>1 DEF Violating, ViolationOps
<1>3. \A q \in Sessions :
        InFlight(q)' /\ req'[q].stage = "write" /\ req'[q].category \in Counted =>
          \/ req'[q].seen.count = mod[req'[q].category].count
          \/ req'[q] = req[q]
  BY <1>1 DEF InFlight
<1>4. QED
  BY <1>1, <1>2, <1>3, CountsKeep

\* A request that ends.
LEMMA EndingCounts ==
  ASSUME CountingInv, UNCHANGED event, raced => raced',
         \A k \in Counted : mod'[k].count = mod[k].count,
         NEW p \in Sessions, req' = [req EXCEPT ![p] = Idle]
  PROVE  ReadingsExact' /\ CountsExact'
<1>1. Idle.op = "idle" /\ Idle.stage = "none"
  BY DEF Idle
<1>2. QED
  BY <1>1, OneChanges DEF ViolationOps

\* A request that begins.
LEMMA BeginningCounts ==
  ASSUME CountingInv,
         \/ \E p \in Sessions, c \in Contents, notify \in BOOLEAN : ReadArchive(p, c, notify)
         \/ \E p \in Sessions, k \in Categories : BeginSanction(p, k)
  PROVE  ReadingsExact' /\ CountsExact'
<1>1. PICK p \in Sessions :
        \E r : req' = [req EXCEPT ![p] = r] /\ r.stage = "lock" /\ UNCHANGED <<mod, event, raced>>
  BY DEF ReadArchive, BeginSanction, Idle
<1>2. PICK r : req' = [req EXCEPT ![p] = r] /\ r.stage = "lock" /\ UNCHANGED <<mod, event, raced>>
  BY <1>1
<1>3. QED
  BY <1>2, OneChanges

\* A release reads the row it is about to write.
LEMMA ReadingCounts ==
  ASSUME CountingInv,
         \/ \E c \in Contents : ReadRestore(c)
         \/ \E k \in Categories : ReadRelease(k)
         \/ \E e \in Events : ReadApprove(e)
  PROVE  ReadingsExact' /\ CountsExact'
<1>1. Admin \in Sessions
  BY DEF Sessions
<1>2. PICK r : /\ req' = [req EXCEPT ![Admin] = r] /\ r.op \in ReleaseOps
               /\ r.seen = mod[r.category] /\ UNCHANGED <<mod, event, raced>>
  <2>1. CASE \E c \in Contents : ReadRestore(c)
    BY <2>1 DEF ReadRestore, Idle, ReleaseOps
  <2>2. CASE \E k \in Categories : ReadRelease(k)
    BY <2>2 DEF ReadRelease, Idle, ReleaseOps
  <2>3. CASE \E e \in Events : ReadApprove(e)
    BY <2>3 DEF ReadApprove, Idle, ReleaseOps
  <2>4. QED
    BY <2>1, <2>2, <2>3
<1>3. ~(r.op \in ViolationOps)
  BY <1>2 DEF ReleaseOps, ViolationOps
<1>4. QED
  BY <1>1, <1>2, <1>3, OneChanges

\* A violation reads after it has locked the row, which no other holds.
LEMMA LockingCounts ==
  ASSUME CountingInv, NEW p \in Sessions, LockUser(p)
  PROVE  ReadingsExact' /\ CountsExact'
<1> DEFINE r == [req[p] EXCEPT !.stage = "write", !.seen = mod[req[p].category]]
<1>1. /\ req' = [req EXCEPT ![p] = r] /\ UNCHANGED <<mod, event, raced>>
      /\ \A q \in Sessions \ {p} : ~Violating(q)
  BY DEF LockUser, WaitsForUser, UserLocked
<1>2. r.seen = mod[r.category]
  BY DEF CountingInv, RightingInv, TypeOK, InProgress
<1> HIDE DEF r
<1>3. req'[p] = r /\ \A q \in Sessions : q # p => req'[q] = req[q]
  BY <1>1 DEF CountingInv, RightingInv, TypeOK
<1>4. \A q \in Sessions : Violating(q)' => q = p
  BY <1>1, <1>3 DEF Violating
<1>5. QED
  BY <1>1, <1>2, <1>3, <1>4, CountsKeep

-----------------------------------------------------------------------------
\* The event of a violation counts once, in the category of the violation.
LEMMA ViolationCounts ==
  ASSUME CountingInv, NEW p \in Sessions, NEW e \in Events, CommitViolation(p, e)
  PROVE  ReadingsExact' /\ CountsExact'
<1> DEFINE r == req[p]
           new == [NoEvent EXCEPT !.category = r.category, !.source = r.c,
                                  !.notified = r.notify]
<1>1. /\ Violating(p) /\ req' = [req EXCEPT ![p] = Idle]
      /\ raced' = (raced \/ Overlaps(p, ReleaseOps))
      /\ r \in InProgress /\ r.category \in Categories /\ InFlight(p) /\ r.stage = "write"
  BY DEF CommitViolation, Violating, ViolationOps, InFlight, CountingInv, RightingInv, TypeOK,
         RequestsSound, RequestSound
<1>2. CASE UNCHANGED <<mod, event>>
  BY <1>1, <1>2, EndingCounts
<1>3. CASE /\ e \notin Recorded
           /\ event' = [event EXCEPT ![e] = new]
           /\ mod' = [mod EXCEPT ![r.category] =
                        IF r.category = Account
                        THEN [mod[r.category] EXCEPT !.term = "running", !.current = e]
                        ELSE Restriction(mod[r.category], r.seen, e)]
  <2>1. new.category = r.category /\ ~new.reversed
    BY DEF NoEvent
  <2> HIDE DEF new
  <2>2. /\ event'[e] = new /\ \A f \in Events : f # e => event'[f] = event[f]
        /\ \A j \in Categories : j # r.category => mod'[j] = mod[j]
    BY <1>3 DEF CountingInv, RightingInv, TypeOK
  <2>3. Recorded' = Recorded \cup {e}
    BY <1>1, <1>3, <2>1, <2>2, ModerationAssumption DEF Recorded
  <2>4. \A j \in Counted : Standing(j)' = IF j = r.category THEN Standing(j) \cup {e}
                                          ELSE Standing(j)
    <3>1. \A f \in Recorded : f \in Events /\ f # e
      BY <1>3 DEF Recorded
    <3>2. QED
      BY <2>1, <2>2, <2>3, <3>1 DEF Standing
  <2>5. r.category \in Counted => mod'[r.category].count = r.seen.count + 1
    BY <1>1, <1>3 DEF Counted, Restriction, CountingInv, RightingInv, TypeOK
  <2>6. ASSUME ~raced'
        PROVE  \A q \in Sessions \ {p} : req[q].stage = "write" /\ InFlight(q) =>
                  req[q].category # r.category
    <3> SUFFICES ASSUME NEW q \in Sessions \ {p}, req[q].stage = "write", InFlight(q)
                 PROVE  req[q].category # r.category
      OBVIOUS
    <3>1. ~Violating(q)
      BY <1>1 DEF CountingInv, ReadingsExact
    <3>2. req[q].op \in ReleaseOps
      BY <3>1 DEF Violating, ViolationOps, InFlight, CountingInv, RightingInv, TypeOK, InProgress
    <3>3. QED
      BY <1>1, <2>6, <3>2 DEF Overlaps
  <2>7. Idle.op = "idle"
    BY DEF Idle
  <2>8. req'[p] = Idle /\ \A q \in Sessions : q # p => req'[q] = req[q]
    BY <1>1 DEF CountingInv, RightingInv, TypeOK
  <2>9. ReadingsExact'
    <3>1. \A q, h \in Sessions : Violating(q)' /\ Violating(h)' => q = h
      BY <2>7, <2>8 DEF CountingInv, ReadingsExact, Violating, ViolationOps
    <3>2. ASSUME ~raced', NEW q \in Sessions, InFlight(q)', req'[q].stage = "write",
                 req'[q].category \in Counted
          PROVE  req'[q].seen.count = mod'[req'[q].category].count
      <4>1. q # p /\ req'[q] = req[q] /\ InFlight(q) /\ ~raced
        BY <1>1, <2>7, <2>8, <3>2 DEF InFlight
      <4>2. req[q].category # r.category /\ req[q].category \in Categories
        BY <2>6, <3>2, <4>1 DEF Counted
      <4>3. mod'[req[q].category] = mod[req[q].category]
        BY <2>2, <4>2
      <4>4. QED
        BY <3>2, <4>1, <4>3 DEF CountingInv, ReadingsExact
    <3>3. QED
      BY <3>1, <3>2 DEF ReadingsExact
  <2>10. CountsExact'
    <3> SUFFICES ASSUME ~raced', NEW j \in Counted
                 PROVE  mod'[j].count = Cardinality(Standing(j)')
      BY DEF CountsExact, Standing
    <3>1. ~raced /\ mod[j].count = Cardinality(Standing(j))
      BY <1>1 DEF CountingInv, CountsExact, Standing
    <3>2. CASE j # r.category
      BY <2>2, <2>4, <3>1, <3>2 DEF Counted
    <3>3. CASE j = r.category
      <4>1. r.seen.count = mod[j].count
        BY <1>1, <3>1, <3>3 DEF CountingInv, ReadingsExact
      <4>2. e \notin Standing(j) /\ IsFiniteSet(Standing(j))
        BY <1>3, StandingFinite DEF Standing
      <4>3. Cardinality(Standing(j) \cup {e}) = Cardinality(Standing(j)) + 1
        BY <4>2, FS_AddElement
      <4>4. QED
        BY <2>4, <2>5, <3>1, <3>3, <4>1, <4>3
    <3>4. QED
      BY <3>2, <3>3
  <2>11. QED
    BY <2>9, <2>10
<1>4. QED
  <2>1. RightingInv
    BY DEF CountingInv
  <2>2. QED
    BY <1>2, <1>3, <2>1, ViolationRecords

\* A release takes the event off the count of its category, or none.
LEMMA ReleaseCounts ==
  ASSUME CountingInv, CommitRelease
  PROVE  ReadingsExact' /\ CountsExact'
<1> DEFINE r == req[Admin]
           reverse == /\ r.e # None /\ Reverses(r.op)
                      /\ r.category \in Counted /\ ~event[r.e].reversed
           next == IF r.op = "approve content" THEN [r EXCEPT !.stage = "mark"] ELSE Idle
<1>0. RightingInv
  BY DEF CountingInv
<1>1. /\ Admin \in Sessions /\ r \in InProgress /\ r.op \in ReleaseOps
      /\ r.stage = "write" /\ r.category \in Categories
      /\ mod' = [mod EXCEPT ![r.category] = Released(mod[r.category], r.seen, r.e, reverse)]
      /\ Recorded' = Recorded
      /\ \A f \in Events : /\ event'[f].category = event[f].category
                           /\ event'[f].reversed = (event[f].reversed \/ (f = r.e /\ reverse))
  BY <1>0, ReleaseWrites
<1>2. req' = [req EXCEPT ![Admin] = next] /\ raced' = (raced \/ Overlaps(Admin, ViolationOps))
  BY DEF CommitRelease
<1>3. /\ next.stage # "write"
      /\ req'[Admin] = next /\ \A q \in Sessions : q # Admin => req'[q] = req[q]
  BY <1>0, <1>1, <1>2 DEF RightingInv, TypeOK, InProgress, Idle
<1>4. reverse => r.e \in Standing(r.category)
  <2>1. RequestSound(Admin)
    BY <1>0, <1>1 DEF RightingInv, RequestsSound
  <2>2. reverse => Concerns(r)
    BY <1>1, <2>1 DEF Reverses, RequestSound, ReleaseOps
  <2>3. QED
    BY <2>2 DEF Concerns, Standing
<1>5. reverse => r.category \in Counted
  OBVIOUS
<1>6. reverse \in BOOLEAN
  OBVIOUS
<1> HIDE DEF reverse, next
<1>7. \A k \in Counted : Standing(k)' = IF reverse /\ k = r.category THEN Standing(k) \ {r.e}
                                        ELSE Standing(k)
  <2>1. Recorded \subseteq Events
    BY DEF Recorded
  <2>2. QED
    BY <1>1, <1>4, <2>1 DEF Standing
<1>8. mod'[r.category].count = Reduced(mod[r.category].count, r.seen.count, reverse)
  <2>1. mod[r.category] \in Rows /\ r.seen \in Rows
    BY <1>0, <1>1 DEF RightingInv, TypeOK, InProgress
  <2> DEFINE lifted == [mod[r.category] EXCEPT
                          !.term      = Written(@, r.seen.term, "none"),
                          !.permanent = Written(@, r.seen.permanent, FALSE),
                          !.current   = Written(@, r.seen.current, None)]
             row == IF Lifts(r.seen, r.e) THEN lifted ELSE mod[r.category]
  <2>2. row \in Rows /\ row.count = mod[r.category].count
    BY <2>1 DEF Written, Rows
  <2>3. mod'[r.category] = [row EXCEPT !.count = Reduced(row.count, r.seen.count, reverse)]
    BY <1>0, <1>1 DEF Released, RightingInv, TypeOK
  <2> HIDE DEF row
  <2>4. QED
    BY <2>2, <2>3 DEF Rows
<1>9. \A k \in Categories : k # r.category => mod'[k] = mod[k]
  BY <1>0, <1>1 DEF RightingInv, TypeOK
<1>10. ASSUME ~raced'
       PROVE  \A q \in Sessions : q # Admin /\ InFlight(q) /\ req[q].stage = "write" =>
                 req[q].category # r.category
  <2> SUFFICES ASSUME NEW q \in Sessions, q # Admin, InFlight(q), req[q].stage = "write"
               PROVE  req[q].category # r.category
    OBVIOUS
  <2>1. RequestSound(q) /\ req[q] \in InProgress
    BY <1>0 DEF RightingInv, RequestsSound, TypeOK
  <2>2. req[q].op \in ViolationOps
    BY <2>1 DEF RequestSound, InProgress, InFlight
  <2>3. QED
    BY <1>2, <1>10, <2>2 DEF Overlaps
<1>11. ReadingsExact'
  <2>1. \A q, h \in Sessions : Violating(q)' /\ Violating(h)' => q = h
    BY <1>3 DEF CountingInv, ReadingsExact, Violating
  <2>2. ASSUME ~raced', NEW q \in Sessions, InFlight(q)', req'[q].stage = "write",
               req'[q].category \in Counted
        PROVE  req'[q].seen.count = mod'[req'[q].category].count
    <3>1. q # Admin /\ req'[q] = req[q] /\ InFlight(q) /\ ~raced
      BY <1>2, <1>3, <2>2 DEF InFlight
    <3>2. req[q].category # r.category /\ req[q].category \in Categories
      BY <1>10, <2>2, <3>1 DEF Counted
    <3>3. QED
      BY <1>9, <2>2, <3>1, <3>2 DEF CountingInv, ReadingsExact
  <2>3. QED
    BY <2>1, <2>2 DEF ReadingsExact
<1>12. CountsExact'
  <2> SUFFICES ASSUME ~raced', NEW k \in Counted
               PROVE  mod'[k].count = Cardinality(Standing(k)')
    BY DEF CountsExact, Standing
  <2>1. ~raced /\ mod[k].count = Cardinality(Standing(k)) /\ k \in Categories
    BY <1>2 DEF CountingInv, CountsExact, Standing, Counted
  <2>2. CASE k # r.category
    BY <1>7, <1>9, <2>1, <2>2
  <2>3. CASE k = r.category /\ ~reverse
    BY <1>7, <1>8, <2>1, <2>3 DEF Reduced
  <2>4. CASE k = r.category /\ reverse
    <3>1. r.seen.count = mod[k].count
      <4>1. InFlight(Admin)
        BY <1>1 DEF InFlight, ReleaseOps
      <4>2. QED
        BY <1>1, <2>1, <2>4, <4>1 DEF CountingInv, ReadingsExact
    <3>2. IsFiniteSet(Standing(k)) /\ r.e \in Standing(k)
      BY <1>4, <2>4, StandingFinite
    <3>3. /\ Cardinality(Standing(k) \ {r.e}) = Cardinality(Standing(k)) - 1
          /\ Cardinality(Standing(k)) \in Nat /\ Cardinality(Standing(k) \ {r.e}) \in Nat
      <4>1. IsFiniteSet(Standing(k) \ {r.e})
        BY <3>2, FS_RemoveElement
      <4>2. QED
        BY <3>2, <4>1, FS_RemoveElement, FS_CardinalityType
    <3>4. mod'[k].count = mod[k].count - 1
      BY <1>8, <2>1, <2>4, <3>1, <3>3 DEF Reduced, Written, OneLess
    <3>5. QED
      BY <1>7, <2>1, <2>4, <3>3, <3>4
  <2>5. QED
    BY <2>2, <2>3, <2>4
<1>13. QED
  BY <1>11, <1>12

LEMMA CountingInit == Init => CountingInv
<1> SUFFICES ASSUME Init PROVE CountingInv
  OBVIOUS
<1>1. RightingInv
  BY RightingInit
<1>2. ReadingsExact
  BY DEF Init, ReadingsExact, Violating, InFlight, Idle
<1>3. CountsExact
  <2> SUFFICES ASSUME NEW k \in Counted
               PROVE  mod[k].count = Cardinality(Standing(k))
    BY DEF CountsExact, Standing
  <2>1. Standing(k) = {}
    BY DEF Init, Standing, Recorded, NoEvent
  <2>2. mod[k].count = 0
    BY DEF Init, Unrestricted, Counted
  <2>3. QED
    BY <2>1, <2>2, FS_EmptySet
<1>4. QED
  BY <1>1, <1>2, <1>3 DEF CountingInv

LEMMA CountingNext == CountingInv /\ [Next]_vars => CountingInv'
<1> SUFFICES ASSUME CountingInv, [Next]_vars PROVE CountingInv'
  OBVIOUS
<1>1. RightingInv'
  BY RightingNext DEF CountingInv
<1>2. ReadingsExact' /\ CountsExact'
  <2>1. CASE UNCHANGED vars
    BY <2>1 DEF vars, CountingInv, ReadingsExact, CountsExact, Violating, InFlight, Recorded
  <2>2. CASE \E p \in Sessions : LockUser(p)
    BY <2>2, LockingCounts
  <2>3. CASE \E p \in Sessions, e \in Events : CommitViolation(p, e)
    BY <2>3, ViolationCounts
  <2>4. CASE \E p \in Sessions : RollBack(p)
    <3>1. PICK p \in Sessions : req' = [req EXCEPT ![p] = Idle] /\ UNCHANGED <<mod, event, raced>>
      BY <2>4 DEF RollBack
    <3>2. QED
      BY <3>1, EndingCounts
  <2>5. CASE CommitRelease
    BY <2>5, ReleaseCounts
  <2>6. CASE MarkApproved
    <3>1. Admin \in Sessions
      BY DEF Sessions
    <3>2. QED
      BY <2>6, <3>1, EndingCounts DEF MarkApproved
  <2>7. CASE \E e \in Events : Appeal(e) \/ Reject(e)
    <3>1. UNCHANGED <<event, mod, req, raced>>
      BY <2>7 DEF Appeal, Reject
    <3>2. QED
      BY <3>1 DEF CountingInv, ReadingsExact, CountsExact, Violating, InFlight, Recorded
  <2>8. CASE \E k \in Categories : Expire(k)
    <3>1. PICK k \in Categories : /\ mod' = [mod EXCEPT ![k].term = "over"]
                                  /\ UNCHANGED <<event, req, raced>>
      BY <2>8 DEF Expire
    <3>2. \A j \in Counted : mod'[j].count = mod[j].count
      BY <3>1 DEF CountingInv, RightingInv, TypeOK, Rows, Counted
    <3>3. \A p \in Sessions : req'[p] = req[p] /\ Violating(p)' = Violating(p)
      BY <3>1 DEF Violating
    <3>4. QED
      BY <3>1, <3>2, <3>3, CountsKeep DEF CountingInv, ReadingsExact
  <2>9. QED
    BY <2>1, <2>2, <2>3, <2>4, <2>5, <2>6, <2>7, <2>8, BeginningCounts, ReadingCounts DEF Next
<1>3. QED
  BY <1>1, <1>2 DEF CountingInv

\* Violations are counted once and taken back once, for every number of events
\* and reviews: unless a release and a violation of one category overlapped,
\* the count is the number of events that were not reversed
\* (moderation_service.py:134-166, 288-300).
THEOREM ViolationsCountedOnce == Spec => []CountsExact
<1>1. CountingInv => CountsExact
  BY DEF CountingInv
<1>2. QED
  BY <1>1, CountingInit, CountingNext, PTL DEF Spec

=============================================================================
