----------------------------- MODULE AuditWork ------------------------------
(***************************************************************************)
(* What the auditors do in an audit: campaigns, the assessments of         *)
(* equipments in them, the findings drawn from the results and followed to *)
(* their end, the checklists.                                              *)
(*                                                                         *)
(* A request reads, checks what it read, and writes at its commit; two     *)
(* requests overlap. An UPDATE writes the columns the request changed, and *)
(* fails on a row that is gone; the foreign keys refuse to delete what is  *)
(* referred to. Left out: texts, notes and dates, and who asks.            *)
(***************************************************************************)
EXTENDS Naturals, Sequences, SequencesExt, FiniteSets

CONSTANTS Campaigns, Equipments, Frameworks, Controls, Items,
          Requests,       \* the requests that can be in flight
          MaxAssessments, \* bound on the assessments ever made
          MaxFindings,    \* bound on the findings ever made
          MaxTrail,       \* bound on the transitions of a finding
          MaxRequests     \* bound on the requests ever made

ASSUME NamesAssumption == "none" \notin Campaigns
ASSUME ControlsAssumption == IsFiniteSet(Controls)
ASSUME BoundsAssumption == MaxRequests \in Nat

VARIABLES campaign,    \* status of each campaign
          equipment,   \* status_audit
          assessments, \* the assessments, in the order of their ids
          findings,    \* the findings, in the order of their ids
          checklist,   \* status of the one instance of the checklist
          answered,    \* its items with a response
          req,         \* what each request read and will write
          made         \* the requests made

vars == <<campaign, equipment, assessments, findings, checklist, answered, req, made>>

None == "none"

\* What is deleted does not come back: another one has another id.
Deleted == "deleted"

CampaignStatus   == {"draft", "in_progress", "review", "completed", "archived"}
AuditStatus      == {"A_AUDITER", "EN_COURS", "CONFORME", "NON_CONFORME"}
ComplianceStatus == {"not_assessed", "compliant", "non_compliant", "partially_compliant",
                     "not_applicable"}
FindingStatus    == {"open", "assigned", "in_progress", "remediated", "verified", "closed"}
ChecklistStatus  == {"draft", "in_progress", "completed"}

Idle == [op |-> None]
Gone == [campaign |-> None]

Exists(c) == campaign[c] \in CampaignStatus

Opened == checklist \in ChecklistStatus

Live(a) == a \in DOMAIN assessments /\ assessments[a] # Gone

Of(c) == {a \in DOMAIN assessments : assessments[a].campaign = c}

OnFinding(a) == {f \in DOMAIN findings : findings[f].assessment = a}

Init ==
  /\ campaign = [c \in Campaigns |-> None]
  /\ equipment = [e \in Equipments |-> "A_AUDITER"]
  /\ assessments = <<>>
  /\ findings = <<>>
  /\ checklist = None
  /\ answered = {}
  /\ req = [r \in Requests |-> Idle]
  /\ made = 0

\* A request is made, and kept until its commit.
Begin(r, what) ==
  /\ req[r] = Idle /\ made < MaxRequests
  /\ req' = [req EXCEPT ![r] = what]
  /\ made' = made + 1

\* The statuses, once those that a request changed are written.
Written(changes) ==
  [e \in Equipments |-> IF e \in DOMAIN changes THEN changes[e] ELSE equipment[e]]

Reads == UNCHANGED <<campaign, equipment, assessments, findings, checklist, answered>>

\* A request that reads nothing it depends on.
Blind == made < MaxRequests /\ made' = made + 1 /\ UNCHANGED req

Commit(r, op) ==
  /\ req[r].op = op
  /\ req' = [req EXCEPT ![r] = Idle]
  /\ UNCHANGED made

-----------------------------------------------------------------------------
\* Scores (compute_score).

Count(result, status) == Cardinality({k \in Controls : result[k] = status})

Assessed(result) ==
  Cardinality(Controls) - Count(result, "not_assessed") - Count(result, "not_applicable")

\* What a completed assessment says of its equipment.
Verdict(result) ==
  IF Count(result, "non_compliant") > 0 THEN "NON_CONFORME"
  ELSE IF Assessed(result) > 0 THEN "CONFORME" ELSE None

\* The assessments of an equipment are taken in no order that is asked for,
\* and the last one that says something decides.
Verdicts(c) ==
  LET says(e) == {Verdict(assessments[a].result) : a \in {b \in Of(c) : assessments[b].equipment = e}}
                 \ {None}
      judged == {e \in Equipments : says(e) # {}}
      all == {v \in [judged -> AuditStatus] : \A e \in judged : v[e] \in says(e)}
  IN  {[e \in {x \in judged : v[x] # equipment[x]} |-> v[e]] : v \in all}

-----------------------------------------------------------------------------
\* Campaigns.

CreateCampaign(c) ==
  /\ Blind
  /\ campaign[c] = None
  /\ campaign' = [campaign EXCEPT ![c] = "draft"]
  /\ UNCHANGED <<equipment, assessments, findings, checklist, answered>>

ToStart(c) ==
  LET fresh == {assessments[a].equipment : a \in Of(c)}
  IN  [e \in {x \in fresh : equipment[x] = "A_AUDITER"} |-> "EN_COURS"]

Update(c, s, equipments) ==
  [op |-> "campaign", campaign |-> c, was |-> campaign[c], status |-> s, equipment |-> equipments]

StartCampaign(r, c) ==
  /\ Exists(c)
  /\ Begin(r, Update(c, "in_progress", ToStart(c)))
  /\ Reads

CompleteCampaign(r, c) ==
  /\ Exists(c)
  /\ \E v \in Verdicts(c) :
       Begin(r, Update(c, "completed", v))
  /\ Reads

\* The other statuses are set as they come; in_progress and completed go
\* through the two actions above.
UpdateCampaign(r, c, s) ==
  /\ Exists(c) /\ s \notin {"in_progress", "completed"}
  /\ Begin(r, Update(c, s, <<>>))
  /\ Reads

SaveCampaign(r) ==
  /\ Commit(r, "campaign")
  /\ LET w == req[r]
     IN  IF ~Exists(w.campaign)
         THEN UNCHANGED <<campaign, equipment>>
         ELSE /\ campaign' = IF w.status = w.was THEN campaign
                              ELSE [campaign EXCEPT ![w.campaign] = w.status]
              /\ equipment' = Written(w.equipment)
  /\ UNCHANGED <<assessments, findings, checklist, answered>>

\* The campaign goes with its assessments and their results, if no finding
\* refers to them.
DeleteCampaign(c) ==
  /\ Blind
  /\ Exists(c)
  /\ \A a \in Of(c) : OnFinding(a) = {}
  /\ campaign' = [campaign EXCEPT ![c] = Deleted]
  /\ assessments' = [a \in DOMAIN assessments |-> IF a \in Of(c) THEN Gone ELSE assessments[a]]
  /\ UNCHANGED <<equipment, findings, checklist, answered>>

-----------------------------------------------------------------------------
\* Assessments and their results.

Same(a, c, e, f) ==
  LET x == assessments[a]
  IN  Live(a) /\ x.campaign = c /\ x.equipment = e /\ x.framework = f

\* Mutant: an assessment already made is not looked for.
TakenUnchecked(c, e, f) == {}

Taken(c, e, f) == {a \in DOMAIN assessments : Same(a, c, e, f)}

CreateAssessment(r, c, e, f) ==
  /\ Exists(c)
  /\ Taken(c, e, f) = {}
  /\ Begin(r, [op |-> "assess", campaign |-> c, of |-> e, framework |-> f,
               seen |-> Len(assessments),
               equipment |-> IF campaign[c] = "in_progress" /\ equipment[e] = "A_AUDITER"
                             THEN [x \in {e} |-> "EN_COURS"] ELSE <<>>])
  /\ Reads

\* One result per control, none of them assessed. No unique key stands behind
\* the check.
SaveAssessment(r) ==
  /\ Commit(r, "assess")
  /\ LET w == req[r]
     IN  IF ~Exists(w.campaign)
         THEN UNCHANGED <<assessments, equipment>>
         ELSE /\ Len(assessments) < MaxAssessments
              /\ assessments' = Append(assessments,
                   [campaign |-> w.campaign, equipment |-> w.of, framework |-> w.framework,
                    seen |-> w.seen, result |-> [k \in Controls |-> "not_assessed"]])
              /\ equipment' = Written(w.equipment)
  /\ UNCHANGED <<campaign, findings, checklist, answered>>

UpdateControlResult(a, k, s) ==
  /\ Blind
  /\ Live(a)
  /\ assessments' = [assessments EXCEPT ![a].result[k] = s]
  /\ UNCHANGED <<campaign, equipment, findings, checklist, answered>>

\* What a scan says of a control, by the level it gave its rule.
LEVEL_MAP ==
  [pass |-> "compliant", fail |-> "non_compliant", warning |-> "partially_compliant",
   manual |-> "not_assessed", info |-> "not_assessed"]

\* The controls without a rule that the scan ran keep what they have.
Ruled(result, levels) ==
  [k \in Controls |-> IF k \in DOMAIN levels THEN LEVEL_MAP[levels[k]] ELSE result[k]]

Levels == UNION {[ran -> DOMAIN LEVEL_MAP] : ran \in SUBSET Controls}

\* import_monkey365_scan: a campaign, already in progress, with one assessment
\* of the equipment that stands for the tenant, whatever its status was.
ImportScan(c, e, f) ==
  /\ Blind
  /\ campaign[c] = None /\ Len(assessments) < MaxAssessments
  /\ campaign' = [campaign EXCEPT ![c] = "in_progress"]
  /\ equipment' = [equipment EXCEPT ![e] = "EN_COURS"]
  /\ \E levels \in Levels :
       assessments' = Append(assessments,
         [campaign |-> c, equipment |-> e, framework |-> f, seen |-> Len(assessments),
          result |-> Ruled([k \in Controls |-> "not_assessed"], levels)])
  /\ UNCHANGED <<findings, checklist, answered>>

SimulateScan(a) ==
  /\ Blind
  /\ Live(a)
  /\ \E levels \in Levels :
       assessments' = [assessments EXCEPT ![a].result = Ruled(@, levels)]
  /\ UNCHANGED <<campaign, equipment, findings, checklist, answered>>

\* Mutant: the foreign key of the findings does not hold.
DeleteWithFindings(a) ==
  /\ Blind
  /\ Live(a)
  /\ assessments' = [assessments EXCEPT ![a] = Gone]
  /\ UNCHANGED <<campaign, equipment, findings, checklist, answered>>

DeleteAssessment(a) ==
  /\ Blind
  /\ Live(a) /\ OnFinding(a) = {}
  /\ assessments' = [assessments EXCEPT ![a] = Gone]
  /\ UNCHANGED <<campaign, equipment, findings, checklist, answered>>

\* update_equipement: the status is set by hand.
SetAuditStatus(e, s) ==
  /\ Blind
  /\ equipment' = [equipment EXCEPT ![e] = s]
  /\ UNCHANGED <<campaign, assessments, findings, checklist, answered>>

-----------------------------------------------------------------------------
\* Findings.

VALID_TRANSITIONS ==
  [open        |-> {"assigned", "closed"},
   assigned    |-> {"in_progress", "open"},
   in_progress |-> {"remediated", "assigned"},
   remediated  |-> {"verified", "in_progress"},
   verified    |-> {"closed", "open"},
   closed      |-> {"open"}]

\* The results to follow, and those that are followed already.
Failing(a) == {k \in Controls : assessments[a].result[k] \in {"non_compliant", "partially_compliant"}}

On(a, k) == {f \in OnFinding(a) : findings[f].control = k}

\* scalar_one_or_none raises when a result has two findings.
Generate(r, a) ==
  /\ Live(a)
  /\ \A k \in Failing(a) : Cardinality(On(a, k)) <= 1
  /\ Begin(r, [op |-> "generate", assessment |-> a, seen |-> Len(findings),
               controls |-> {k \in Failing(a) : On(a, k) = {}}])
  /\ Reads

SaveFindings(r) ==
  /\ Commit(r, "generate")
  /\ LET w == req[r]
         new(k) == [assessment |-> w.assessment, control |-> k, seen |-> w.seen,
                    status |-> "open", trail |-> <<>>, duplicate_of |-> 0]
     IN  IF ~Live(w.assessment)
         THEN UNCHANGED findings
         ELSE /\ Len(findings) + Cardinality(w.controls) <= MaxFindings
              /\ findings' = findings \o [i \in 1 .. Cardinality(w.controls) |->
                                            new(SetToSeq(w.controls)[i])]
  /\ UNCHANGED <<campaign, equipment, assessments, checklist, answered>>

UpdateStatus(r, f, s) ==
  /\ s \in VALID_TRANSITIONS[findings[f].status]
  /\ Begin(r, [op |-> "transition", finding |-> f, old |-> findings[f].status, new |-> s,
               seen |-> Len(findings[f].trail)])
  /\ Reads

\* Mutant: the status is written and no row of history.
SaveStatusOnly(r) ==
  /\ Commit(r, "transition")
  /\ findings' = [findings EXCEPT ![req[r].finding].status = req[r].new]
  /\ UNCHANGED <<campaign, equipment, assessments, checklist, answered>>

\* A finding with the status that was asked for and a row of its history.
Moved(finding, w) ==
  [finding EXCEPT !.status = w.new,
                  !.trail = Append(@, [old |-> w.old, new |-> w.new, seen |-> w.seen])]

\* The history and the status, in one transaction.
SaveStatus(r) ==
  /\ Commit(r, "transition")
  /\ LET w == req[r]
     IN  /\ Len(findings[w.finding].trail) < MaxTrail
         /\ findings' = [findings EXCEPT ![w.finding] = Moved(@, w)]
  /\ UNCHANGED <<campaign, equipment, assessments, checklist, answered>>

LinkDuplicate(f, g) ==
  /\ Blind
  /\ f # g
  /\ findings' = [findings EXCEPT ![f].duplicate_of = g]
  /\ UNCHANGED <<campaign, equipment, assessments, checklist, answered>>

-----------------------------------------------------------------------------
\* The checklist.

CreateInstance ==
  /\ Blind
  /\ checklist = None
  /\ checklist' = "draft"
  /\ UNCHANGED <<campaign, equipment, assessments, findings, answered>>

RespondToItem(r, i) ==
  /\ Opened
  /\ Begin(r, [op |-> "respond", item |-> i, was |-> checklist, known |-> i \in answered])
  /\ Reads

\* Mutant: every response puts the instance in progress.
SaveResponseAlways(r) ==
  /\ Commit(r, "respond")
  /\ answered' = answered \cup {req[r].item}
  /\ checklist' = "in_progress"
  /\ UNCHANGED <<campaign, equipment, assessments, findings>>

\* The unique key refuses a second first response, the foreign key one to an
\* instance that is gone; the instance leaves "draft" if it was read so.
SaveResponse(r) ==
  /\ Commit(r, "respond")
  /\ LET w == req[r]
     IN  IF ~Opened \/ w.known # (w.item \in answered)
         THEN UNCHANGED <<checklist, answered>>
         ELSE /\ answered' = answered \cup {w.item}
              /\ checklist' = IF w.was = "draft" THEN "in_progress" ELSE checklist
  /\ UNCHANGED <<campaign, equipment, assessments, findings>>

CompleteInstance ==
  /\ Blind
  /\ Opened
  /\ checklist' = "completed"
  /\ UNCHANGED <<campaign, equipment, assessments, findings, answered>>

DeleteInstance ==
  /\ Blind
  /\ Opened
  /\ checklist' = Deleted
  /\ answered' = {}
  /\ UNCHANGED <<campaign, equipment, assessments, findings>>

-----------------------------------------------------------------------------
CampaignStep ==
  \E c \in Campaigns :
    \/ CreateCampaign(c) \/ DeleteCampaign(c)
    \/ \E r \in Requests :
         \/ StartCampaign(r, c) \/ CompleteCampaign(r, c)
         \/ \E s \in CampaignStatus : UpdateCampaign(r, c, s)
    \/ \E e \in Equipments, f \in Frameworks :
         ImportScan(c, e, f) \/ \E r \in Requests : CreateAssessment(r, c, e, f)

AssessmentStep ==
  \E a \in DOMAIN assessments :
    \/ DeleteAssessment(a) \/ SimulateScan(a)
    \/ \E k \in Controls, s \in ComplianceStatus : UpdateControlResult(a, k, s)
    \/ \E r \in Requests : Generate(r, a)

FindingStep ==
  \E f \in DOMAIN findings :
    \/ \E r \in Requests, s \in FindingStatus : UpdateStatus(r, f, s)
    \/ \E g \in DOMAIN findings : LinkDuplicate(f, g)

ChecklistStep ==
  \/ CreateInstance \/ CompleteInstance \/ DeleteInstance
  \/ \E r \in Requests, i \in Items : RespondToItem(r, i)

Save ==
  \E r \in Requests :
    SaveCampaign(r) \/ SaveAssessment(r) \/ SaveFindings(r) \/ SaveStatus(r) \/ SaveResponse(r)

EquipmentStep == \E e \in Equipments, s \in AuditStatus : SetAuditStatus(e, s)

Next ==
  CampaignStep \/ AssessmentStep \/ EquipmentStep \/ FindingStep \/ ChecklistStep \/ Save

Spec == Init /\ [][Next]_vars

-----------------------------------------------------------------------------
\* Properties.

\* The types; what a finding was drawn from is still there.
TypeOK ==
  /\ campaign \in [Campaigns -> CampaignStatus \cup {None, Deleted}]
  /\ equipment \in [Equipments -> AuditStatus]
  /\ \A a \in DOMAIN assessments :
       Live(a) => /\ Exists(assessments[a].campaign)
                  /\ assessments[a].result \in [Controls -> ComplianceStatus]
  /\ \A f \in DOMAIN findings :
       /\ findings[f].status \in FindingStatus
       /\ Live(findings[f].assessment)
       /\ findings[f].duplicate_of \in 0 .. Len(findings)
  /\ checklist \in ChecklistStatus \cup {None, Deleted}
  /\ answered \subseteq Items
  /\ ~Opened => answered = {}
  /\ made \in 0 .. MaxRequests

\* An equipment is assessed once with a framework in a campaign, and a result
\* is followed by one finding, unless the two requests overlapped: the later
\* one looked before the earlier one wrote.
OnceUnlessOverlap ==
  /\ \A a, b \in DOMAIN assessments :
       /\ a < b /\ Live(a)
       /\ Same(b, assessments[a].campaign, assessments[a].equipment, assessments[a].framework)
       => assessments[b].seen < a
  /\ \A f, g \in DOMAIN findings :
       /\ f < g
       /\ findings[f].assessment = findings[g].assessment
       /\ findings[f].control = findings[g].control
       => findings[g].seen < f

\* The history of a finding ends at its status, and each of its rows is a valid
\* transition from where the row before it ended, unless the two overlapped.
TrailLeadsToStatus ==
  \A f \in DOMAIN findings :
    LET t == findings[f].trail
        before(i) == IF i = 1 THEN "open" ELSE t[i - 1].new
    IN  /\ findings[f].status = before(Len(t) + 1)
        /\ \A i \in DOMAIN t : t[i].seen = i - 1 => /\ t[i].old = before(i)
                                                   /\ t[i].new \in VALID_TRANSITIONS[before(i)]

\* A completed checklist stays so, whatever is answered later, unless the
\* response was under way since before the first one.
CompletedIsKept ==
  [][checklist = "completed" /\ ~(\E r \in Requests : req[r].op = "respond" /\ req[r].was = "draft")
       => checklist' \in {"completed", Deleted}]_vars

=============================================================================
