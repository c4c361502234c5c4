--------------------------- MODULE AuditWorkProofs ---------------------------
(***************************************************************************)
(* The safety properties of AuditWork, for any campaigns, equipments,      *)
(* frameworks and requests, and any finite set of controls.                *)
(*                                                                         *)
(* Two requests may overlap, so that the properties speak of what the      *)
(* later one had seen.  What they need is said of the open requests:       *)
(* NothingSeen, that an assessment or a finding which was not there is     *)
(* still not there among those the request saw, and StatusSeen, that the   *)
(* status it read is where the history stood when it looked.               *)
(***************************************************************************)
EXTENDS AuditWork, FiniteSetTheorems, TLAPS

Assessment == [campaign : Campaigns, equipment : Equipments, framework : Frameworks,
               seen : Nat, result : [Controls -> ComplianceStatus]]

Change == [old : FindingStatus, new : FindingStatus, seen : Nat]

Finding == [assessment : Nat, control : Controls, seen : Nat, status : FindingStatus,
            trail : Seq(Change), duplicate_of : Nat]

\* What a request writes to the statuses of equipments.
Patch(p) == DOMAIN p \subseteq Equipments /\ \A e \in DOMAIN p : p[e] \in AuditStatus

\* The lists, and what each request carries.
ListTypes ==
  /\ assessments \in Seq(Assessment \cup {Gone})
  /\ findings \in Seq(Finding)

RequestType(r) ==
  LET w == req[r]
  IN  /\ w.op \in {None, "campaign", "assess", "generate", "transition", "respond"}
      /\ w.op = "campaign" => /\ w.campaign \in Campaigns
                              /\ w.status \in CampaignStatus
                              /\ Patch(w.equipment)
      /\ w.op = "assess" => /\ w.campaign \in Campaigns
                            /\ w.of \in Equipments /\ w.framework \in Frameworks
                            /\ w.seen \in 0 .. Len(assessments)
                            /\ Patch(w.equipment)
      /\ w.op = "generate" => /\ w.assessment \in DOMAIN assessments
                              /\ w.controls \subseteq Controls
                              /\ w.seen \in 0 .. Len(findings)
      /\ w.op = "transition" => /\ w.finding \in DOMAIN findings
                                /\ w.old \in FindingStatus /\ w.new \in FindingStatus
                                /\ w.seen \in 0 .. Len(findings[w.finding].trail)
      /\ w.op = "respond" => w.item \in Items

\* What a request found absent is still absent among those it saw.
NothingSeen(r) ==
  LET w == req[r]
  IN  /\ w.op = "assess" =>
           \A a \in DOMAIN assessments :
             a <= w.seen => ~Same(a, w.campaign, w.of, w.framework)
      /\ w.op = "generate" =>
           \A f \in DOMAIN findings :
             f <= w.seen /\ findings[f].assessment = w.assessment
               => findings[f].control \notin w.controls

\* Where a history stands after its first i - 1 rows.
Before(t, i) == IF i = 1 THEN "open" ELSE t[i - 1].new

\* The status a request read is where the history stood.
StatusSeen(r) ==
  LET w == req[r]
  IN  w.op = "transition" =>
        /\ w.old = Before(findings[w.finding].trail, w.seen + 1)
        /\ w.new \in VALID_TRANSITIONS[w.old]

RequestHolds(r) == RequestType(r) /\ NothingSeen(r) /\ StatusSeen(r)

RequestsHold == DOMAIN req = Requests /\ \A r \in Requests : RequestHolds(r)

\* The two halves of OnceUnlessOverlap.
AssessedOnce ==
  \A a, b \in DOMAIN assessments :
    /\ a < b /\ Live(a)
    /\ Same(b, assessments[a].campaign, assessments[a].equipment, assessments[a].framework)
    => assessments[b].seen < a

FollowedOnce ==
  \A f, g \in DOMAIN findings :
    /\ f < g
    /\ findings[f].assessment = findings[g].assessment
    /\ findings[f].control = findings[g].control
    => findings[g].seen < f

\* The inductive invariant.
WorkInv ==
  /\ TypeOK
  /\ ListTypes
  /\ RequestsHold
  /\ AssessedOnce
  /\ FollowedOnce
  /\ TrailLeadsToStatus

\* No step brings an assessment back or makes it another one.
AssessmentsKeep ==
  /\ Len(assessments) <= Len(assessments')
  /\ \A a \in DOMAIN assessments : assessments'[a] # Gone =>
       /\ assessments[a] # Gone
       /\ assessments'[a].campaign = assessments[a].campaign
       /\ assessments'[a].equipment = assessments[a].equipment
       /\ assessments'[a].framework = assessments[a].framework
       /\ assessments'[a].seen = assessments[a].seen

\* Nor a finding, whose history only grows.
FindingsKeep ==
  /\ Len(findings) <= Len(findings')
  /\ \A f \in DOMAIN findings :
       /\ findings'[f].assessment = findings[f].assessment
       /\ findings'[f].control = findings[f].control
       /\ findings'[f].seen = findings[f].seen
       /\ Len(findings[f].trail) <= Len(findings'[f].trail)
       /\ \A i \in DOMAIN findings[f].trail : findings'[f].trail[i] = findings[f].trail[i]

-----------------------------------------------------------------------------
\* What a request saw stays true of it, whatever the steps of the others.
LEMMA RequestKept ==
  ASSUME ListTypes, ListTypes', AssessmentsKeep, FindingsKeep,
         NEW r \in Requests, RequestHolds(r), req'[r] = req[r]
  PROVE  RequestHolds(r)'
<1> DEFINE w == req[r]
<1>1. /\ Len(assessments) \in Nat /\ DOMAIN assessments = 1 .. Len(assessments)
      /\ Len(assessments') \in Nat /\ DOMAIN assessments' = 1 .. Len(assessments')
      /\ Len(findings) \in Nat /\ DOMAIN findings = 1 .. Len(findings)
      /\ Len(findings') \in Nat /\ DOMAIN findings' = 1 .. Len(findings')
  BY DEF ListTypes
<1>2. \A f \in DOMAIN findings :
        /\ Len(findings[f].trail) \in Nat /\ Len(findings'[f].trail) \in Nat
        /\ DOMAIN findings[f].trail = 1 .. Len(findings[f].trail)
  <2>1. ASSUME NEW f \in DOMAIN findings
        PROVE  /\ findings[f].trail \in Seq(Change)
               /\ findings'[f].trail \in Seq(Change)
    <3>1. f \in 1 .. Len(findings) /\ f \in 1 .. Len(findings')
      BY <1>1 DEF FindingsKeep
    <3>2. findings[f] \in Finding /\ findings'[f] \in Finding
      BY <3>1 DEF ListTypes
    <3>3. QED
      BY <3>2 DEF Finding
  <2>2. QED
    BY <2>1
<1>3. RequestType(r)'
  <2>1. w.op = "assess" => w.seen \in 0 .. Len(assessments')
    BY <1>1 DEF RequestHolds, RequestType, AssessmentsKeep
  <2>2. w.op = "generate" => w.assessment \in DOMAIN assessments' /\ w.seen \in 0 .. Len(findings')
    BY <1>1 DEF RequestHolds, RequestType, AssessmentsKeep, FindingsKeep
  <2>3. w.op = "transition" => /\ w.finding \in DOMAIN findings'
                               /\ w.seen \in 0 .. Len(findings'[w.finding].trail)
    <3> HAVE w.op = "transition"
    <3>1. w.finding \in DOMAIN findings /\ w.seen \in 0 .. Len(findings[w.finding].trail)
      BY DEF RequestHolds, RequestType
    <3>2. w.finding \in DOMAIN findings'
      BY <1>1, <3>1 DEF FindingsKeep
    <3>3. Len(findings[w.finding].trail) <= Len(findings'[w.finding].trail)
      BY <3>1 DEF FindingsKeep
    <3>4. QED
      BY <1>2, <3>1, <3>2, <3>3
  <2>4. QED
    BY <2>1, <2>2, <2>3 DEF RequestHolds, RequestType, Patch
<1>4. NothingSeen(r)'
  <2>1. w.op = "assess" => \A a \in DOMAIN assessments' :
          a <= w.seen => ~Same(a, w.campaign, w.of, w.framework)'
    BY <1>1 DEF RequestHolds, RequestType, NothingSeen, AssessmentsKeep, Same, Live
  <2>2. w.op = "generate" => \A f \in DOMAIN findings' :
          f <= w.seen /\ findings'[f].assessment = w.assessment
            => findings'[f].control \notin w.controls
    BY <1>1 DEF RequestHolds, RequestType, NothingSeen, FindingsKeep
  <2>3. QED
    BY <2>1, <2>2 DEF NothingSeen
<1>5. StatusSeen(r)'
  <2>1. ASSUME w.op = "transition"
        PROVE  Before(findings'[w.finding].trail, w.seen + 1) = Before(findings[w.finding].trail, w.seen + 1)
    <3>1. w.finding \in DOMAIN findings /\ w.seen \in 0 .. Len(findings[w.finding].trail)
      BY <2>1 DEF RequestHolds, RequestType
    <3>2. w.seen # 0 => findings'[w.finding].trail[w.seen] = findings[w.finding].trail[w.seen]
      BY <1>2, <3>1 DEF FindingsKeep
    <3>3. (w.seen + 1) - 1 = w.seen /\ (w.seen + 1 = 1 <=> w.seen = 0)
      BY <1>2, <3>1
    <3>4. QED
      BY <3>2, <3>3 DEF Before
  <2>2. QED
    BY <2>1 DEF RequestHolds, StatusSeen
<1>6. QED
  BY <1>3, <1>4, <1>5 DEF RequestHolds

\* A request that is over carries nothing.
LEMMA IdleHolds ==
  ASSUME NEW r \in Requests, req'[r] = Idle
  PROVE  RequestHolds(r)'
BY DEF RequestHolds, RequestType, NothingSeen, StatusSeen, Idle, None

\* A commit leaves the other requests as they are.
LEMMA CommitKeeps ==
  ASSUME WorkInv, ListTypes', AssessmentsKeep, FindingsKeep,
         NEW r \in Requests, NEW op, Commit(r, op)
  PROVE  RequestsHold'
<1>1. DOMAIN req' = Requests /\ req'[r] = Idle /\ \A x \in Requests \ {r} : req'[x] = req[x]
  BY DEF Commit, WorkInv, RequestsHold
<1>2. \A x \in Requests : RequestHolds(x)'
  BY <1>1, RequestKept, IdleHolds DEF WorkInv, RequestsHold
<1>3. QED
  BY <1>1, <1>2 DEF RequestsHold

\* So does a step that opens and closes no request.
LEMMA BlindKeeps ==
  ASSUME WorkInv, ListTypes', AssessmentsKeep, FindingsKeep, UNCHANGED req
  PROVE  RequestsHold'
BY RequestKept DEF WorkInv, RequestsHold

\* What is written of the statuses of equipments is a status.
LEMMA WrittenTypes ==
  ASSUME TypeOK, NEW p, Patch(p)
  PROVE  Written(p) \in [Equipments -> AuditStatus]
BY DEF TypeOK, Patch, Written

\* Nothing changed of a list.
LEMMA SameAssessments ==
  ASSUME WorkInv, UNCHANGED assessments
  PROVE  AssessmentsKeep /\ AssessedOnce'
BY DEF WorkInv, ListTypes, AssessmentsKeep, AssessedOnce, Same, Live

\* A step that leaves the findings alone keeps what is said of them.
LEMMA SameFindings ==
  ASSUME WorkInv, UNCHANGED findings
  PROVE  FindingsKeep /\ FollowedOnce' /\ TrailLeadsToStatus'
<1>1. \A f \in DOMAIN findings : Len(findings[f].trail) \in Nat
  BY DEF WorkInv, ListTypes, Finding
<1>2. Len(findings) \in Nat
  BY DEF WorkInv, ListTypes
<1>3. QED
  BY <1>1, <1>2 DEF WorkInv, FindingsKeep, FollowedOnce, TrailLeadsToStatus

-----------------------------------------------------------------------------
\* The lists by their members.
LEMMA Members ==
  ASSUME WorkInv
  PROVE  /\ Len(assessments) \in Nat /\ DOMAIN assessments = 1 .. Len(assessments)
         /\ Len(findings) \in Nat /\ DOMAIN findings = 1 .. Len(findings)
         /\ \A a \in DOMAIN assessments : assessments[a] \in Assessment \cup {Gone}
         /\ \A f \in DOMAIN findings : findings[f] \in Finding
BY DEF WorkInv, ListTypes

\* An assessment that was not deleted is a whole row.
LEMMA LiveIsWhole ==
  ASSUME WorkInv, NEW a
  PROVE  Live(a) <=> a \in DOMAIN assessments /\ assessments[a] \in Assessment
<1>1. Gone \notin Assessment
  BY NamesAssumption DEF Gone, Assessment, None
<1>2. QED
  BY <1>1, Members DEF Live

-----------------------------------------------------------------------------
\* The requests that read and wait for their commit.
LEMMA BeginKeeps ==
  ASSUME WorkInv, NEW r \in Requests, NEW what, Begin(r, what), Reads, RequestHolds(r)'
  PROVE  WorkInv'
<1>1. DOMAIN req' = Requests /\ \A x \in Requests \ {r} : req'[x] = req[x]
  BY DEF Begin, WorkInv, RequestsHold
<1>2. ListTypes' /\ AssessmentsKeep /\ FindingsKeep /\ AssessedOnce' /\ FollowedOnce'
      /\ TrailLeadsToStatus'
  BY SameAssessments, SameFindings DEF Reads, WorkInv, ListTypes
<1>3. TypeOK'
  BY BoundsAssumption DEF WorkInv, TypeOK, Begin, Reads, Exists, Opened, Live
<1>4. \A x \in Requests : RequestHolds(x)'
  BY <1>1, <1>2, RequestKept DEF WorkInv, RequestsHold
<1>5. QED
  BY <1>1, <1>2, <1>3, <1>4 DEF WorkInv, RequestsHold

\* What a request on a campaign carries.
LEMMA UpdateHolds ==
  ASSUME WorkInv, NEW r \in Requests, NEW c \in Campaigns, NEW s \in CampaignStatus,
         NEW p, Patch(p), Begin(r, Update(c, s, p)), Reads
  PROVE  WorkInv'
<1>1. req'[r] = [op |-> "campaign", campaign |-> c, was |-> campaign[c], status |-> s, equipment |-> p]
  BY DEF Begin, Update, WorkInv, RequestsHold
<1>2. RequestHolds(r)'
  BY <1>1 DEF RequestHolds, RequestType, NothingSeen, StatusSeen, Patch
<1>3. QED
  BY <1>2, BeginKeeps

\* A request on a campaign reads it.
LEMMA CampaignRequests ==
  ASSUME WorkInv, NEW r \in Requests, NEW c \in Campaigns
  PROVE  /\ StartCampaign(r, c) => WorkInv'
         /\ CompleteCampaign(r, c) => WorkInv'
         /\ \A s \in CampaignStatus : UpdateCampaign(r, c, s) => WorkInv'
<1>1. ASSUME StartCampaign(r, c)
      PROVE  WorkInv'
  <2>1. \A a \in Of(c) : assessments[a].equipment \in Equipments
    <3>1. \A a \in Of(c) : assessments[a] \in Assessment
      BY NamesAssumption, Members DEF Of, Gone, None
    <3>2. QED
      BY <3>1 DEF Assessment
  <2>2. Patch(ToStart(c))
    BY <2>1 DEF Patch, ToStart, AuditStatus
  <2>3. QED
    BY <1>1, <2>2, UpdateHolds DEF StartCampaign, CampaignStatus
<1>2. ASSUME CompleteCampaign(r, c)
      PROVE  WorkInv'
  <2>1. PICK v \in Verdicts(c) : Begin(r, Update(c, "completed", v))
    BY <1>2 DEF CompleteCampaign
  <2>2. Patch(v)
    BY <2>1 DEF Verdicts, Patch
  <2>3. QED
    BY <1>2, <2>1, <2>2, UpdateHolds DEF CompleteCampaign, CampaignStatus
<1>3. ASSUME NEW s \in CampaignStatus, UpdateCampaign(r, c, s)
      PROVE  WorkInv'
  <2>1. Patch(<<>>)
    BY DEF Patch
  <2>2. QED
    BY <1>3, <2>1, UpdateHolds DEF UpdateCampaign
<1>4. QED
  BY <1>1, <1>2, <1>3

\* create_assessment looks for one there already.
LEMMA AssessmentRequest ==
  ASSUME WorkInv, NEW r \in Requests, NEW c \in Campaigns, NEW e \in Equipments,
         NEW f \in Frameworks, CreateAssessment(r, c, e, f)
  PROVE  WorkInv'
<1> DEFINE p == IF campaign[c] = "in_progress" /\ equipment[e] = "A_AUDITER"
                THEN [x \in {e} |-> "EN_COURS"] ELSE <<>>
<1>1. Patch(p)
  BY DEF Patch, AuditStatus
<1> HIDE DEF p
<1>2. /\ Begin(r, [op |-> "assess", campaign |-> c, of |-> e, framework |-> f,
                   seen |-> Len(assessments), equipment |-> p])
      /\ Reads
  BY DEF CreateAssessment, p
<1>3. req'[r] = [op |-> "assess", campaign |-> c, of |-> e, framework |-> f,
                 seen |-> Len(assessments), equipment |-> p]
  BY <1>2 DEF Begin, WorkInv, RequestsHold
<1>4. \A a \in DOMAIN assessments : ~Same(a, c, e, f)
  BY DEF CreateAssessment, Taken
<1>5. RequestHolds(r)'
  BY <1>1, <1>2, <1>3, <1>4, Members
     DEF RequestHolds, RequestType, NothingSeen, StatusSeen, Patch, Reads, Same, Live
<1>6. QED
  BY <1>2, <1>5, BeginKeeps

\* The generation of findings looks for the results that have one.
LEMMA GenerateRequest ==
  ASSUME WorkInv, NEW r \in Requests, NEW a \in DOMAIN assessments, Generate(r, a)
  PROVE  WorkInv'
<1> DEFINE K == {k \in Failing(a) : On(a, k) = {}}
<1>1. Begin(r, [op |-> "generate", assessment |-> a, seen |-> Len(findings), controls |-> K]) /\ Reads
  BY DEF Generate
<1>2. req'[r] = [op |-> "generate", assessment |-> a, seen |-> Len(findings), controls |-> K]
  BY <1>1 DEF Begin, WorkInv, RequestsHold
<1>3. K \subseteq Controls
  BY DEF Failing
<1>4. \A f \in DOMAIN findings : findings[f].assessment = a => findings[f].control \notin K
  BY DEF On, OnFinding
<1> HIDE DEF K
<1>5. RequestHolds(r)'
  BY <1>1, <1>2, <1>3, <1>4, Members DEF RequestHolds, RequestType, NothingSeen, StatusSeen, Reads
<1>6. QED
  BY <1>1, <1>5, BeginKeeps

\* A change of status reads the status it starts from.
LEMMA StatusRequest ==
  ASSUME WorkInv, NEW r \in Requests, NEW f \in DOMAIN findings, NEW s \in FindingStatus,
         UpdateStatus(r, f, s)
  PROVE  WorkInv'
<1>1. /\ Begin(r, [op |-> "transition", finding |-> f, old |-> findings[f].status, new |-> s,
                   seen |-> Len(findings[f].trail)])
      /\ Reads /\ s \in VALID_TRANSITIONS[findings[f].status]
  BY DEF UpdateStatus
<1>2. req'[r] = [op |-> "transition", finding |-> f, old |-> findings[f].status, new |-> s,
                 seen |-> Len(findings[f].trail)]
  BY <1>1 DEF Begin, WorkInv, RequestsHold
<1>3. findings[f].status = Before(findings[f].trail, Len(findings[f].trail) + 1)
  BY DEF WorkInv, TrailLeadsToStatus, Before
<1>4. findings[f].status \in FindingStatus /\ Len(findings[f].trail) \in Nat
  BY Members DEF Finding
<1>5. RequestType(r)'
  BY <1>1, <1>2, <1>4 DEF RequestType, Reads
<1>6. NothingSeen(r)' /\ StatusSeen(r)'
  BY <1>1, <1>2, <1>3 DEF NothingSeen, StatusSeen, Reads
<1>7. QED
  BY <1>1, <1>5, <1>6, BeginKeeps DEF RequestHolds

\* An answer reads whether its checklist is complete.
LEMMA ResponseRequest ==
  ASSUME WorkInv, NEW r \in Requests, NEW i \in Items, RespondToItem(r, i)
  PROVE  WorkInv'
<1>1. req'[r] = [op |-> "respond", item |-> i, was |-> checklist, known |-> i \in answered]
  BY DEF RespondToItem, Begin, WorkInv, RequestsHold
<1>2. RequestHolds(r)'
  BY <1>1 DEF RequestHolds, RequestType, NothingSeen, StatusSeen
<1>3. QED
  BY <1>2, BeginKeeps DEF RespondToItem

-----------------------------------------------------------------------------
\* The steps that touch no list and no request.
LEMMA StatusSteps ==
  ASSUME WorkInv, UNCHANGED <<assessments, findings, req>>, TypeOK'
  PROVE  WorkInv'
<1>1. ListTypes' /\ AssessmentsKeep /\ FindingsKeep /\ AssessedOnce' /\ FollowedOnce'
      /\ TrailLeadsToStatus'
  BY SameAssessments, SameFindings DEF WorkInv, ListTypes
<1>2. QED
  BY <1>1, BlindKeeps DEF WorkInv

\* Writes that depend on nothing another request can have read.
LEMMA BlindSteps ==
  ASSUME WorkInv,
         \/ \E c \in Campaigns : CreateCampaign(c)
         \/ \E e \in Equipments, s \in AuditStatus : SetAuditStatus(e, s)
         \/ CreateInstance \/ CompleteInstance \/ DeleteInstance
  PROVE  WorkInv'
<1> USE BoundsAssumption DEF Blind
<1>1. ASSUME NEW c \in Campaigns, CreateCampaign(c)
      PROVE  WorkInv'
  <2>1. \A d \in Campaigns : Exists(d) => Exists(d)'
    BY <1>1 DEF CreateCampaign, Exists, WorkInv, TypeOK, CampaignStatus
  <2>2. \A a \in DOMAIN assessments : Live(a) => assessments[a].campaign \in Campaigns
    BY LiveIsWhole DEF Assessment
  <2>3. TypeOK'
    BY <1>1, <2>1, <2>2 DEF CreateCampaign, WorkInv, TypeOK, CampaignStatus, Live, Opened
  <2>4. QED
    BY <1>1, <2>3, StatusSteps DEF CreateCampaign
<1>2. ASSUME NEW e \in Equipments, NEW s \in AuditStatus, SetAuditStatus(e, s)
      PROVE  WorkInv'
  <2>1. TypeOK'
    BY <1>2 DEF SetAuditStatus, WorkInv, TypeOK, Live, Opened, Exists
  <2>2. QED
    BY <1>2, <2>1, StatusSteps DEF SetAuditStatus
<1>3. ASSUME CreateInstance \/ CompleteInstance \/ DeleteInstance
      PROVE  WorkInv'
  <2>1. TypeOK'
    BY <1>3 DEF CreateInstance, CompleteInstance, DeleteInstance, WorkInv, TypeOK, Live,
                Opened, Exists, ChecklistStatus, Deleted, None
  <2>2. QED
    BY <1>3, <2>1, StatusSteps DEF CreateInstance, CompleteInstance, DeleteInstance
<1>4. QED
  BY <1>1, <1>2, <1>3

\* The commits that touch no list.
LEMMA PlainCommit ==
  ASSUME WorkInv, UNCHANGED <<assessments, findings>>, TypeOK',
         NEW r \in Requests, NEW op, Commit(r, op)
  PROVE  WorkInv'
<1>1. ListTypes' /\ AssessmentsKeep /\ FindingsKeep /\ AssessedOnce' /\ FollowedOnce'
      /\ TrailLeadsToStatus'
  BY SameAssessments, SameFindings DEF WorkInv, ListTypes
<1>2. QED
  BY <1>1, CommitKeeps DEF WorkInv

\* The campaign's new status is committed.
LEMMA SaveCampaignKeeps ==
  ASSUME WorkInv, NEW r \in Requests, SaveCampaign(r)
  PROVE  WorkInv'
<1> DEFINE w == req[r]
<1>1. w.campaign \in Campaigns /\ w.status \in CampaignStatus /\ Patch(w.equipment)
  BY DEF SaveCampaign, Commit, WorkInv, RequestsHold, RequestHolds, RequestType
<1>2. /\ equipment' = equipment \/ equipment' = Written(w.equipment)
      /\ campaign' = campaign \/ campaign' = [campaign EXCEPT ![w.campaign] = w.status]
  BY DEF SaveCampaign
<1>3. equipment' \in [Equipments -> AuditStatus]
  BY <1>1, <1>2, WrittenTypes DEF WorkInv, TypeOK
<1>4. /\ campaign' \in [Campaigns -> CampaignStatus \cup {None, Deleted}]
      /\ \A d \in Campaigns : Exists(d) => Exists(d)'
  BY <1>1, <1>2 DEF WorkInv, TypeOK, Exists
<1>5. \A a \in DOMAIN assessments : Live(a) => assessments[a].campaign \in Campaigns
  BY LiveIsWhole DEF Assessment
<1>6. TypeOK'
  BY <1>3, <1>4, <1>5 DEF SaveCampaign, Commit, WorkInv, TypeOK, Live, Opened
<1>7. QED
  BY <1>6, PlainCommit DEF SaveCampaign

\* The answer is committed.
LEMMA SaveResponseKeeps ==
  ASSUME WorkInv, NEW r \in Requests, SaveResponse(r)
  PROVE  WorkInv'
<1> DEFINE w == req[r]
<1>1. w.item \in Items
  BY DEF SaveResponse, Commit, WorkInv, RequestsHold, RequestHolds, RequestType
<1>2. \/ UNCHANGED <<checklist, answered>>
      \/ /\ Opened /\ answered' = answered \cup {w.item}
         /\ checklist' \in {"in_progress", checklist}
  BY DEF SaveResponse
<1>3. TypeOK'
  BY <1>1, <1>2 DEF SaveResponse, Commit, WorkInv, TypeOK, Live, Opened, Exists, ChecklistStatus
<1>4. QED
  BY <1>3, PlainCommit DEF SaveResponse

-----------------------------------------------------------------------------
\* The steps that change the assessments in place: some go, others get results.
ChangedInPlace ==
  /\ assessments' \in Seq(Assessment \cup {Gone})
  /\ Len(assessments') = Len(assessments)
  /\ AssessmentsKeep
  /\ UNCHANGED <<findings, req>>

\* A step that adds no row and changes no place keeps the invariant.
LEMMA InPlaceKeeps ==
  ASSUME WorkInv, ChangedInPlace, TypeOK'
  PROVE  WorkInv'
<1>1. ListTypes' /\ FindingsKeep /\ FollowedOnce' /\ TrailLeadsToStatus'
  BY SameFindings DEF WorkInv, ListTypes, ChangedInPlace
<1>2. AssessedOnce'
  <2>1. DOMAIN assessments' = DOMAIN assessments
    BY Members DEF ChangedInPlace
  <2>2. \A a \in DOMAIN assessments : Live(a)' => Live(a)
    BY DEF ChangedInPlace, AssessmentsKeep, Live
  <2>3. \A b \in DOMAIN assessments : \A c, e, f : Same(b, c, e, f)' => Same(b, c, e, f)
    BY <2>1 DEF ChangedInPlace, AssessmentsKeep, Live, Same
  <2>4. \A b \in DOMAIN assessments : Live(b)' =>
          /\ assessments'[b].campaign = assessments[b].campaign
          /\ assessments'[b].equipment = assessments[b].equipment
          /\ assessments'[b].framework = assessments[b].framework
          /\ assessments'[b].seen = assessments[b].seen
    BY DEF ChangedInPlace, AssessmentsKeep, Live
  <2>5. SUFFICES ASSUME NEW a \in DOMAIN assessments, NEW b \in DOMAIN assessments,
                        a < b, Live(a)',
                        Same(b, assessments[a].campaign, assessments[a].equipment,
                                assessments[a].framework)'
                 PROVE  assessments'[b].seen < a
    BY <2>1 DEF AssessedOnce
  <2>6. Same(b, assessments[a].campaign, assessments[a].equipment, assessments[a].framework)
    BY <2>4, <2>5 DEF ChangedInPlace, AssessmentsKeep, Live, Same
  <2>7. Live(b)'
    BY <2>5 DEF Same
  <2>8. QED
    BY <2>2, <2>4, <2>5, <2>6, <2>7 DEF WorkInv, AssessedOnce
<1>3. QED
  BY <1>1, <1>2, BlindKeeps DEF WorkInv, ChangedInPlace

\* One assessment gets results.
LEMMA ResultsKeep ==
  ASSUME WorkInv, NEW a \in DOMAIN assessments, Live(a), Blind,
         UNCHANGED <<campaign, equipment, findings, checklist, answered>>,
         NEW result \in [Controls -> ComplianceStatus],
         assessments' = [assessments EXCEPT ![a].result = result]
  PROVE  WorkInv'
<1>1. assessments[a] \in Assessment
  BY LiveIsWhole
<1>2. /\ assessments'[a] \in Assessment
      /\ assessments'[a].result = result
      /\ assessments'[a].campaign = assessments[a].campaign
      /\ assessments'[a].equipment = assessments[a].equipment
      /\ assessments'[a].framework = assessments[a].framework
      /\ assessments'[a].seen = assessments[a].seen
  BY <1>1 DEF Assessment
<1>3. \A b \in DOMAIN assessments : b # a => assessments'[b] = assessments[b]
  OBVIOUS
<1>4. /\ assessments' \in Seq(Assessment \cup {Gone})
      /\ Len(assessments') = Len(assessments) /\ DOMAIN assessments' = DOMAIN assessments
  BY <1>2 DEF WorkInv, ListTypes
<1>5. ChangedInPlace
  BY <1>2, <1>3, <1>4, Members DEF ChangedInPlace, AssessmentsKeep, Live, Blind
<1>6. \A b \in DOMAIN assessments : Live(b)' <=> Live(b)
  BY <1>1, <1>2, <1>3, <1>4, NamesAssumption DEF Live, Gone, None, Assessment
<1>7. TypeOK'
  <2>1. \A b \in DOMAIN assessments' : Live(b)' => /\ Exists(assessments[b].campaign)'
                                                   /\ assessments'[b].result \in [Controls -> ComplianceStatus]
    BY <1>2, <1>3, <1>4, <1>6 DEF WorkInv, TypeOK, Exists
  <2>2. \A f \in DOMAIN findings' : Live(findings[f].assessment)'
    BY <1>6 DEF WorkInv, TypeOK, Live
  <2>3. QED
    BY <2>1, <2>2, BoundsAssumption DEF WorkInv, TypeOK, Blind, Opened
<1>8. QED
  BY <1>5, <1>7, InPlaceKeeps

\* Some assessments that no finding refers to go.
LEMMA GoneKeep ==
  ASSUME WorkInv, NEW A \in SUBSET DOMAIN assessments, \A a \in A : OnFinding(a) = {},
         Blind, UNCHANGED <<equipment, findings, checklist, answered>>,
         campaign' \in [Campaigns -> CampaignStatus \cup {None, Deleted}],
         \A a \in DOMAIN assessments \ A : Live(a) => campaign'[assessments[a].campaign] \in CampaignStatus,
         assessments' = [a \in DOMAIN assessments |-> IF a \in A THEN Gone ELSE assessments[a]]
  PROVE  WorkInv'
<1>1. /\ assessments' \in Seq(Assessment \cup {Gone})
      /\ Len(assessments') = Len(assessments) /\ DOMAIN assessments' = DOMAIN assessments
  BY DEF WorkInv, ListTypes
<1>2. ChangedInPlace
  BY <1>1, Members DEF ChangedInPlace, AssessmentsKeep, Blind
<1>3. \A a \in DOMAIN assessments : Live(a)' <=> Live(a) /\ a \notin A
  BY <1>1 DEF Live
<1>4. TypeOK'
  <2>1. \A b \in DOMAIN assessments' : Live(b)' => /\ Exists(assessments[b].campaign)'
                                                   /\ assessments'[b].result \in [Controls -> ComplianceStatus]
    BY <1>1, <1>3 DEF WorkInv, TypeOK, Exists
  <2>2. \A f \in DOMAIN findings : findings[f].assessment \notin A
    BY DEF OnFinding
  <2>3. \A f \in DOMAIN findings' : Live(findings[f].assessment)'
    BY <1>3, <2>2 DEF WorkInv, TypeOK, Live
  <2>4. QED
    BY <2>1, <2>3, BoundsAssumption DEF WorkInv, TypeOK, Blind, Opened
<1>5. QED
  BY <1>2, <1>4, InPlaceKeeps

\* What a scan says of the controls are results.
LEMMA RuledTypes ==
  ASSUME NEW result \in [Controls -> ComplianceStatus], NEW levels \in Levels
  PROVE  Ruled(result, levels) \in [Controls -> ComplianceStatus]
<1>1. PICK ran \in SUBSET Controls : levels \in [ran -> DOMAIN LEVEL_MAP]
  BY DEF Levels
<1>2. \A l \in DOMAIN LEVEL_MAP : LEVEL_MAP[l] \in ComplianceStatus
  BY DEF LEVEL_MAP, ComplianceStatus
<1>3. QED
  BY <1>1, <1>2 DEF Ruled

\* Deletions, simulated scans and updates of a result are such steps.
LEMMA InPlaceSteps ==
  ASSUME WorkInv,
         \/ \E c \in Campaigns : DeleteCampaign(c)
         \/ \E a \in DOMAIN assessments :
              \/ DeleteAssessment(a) \/ SimulateScan(a)
              \/ \E k \in Controls, s \in ComplianceStatus : UpdateControlResult(a, k, s)
  PROVE  WorkInv'
<1>0. \A a \in DOMAIN assessments : Live(a) => /\ assessments[a].campaign \in Campaigns
                                               /\ assessments[a].result \in [Controls -> ComplianceStatus]
  BY LiveIsWhole DEF Assessment
<1>1. ASSUME NEW c \in Campaigns, DeleteCampaign(c)
      PROVE  WorkInv'
  <2>1. campaign' \in [Campaigns -> CampaignStatus \cup {None, Deleted}]
    BY <1>1 DEF DeleteCampaign, WorkInv, TypeOK
  <2>2. \A a \in DOMAIN assessments \ Of(c) : Live(a) => campaign'[assessments[a].campaign] \in CampaignStatus
    <3> SUFFICES ASSUME NEW a \in DOMAIN assessments \ Of(c), Live(a)
                 PROVE  campaign'[assessments[a].campaign] \in CampaignStatus
      BY DEF Exists, Live
    <3>1. assessments[a].campaign \in Campaigns \ {c}
      BY <1>0 DEF Of
    <3>2. QED
      BY <1>1, <3>1 DEF DeleteCampaign, WorkInv, TypeOK, Exists
  <2>3. Of(c) \in SUBSET DOMAIN assessments
    BY DEF Of
  <2>4. QED
    BY <1>1, <2>1, <2>2, <2>3, GoneKeep DEF DeleteCampaign
<1>2. ASSUME NEW a \in DOMAIN assessments, DeleteAssessment(a)
      PROVE  WorkInv'
  <2>1. assessments' = [b \in DOMAIN assessments |-> IF b \in {a} THEN Gone ELSE assessments[b]]
    BY <1>2 DEF DeleteAssessment
  <2>2. \A b \in DOMAIN assessments \ {a} : Live(b) => campaign'[assessments[b].campaign] \in CampaignStatus
    BY <1>2 DEF DeleteAssessment, WorkInv, TypeOK, Exists
  <2>3. QED
    BY <1>2, <2>1, <2>2, GoneKeep DEF DeleteAssessment, WorkInv, TypeOK
<1>3. ASSUME NEW a \in DOMAIN assessments, SimulateScan(a)
      PROVE  WorkInv'
  <2>1. PICK levels \in Levels :
          assessments' = [assessments EXCEPT ![a].result = Ruled(@, levels)]
    BY <1>3 DEF SimulateScan
  <2> DEFINE result == Ruled(assessments[a].result, levels)
  <2>2. result \in [Controls -> ComplianceStatus]
    BY <1>0, <1>3, RuledTypes DEF SimulateScan
  <2>3. assessments' = [assessments EXCEPT ![a].result = result]
    BY <2>1
  <2> HIDE DEF result
  <2>4. QED
    BY <1>3, <2>2, <2>3, ResultsKeep DEF SimulateScan
<1>4. ASSUME NEW a \in DOMAIN assessments, NEW k \in Controls, NEW s \in ComplianceStatus,
             UpdateControlResult(a, k, s)
      PROVE  WorkInv'
  <2> DEFINE result == [assessments[a].result EXCEPT ![k] = s]
  <2>1. result \in [Controls -> ComplianceStatus]
    BY <1>0, <1>4 DEF UpdateControlResult
  <2>2. assessments' = [assessments EXCEPT ![a].result = result]
    BY <1>4 DEF UpdateControlResult
  <2> HIDE DEF result
  <2>3. QED
    BY <1>4, <2>1, <2>2, ResultsKeep DEF UpdateControlResult
<1>5. QED
  BY <1>1, <1>2, <1>3, <1>4

-----------------------------------------------------------------------------
\* A new assessment, made by somebody who saw none like it among those that
\* were there when it looked.
LEMMA AppendKeeps ==
  ASSUME WorkInv, NEW x \in Assessment, assessments' = Append(assessments, x),
         \A a \in DOMAIN assessments : Same(a, x.campaign, x.equipment, x.framework) => x.seen < a,
         UNCHANGED <<findings, checklist, answered>>,
         campaign' \in [Campaigns -> CampaignStatus \cup {None, Deleted}],
         \A d \in Campaigns : Exists(d) => Exists(d)',
         campaign'[x.campaign] \in CampaignStatus,
         equipment' \in [Equipments -> AuditStatus],
         made' \in 0 .. MaxRequests
  PROVE  /\ ListTypes' /\ AssessmentsKeep /\ FindingsKeep
         /\ TypeOK' /\ AssessedOnce' /\ FollowedOnce' /\ TrailLeadsToStatus'
<1> DEFINE n == Len(assessments) + 1
<1>1. /\ assessments' \in Seq(Assessment \cup {Gone})
      /\ Len(assessments') = n /\ DOMAIN assessments' = 1 .. n
      /\ assessments'[n] = x
      /\ \A a \in DOMAIN assessments : a \in DOMAIN assessments' /\ assessments'[a] = assessments[a]
  BY DEF WorkInv, ListTypes
<1>2. \A a \in 1 .. n : a # n => a \in DOMAIN assessments /\ a < n
  BY Members
<1>3. ListTypes' /\ AssessmentsKeep /\ FindingsKeep /\ FollowedOnce' /\ TrailLeadsToStatus'
  BY <1>1, Members, SameFindings DEF WorkInv, ListTypes, AssessmentsKeep
<1>4. x # Gone
  BY NamesAssumption DEF Gone, None, Assessment
<1>5. \A a \in DOMAIN assessments : Live(a)' <=> Live(a)
  BY <1>1 DEF Live
<1>6. TypeOK'
  <2>1. \A b \in DOMAIN assessments' : Live(b)' =>
          /\ campaign'[assessments'[b].campaign] \in CampaignStatus
          /\ assessments'[b].result \in [Controls -> ComplianceStatus]
    <3> SUFFICES ASSUME NEW b \in DOMAIN assessments', Live(b)'
                 PROVE  /\ campaign'[assessments'[b].campaign] \in CampaignStatus
                        /\ assessments'[b].result \in [Controls -> ComplianceStatus]
      OBVIOUS
    <3>1. CASE b = n
      BY <1>1, <3>1 DEF Assessment
    <3>2. CASE b # n
      <4>1. b \in DOMAIN assessments /\ Live(b) /\ assessments'[b] = assessments[b]
        BY <1>1, <1>2, <1>5, <3>2
      <4>2. assessments[b].campaign \in Campaigns
        BY <4>1, LiveIsWhole DEF Assessment
      <4>3. QED
        BY <4>1, <4>2 DEF WorkInv, TypeOK, Exists
    <3>3. QED
      BY <3>1, <3>2
  <2>2. \A f \in DOMAIN findings' : Live(findings[f].assessment)'
    BY <1>1, <1>5 DEF WorkInv, TypeOK, Live
  <2>3. QED
    BY <2>1, <2>2 DEF WorkInv, TypeOK, Opened, Exists
<1>7. AssessedOnce'
  <2>1. SUFFICES ASSUME NEW a \in DOMAIN assessments', NEW b \in DOMAIN assessments', a < b, Live(a)',
                        Same(b, assessments[a].campaign, assessments[a].equipment,
                                assessments[a].framework)'
                 PROVE  assessments'[b].seen < a
    BY DEF AssessedOnce
  <2>2. a \in DOMAIN assessments /\ Live(a) /\ assessments'[a] = assessments[a]
    BY <1>1, <1>2, <1>5, <2>1, Members
  <2>3. CASE b = n
    <3>1. Same(a, x.campaign, x.equipment, x.framework)
      BY <1>1, <2>1, <2>2, <2>3 DEF Same
    <3>2. QED
      BY <1>1, <2>2, <2>3, <3>1
  <2>4. CASE b # n
    <3>1. b \in DOMAIN assessments /\ assessments'[b] = assessments[b]
      BY <1>1, <1>2, <2>4
    <3>2. Same(b, assessments[a].campaign, assessments[a].equipment, assessments[a].framework)
      BY <1>5, <2>1, <2>2, <3>1 DEF Same
    <3>3. QED
      BY <2>1, <2>2, <3>1, <3>2 DEF WorkInv, AssessedOnce
  <2>5. QED
    BY <2>3, <2>4
<1>8. QED
  BY <1>3, <1>6, <1>7

\* An imported scan finds its assessment or makes it, in one request.
LEMMA ImportScanKeeps ==
  ASSUME WorkInv, NEW c \in Campaigns, NEW e \in Equipments, NEW f \in Frameworks,
         ImportScan(c, e, f)
  PROVE  WorkInv'
<1>1. PICK levels \in Levels :
        assessments' = Append(assessments,
          [campaign |-> c, equipment |-> e, framework |-> f, seen |-> Len(assessments),
           result |-> Ruled([k \in Controls |-> "not_assessed"], levels)])
  BY DEF ImportScan
<1> DEFINE x == [campaign |-> c, equipment |-> e, framework |-> f, seen |-> Len(assessments),
                 result |-> Ruled([k \in Controls |-> "not_assessed"], levels)]
<1>2. [k \in Controls |-> "not_assessed"] \in [Controls -> ComplianceStatus]
  BY DEF ComplianceStatus
<1>3. x \in Assessment
  BY <1>2, RuledTypes, Members DEF Assessment
<1>4. x.campaign = c /\ assessments' = Append(assessments, x)
  BY <1>1
<1> HIDE DEF x
<1>5. \A a \in DOMAIN assessments : ~Same(a, x.campaign, x.equipment, x.framework)
  <2>1. ~Exists(c)
    BY DEF ImportScan, Exists, None, CampaignStatus
  <2>2. QED
    BY <1>4, <2>1 DEF Same, WorkInv, TypeOK
<1>6. /\ campaign' \in [Campaigns -> CampaignStatus \cup {None, Deleted}]
      /\ \A d \in Campaigns : Exists(d) => Exists(d)'
      /\ campaign'[c] \in CampaignStatus
      /\ equipment' \in [Equipments -> AuditStatus]
      /\ made' \in 0 .. MaxRequests
  BY BoundsAssumption DEF ImportScan, Blind, WorkInv, TypeOK, Exists, CampaignStatus, AuditStatus
<1>7. UNCHANGED <<findings, checklist, answered, req>>
  BY DEF ImportScan, Blind
<1>8. /\ ListTypes' /\ AssessmentsKeep /\ FindingsKeep
      /\ TypeOK' /\ AssessedOnce' /\ FollowedOnce' /\ TrailLeadsToStatus'
  BY <1>3, <1>4, <1>5, <1>6, <1>7, AppendKeeps
<1>9. QED
  BY <1>7, <1>8, BlindKeeps DEF WorkInv

\* The assessment that was missing is committed.
LEMMA SaveAssessmentKeeps ==
  ASSUME WorkInv, NEW r \in Requests, SaveAssessment(r)
  PROVE  WorkInv'
<1> DEFINE w == req[r]
           x == [campaign |-> w.campaign, equipment |-> w.of, framework |-> w.framework,
                 seen |-> w.seen, result |-> [k \in Controls |-> "not_assessed"]]
<1>1. /\ w.op = "assess" /\ w.campaign \in Campaigns
      /\ w.of \in Equipments /\ w.framework \in Frameworks
      /\ w.seen \in 0 .. Len(assessments) /\ Patch(w.equipment)
      /\ \A a \in DOMAIN assessments : a <= w.seen => ~Same(a, w.campaign, w.of, w.framework)
  BY DEF SaveAssessment, Commit, WorkInv, RequestsHold, RequestHolds, RequestType, NothingSeen
<1>2. CASE ~Exists(w.campaign)
  <2>1. UNCHANGED <<campaign, equipment, assessments, findings, checklist, answered, made>>
    BY <1>2 DEF SaveAssessment, Commit
  <2>2. TypeOK'
    BY <2>1 DEF WorkInv, TypeOK, Live, Exists, Opened
  <2>3. QED
    BY <2>1, <2>2, PlainCommit DEF SaveAssessment
<1>3. CASE Exists(w.campaign)
  <2>1. x \in Assessment
    BY <1>1, Members DEF Assessment, ComplianceStatus
  <2>2. /\ assessments' = Append(assessments, x) /\ equipment' = Written(w.equipment)
        /\ UNCHANGED <<campaign, findings, checklist, answered, made>>
    BY <1>3 DEF SaveAssessment, Commit
  <2>3. /\ campaign' \in [Campaigns -> CampaignStatus \cup {None, Deleted}]
        /\ \A d \in Campaigns : Exists(d) => Exists(d)'
        /\ campaign'[x.campaign] \in CampaignStatus
        /\ equipment' \in [Equipments -> AuditStatus]
        /\ made' \in 0 .. MaxRequests
    BY <1>1, <1>3, <2>2, WrittenTypes DEF WorkInv, TypeOK, Exists
  <2>4. \A a \in DOMAIN assessments : Same(a, x.campaign, x.equipment, x.framework) => x.seen < a
    BY <1>1, Members
  <2> HIDE DEF x
  <2>5. /\ ListTypes' /\ AssessmentsKeep /\ FindingsKeep
        /\ TypeOK' /\ AssessedOnce' /\ FollowedOnce' /\ TrailLeadsToStatus'
    BY <2>1, <2>2, <2>3, <2>4, AppendKeeps
  <2>6. QED
    BY <2>5, CommitKeeps DEF WorkInv, SaveAssessment
<1>4. QED
  BY <1>2, <1>3

-----------------------------------------------------------------------------
\* One finding's part of TrailLeadsToStatus.
History(x) ==
  /\ x.status = Before(x.trail, Len(x.trail) + 1)
  /\ \A i \in DOMAIN x.trail : x.trail[i].seen = i - 1 =>
       /\ x.trail[i].old = Before(x.trail, i)
       /\ x.trail[i].new \in VALID_TRANSITIONS[Before(x.trail, i)]

\* The histories, finding by finding.
LEMMA Histories == TrailLeadsToStatus <=> \A f \in DOMAIN findings : History(findings[f])
BY DEF TrailLeadsToStatus, History, Before

\* A row appended to a history that a request read where it stood, or that has
\* grown since.
LEMMA HistoryGrows ==
  ASSUME NEW x \in Finding, History(x), NEW ch \in Change, ch.seen \in 0 .. Len(x.trail),
         ch.old = Before(x.trail, ch.seen + 1), ch.new \in VALID_TRANSITIONS[ch.old],
         NEW y \in Finding, y.status = ch.new, y.trail = Append(x.trail, ch)
  PROVE  History(y)
<1> DEFINE n == Len(x.trail)
<1>1. x.trail \in Seq(Change) /\ n \in Nat
  BY DEF Finding
<1>2. /\ Len(y.trail) = n + 1 /\ DOMAIN y.trail = 1 .. n + 1 /\ y.trail[n + 1] = ch
      /\ \A i \in 1 .. n : y.trail[i] = x.trail[i]
  BY <1>1
<1>3. \A i \in 1 .. n + 1 : Before(y.trail, i) = Before(x.trail, i)
  BY <1>1, <1>2 DEF Before
<1>4. y.status = Before(y.trail, Len(y.trail) + 1)
  BY <1>1, <1>2 DEF Before
<1>5. ASSUME NEW i \in DOMAIN y.trail, y.trail[i].seen = i - 1
      PROVE  /\ y.trail[i].old = Before(y.trail, i)
             /\ y.trail[i].new \in VALID_TRANSITIONS[Before(y.trail, i)]
  <2>1. CASE i = n + 1
    <3>1. ch.seen + 1 = i
      BY <1>1, <1>2, <1>5, <2>1
    <3>2. ch.old = Before(y.trail, i)
      BY <1>2, <1>3, <3>1
    <3>3. QED
      BY <1>2, <2>1, <3>2
  <2>2. CASE i # n + 1
    <3>1. i \in 1 .. n /\ i \in DOMAIN x.trail
      BY <1>1, <1>2, <2>2
    <3>2. QED
      BY <1>2, <1>3, <1>5, <3>1 DEF History
  <2>3. QED
    BY <2>1, <2>2
<1>6. QED
  BY <1>4, <1>5 DEF History

\* The steps that change one finding and keep what it is about.
LEMMA FindingChanges ==
  ASSUME WorkInv, NEW f \in DOMAIN findings, NEW y \in Finding,
         findings' = [findings EXCEPT ![f] = y],
         y.assessment = findings[f].assessment, y.control = findings[f].control,
         y.seen = findings[f].seen, y.duplicate_of \in 0 .. Len(findings), History(y),
         Len(findings[f].trail) <= Len(y.trail),
         \A i \in DOMAIN findings[f].trail : y.trail[i] = findings[f].trail[i],
         UNCHANGED <<campaign, equipment, assessments, checklist, answered>>,
         made' \in 0 .. MaxRequests
  PROVE  /\ ListTypes' /\ AssessmentsKeep /\ FindingsKeep
         /\ TypeOK' /\ AssessedOnce' /\ FollowedOnce' /\ TrailLeadsToStatus'
<1>1. /\ findings' \in Seq(Finding)
      /\ Len(findings') = Len(findings) /\ DOMAIN findings' = DOMAIN findings
      /\ findings'[f] = y
      /\ \A g \in DOMAIN findings : g # f => findings'[g] = findings[g]
  BY DEF WorkInv, ListTypes
<1>2. \A g \in DOMAIN findings : Len(findings[g].trail) \in Nat
  BY Members DEF Finding
<1>3. ListTypes' /\ AssessmentsKeep /\ AssessedOnce'
  BY <1>1, SameAssessments DEF WorkInv, ListTypes
<1>4. FindingsKeep
  BY <1>1, <1>2, Members DEF FindingsKeep
<1>5. \A g \in DOMAIN findings :
        /\ findings'[g].assessment = findings[g].assessment
        /\ findings'[g].control = findings[g].control
        /\ findings'[g].seen = findings[g].seen
  BY <1>1
<1>6. FollowedOnce'
  BY <1>1, <1>5 DEF WorkInv, FollowedOnce
<1>7. TypeOK'
  <2>1. \A g \in DOMAIN findings' : /\ findings'[g].status \in FindingStatus
                                    /\ Live(findings[g].assessment)'
                                    /\ findings'[g].duplicate_of \in 0 .. Len(findings')
    BY <1>1, <1>5 DEF WorkInv, TypeOK, Live, Finding
  <2>2. QED
    BY <2>1 DEF WorkInv, TypeOK, Live, Exists, Opened
<1>8. TrailLeadsToStatus'
  BY <1>1, Histories DEF WorkInv, TrailLeadsToStatus, History, Before
<1>9. QED
  BY <1>3, <1>4, <1>6, <1>7, <1>8

\* A finding is marked as the duplicate of another.
LEMMA LinkKeeps ==
  ASSUME WorkInv, NEW f \in DOMAIN findings, NEW g \in DOMAIN findings, LinkDuplicate(f, g)
  PROVE  WorkInv'
<1> DEFINE y == [findings[f] EXCEPT !.duplicate_of = g]
<1>1. findings[f] \in Finding /\ g \in 1 .. Len(findings) /\ g \in Nat /\ History(findings[f])
  BY Members, Histories DEF WorkInv
<1>2. /\ y \in Finding
      /\ y.assessment = findings[f].assessment /\ y.control = findings[f].control
      /\ y.seen = findings[f].seen /\ y.duplicate_of = g
      /\ y.status = findings[f].status /\ y.trail = findings[f].trail
  BY <1>1 DEF Finding
<1>3. findings' = [findings EXCEPT ![f] = y]
  BY DEF LinkDuplicate
<1> HIDE DEF y
<1>4. History(y)
  BY <1>1, <1>2 DEF History
<1>5. Len(findings[f].trail) <= Len(y.trail)
  BY <1>1, <1>2 DEF Finding
<1>6. made' \in 0 .. MaxRequests
  BY BoundsAssumption DEF LinkDuplicate, Blind, WorkInv, TypeOK
<1>7. y.duplicate_of \in 0 .. Len(findings)
  BY <1>1, <1>2, Members
<1>8. /\ ListTypes' /\ AssessmentsKeep /\ FindingsKeep
      /\ TypeOK' /\ AssessedOnce' /\ FollowedOnce' /\ TrailLeadsToStatus'
  BY <1>2, <1>3, <1>4, <1>5, <1>6, <1>7, FindingChanges DEF LinkDuplicate
<1>9. QED
  BY <1>8, BlindKeeps DEF WorkInv, LinkDuplicate, Blind

\* The new status is committed with its line of history.
LEMMA SaveStatusKeeps ==
  ASSUME WorkInv, NEW r \in Requests, SaveStatus(r)
  PROVE  WorkInv'
<1> DEFINE w == req[r]
           f == w.finding
           ch == [old |-> w.old, new |-> w.new, seen |-> w.seen]
           y == Moved(findings[f], w)
<1>1. /\ f \in DOMAIN findings /\ w.old \in FindingStatus /\ w.new \in FindingStatus
      /\ w.seen \in 0 .. Len(findings[f].trail)
      /\ w.old = Before(findings[f].trail, w.seen + 1)
      /\ w.new \in VALID_TRANSITIONS[w.old]
  BY DEF SaveStatus, Commit, WorkInv, RequestsHold, RequestHolds, RequestType, StatusSeen
<1>2. findings[f] \in Finding /\ History(findings[f])
  BY <1>1, Members, Histories DEF WorkInv
<1>3. /\ findings[f].trail \in Seq(Change) /\ ch \in Change
      /\ Append(findings[f].trail, ch) \in Seq(Change)
  <2>1. Len(findings[f].trail) \in Nat
    BY <1>2 DEF Finding
  <2>2. ch \in Change
    BY <1>1, <2>1 DEF Change
  <2> HIDE DEF ch
  <2>3. findings[f].trail \in Seq(Change)
    BY <1>2 DEF Finding
  <2>4. QED
    BY <2>2, <2>3
<1>4. /\ y \in Finding
      /\ y.assessment = findings[f].assessment /\ y.control = findings[f].control
      /\ y.seen = findings[f].seen /\ y.duplicate_of = findings[f].duplicate_of
      /\ y.status = w.new /\ y.trail = Append(findings[f].trail, ch)
  BY <1>1, <1>2, <1>3 DEF Finding, Moved
<1>5. findings' = [findings EXCEPT ![f] = y]
  BY DEF SaveStatus
<1> HIDE DEF y
<1>6. History(y)
  BY <1>1, <1>2, <1>3, <1>4, HistoryGrows
<1>7. /\ Len(findings[f].trail) <= Len(y.trail)
      /\ \A i \in DOMAIN findings[f].trail : y.trail[i] = findings[f].trail[i]
  <2>1. \A t \in Seq(Change), c \in Change :
          Len(t) <= Len(Append(t, c)) /\ \A i \in DOMAIN t : Append(t, c)[i] = t[i]
    OBVIOUS
  <2> HIDE DEF ch
  <2>2. QED
    BY <1>3, <1>4, <2>1
<1>8. y.duplicate_of \in 0 .. Len(findings) /\ made' \in 0 .. MaxRequests
  BY <1>1, <1>4 DEF WorkInv, TypeOK, SaveStatus, Commit
<1>9. UNCHANGED <<campaign, equipment, assessments, checklist, answered>>
  BY DEF SaveStatus
<1>10. /\ ListTypes' /\ AssessmentsKeep /\ FindingsKeep
       /\ TypeOK' /\ AssessedOnce' /\ FollowedOnce' /\ TrailLeadsToStatus'
  BY <1>1, <1>4, <1>5, <1>6, <1>7, <1>8, <1>9, FindingChanges
<1>11. QED
  BY <1>10, CommitKeeps DEF WorkInv, SaveStatus

-----------------------------------------------------------------------------
\* The members of a finite set, each once.
LEMMA EachOnce ==
  ASSUME NEW S, IsFiniteSet(S)
  PROVE  /\ Cardinality(S) \in Nat
         /\ SetToSeq(S) \in [1 .. Cardinality(S) -> S]
         /\ \A i, j \in 1 .. Cardinality(S) : SetToSeq(S)[i] = SetToSeq(S)[j] => i = j
<1>1. Cardinality(S) \in Nat /\ ExistsBijection(1 .. Cardinality(S), S)
  BY FS_CardinalityType
<1>2. \E f \in [1 .. Cardinality(S) -> S] : IsInjective(f)
  BY <1>1 DEF ExistsBijection, Bijection, Injection
<1>3. SetToSeq(S) \in [1 .. Cardinality(S) -> S] /\ IsInjective(SetToSeq(S))
  BY <1>2 DEF SetToSeq
<1>4. QED
  BY <1>1, <1>3 DEF IsInjective

\* What a sequence and a function of 1 .. n make together.
LEMMA Concatenation ==
  ASSUME NEW S, NEW s \in Seq(S), NEW n \in Nat, NEW g \in [1 .. n -> S]
  PROVE  /\ s \o g \in Seq(S) /\ Len(s \o g) = Len(s) + n
         /\ \A i \in 1 .. Len(s) : (s \o g)[i] = s[i]
         /\ \A i \in 1 .. n : (s \o g)[Len(s) + i] = g[i]
<1>1. g \in Seq(S) /\ Len(g) = n
  OBVIOUS
<1>2. QED
  BY <1>1

\* The new findings: an open one for each control of a set, drawn from an
\* assessment by somebody who saw none on these controls.
Drawn(x, a, k, seen) ==
  /\ x.assessment = a /\ x.control = k /\ x.seen = seen
  /\ x.status = "open" /\ x.trail = <<>> /\ x.duplicate_of = 0

\* New findings of results that had none when they were looked for.
LEMMA NewFindings ==
  ASSUME WorkInv, NEW a, Live(a), NEW seen \in 0 .. Len(findings), NEW K,
         \A f \in DOMAIN findings : f <= seen /\ findings[f].assessment = a
           => findings[f].control \notin K,
         NEW c \in Nat, NEW k \in [1 .. c -> K], \A i, j \in 1 .. c : k[i] = k[j] => i = j,
         findings' \in Seq(Finding), Len(findings') = Len(findings) + c,
         \A i \in 1 .. Len(findings) : findings'[i] = findings[i],
         \A i \in 1 .. c : Drawn(findings'[Len(findings) + i], a, k[i], seen),
         UNCHANGED <<campaign, equipment, assessments, checklist, answered, made>>
  PROVE  /\ ListTypes' /\ AssessmentsKeep /\ FindingsKeep
         /\ TypeOK' /\ AssessedOnce' /\ FollowedOnce' /\ TrailLeadsToStatus'
<1> DEFINE n == Len(findings)
<1>1. n \in Nat /\ DOMAIN findings = 1 .. n /\ DOMAIN findings' = 1 .. n + c
  BY Members
<1>2. \A f \in DOMAIN findings : findings'[f] = findings[f]
  BY <1>1
<1>3. \A f \in DOMAIN findings' :
        f \in DOMAIN findings \/ \E i \in 1 .. c : f = n + i /\ Drawn(findings'[f], a, k[i], seen)
  <2>1. SUFFICES ASSUME NEW f \in 1 .. n + c, f \notin 1 .. n
                 PROVE  \E i \in 1 .. c : f = n + i /\ Drawn(findings'[f], a, k[i], seen)
    BY <1>1
  <2>2. f - n \in 1 .. c /\ f = n + (f - n)
    BY <1>1, <2>1
  <2>3. QED
    BY <2>2
<1>4. ListTypes' /\ AssessmentsKeep /\ AssessedOnce'
  BY SameAssessments DEF WorkInv, ListTypes
<1>5. FindingsKeep
  <2>1. \A f \in DOMAIN findings : Len(findings[f].trail) \in Nat
    BY Members DEF Finding
  <2>2. QED
    BY <1>1, <1>2, <2>1 DEF FindingsKeep
<1>6. FollowedOnce'
  <2>1. SUFFICES ASSUME NEW f \in DOMAIN findings', NEW h \in DOMAIN findings', f < h,
                        findings'[f].assessment = findings'[h].assessment,
                        findings'[f].control = findings'[h].control
                 PROVE  findings'[h].seen < f
    BY DEF FollowedOnce
  <2>2. CASE h \in DOMAIN findings
    <3>1. f \in DOMAIN findings
      BY <1>1, <2>1, <2>2
    <3>2. QED
      BY <1>2, <2>1, <2>2, <3>1 DEF WorkInv, FollowedOnce
  <2>3. ASSUME NEW i \in 1 .. c, h = n + i, Drawn(findings'[h], a, k[i], seen)
        PROVE  findings'[h].seen < f
    <3>1. CASE f \in DOMAIN findings
      <4>1. findings[f].assessment = a /\ findings[f].control \in K
        BY <1>2, <2>1, <2>3, <3>1 DEF Drawn
      <4>2. ~(f <= seen)
        BY <3>1, <4>1
      <4>3. QED
        BY <1>1, <2>3, <3>1, <4>2 DEF Drawn
    <3>2. ASSUME NEW j \in 1 .. c, f = n + j, Drawn(findings'[f], a, k[j], seen)
          PROVE  FALSE
      <4>1. k[i] = k[j]
        BY <2>1, <2>3, <3>2 DEF Drawn
      <4>2. QED
        BY <1>1, <2>1, <2>3, <3>2, <4>1
    <3>3. QED
      BY <1>3, <3>1, <3>2
  <2>4. QED
    BY <1>3, <2>2, <2>3
<1>7. TypeOK'
  <2>1. \A f \in DOMAIN findings' : /\ findings'[f].status \in FindingStatus
                                    /\ Live(findings'[f].assessment)
                                    /\ findings'[f].duplicate_of \in 0 .. Len(findings')
    <3> SUFFICES ASSUME NEW f \in DOMAIN findings'
                 PROVE  /\ findings'[f].status \in FindingStatus
                        /\ Live(findings'[f].assessment)
                        /\ findings'[f].duplicate_of \in 0 .. n + c
      OBVIOUS
    <3>1. CASE f \in DOMAIN findings
      BY <1>1, <1>2, <3>1 DEF WorkInv, TypeOK
    <3>2. ASSUME NEW i \in 1 .. c, Drawn(findings'[f], a, k[i], seen)
          PROVE  /\ findings'[f].status \in FindingStatus
                 /\ Live(findings'[f].assessment)
                 /\ findings'[f].duplicate_of \in 0 .. n + c
      BY <1>1, <3>2 DEF FindingStatus, Drawn
    <3>3. QED
      BY <1>3, <3>1, <3>2
  <2>2. QED
    BY <2>1 DEF WorkInv, TypeOK, Live, Exists, Opened
<1>8. TrailLeadsToStatus'
  <2>1. ASSUME NEW x, NEW i \in 1 .. c, Drawn(x, a, k[i], seen)
        PROVE  History(x)
    BY <2>1 DEF Drawn, History, Before
  <2>2. \A f \in DOMAIN findings : History(findings[f])
    BY Histories DEF WorkInv
  <2>3. \A f \in DOMAIN findings' : History(findings'[f])
    BY <1>2, <1>3, <2>1, <2>2
  <2>4. QED
    BY <2>3 DEF TrailLeadsToStatus, History, Before
<1>9. QED
  BY <1>4, <1>5, <1>6, <1>7, <1>8

\* The findings that were missing are committed.
LEMMA SaveFindingsKeeps ==
  ASSUME WorkInv, NEW r \in Requests, SaveFindings(r)
  PROVE  WorkInv'
<1> DEFINE w == req[r]
           a == w.assessment
           c == Cardinality(w.controls)
           k == SetToSeq(w.controls)
           new(x) == [assessment |-> a, control |-> x, seen |-> w.seen,
                      status |-> "open", trail |-> <<>>, duplicate_of |-> 0]
           g == [i \in 1 .. c |-> new(k[i])]
<1>1. /\ a \in DOMAIN assessments /\ w.controls \subseteq Controls
      /\ w.seen \in 0 .. Len(findings)
      /\ \A f \in DOMAIN findings : f <= w.seen /\ findings[f].assessment = a
           => findings[f].control \notin w.controls
  BY DEF SaveFindings, Commit, WorkInv, RequestsHold, RequestHolds, RequestType, NothingSeen
<1>2. UNCHANGED <<campaign, equipment, assessments, checklist, answered, made>>
  BY DEF SaveFindings, Commit
<1>3. CASE ~Live(a)
  <2>1. UNCHANGED findings
    BY <1>3 DEF SaveFindings
  <2>2. TypeOK'
    BY <1>2, <2>1 DEF WorkInv, TypeOK, Live, Exists, Opened
  <2>3. QED
    BY <1>2, <2>1, <2>2, PlainCommit DEF SaveFindings
<1>4. CASE Live(a)
  <2>1. findings' = findings \o g
    BY <1>4 DEF SaveFindings
  <2>2. c \in Nat /\ k \in [1 .. c -> w.controls] /\ \A i, j \in 1 .. c : k[i] = k[j] => i = j
    BY <1>1, ControlsAssumption, FS_Subset, EachOnce
  <2>3. a \in Nat /\ w.seen \in Nat
    BY <1>1, Members
  <2>4. \A x \in Controls : new(x) \in Finding /\ Drawn(new(x), a, x, w.seen)
    BY <2>3 DEF Finding, FindingStatus, Drawn
  <2> HIDE DEF c, k, new, w
  <2>5. g \in [1 .. c -> Finding] /\ \A i \in 1 .. c : Drawn(g[i], a, k[i], w.seen)
    BY <1>1, <2>2, <2>4
  <2> HIDE DEF g
  <2>6. /\ findings' \in Seq(Finding) /\ Len(findings') = Len(findings) + c
        /\ \A i \in 1 .. Len(findings) : findings'[i] = findings[i]
        /\ \A i \in 1 .. c : findings'[Len(findings) + i] = g[i]
    BY <2>1, <2>2, <2>5, Concatenation DEF WorkInv, ListTypes
  <2>7. /\ ListTypes' /\ AssessmentsKeep /\ FindingsKeep
        /\ TypeOK' /\ AssessedOnce' /\ FollowedOnce' /\ TrailLeadsToStatus'
    BY <1>1, <1>2, <1>4, <2>2, <2>5, <2>6, NewFindings
  <2>8. QED
    BY <2>7, CommitKeeps DEF WorkInv, SaveFindings
<1>5. QED
  BY <1>3, <1>4

-----------------------------------------------------------------------------
\* Nothing was made yet.
LEMMA WorkInvInit == Init => WorkInv
<1> SUFFICES ASSUME Init
             PROVE  WorkInv
  OBVIOUS
<1>1. /\ assessments = <<>> /\ findings = <<>>
      /\ DOMAIN assessments = {} /\ DOMAIN findings = {}
  BY DEF Init
<1>2. TypeOK /\ ListTypes
  BY <1>1, BoundsAssumption
     DEF Init, TypeOK, ListTypes, Live, Opened, AuditStatus, ChecklistStatus, None
<1>3. RequestsHold
  BY DEF Init, RequestsHold, RequestHolds, RequestType, NothingSeen, StatusSeen, Idle, None
<1>4. AssessedOnce /\ FollowedOnce /\ TrailLeadsToStatus
  BY <1>1 DEF AssessedOnce, FollowedOnce, TrailLeadsToStatus
<1>5. QED
  BY <1>2, <1>3, <1>4 DEF WorkInv

\* Each step of the model keeps the invariant.
LEMMA StepKeeps ==
  ASSUME WorkInv, Next
  PROVE  WorkInv'
<1>1. CASE CampaignStep
  BY <1>1, BlindSteps, InPlaceSteps, CampaignRequests, ImportScanKeeps, AssessmentRequest
     DEF CampaignStep
<1>2. CASE AssessmentStep
  BY <1>2, InPlaceSteps, GenerateRequest DEF AssessmentStep
<1>3. CASE EquipmentStep
  BY <1>3, BlindSteps DEF EquipmentStep
<1>4. CASE FindingStep
  BY <1>4, StatusRequest, LinkKeeps DEF FindingStep
<1>5. CASE ChecklistStep
  BY <1>5, BlindSteps, ResponseRequest DEF ChecklistStep
<1>6. CASE Save
  BY <1>6, SaveCampaignKeeps, SaveAssessmentKeeps, SaveFindingsKeeps, SaveStatusKeeps,
     SaveResponseKeeps DEF Save
<1>7. QED
  BY <1>1, <1>2, <1>3, <1>4, <1>5, <1>6 DEF Next

\* The invariant holds in every reachable state.
LEMMA WorkInvAlways == Spec => []WorkInv
<1>1. WorkInv /\ [Next]_vars => WorkInv'
  <2> SUFFICES ASSUME WorkInv, [Next]_vars
               PROVE  WorkInv'
    OBVIOUS
  <2>1. CASE UNCHANGED vars
    <3>1. TypeOK'
      BY <2>1 DEF vars, WorkInv, TypeOK, Live, Exists, Opened
    <3>2. QED
      BY <2>1, <3>1, StatusSteps DEF vars
  <2>2. QED
    BY <2>1, StepKeeps
<1>2. QED
  BY WorkInvInit, <1>1, PTL DEF Spec

\* The types of every variable in every reachable state; a live assessment is
\* of a campaign that exists, and a finding of an assessment that is live (the
\* foreign keys of models/assessment.py and models/finding.py).
THEOREM WorkTypes == Spec => []TypeOK
<1>1. WorkInv => TypeOK
  BY DEF WorkInv
<1>2. QED
  BY WorkInvAlways, <1>1, PTL

\* An equipment is assessed once with a framework in a campaign, and a result
\* followed by one finding, unless the later request looked before the earlier
\* one wrote (create_assessment, import_monkey365_scan,
\* generate_from_assessment).
THEOREM OnceForAnyRequests == Spec => []OnceUnlessOverlap
<1>1. WorkInv => OnceUnlessOverlap
  BY DEF WorkInv, AssessedOnce, FollowedOnce, OnceUnlessOverlap
<1>2. QED
  BY WorkInvAlways, <1>1, PTL

\* The history of a finding ends at its status, and the rows written by requests
\* that did not overlap are valid transitions, each from where the one before
\* it ended (FindingService.update_status).
THEOREM TrailsAreValid == Spec => []TrailLeadsToStatus
<1>1. WorkInv => TrailLeadsToStatus
  BY DEF WorkInv
<1>2. QED
  BY WorkInvAlways, <1>1, PTL

\* No step takes a completed checklist out of its status, unless a response
\* was read in "draft" (respond_to_item, complete_instance).
LEMMA StepKeepsCompleted ==
  ASSUME [Next]_vars, checklist = "completed",
         ~(\E r \in Requests : req[r].op = "respond" /\ req[r].was = "draft")
  PROVE  checklist' \in {"completed", Deleted}
<1>1. CASE UNCHANGED vars
  BY <1>1 DEF vars
<1>2. CASE CampaignStep
  BY <1>2 DEF CampaignStep, CreateCampaign, DeleteCampaign, StartCampaign, CompleteCampaign,
              UpdateCampaign, ImportScan, CreateAssessment, Reads
<1>3. CASE AssessmentStep
  BY <1>3 DEF AssessmentStep, DeleteAssessment, SimulateScan, UpdateControlResult, Generate, Reads
<1>4. CASE EquipmentStep
  BY <1>4 DEF EquipmentStep, SetAuditStatus
<1>5. CASE FindingStep
  BY <1>5 DEF FindingStep, UpdateStatus, LinkDuplicate, Reads
<1>6. CASE ChecklistStep
  BY <1>6 DEF ChecklistStep, CreateInstance, CompleteInstance, DeleteInstance, RespondToItem,
              Reads, None
<1>7. CASE Save
  <2>1. ASSUME NEW r \in Requests, SaveResponse(r)
        PROVE  checklist' \in {"completed", Deleted}
    BY <2>1 DEF SaveResponse, Commit
  <2>2. QED
    BY <1>7, <2>1 DEF Save, SaveCampaign, SaveAssessment, SaveFindings, SaveStatus
<1>8. QED
  BY <1>1, <1>2, <1>3, <1>4, <1>5, <1>6, <1>7 DEF Next

\* A completed checklist stays so whatever is answered later, unless the response
\* was under way since before the first one (respond_to_item).
THEOREM CompletedStays == Spec => CompletedIsKept
<1>1. [Next]_vars
        => [checklist = "completed"
              /\ ~(\E r \in Requests : req[r].op = "respond" /\ req[r].was = "draft")
              => checklist' \in {"completed", Deleted}]_vars
  BY StepKeepsCompleted
<1>2. QED
  BY <1>1, PTL DEF Spec, CompletedIsKept

=============================================================================
