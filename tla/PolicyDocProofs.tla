-------------------------- MODULE PolicyDocProofs ---------------------------
(***************************************************************************)
(* Theorems about PolicyDoc, for every number of pages, requests, edits.   *)
(***************************************************************************)
EXTENDS PolicyDoc, TLAPS

USE DEF Free, Sent, Answered, Answer

LEMMA TypeInit == PolicyDocAssumption /\ Init => TypeOK
  BY DEF PolicyDocAssumption, Init, TypeOK, Texts, SeqNos, PageStates, Pc, Closed,
         ReqStates, Kinds, Idle

\* The fields of a page and of a request.
LEMMA Fields ==
  ASSUME TypeOK
  PROVE  /\ \A p \in Pages : /\ page[p] \in PageStates
                             /\ page[p].pc \in Pc
                             /\ page[p].seqNo \in SeqNos
                             /\ page[p].text \in Texts
                             /\ page[p].submitting \in BOOLEAN
         /\ \A r \in Requests : /\ req[r] \in ReqStates
                                /\ req[r].kind \in Kinds
                                /\ req[r].page \in Pages \cup {NoPage}
                                /\ req[r].seqNo \in SeqNos
                                /\ req[r].text \in Texts
  BY DEF TypeOK, PageStates, ReqStates

LEMMA RequestType ==
  ASSUME NEW kind \in Kinds, NEW p \in Pages \cup {NoPage}, NEW n \in SeqNos, NEW t \in Texts
  PROVE  Request(kind, p, n, t) \in ReqStates
  BY DEF Request, ReqStates

LEMMA SmallTypes == Idle \in ReqStates /\ {} \in Texts /\ Null \in SeqNos
  BY DEF Idle, ReqStates, Kinds, SeqNos, Texts

\* An answer changes the flags of one request.
LEMMA AnswerType ==
  ASSUME TypeOK, NEW r \in Requests, NEW ok \in BOOLEAN, Answer(r, ok)
  PROVE  req' \in [Requests -> ReqStates]
<1> DEFINE q == [req[r] EXCEPT !.answered = TRUE, !.ok = ok]
<1>1. q \in ReqStates
  BY Fields DEF ReqStates
<1>2. req' = [req EXCEPT ![r] = q]
  BY DEF TypeOK
<1>3. QED
  BY <1>1, <1>2 DEF TypeOK

LEMMA TypeNext == PolicyDocAssumption /\ TypeOK /\ [Next]_vars => TypeOK'
<1> SUFFICES ASSUME PolicyDocAssumption, TypeOK, [Next]_vars
             PROVE  TypeOK'
  OBVIOUS
<1>1. ASSUME NEW p \in Pages, OpenCreate(p) \/ Leave(p)
      PROVE  TypeOK'
  BY <1>1 DEF OpenCreate, Leave, TypeOK, PageStates, Pc
<1>2. ASSUME NEW p \in Pages, Edit(p)
      PROVE  TypeOK'
  <2>1. edits' \in 1 .. MaxEdits
    BY <1>2 DEF Edit, TypeOK, PolicyDocAssumption
  <2>2. page[p].text \cup {edits'} \in Texts
    BY <2>1, Fields DEF Texts
  <2>3. page' \in [Pages -> PageStates]
    BY <1>2, <2>2, Fields DEF Edit, TypeOK, PageStates
  <2>4. QED
    BY <1>2, <2>1, <2>3 DEF Edit, TypeOK
<1>3. ASSUME NEW p \in Pages, NEW r \in Requests, OpenEdit(p, r)
      PROVE  TypeOK'
  <2>1. Request("get", p, Null, {}) \in ReqStates
    BY RequestType, SmallTypes DEF Kinds
  <2>2. page' \in [Pages -> PageStates]
    BY <1>3 DEF OpenEdit, TypeOK, PageStates, Pc
  <2>3. QED
    BY <1>3, <2>1, <2>2 DEF OpenEdit, TypeOK
<1>4. ASSUME NEW p \in Pages, NEW r \in Requests, Submit(p, r)
      PROVE  TypeOK'
  <2>1. Request("put", p, page[p].seqNo, page[p].text) \in ReqStates
    BY RequestType, Fields DEF Kinds
  <2>2. page' \in [Pages -> PageStates]
    BY <1>4 DEF Submit, TypeOK, PageStates
  <2>3. QED
    BY <1>4, <2>1, <2>2 DEF Submit, TypeOK
<1>5. ASSUME NEW r \in Requests, ClickDelete(r)
      PROVE  TypeOK'
  <2>1. Request("delete", NoPage, Null, {}) \in ReqStates
    BY RequestType, SmallTypes DEF Kinds
  <2>2. QED
    BY <1>5, <2>1 DEF ClickDelete, TypeOK
<1>6. ASSUME NEW r \in Requests, GetPolicyToEdit(r)
      PROVE  TypeOK'
  <2> DEFINE p == req[r].page
             loaded == [page[p] EXCEPT !.pc = "open", !.seqNo = req[r].seqNo,
                                       !.text = req[r].text]
  <2>1. page' \in [Pages -> PageStates]
    <3>1. CASE p \in Pages /\ page[p].pc = "loading" /\ req[r].ok
      <4>1. loaded \in PageStates
        BY <3>1, Fields DEF PageStates, Pc
      <4>2. page' = [page EXCEPT ![p] = loaded]
        BY <1>6, <3>1 DEF GetPolicyToEdit, TypeOK
      <4>3. QED
        BY <4>1, <4>2 DEF TypeOK
    <3>2. CASE page[p].pc = "loading" /\ ~ req[r].ok
      <4>1. page' = [page EXCEPT ![p].pc = "gone"]
        BY <1>6, <3>2 DEF GetPolicyToEdit
      <4>2. p \in Pages => [page[p] EXCEPT !.pc = "gone"] \in PageStates
        BY Fields DEF PageStates, Pc
      <4>3. QED
        BY <4>1, <4>2 DEF TypeOK
    <3>3. CASE page[p].pc # "loading" \/ p \notin Pages
      BY <1>6, <3>3 DEF GetPolicyToEdit, TypeOK
    <3>4. QED
      BY <3>1, <3>2, <3>3
  <2>2. QED
    BY <1>6, <2>1, SmallTypes DEF GetPolicyToEdit, TypeOK
<1>7. ASSUME NEW r \in Requests, PutPolicyDone(r)
      PROVE  TypeOK'
  <2> DEFINE p == req[r].page
  <2>1. page' \in [Pages -> PageStates]
    <3>1. CASE page[p].pc = "gone"
      BY <1>7, <3>1 DEF PutPolicyDone, TypeOK
    <3>2. CASE page[p].pc # "gone" /\ req[r].ok
      <4>1. page' = [page EXCEPT ![p].pc = "gone"]
        BY <1>7, <3>2 DEF PutPolicyDone
      <4>2. p \in Pages => [page[p] EXCEPT !.pc = "gone"] \in PageStates
        BY Fields DEF PageStates, Pc
      <4>3. QED
        BY <4>1, <4>2 DEF TypeOK
    <3>3. CASE page[p].pc # "gone" /\ ~ req[r].ok
      <4>1. page' = [page EXCEPT ![p] = [page[p] EXCEPT !.submitting = FALSE]]
        BY <1>7, <3>3 DEF PutPolicyDone, Refused
      <4>2. p \in Pages => [page[p] EXCEPT !.submitting = FALSE] \in PageStates
        BY Fields DEF PageStates
      <4>3. QED
        BY <4>1, <4>2 DEF TypeOK
    <3>4. QED
      BY <3>1, <3>2, <3>3
  <2>2. QED
    BY <1>7, <2>1, SmallTypes DEF PutPolicyDone, TypeOK
<1>8. ASSUME NEW r \in Requests, DeletePolicyDone(r)
      PROVE  TypeOK'
  BY <1>8, SmallTypes DEF DeletePolicyDone, TypeOK
<1>9. ASSUME NEW r \in Requests, GetPolicy(r)
      PROVE  TypeOK'
  <2>1. doc.seqNo \in SeqNos /\ doc.text \in Texts
    BY DEF TypeOK, SeqNos
  <2>2. req' \in [Requests -> ReqStates]
    <3> DEFINE q == [req[r] EXCEPT !.answered = TRUE, !.ok = TRUE,
                                   !.seqNo = doc.seqNo, !.text = doc.text]
    <3>1. CASE doc.exists
      <4>1. q \in ReqStates
        BY <2>1, Fields DEF ReqStates
      <4>2. req' = [req EXCEPT ![r] = q]
        BY <1>9, <3>1 DEF GetPolicy, TypeOK
      <4>3. QED
        BY <4>1, <4>2 DEF TypeOK
    <3>2. CASE ~ doc.exists
      <4>1. Answer(r, FALSE)
        BY <1>9, <3>2 DEF GetPolicy
      <4>2. QED
        BY <4>1, AnswerType
    <3>3. QED
      BY <3>1, <3>2
  <2>3. QED
    BY <1>9, <2>2 DEF GetPolicy, TypeOK
<1>10. ASSUME NEW r \in Requests, PutPolicy(r)
       PROVE  TypeOK'
  <2>1. req' \in [Requests -> ReqStates]
    <3>1. PICK ok \in BOOLEAN : Answer(r, ok)
      BY <1>10 DEF PutPolicy
    <3>2. QED
      BY <3>1, AnswerType
  <2>2. doc' \in [exists: BOOLEAN, seqNo: 0 .. MaxSeqNo, text: Texts]
    BY <1>10, Fields DEF PutPolicy, TypeOK, PolicyDocAssumption
  <2>3. wrote' \in [Pages -> Nat]
    <3> DEFINE p == req[r].page
    <3>1. wrote' = [wrote EXCEPT ![p] = wrote[p] + 1]
      BY <1>10 DEF PutPolicy
    <3>2. wrote \in [Pages -> Nat] /\ (p \in Pages => wrote[p] + 1 \in Nat)
      BY DEF TypeOK
    <3>3. QED
      BY <3>1, <3>2
  <2>4. QED
    BY <1>10, <2>1, <2>2, <2>3 DEF PutPolicy, TypeOK
<1>11. ASSUME NEW r \in Requests, RefusePolicy(r) \/ Fail(r)
       PROVE  TypeOK'
  <2>1. Answer(r, FALSE)
    BY <1>11 DEF RefusePolicy, Fail
  <2>2. req' \in [Requests -> ReqStates]
    BY <2>1, AnswerType
  <2>3. QED
    BY <1>11, <2>2 DEF RefusePolicy, Fail, TypeOK
<1>12. ASSUME NEW r \in Requests, DeletePolicy(r)
       PROVE  TypeOK'
  <2>1. req' \in [Requests -> ReqStates]
    <3>1. Answer(r, doc.exists) /\ doc.exists \in BOOLEAN
      BY <1>12 DEF DeletePolicy, TypeOK
    <3>2. QED
      BY <3>1, AnswerType
  <2>2. doc' \in [exists: BOOLEAN, seqNo: 0 .. MaxSeqNo, text: Texts]
    BY <1>12, SmallTypes DEF DeletePolicy, TypeOK, PolicyDocAssumption
  <2>3. QED
    BY <1>12, <2>1, <2>2 DEF DeletePolicy, TypeOK
<1>13. CASE UNCHANGED vars
  BY <1>13 DEF TypeOK, vars
<1>14. QED
  BY <1>1, <1>2, <1>3, <1>4, <1>5, <1>6, <1>7, <1>8, <1>9, <1>10, <1>11, <1>12, <1>13
     DEF Next, UserNext, Serve, Receive

\* The model of the policy document is well typed.
THEOREM DocTypeCorrect == Spec => []TypeOK
  BY TypeInit, TypeNext, PolicyDocAssumption, PTL DEF Spec

-----------------------------------------------------------------------------
LEMMA VersionInit == PolicyDocAssumption /\ Init => VersionInv
  BY DEF PolicyDocAssumption, Init, VersionInv, PageInv, RequestInv, Informed, Closed, Idle

\* While the cluster's document stays, knowledge of it stays.
LEMMA SameDoc ==
  ASSUME UNCHANGED doc, NEW n, NEW t
  PROVE  Informed(n, t) => Informed(n, t)'
  BY DEF Informed

\* After a write every version that was held before is outdated.
LEMMA NewDoc ==
  ASSUME PolicyDocAssumption, TypeOK, doc'.seqNo = doc.seqNo + 1, NEW n \in SeqNos, NEW t
  PROVE  /\ Informed(n, t) => Informed(n, t)'
         /\ Informed(n, t) /\ n # Null => n < doc'.seqNo
  BY DEF PolicyDocAssumption, TypeOK, SeqNos, Informed

\* An idle request knows nothing.
LEMMA IdleInv == RequestInv(Idle)'
  BY DEF RequestInv, Idle

\* A step of the page that keeps its requests' version and page open.
LEMMA SameRequests ==
  ASSUME UNCHANGED doc, NEW q, RequestInv(q),
         \A p \in Pages : page[p].pc \in {"open", "gone"} =>
           page'[p].seqNo = page[p].seqNo /\ page'[p].pc \in {"open", "gone"}
  PROVE  RequestInv(q)'
  BY SameDoc DEF RequestInv, Informed

LEMMA VersionNext ==
  PolicyDocAssumption /\ TypeOK /\ VersionInv /\ [Next]_vars => VersionInv'
<1> SUFFICES ASSUME PolicyDocAssumption, TypeOK, VersionInv, [Next]_vars
             PROVE  VersionInv'
  OBVIOUS
<1> USE DEF VersionInv
<1>a. page \in [Pages -> PageStates] /\ req \in [Requests -> ReqStates]
  BY DEF TypeOK
<1>1. ASSUME NEW p \in Pages, OpenCreate(p) \/ Leave(p)
      PROVE  VersionInv'
  <2>1. \A x \in Pages : PageInv(x)'
    BY <1>1, <1>a DEF OpenCreate, Leave, PageInv, Informed, Spent, PageStates
  <2>2. \A r \in Requests : RequestInv(req[r])'
    BY <1>1, <1>a, SameRequests DEF OpenCreate, Leave, PageStates
  <2>3. QED
    BY <2>1, <2>2
<1>2. ASSUME NEW p \in Pages, Edit(p)
      PROVE  VersionInv'
  <2>1. \A x \in Pages : PageInv(x)'
    BY <1>2, <1>a DEF Edit, PageInv, Informed, Spent, PageStates
  <2>2. \A r \in Requests : RequestInv(req[r])'
    BY <1>2, <1>a, SameRequests DEF Edit, PageStates
  <2>3. QED
    BY <2>1, <2>2
<1>3. ASSUME NEW p \in Pages, NEW r \in Requests, OpenEdit(p, r)
      PROVE  VersionInv'
  <2>1. \A x \in Pages : PageInv(x)'
    BY <1>3, <1>a DEF OpenEdit, PageInv, Informed, Spent, PageStates
  <2>2. ASSUME NEW x \in Requests, x # r
        PROVE  RequestInv(req[x])'
    BY <1>3, <2>2, <1>a, SameRequests DEF OpenEdit, PageStates
  <2>3. RequestInv(req[r])'
    <3>1. req'[r] = Request("get", p, Null, {})
      BY <1>3, <1>a DEF OpenEdit
    <3>2. Null # doc'.seqNo
      BY <1>3 DEF OpenEdit, TypeOK, PolicyDocAssumption
    <3>3. QED
      BY <3>1, <3>2 DEF RequestInv, Informed, Request
  <2>4. QED
    BY <2>1, <2>2, <2>3
<1>4. ASSUME NEW p \in Pages, NEW r \in Requests, Submit(p, r)
      PROVE  VersionInv'
  <2>1. \A x \in Pages : PageInv(x)'
    BY <1>4, <1>a DEF Submit, PageInv, Informed, Spent, PageStates
  <2>2. ASSUME NEW x \in Requests, x # r
        PROVE  RequestInv(req[x])'
    BY <1>4, <2>2, <1>a, SameRequests DEF Submit, PageStates
  <2>3. RequestInv(req[r])'
    <3>1. req'[r] = Request("put", p, page[p].seqNo, page[p].text)
      BY <1>4, <1>a DEF Submit
    <3>2. page'[p].seqNo = page[p].seqNo /\ page'[p].pc = "open" /\ UNCHANGED doc
      BY <1>4, <1>a DEF Submit, PageStates
    <3>3. Informed(page[p].seqNo, page[p].text)
      BY DEF PageInv
    <3>4. /\ req'[r].kind = "put" /\ req'[r].page = p
          /\ req'[r].seqNo = page[p].seqNo /\ req'[r].text = page[p].text
      BY <3>1 DEF Request
    <3>5. QED
      BY <3>2, <3>3, <3>4 DEF RequestInv, Informed
  <2>4. QED
    BY <2>1, <2>2, <2>3
<1>5. ASSUME NEW r \in Requests, ClickDelete(r) \/ DeletePolicyDone(r)
      PROVE  VersionInv'
  <2>1. \A x \in Pages : PageInv(x)'
    BY <1>5 DEF ClickDelete, DeletePolicyDone, PageInv, Informed, Spent
  <2>2. ASSUME NEW x \in Requests, x # r
        PROVE  RequestInv(req[x])'
    BY <1>5, <2>2, <1>a, SameRequests DEF ClickDelete, DeletePolicyDone
  <2>3. req'[r].kind \in {"idle", "delete"}
    BY <1>5, <1>a DEF ClickDelete, DeletePolicyDone, Request, Idle
  <2>4. QED
    BY <2>1, <2>2, <2>3 DEF RequestInv
<1>6. ASSUME NEW r \in Requests, GetPolicyToEdit(r)
      PROVE  VersionInv'
  <2> DEFINE p == req[r].page
  <2>1. p \in Pages /\ Informed(req[r].seqNo, req[r].text) /\ UNCHANGED <<doc, wrote>>
    BY <1>6 DEF GetPolicyToEdit, RequestInv
  <2>2. ASSUME NEW x \in Pages
        PROVE  /\ PageInv(x)'
               /\ page[x].pc \in {"open", "gone"} => page'[x] = page[x]
    <3>1. CASE x # p \/ page[p].pc # "loading"
      <4>1. page'[x] = page[x]
        BY <1>6, <3>1, <1>a DEF GetPolicyToEdit
      <4>2. QED
        BY <2>1, <4>1 DEF PageInv, Informed, Spent
    <3>2. CASE x = p /\ page[p].pc = "loading" /\ req[r].ok
      <4>1. page'[p].seqNo = req[r].seqNo /\ page'[p].text = req[r].text /\ page'[p].pc = "open"
        BY <1>6, <2>1, <3>2, <1>a DEF GetPolicyToEdit, PageStates
      <4>2. wrote[p] = 0
        BY <2>1, <3>2 DEF PageInv
      <4>3. QED
        BY <2>1, <3>2, <4>1, <4>2 DEF PageInv, Informed, Spent
    <3>3. CASE x = p /\ page[p].pc = "loading" /\ ~ req[r].ok
      <4>1. page'[p].seqNo = page[p].seqNo /\ page'[p].text = page[p].text /\ page'[p].pc = "gone"
        BY <1>6, <2>1, <3>3, <1>a DEF GetPolicyToEdit, PageStates
      <4>2. QED
        BY <2>1, <3>3, <4>1 DEF PageInv, Informed, Spent
    <3>4. QED
      BY <3>1, <3>2, <3>3
  <2>3. ASSUME NEW x \in Requests, x # r
        PROVE  RequestInv(req[x])'
    BY <1>6, <2>1, <2>2, <2>3, <1>a, SameRequests DEF GetPolicyToEdit
  <2>4. RequestInv(req[r])'
    BY <1>6, <1>a DEF GetPolicyToEdit, RequestInv, Idle
  <2>5. QED
    BY <2>2, <2>3, <2>4
<1>7. ASSUME NEW r \in Requests, PutPolicyDone(r)
      PROVE  VersionInv'
  <2> DEFINE p == req[r].page
  <2>1. p \in Pages /\ page[p].pc \in {"open", "gone"} /\ UNCHANGED <<doc, wrote>>
    BY <1>7 DEF PutPolicyDone, RequestInv
  <2>2. ASSUME NEW x \in Pages
        PROVE  /\ page'[x].seqNo = page[x].seqNo /\ page'[x].text = page[x].text
               /\ page'[x].pc = page[x].pc \/ (x = p /\ page'[x].pc = "gone")
    BY <1>7, <2>1, <1>a DEF PutPolicyDone, Refused, PageStates
  <2>3. \A x \in Pages : PageInv(x)'
    BY <2>1, <2>2 DEF PageInv, Informed, Spent
  <2>4. ASSUME NEW x \in Requests, x # r
        PROVE  RequestInv(req[x])'
    BY <1>7, <2>1, <2>2, <2>4, <1>a, SameRequests DEF PutPolicyDone
  <2>5. RequestInv(req[r])'
    BY <1>7, <1>a DEF PutPolicyDone, RequestInv, Idle
  <2>6. QED
    BY <2>3, <2>4, <2>5
<1>8. ASSUME NEW r \in Requests, GetPolicy(r) \/ RefusePolicy(r) \/ Fail(r)
      PROVE  VersionInv'
  <2>1. UNCHANGED <<doc, page, wrote>>
    BY <1>8 DEF GetPolicy, RefusePolicy, Fail
  <2>2. \A x \in Pages : PageInv(x)'
    BY <2>1 DEF PageInv, Informed, Spent
  <2>3. ASSUME NEW x \in Requests, x # r
        PROVE  RequestInv(req[x])'
    BY <1>8, <2>1, <2>3, <1>a, SameRequests DEF GetPolicy, RefusePolicy, Fail
  <2>4. /\ req'[r].kind = req[r].kind /\ req'[r].page = req[r].page
        /\ \/ req'[r].seqNo = req[r].seqNo /\ req'[r].text = req[r].text
           \/ req[r].kind = "get" /\ req'[r].seqNo = doc.seqNo /\ req'[r].text = doc.text
    BY <1>8, <1>a DEF GetPolicy, RefusePolicy, Fail, ReqStates
  <2>5. doc.seqNo \in Nat
    BY DEF TypeOK, PolicyDocAssumption
  <2>6. RequestInv(req[r])'
    BY <2>1, <2>4, <2>5 DEF RequestInv, Informed
  <2>7. QED
    BY <2>2, <2>3, <2>6
<1>9. ASSUME NEW r \in Requests, PutPolicy(r)
      PROVE  VersionInv'
  <2> DEFINE p == req[r].page
  <2>1. /\ p \in Pages /\ page[p].seqNo = req[r].seqNo /\ page[p].pc \in {"open", "gone"}
        /\ doc'.seqNo = doc.seqNo + 1 /\ UNCHANGED page
        /\ wrote' = [wrote EXCEPT ![p] = wrote[p] + 1]
    BY <1>9 DEF PutPolicy, RequestInv
  <2>2. ASSUME NEW x \in Pages
        PROVE  PageInv(x)'
    <3>1. /\ page[x].seqNo \in SeqNos
          /\ Informed(page[x].seqNo, page[x].text)'
          /\ page[x].seqNo # Null => page[x].seqNo < doc'.seqNo
      BY <2>1, Fields, NewDoc DEF PageInv
    <3>2. CASE x # p
      <4>1. wrote'[x] = wrote[x]
        BY <2>1, <3>2 DEF TypeOK
      <4>2. QED
        BY <2>1, <3>1, <4>1 DEF PageInv, Informed, Spent
    <3>3. CASE x = p
      <4>1. page[p].seqNo # Null => wrote[p] = 0
        <5>1. SUFFICES ASSUME page[p].seqNo # Null
                       PROVE  wrote[p] = 0
          OBVIOUS
        <5>2. page[p].seqNo = doc.seqNo
          BY <1>9, <2>1, <5>1 DEF PutPolicy, Accepts, Method
        <5>3. Spent(p, page[p].seqNo) /\ wrote[p] \in Nat /\ doc.seqNo \in Nat
          BY <2>1, <5>1 DEF PageInv, TypeOK, PolicyDocAssumption
        <5>4. QED
          BY <5>2, <5>3 DEF Spent
      <4>2. wrote'[p] = wrote[p] + 1
        BY <2>1 DEF TypeOK
      <4>3. QED
        BY <2>1, <3>1, <3>3, <4>1, <4>2 DEF PageInv, Informed, Spent
    <3>4. QED
      BY <3>2, <3>3
  <2>3. ASSUME NEW x \in Requests
        PROVE  RequestInv(req[x])'
    <3>1. /\ req'[x].kind = req[x].kind /\ req'[x].page = req[x].page
          /\ req'[x].seqNo = req[x].seqNo /\ req'[x].text = req[x].text
      BY <1>9, <1>a DEF PutPolicy, ReqStates
    <3>2. req[x].seqNo \in SeqNos
      BY Fields
    <3>3. QED
      BY <2>1, <3>1, <3>2, NewDoc DEF RequestInv, Informed
  <2>4. QED
    BY <2>2, <2>3
<1>10. ASSUME NEW r \in Requests, DeletePolicy(r)
       PROVE  VersionInv'
  <2>1. UNCHANGED <<page, wrote>> /\ (doc' = doc \/ doc'.seqNo = doc.seqNo + 1)
    BY <1>10 DEF DeletePolicy
  <2>2. ASSUME NEW n \in SeqNos, NEW t
        PROVE  Informed(n, t) => Informed(n, t)'
    BY <2>1, NewDoc, SameDoc
  <2>3. doc.seqNo \in Nat /\ doc'.seqNo >= doc.seqNo
    BY <2>1 DEF TypeOK, PolicyDocAssumption
  <2>4. ASSUME NEW x \in Pages
        PROVE  PageInv(x)'
    <3>1. page[x].seqNo \in SeqNos
      BY Fields
    <3>2. Spent(x, page[x].seqNo) /\ page[x].seqNo # Null => Spent(x, page[x].seqNo)'
      BY <2>1, <2>3, <3>1 DEF Spent, SeqNos, PolicyDocAssumption
    <3>3. QED
      BY <2>1, <2>2, <3>1, <3>2 DEF PageInv, Informed, Spent
  <2>5. ASSUME NEW x \in Requests
        PROVE  RequestInv(req[x])'
    <3>1. /\ req'[x].kind = req[x].kind /\ req'[x].page = req[x].page
          /\ req'[x].seqNo = req[x].seqNo /\ req'[x].text = req[x].text
      BY <1>10, <1>a DEF DeletePolicy, ReqStates
    <3>2. req[x].seqNo \in SeqNos
      BY Fields
    <3>3. QED
      BY <2>1, <2>2, <3>1, <3>2 DEF RequestInv, Informed
  <2>6. QED
    BY <2>4, <2>5
<1>11. CASE UNCHANGED vars
  BY <1>11 DEF vars, PageInv, RequestInv, Informed, Spent
<1>12. QED
  BY <1>1, <1>2, <1>3, <1>4, <1>5, <1>6, <1>7, <1>8, <1>9, <1>10, <1>11
     DEF Next, UserNext, Serve, Receive

\* Whoever holds the current version of the policy has seen its text, and
\* what a page wrote has made the version it holds outdated.
THEOREM VersionsTold == Spec => []VersionInv
  BY DocTypeCorrect, VersionInit, VersionNext, PolicyDocAssumption, PTL DEF Spec

\* No update of an existing policy loses an edit the cluster has taken.
THEOREM NoUpdateLost == Spec => NoLostUpdate
<1>1. PolicyDocAssumption /\ TypeOK /\ VersionInv /\ [Next]_vars =>
        [doc.exists /\ doc'.exists => doc.text \subseteq doc'.text]_vars
  <2> SUFFICES ASSUME PolicyDocAssumption, TypeOK, VersionInv, [Next]_vars,
                      doc.exists, doc'.exists
               PROVE  doc.text \subseteq doc'.text
    OBVIOUS
  <2>1. CASE UNCHANGED doc
    BY <2>1
  <2>2. ASSUME NEW r \in Requests, PutPolicy(r)
        PROVE  doc.text \subseteq doc'.text
    BY <2>2 DEF PutPolicy, Accepts, VersionInv, RequestInv, Informed
  <2>3. ASSUME NEW r \in Requests, DeletePolicy(r)
        PROVE  doc.text \subseteq doc'.text
    BY <2>3 DEF DeletePolicy
  <2>4. QED
    BY <2>1, <2>2, <2>3
       DEF Next, UserNext, Serve, Receive, vars, OpenCreate, Edit, Leave, OpenEdit, Submit,
           ClickDelete, GetPolicy, RefusePolicy, Fail, GetPolicyToEdit, PutPolicyDone,
           DeletePolicyDone
<1>2. QED
  BY <1>1, DocTypeCorrect, VersionsTold, PolicyDocAssumption, PTL DEF Spec, NoLostUpdate

\* Only a page that creates brings back a policy that was deleted.
THEOREM NoPolicyRevived == Spec => NoRevival
<1>1. TypeOK /\ [Next]_vars =>
        [~ doc.exists /\ doc'.exists => \E r \in Requests : Creates(r)]_vars
  <2> SUFFICES ASSUME TypeOK, [Next]_vars, ~ doc.exists, doc'.exists
               PROVE  \E r \in Requests : Creates(r)
    OBVIOUS
  <2>1. ASSUME NEW r \in Requests, PutPolicy(r)
        PROVE  Creates(r)
    <3>1. Sent(r, "put") /\ req[r].seqNo = Null
      BY <2>1 DEF PutPolicy, Accepts, Method
    <3>2. req'[r].answered
      <4>1. PICK ok \in BOOLEAN : Answer(r, ok)
        BY <2>1 DEF PutPolicy
      <4>2. req[r] \in ReqStates
        BY Fields
      <4>3. QED
        BY <4>1, <4>2 DEF TypeOK, ReqStates
    <3>3. QED
      BY <3>1, <3>2 DEF Creates
  <2>2. ~ \E r \in Requests : DeletePolicy(r)
    BY DEF DeletePolicy
  <2>3. doc # doc'
    OBVIOUS
  <2>4. QED
    BY <2>1, <2>2, <2>3
       DEF Next, UserNext, Serve, Receive, vars, OpenCreate, Edit, Leave, OpenEdit, Submit,
           ClickDelete, GetPolicy, RefusePolicy, Fail, GetPolicyToEdit, PutPolicyDone,
           DeletePolicyDone
<1>2. QED
  BY <1>1, DocTypeCorrect, PTL DEF Spec, NoRevival

\* The cluster takes the policy of a page that edits at most once.
THEOREM WrittenOnce == Spec => []WroteOnce
<1>1. VersionInv => WroteOnce
  BY DEF VersionInv, PageInv, Spent, WroteOnce
<1>2. QED
  BY <1>1, VersionsTold, PTL

=============================================================================
