----------------------------- MODULE PolicyDoc ------------------------------
(***************************************************************************)
(* One index policy of a cluster and the pages that create, edit and       *)
(* delete it.  Sources: public/pages/CreatePolicy (the JSON editor),       *)
(* public/pages/VisualCreatePolicy (the visual one), the list page         *)
(* public/pages/Policies, both PolicyService classes.                      *)
(*                                                                         *)
(* A page that edits keeps the sequence number and primary term it loaded  *)
(* (one value here) and sends them with its update; the cluster refuses an *)
(* update that names another version, and a creation of what exists.       *)
(*                                                                         *)
(* A page is one instance of a component: once left it is not used again,  *)
(* but its requests may still be under way.                                *)
(***************************************************************************)
EXTENDS Naturals

CONSTANTS
  Pages,        \* editor pages, of one user or of several
  VisualPages,  \* those that are the visual editor
  Requests,     \* bound: so many requests are under way at once
  MaxSeqNo,     \* bound: the writes to the policy
  MaxEdits,     \* bound: the edits of all users
  Null,         \* no sequence number
  NoPage        \* the page of a request of the list page

ASSUME PolicyDocAssumption ==
  /\ VisualPages \subseteq Pages /\ NoPage \notin Pages
  /\ MaxSeqNo \in Nat /\ MaxEdits \in Nat
  /\ Null \notin Nat

VARIABLES
  doc,    \* the policy in the cluster
  page,   \* the state of each editor page
  req,    \* the requests
  edits,  \* how many edits there have been
  wrote   \* history: per page, how often the cluster took its policy

vars == <<doc, page, req, edits, wrote>>

-----------------------------------------------------------------------------
(* The data.  The text of a policy is the set of edits its author has made *)
(* or seen.                                                                *)

Texts == SUBSET (1 .. MaxEdits)
SeqNos == (0 .. MaxSeqNo) \cup {Null}

Pc == {"closed", "loading", "open", "gone"}
PageStates == [pc: Pc, seqNo: SeqNos, text: Texts, submitting: BOOLEAN]
Closed == [pc |-> "closed", seqNo |-> Null, text |-> {}, submitting |-> FALSE]

Kinds == {"idle", "get", "put", "delete"}
ReqStates == [kind: Kinds, page: Pages \cup {NoPage}, answered: BOOLEAN,
              ok: BOOLEAN, seqNo: SeqNos, text: Texts]
Idle == [kind |-> "idle", page |-> NoPage, answered |-> FALSE, ok |-> FALSE,
         seqNo |-> Null, text |-> {}]
Request(kind, p, seqNo, text) ==
  [kind |-> kind, page |-> p, answered |-> FALSE, ok |-> FALSE,
   seqNo |-> seqNo, text |-> text]

Free(r) == req[r].kind = "idle"
Sent(r, kind) == req[r].kind = kind /\ ~ req[r].answered
Answered(r, kind) == req[r].kind = kind /\ req[r].answered
Answer(r, ok) == req' = [req EXCEPT ![r].answered = TRUE, ![r].ok = ok]

Init ==
  /\ doc \in {[exists |-> e, seqNo |-> 0, text |-> {}] : e \in BOOLEAN}
  /\ page = [p \in Pages |-> Closed]
  /\ req = [r \in Requests |-> Idle]
  /\ edits = 0
  /\ wrote = [p \in Pages |-> 0]

-----------------------------------------------------------------------------
(* The editor pages.                                                       *)

\* A page that creates starts with an empty policy.
OpenCreate(p) ==
  /\ page[p].pc = "closed"
  /\ page' = [page EXCEPT ![p].pc = "open"]
  /\ UNCHANGED <<doc, req, edits, wrote>>

\* A page that edits asks for the policy.
OpenEdit(p, r) ==
  /\ page[p].pc = "closed"
  /\ Free(r)
  /\ page' = [page EXCEPT ![p].pc = "loading"]
  /\ req' = [req EXCEPT ![r] = Request("get", p, Null, {})]
  /\ UNCHANGED <<doc, edits, wrote>>

\* The answer: the policy and its version come together, or the page is left.
\* A page that has been left is past caring.
GetPolicyToEdit(r) ==
  LET p == req[r].page IN
  /\ Answered(r, "get")
  /\ req' = [req EXCEPT ![r] = Idle]
  /\ page' = IF page[p].pc # "loading" THEN page
             ELSE IF req[r].ok
             THEN [page EXCEPT ![p].pc = "open", ![p].seqNo = req[r].seqNo,
                               ![p].text = req[r].text]
             ELSE [page EXCEPT ![p].pc = "gone"]
  /\ UNCHANGED <<doc, edits, wrote>>

\* The user changes the policy, also while it loads or is being submitted.
Edit(p) ==
  /\ page[p].pc \in {"loading", "open"}
  /\ edits < MaxEdits
  /\ edits' = edits + 1
  /\ page' = [page EXCEPT ![p].text = @ \cup {edits + 1}]
  /\ UNCHANGED <<doc, req, wrote>>

\* onSubmit with onCreate or onUpdate; before the policy has arrived there is
\* no id and no request.  Only the JSON editor disables its button.
Submit(p, r) ==
  /\ page[p].pc = "open"
  /\ p \in VisualPages \/ ~ page[p].submitting
  /\ Free(r)
  /\ page' = [page EXCEPT ![p].submitting = TRUE]
  /\ req' = [req EXCEPT ![r] = Request("put", p, page[p].seqNo, page[p].text)]
  /\ UNCHANGED <<doc, edits, wrote>>

\* What a page is after a refused or failed update.  Mistakes: it takes over
\* the version that is current now; the page counts the version up by itself;
\* the button stays disabled.
RefusedNewVersion(p) == [page[p] EXCEPT !.submitting = FALSE, !.seqNo = doc.seqNo]
RefusedNextVersion(p) == [page[p] EXCEPT !.submitting = FALSE, !.seqNo = doc.seqNo + 1]
RefusedBusy(p) == page[p]
Refused(p) == [page[p] EXCEPT !.submitting = FALSE]

\* The answer: back to the list with a toast, or an error on the page.
PutPolicyDone(r) ==
  LET p == req[r].page IN
  /\ Answered(r, "put")
  /\ req' = [req EXCEPT ![r] = Idle]
  /\ page' = IF page[p].pc = "gone" THEN page
             ELSE IF req[r].ok THEN [page EXCEPT ![p].pc = "gone"]
             ELSE [page EXCEPT ![p] = Refused(p)]
  /\ UNCHANGED <<doc, edits, wrote>>

\* onCancel, or any other way to leave the page.
Leave(p) ==
  /\ page[p].pc \in {"loading", "open"}
  /\ page' = [page EXCEPT ![p].pc = "gone"]
  /\ UNCHANGED <<doc, req, edits, wrote>>

\* The list page deletes the policy by its id.
ClickDelete(r) ==
  /\ Free(r)
  /\ req' = [req EXCEPT ![r] = Request("delete", NoPage, Null, {})]
  /\ UNCHANGED <<doc, page, edits, wrote>>

DeletePolicyDone(r) ==
  /\ Answered(r, "delete")
  /\ req' = [req EXCEPT ![r] = Idle]
  /\ UNCHANGED <<doc, page, edits, wrote>>

-----------------------------------------------------------------------------
(* The server side: its handlers and the cluster.                          *)

\* getPolicy: the document with its version, or an error.
GetPolicy(r) ==
  /\ Sent(r, "get")
  /\ \/ /\ doc.exists
        /\ req' = [req EXCEPT ![r].answered = TRUE, ![r].ok = TRUE,
                              ![r].seqNo = doc.seqNo, ![r].text = doc.text]
     \/ /\ ~ doc.exists
        /\ Answer(r, FALSE)
  /\ UNCHANGED <<doc, page, edits, wrote>>

\* The request putPolicy makes.  Mistake: the version gets lost on the way.
MethodCreate(seqNo) == "ism.createPolicy"
Method(seqNo) == IF seqNo = Null THEN "ism.createPolicy" ELSE "ism.putPolicy"

\* What the cluster accepts: to create what does not exist, to update the
\* version that is current.
Accepts(method, seqNo) ==
  IF method = "ism.createPolicy" THEN ~ doc.exists
  ELSE doc.exists /\ seqNo = doc.seqNo

\* The cluster takes the policy; its answer may get lost.
PutPolicy(r) ==
  LET p == req[r].page IN
  /\ Sent(r, "put")
  /\ Accepts(Method(req[r].seqNo), req[r].seqNo)
  /\ doc.seqNo < MaxSeqNo
  /\ doc' = [exists |-> TRUE, seqNo |-> doc.seqNo + 1, text |-> req[r].text]
  /\ wrote' = [wrote EXCEPT ![p] = @ + 1]
  /\ \E ok \in BOOLEAN : Answer(r, ok)
  /\ UNCHANGED <<page, edits>>

RefusePolicy(r) ==
  /\ Sent(r, "put")
  /\ ~ Accepts(Method(req[r].seqNo), req[r].seqNo)
  /\ Answer(r, FALSE)
  /\ UNCHANGED <<doc, page, edits, wrote>>

\* deletePolicy: not found is an error, too.
DeletePolicy(r) ==
  /\ Sent(r, "delete")
  /\ doc.seqNo < MaxSeqNo
  /\ doc' = IF doc.exists
            THEN [exists |-> FALSE, seqNo |-> doc.seqNo + 1, text |-> {}] ELSE doc
  /\ Answer(r, doc.exists)
  /\ UNCHANGED <<page, edits, wrote>>

\* A request that fails before it reaches the cluster.
Fail(r) ==
  /\ req[r].kind # "idle" /\ ~ req[r].answered
  /\ Answer(r, FALSE)
  /\ UNCHANGED <<doc, page, edits, wrote>>

-----------------------------------------------------------------------------
UserNext ==
  \/ \E p \in Pages : OpenCreate(p) \/ Edit(p) \/ Leave(p)
  \/ \E p \in Pages, r \in Requests : OpenEdit(p, r) \/ Submit(p, r)
  \/ \E r \in Requests : ClickDelete(r)

Serve(r) == GetPolicy(r) \/ PutPolicy(r) \/ RefusePolicy(r) \/ DeletePolicy(r) \/ Fail(r)
Receive(r) == GetPolicyToEdit(r) \/ PutPolicyDone(r) \/ DeletePolicyDone(r)

Next == UserNext \/ \E r \in Requests : Serve(r) \/ Receive(r)

Spec == Init /\ [][Next]_vars

\* Each request is answered, if only by an error, and the answer is handled.
Fairness == \A r \in Requests : WF_vars(Serve(r)) /\ WF_vars(Receive(r))

FairSpec == Spec /\ Fairness

-----------------------------------------------------------------------------
(* Properties.                                                             *)

TypeOK ==
  /\ doc \in [exists: BOOLEAN, seqNo: 0 .. MaxSeqNo, text: Texts]
  /\ page \in [Pages -> PageStates]
  /\ req \in [Requests -> ReqStates]
  /\ edits \in 0 .. MaxEdits
  /\ wrote \in [Pages -> Nat]

\* As long as the policy exists no edit of it gets lost: what replaces it was
\* made from it, by someone who had seen each of its edits.
NoLostUpdate == [][doc.exists /\ doc'.exists => doc.text \subseteq doc'.text]_vars

\* A policy that was deleted is not brought back by a page that was editing it:
\* the request that is served by the step came from a page that creates.
Creates(r) == Sent(r, "put") /\ req[r].seqNo = Null /\ req'[r].answered
NoRevival == [][~ doc.exists /\ doc'.exists => \E r \in Requests : Creates(r)]_vars

\* However often a page that edits submits (a second click in the visual
\* editor, a retry after a lost answer), the cluster takes it once.
WroteOnce == \A p \in Pages : page[p].seqNo # Null => wrote[p] <= 1

\* A submitted page is left or can be submitted again.
Settles ==
  \A p \in Pages : page[p].submitting ~> (page[p].pc = "gone" \/ ~ page[p].submitting)

-----------------------------------------------------------------------------
(* Why: a version names one text, and whoever holds the version has seen   *)
(* the text.                                                               *)

\* The holder of seqNo, who has seen text.
Informed(seqNo, text) ==
  /\ seqNo # Null => seqNo <= doc.seqNo
  /\ seqNo = doc.seqNo /\ doc.exists => doc.text \subseteq text

\* What a page has written has made its version outdated.
Spent(p, seqNo) ==
  /\ wrote[p] <= 1
  /\ wrote[p] = 1 => seqNo < doc.seqNo

PageInv(p) ==
  /\ Informed(page[p].seqNo, page[p].text)
  /\ page[p].pc \in {"closed", "loading"} => page[p].seqNo = Null /\ wrote[p] = 0
  /\ page[p].seqNo # Null => Spent(p, page[p].seqNo)

RequestInv(q) ==
  /\ q.kind \in {"get", "put"} => q.page \in Pages /\ Informed(q.seqNo, q.text)
  /\ q.kind = "put" =>
       q.seqNo = page[q.page].seqNo /\ page[q.page].pc \in {"open", "gone"}

VersionInv ==
  /\ \A p \in Pages : PageInv(p)
  /\ \A r \in Requests : RequestInv(req[r])

=============================================================================
