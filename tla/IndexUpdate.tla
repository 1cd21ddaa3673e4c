---------------------------- MODULE IndexUpdate ----------------------------
(***************************************************************************)
(* The forms that edit something of an index that other users edit too:    *)
(* the index itself (mappings, aliases and settings, on one page or on a   *)
(* tab each), the indices of an alias, an index or component template, and *)
(* the notification settings of long operations.                           *)
(*                                                                         *)
(* A form loads what it edits as items, lets the user change them and      *)
(* sends either what differs from what it loaded, or all of it, in one      *)
(* request, in one for each group, or in one for each item.  What differs  *)
(* is more than the items that were changed: the parameters of the         *)
(* mappings go with any change of them, and aliases that were put in       *)
(* another order are removed and added.  No request names the version the  *)
(* form was loaded from.                                                   *)
(***************************************************************************)
EXTENDS Naturals, FiniteSets

CONSTANTS
    Parts,          \* the items: fields, mapping parameters, aliases, settings
    Group,          \* Group[i]: "mappings", "aliases" or "settings"
    Parameters,     \* the items of the mappings that are no fields
    Place,          \* Place[i]: where the cluster lists an alias
    UpdatesChecked, \* the forms of this instance, of Updates
    Stored_,        \* what the cluster holds at first
    MaxUpdates,     \* bound: submissions
    MaxTyped,       \* bound: changes of the form
    MaxForeign      \* bound: changes by other users

ASSUME UpdateAssumption ==
    /\ Group \in [Parts -> {"mappings", "aliases", "settings"}]
    /\ Parameters \subseteq {i \in Parts : Group[i] = "mappings"}
    /\ Place \in [Parts -> Nat]
    /\ MaxUpdates \in Nat /\ MaxTyped \in Nat /\ MaxForeign \in Nat

VARIABLES
    update,     \* the form
    page,       \* "ready", or "left" after a success
    old,        \* oldIndexDetail, oldValue, the original values
    edited,     \* the values of the form
    late,       \* when an alias was put in again, 0: it is where it was loaded
    busy_,      \* isSubmitting, or the loading state of the bottom bar
    loads,      \* loads under way
    sent,       \* submissions with requests under way, or not ended
    held,       \* what the cluster holds
    theirs,     \* the items that another user has written last
    unseen,     \* those another user has written since the form was filled
    ucounts     \* how much of each bound is used

filled_ == <<old, edited, late>>
uvars == <<update, page, filled_, busy_, loads, sent, held, theirs, unseen, ucounts>>

-----------------------------------------------------------------------------
(* The forms.  groups: what they edit; all: every item is sent, not only     *)
(* what differs; requests: how many; bar: the button is that of a bar which *)
(* is there while something differs, and which is on again when a request   *)
(* throws; locks: the button is off during a request; reloads: a success    *)
(* loads the form again, the others leave; spins: the form is hidden        *)
(* meanwhile.                                                               *)

Groups == {"mappings", "aliases", "settings"}

EditIndex == [groups |-> Groups, all |-> FALSE, requests |-> "groups", bar |-> FALSE,
              locks |-> TRUE, reloads |-> FALSE, spins |-> TRUE]
IndexTab(g) == [EditIndex EXCEPT !.groups = {g}, !.bar = TRUE, !.reloads = TRUE]
EditAlias == [EditIndex EXCEPT !.groups = {"aliases"}, !.locks = FALSE]
EditTemplate == [EditIndex EXCEPT !.all = TRUE, !.requests = "one", !.bar = TRUE,
                                  !.reloads = TRUE, !.spins = FALSE]
NotificationSettings ==
    [EditTemplate EXCEPT !.groups = {"settings"}, !.requests = "each"]

Updates == {EditIndex, EditAlias, EditTemplate, NotificationSettings}
             \cup {IndexTab(g) : g \in Groups}

\* 0: not there.
Values(i) ==
    IF Group[i] = "settings" \/ i \in Parameters THEN {0, 1, 2} ELSE {0, 1}

Held == {h \in [Parts -> {0, 1, 2}] : \A i \in Parts : h[i] \in Values(i)}

ASSUME UpdatesAssumption == UpdatesChecked \subseteq Updates /\ Stored_ \in Held

-----------------------------------------------------------------------------
Items_ == {i \in Parts : Group[i] \in update.groups}

\* Mutant of Differs: every item that is there is sent.
DiffersThere(i, new, was) == new[i] # 0

\* diffArrays, differenceWith, isEqual: what was added, changed or removed,
\* but for a removed setting, which is in no difference.
Differs(i, new, was) == new[i] # was[i] /\ (new[i] # 0 \/ Group[i] # "settings")

\* The aliases that the old and the new list both have.
Common(new, was) ==
    {i \in Parts : Group[i] = "aliases" /\ new[i] # 0 /\ was[i] # 0}

\* The old list is in the order of the cluster; in the new one an alias that
\* was put in again comes after those that were not.
SameOrder(K) == \A i, j \in K : Place[i] < Place[j] => late[i] <= late[j]

\* diffArrays keeps a longest common subsequence, one of them.
Longest(C) ==
    {K \in SUBSET C :
        SameOrder(K) /\ \A L \in SUBSET C :
                            SameOrder(L) => Cardinality(L) <= Cardinality(K)}

Aligned(new, was) ==
    IF update.all THEN {Common(new, was)} ELSE Longest(Common(new, was))

\* The aliases that are kept by their names but not in their place get two
\* actions.  One that now comes before an alias it followed is added before
\* it is removed: the cluster, which takes the actions in turn, has lost it.
Lost(moved, K) ==
    {i \in moved : \E k \in K : Place[k] < Place[i] /\ late[k] > late[i]}

\* With a change of the mappings go their parameters as the form has them.
ToSend(new, was, moved) ==
    IF update.all THEN Items_
    ELSE LET changed == {i \in Items_ : Differs(i, new, was)} IN
         changed \cup moved \cup
           {i \in Parameters : \E j \in changed : Group[j] = "mappings"}

\* The requests of a submission, each a set of items, in the order in which
\* their answers are awaited.
Split_(items) ==
    CASE update.requests = "groups" ->
           {{i \in items : Group[i] = g} : g \in {Group[j] : j \in items}}
      [] update.requests = "each" -> {{i} : i \in items}
      [] update.requests = "one" -> {items}

Order(g) == CASE g = "mappings" -> 1 [] g = "aliases" -> 2 [] g = "settings" -> 3
Before(p, q) == \E i \in p.items, j \in q.items : Order(Group[i]) < Order(Group[j])

UpdateInit ==
    /\ update \in UpdatesChecked
    /\ page = "ready"
    /\ old = Stored_ /\ edited = Stored_ /\ held = Stored_
    /\ late = [i \in Parts |-> 0]
    /\ busy_ = FALSE
    /\ loads = 0 /\ sent = {}
    /\ theirs = {} /\ unseen = {}
    /\ ucounts = [updates |-> 0, typed |-> 0, foreign |-> 0]

-----------------------------------------------------------------------------
(* The form.                                                                *)

Visible == page = "ready" /\ (update.spins => loads = 0)

\* The bar goes, with its loading state, when nothing differs.
BarLeft(new) == update.bar /\ new = old

Show(new) ==
    /\ edited' = new
    /\ busy_' = IF BarLeft(new) THEN FALSE ELSE busy_

\* A field that the index has is read-only.  An alias that was removed and
\* is put in again is the last of the list.
Type(i, v) ==
    /\ Visible /\ ucounts.typed < MaxTyped /\ i \in Items_ /\ v # edited[i]
    /\ Group[i] = "mappings" /\ i \notin Parameters => old[i] = 0
    /\ Show([edited EXCEPT ![i] = v])
    /\ ucounts' = [ucounts EXCEPT !.typed = @ + 1]
    /\ late' = IF Group[i] = "aliases" /\ v # 0
               THEN [late EXCEPT ![i] = ucounts'.typed] ELSE late
    /\ UNCHANGED <<update, page, old, loads, sent, held, theirs, unseen>>

\* Cancel of the bar.
Revert ==
    /\ Visible /\ update.bar /\ edited # old
    /\ Show(old) /\ late' = [i \in Parts |-> 0]
    /\ UNCHANGED <<update, page, old, loads, sent, held, theirs, unseen, ucounts>>

CallsOf(items) == {[items |-> p, state |-> "sent"] : p \in Split_(items)}

\* What is kept of a submission that aligns the old and the new aliases on K.
Submission(n, K) ==
    LET moved == Common(edited, old) \ K IN
    [n |-> n, want |-> edited, was |-> old, moved |-> moved, lost |-> Lost(moved, K),
     stale |-> unseen, over |-> {}, ended |-> FALSE,
     calls |-> CallsOf(ToSend(edited, old, moved))]

\* onSubmit: an alias that is as it was is told a success without a request.
Submit_ ==
    /\ Visible /\ (update.locks => ~busy_) /\ (update.bar => edited # old)
    /\ ucounts.updates < MaxUpdates
    /\ ucounts' = [ucounts EXCEPT !.updates = @ + 1]
    /\ busy_' = update.locks
    /\ \E K \in Aligned(edited, old) :
         sent' = sent \cup {Submission(ucounts'.updates, K)}
    /\ UNCHANGED <<update, page, filled_, loads, held, theirs, unseen>>

-----------------------------------------------------------------------------
(* The requests.                                                            *)

\* A setting or a parameter that was removed is in no request.
Dropped(s, i) == ~update.all /\ s.want[i] = 0 /\ Group[i] # "aliases"

\* What the cluster makes of an item of a request.
Outcome(s, i) ==
    IF i \in s.lost THEN 0 ELSE IF Dropped(s, i) THEN held[i] ELSE s.want[i]

CarriedOut(s, items) ==
    [i \in Parts |-> IF i \in items THEN Outcome(s, i) ELSE held[i]]

\* A submission that has ended is kept while requests of it are under way.
Kept(s) ==
    IF s.ended /\ \A p \in s.calls : p.state # "sent" THEN {} ELSE {s}

With(s, p, state) ==
    Kept([s EXCEPT !.calls = (@ \ {p}) \cup {[p EXCEPT !.state = state]}])

Ended(s) == (sent \ {s}) \cup Kept([s EXCEPT !.ended = TRUE])

\* The submissions, once items have been written over.
Over(ss, items) == {[s EXCEPT !.over = @ \cup items] : s \in ss}

\* updateAliases, putMapping, putSettings, ... of the cluster.
Applies(s, p) ==
    /\ p.state = "sent"
    /\ held' = CarriedOut(s, p.items)
    /\ theirs' = theirs \ p.items
    /\ sent' = Over(sent \ {s}, p.items) \cup With(s, p, "ok")
    /\ UNCHANGED <<update, page, filled_, busy_, loads, unseen, ucounts>>

\* A parameter it does not know, an alias that is not there any more, ...
Refuses(s, p) ==
    /\ p.state = "sent"
    /\ sent' = (sent \ {s}) \cup With(s, p, "refused")
    /\ UNCHANGED <<update, page, filled_, busy_, loads, held, theirs, unseen, ucounts>>

\* Mutant of AllOk: one success is enough.
AllOkOne(s) == s.calls # {} => \E p \in s.calls : p.state = "ok"

AllOk(s) == \A p \in s.calls : p.state = "ok"

\* The user is told: the page is left, or loads what it edits again.
Succeed(s) ==
    /\ ~s.ended /\ AllOk(s)
    /\ sent' = Ended(s)
    /\ busy_' = FALSE
    /\ IF update.reloads
       THEN loads' = loads + 1 /\ UNCHANGED page
       ELSE page' = "left" /\ UNCHANGED loads
    /\ UNCHANGED <<update, filled_, held, theirs, unseen, ucounts>>

\* chainPromise returns the first failure in its order, Promise.all is read
\* when every answer is there.
Failed(s) ==
    \E p \in s.calls :
        /\ p.state = "refused"
        /\ \A q \in s.calls \ {p} :
             IF update.requests = "groups" THEN Before(q, p) => q.state = "ok"
             ELSE q.state # "sent"

Fail(s) ==
    /\ ~s.ended /\ Failed(s)
    /\ sent' = Ended(s)
    /\ busy_' = FALSE
    /\ UNCHANGED <<update, page, filled_, loads, held, theirs, unseen, ucounts>>

\* A request throws: nobody is told, and only the bar turns its button on.
\* The cluster may have got it, or get it still.
Throws_(s) ==
    /\ ~s.ended /\ s.calls # {}
    /\ sent' = Ended(s)
    /\ busy_' = IF update.bar THEN FALSE ELSE busy_
    /\ UNCHANGED <<update, page, filled_, loads, held, theirs, unseen, ucounts>>

\* refreshIndex, refreshTemplate, reloadNotifications: what was typed
\* meanwhile is replaced.
LoadShown ==
    /\ loads > 0
    /\ loads' = loads - 1
    /\ old' = held /\ edited' = held /\ late' = [i \in Parts |-> 0]
    /\ unseen' = {}
    /\ busy_' = IF update.bar THEN FALSE ELSE busy_
    /\ UNCHANGED <<update, page, sent, held, theirs, ucounts>>

\* A template that cannot be loaded again is left.
LoadFails ==
    /\ loads > 0
    /\ loads' = loads - 1
    /\ page' = IF update = EditTemplate THEN "left" ELSE page
    /\ UNCHANGED <<update, filled_, busy_, sent, held, theirs, unseen, ucounts>>

-----------------------------------------------------------------------------
\* Another user edits an item of the same document.
OtherWrites(i, v) ==
    /\ ucounts.foreign < MaxForeign /\ i \in Items_ /\ v # held[i]
    /\ ucounts' = [ucounts EXCEPT !.foreign = @ + 1]
    /\ held' = [held EXCEPT ![i] = v]
    /\ theirs' = theirs \cup {i} /\ unseen' = unseen \cup {i}
    /\ sent' = Over(sent, {i})
    /\ UNCHANGED <<update, page, filled_, busy_, loads>>

UpdateNext ==
    \/ \E i \in Parts : \E v \in Values(i) : Type(i, v)
    \/ Revert \/ Submit_
    \/ \E s \in sent : \E p \in s.calls : Applies(s, p) \/ Refuses(s, p)
    \/ \E s \in sent : Succeed(s) \/ Fail(s) \/ Throws_(s)
    \/ LoadShown \/ LoadFails
    \/ \E i \in Parts : \E v \in Values(i) : OtherWrites(i, v)

UpdateSpec == UpdateInit /\ [][UpdateNext]_uvars

-----------------------------------------------------------------------------
(* Properties.                                                              *)

Calls == [items : SUBSET Parts, state : {"sent", "ok", "refused"}]
Submitted ==
    [n : 1..MaxUpdates, want : Held, was : Held, moved : SUBSET Parts,
     lost : SUBSET Parts, stale : SUBSET Parts, over : SUBSET Parts,
     ended : BOOLEAN, calls : SUBSET Calls]

UpdateTypeOK ==
    /\ update \in UpdatesChecked /\ page \in {"ready", "left"}
    /\ {old, edited, held} \subseteq Held
    /\ late \in [Parts -> 0..MaxTyped]
    /\ busy_ \in BOOLEAN /\ loads \in Nat
    /\ theirs \subseteq Parts /\ unseen \subseteq Parts
    /\ sent \subseteq Submitted
    /\ ucounts \in [updates : 0..MaxUpdates, typed : 0..MaxTyped,
                    foreign : 0..MaxForeign]

\* A success that the user is told of means that every item he changed is in
\* the cluster, if nobody has written over it since the submission.  A
\* setting or a mapping parameter that he removed is not: it is in no
\* request.  (updateAlias, updateSettings, updateMappings, chainPromise,
\* Promise.all.)
SuccessIsSaved ==
    [][\A s \in sent : Succeed(s) =>
         \A i \in Parts : s.want[i] # s.was[i] =>
           held[i] = s.want[i] \/ i \in s.over \/ Dropped(s, i)]_uvars

\* The items that are sent although the user has not changed them: all of a
\* template or of the notification settings, the parameters of the mappings
\* and the aliases that are in another place.
Sweeps(s, i) == update.all \/ i \in Parameters \/ i \in s.moved

\* A submission changes what another user has written last only where its
\* own user changed it too, where it takes an alias out by putting it in
\* another place, or where it sends what nobody changed and the other user
\* wrote after the form had been filled.  (getAliasActionsByDiffArray,
\* differenceWith, updateMappings, and the forms that send all.)
OthersKept ==
    [][\A s \in sent : \A p \in s.calls : Applies(s, p) =>
         \A i \in theirs : held'[i] # held[i] =>
           \/ s.want[i] # s.was[i] \/ i \in s.lost
           \/ Sweeps(s, i) /\ i \in s.stale \cup s.over]_uvars

=============================================================================
