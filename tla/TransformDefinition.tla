------------------------ MODULE TransformDefinition ------------------------
(***************************************************************************)
(* The second step of the transform wizard: the list of group-by and       *)
(* aggregation items the user has chosen, and the two parts of the         *)
(* document made of it.  Adding, renaming and removing an item asks the    *)
(* cluster for a preview; if the preview of an added item fails the item   *)
(* is removed again, found by its name.  The user goes on meanwhile.       *)
(***************************************************************************)
EXTENDS Naturals, Sequences, SequencesExt

CONSTANTS
    ItemNames,      \* the names an item may get
    MaxItems,       \* bound: items added
    MaxPreviews     \* bound: previews under way

ASSUME DefinitionAssumption == MaxItems \in Nat /\ MaxPreviews \in Nat

VARIABLES
    aggList,    \* the items listed, as numbers of objects
    made,       \* the objects made so far: [type, name], in order
    groups,     \* transformJSON.transform.groups: items by number
    aggs,       \* transformJSON.transform.aggregations: [name -> item]
    previews,   \* previews under way: [of: the item added, or 0]
    created     \* the last document submitted and what was listed then

dvars == <<aggList, made, groups, aggs, previews, created>>

ItemTypes == {"group", "agg"}
Listed == Range(aggList)
ListedNames == {made[i].name : i \in Listed}

-----------------------------------------------------------------------------
\* The items of one type, in the order of the list.
OfType(list, objects, t) ==
    LET upTo[k \in 0..Len(list)] ==
          IF k = 0 THEN <<>>
          ELSE IF objects[list[k]].type = t THEN Append(upTo[k - 1], list[k])
          ELSE upTo[k - 1]
    IN upTo[Len(list)]

Aggregations(list, objects) == {i \in Range(list) : objects[i].type = "agg"}

\* updateGroup: no group is written if none is listed.
UpdateGroup(list) ==
    LET listed == OfType(list, made', "group") IN
    groups' = IF listed # <<>> THEN listed ELSE groups

\* updateAggregation: an object with the name of each item as a key; the
\* last of two items of one name stays.
UpdateAggregation(list) ==
    LET listed == Aggregations(list, made') IN
    aggs' = [n \in {made'[i].name : i \in listed} |->
               CHOOSE i \in listed :
                 made'[i].name = n /\ \A m \in listed : made'[m].name = n => m <= i]

\* aggList.findIndex, -1 being 0 here.
FindIndex(name) ==
    IF \E k \in DOMAIN aggList : made[aggList[k]].name = name
    THEN CHOOSE k \in DOMAIN aggList :
           /\ made[aggList[k]].name = name
           /\ \A m \in 1..(k - 1) : made[aggList[m]].name # name
    ELSE 0

\* Mutant of Spliced: the item after the one found.
SplicedNext(k) == IF k < Len(aggList) THEN RemoveAt(aggList, k + 1) ELSE aggList

\* aggList.splice(k, 1): an index of -1 counts from the end.
Spliced(k) ==
    IF aggList = <<>> THEN <<>>
    ELSE RemoveAt(aggList, IF k = 0 THEN Len(aggList) ELSE k)

-----------------------------------------------------------------------------
DefinitionInit ==
    /\ aggList = <<>> /\ made = <<>>
    /\ groups = <<>> /\ aggs = <<>>
    /\ previews = <<>>
    /\ created = [sent |-> FALSE]

\* onGroupSelectionChange, onAggregationSelectionChange, up to the preview.
\* Nothing keeps the user from choosing the same option twice.
Add(type, name) ==
    /\ Len(made) < MaxItems /\ Len(previews) < MaxPreviews
    /\ made' = Append(made, [type |-> type, name |-> name])
    /\ aggList' = Append(aggList, Len(made'))
    /\ IF type = "group" THEN UpdateGroup(aggList') /\ UNCHANGED aggs
                         ELSE UpdateAggregation(aggList') /\ UNCHANGED groups
    /\ previews' = Append(previews, Len(made'))
    /\ UNCHANGED created

\* onRemoveTransformation, up to its preview.
Remove_(name) ==
    /\ aggList' = Spliced(FindIndex(name))
    /\ UNCHANGED made
    /\ UpdateGroup(aggList') /\ UpdateAggregation(aggList')

\* The menu of a listed item.
RemoveTransformation(name) ==
    /\ name \in ListedNames /\ Len(previews) < MaxPreviews
    /\ Remove_(name)
    /\ previews' = Append(previews, 0)
    /\ UNCHANGED created

\* onEditTransformation: the object is renamed in place.  The panel refuses
\* the name of another item.
EditTransformation(old, new) ==
    /\ old \in ListedNames /\ new \notin ListedNames
    /\ Len(previews) < MaxPreviews
    /\ made' = [made EXCEPT ![aggList[FindIndex(old)]].name = new]
    /\ UNCHANGED aggList
    /\ UpdateGroup(aggList) /\ UpdateAggregation(aggList)
    /\ previews' = Append(previews, 0)
    /\ UNCHANGED created

Answered(k) == previews' = RemoveAt(previews, k)

PreviewOk(k) ==
    /\ Answered(k)
    /\ UNCHANGED <<aggList, made, groups, aggs, created>>

\* A preview that fails or throws: of an item that was added, the item with
\* its name is removed, and another preview asked for.
PreviewFails(k) ==
    /\ IF previews[k] = 0
       THEN Answered(k) /\ UNCHANGED <<aggList, made, groups, aggs>>
       ELSE /\ Remove_(made[previews[k]].name)
            /\ previews' = Append(RemoveAt(previews, k), 0)
    /\ UNCHANGED created

\* onChangeSourceIndex: another source index, or the page opened again, whose
\* document is still that of the last time.
ChangeSourceIndex ==
    /\ aggList' = <<>>
    /\ UNCHANGED <<made, groups, aggs, previews, created>>

\* Mutant of Completed: the document is sent as it stands.
CompletedAsIs == UNCHANGED <<groups, aggs>>

\* onSubmit writes both parts once more.
Completed == UpdateGroup(aggList) /\ UpdateAggregation(aggList)

SubmitTransform ==
    /\ UNCHANGED <<aggList, made, previews>>
    /\ Completed
    /\ created' = [sent |-> TRUE, groups |-> groups', aggs |-> aggs',
                   list |-> aggList, made |-> made]

DefinitionNext ==
    \/ \E t \in ItemTypes, n \in ItemNames : Add(t, n)
    \/ \E n \in ItemNames : RemoveTransformation(n)
    \/ \E o, n \in ItemNames : EditTransformation(o, n)
    \/ \E k \in DOMAIN previews : PreviewOk(k)
    \/ \E k \in DOMAIN previews : PreviewFails(k)
    \/ ChangeSourceIndex
    \/ SubmitTransform

DefinitionSpec == DefinitionInit /\ [][DefinitionNext]_dvars

-----------------------------------------------------------------------------
(* Properties.                                                              *)

DefinitionTypeOK ==
    /\ made \in Seq([type : ItemTypes, name : ItemNames])
    /\ aggList \in Seq(DOMAIN made) /\ groups \in Seq(DOMAIN made)
    /\ previews \in Seq({0} \cup DOMAIN made)

\* The transform that is created computes what the wizard lists: an entry for
\* each aggregation, and the groups in their order.  A list without groups is
\* sent with the groups the document had before.  (updateGroup,
\* updateAggregation, onSubmit.)
CreatesWhatIsListed ==
    created.sent =>
      LET grouped    == OfType(created.list, created.made, "group")
          aggregated == Aggregations(created.list, created.made)
      IN /\ grouped # <<>> => created.groups = grouped
         /\ DOMAIN created.aggs = {created.made[i].name : i \in aggregated}
         /\ \A n \in DOMAIN created.aggs :
              created.aggs[n] \in aggregated /\ created.made[created.aggs[n]].name = n

\* The answer to a preview takes at most one item off the list, and while the
\* item it was for is listed it is one of that name: the user's own renaming
\* and removing of other items meanwhile does not divert it.
FailureTakesOne ==
    [][\A k \in DOMAIN previews :
         previews[k] \in Listed /\ PreviewFails(k) =>
           /\ Len(aggList') = Len(aggList) - 1
           /\ \A i \in Listed :
                (\A m \in DOMAIN aggList' : aggList'[m] # i)
                  => made[i].name = made[previews[k]].name]_dvars

\* A failed preview removes the item it was for: "If preview successfully
\* update groupings, else remove from list of transformation"
\* (CreateTransformForm.tsx:384).  No item of another name goes.  If the user
\* has removed the item meanwhile, findIndex gives -1 and splice takes the
\* last item of the list.
RemovesOnlyFailed ==
    [][\A k \in DOMAIN previews :
         previews[k] # 0 /\ PreviewFails(k) =>
           \A i \in Listed : made[i].name # made[previews[k]].name =>
             \E m \in DOMAIN aggList' : aggList'[m] = i]_dvars

=============================================================================
