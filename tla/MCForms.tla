------------------------------ MODULE MCForms ------------------------------
(* The pages that create and edit jobs, the definition of a transform, the  *)
(* operations on an index and the updates of an index, each by itself: they *)
(* share nothing.  part says which of them this behaviour is about.         *)
EXTENDS JobForm, TransformDefinition, IndexOperation, IndexUpdate

VARIABLE part

\* Jobs as the cluster may hold them.
MCDoc(given) == [f \in Field |-> IF f \in DOMAIN given THEN given[f] ELSE 0]
MCJobDocs ==
    [rollup |->
       {MCDoc([option |-> 1, schedule |-> 1, zone |-> 2, delay |-> 1]),
        MCDoc([enabled |-> 1, start |-> 1, delay |-> 2])},
     transform |->
       {MCDoc([enabled |-> 1, schedule |-> 1, start |-> 1]),
        MCDoc([schedule |-> 2, zone |-> 2])},
     policy |->
       {MCDoc([enabled |-> 1, option |-> 1, schedule |-> 2, zone |-> 2,
               retention |-> 1, age |-> 3, frequency |-> 1, dzone |-> 1]),
        MCDoc([zone |-> 2, retention |-> 1, frequency |-> 2, dzone |-> 2])}]

\* Two aliases, a field that is not there yet, a parameter of the mappings
\* and two settings.
MCParts == {"first", "second", "field", "dynamic", "setting", "other"}
MCGroup ==
    [i \in MCParts |-> CASE i \in {"first", "second"} -> "aliases"
                         [] i \in {"field", "dynamic"} -> "mappings"
                         [] i \in {"setting", "other"} -> "settings"]
MCPlace == [i \in MCParts |-> IF i = "second" THEN 2 ELSE 1]
MCStored_ == [i \in MCParts |-> IF i = "field" THEN 0 ELSE 1]

\* A part that is not looked at has one initial state.
MCInit ==
    /\ FormInit /\ DefinitionInit /\ OperationInit /\ UpdateInit
    /\ part \in {"job", "transform", "operation", "update"}
    /\ where = "local"
    /\ part # "job" => kind = CreateRollup
    /\ ~kind.edits => job["local"].doc = CHOOSE d \in JobDocs[kind.of] : TRUE
    /\ part # "operation" => operation = ForceMerge
    /\ part # "update" => update = EditIndex

\* The items that somebody changes: the order of two aliases matters to the
\* forms that send what differs, a second setting to one request for each.
MCWritten ==
    CASE update = NotificationSettings -> {"setting", "other"}
      [] update = EditTemplate -> MCParts \ {"second", "other"}
      [] OTHER -> MCParts \ {"other"}

\* The details page is used beside the pages that edit the same job.  The
\* schedule and the zone of a policy stand for its other inputs, and a form
\* that sends everything sees two changes in all.
MCNext ==
    \/ /\ part = "job" /\ FormNext /\ UNCHANGED <<part, dvars, ovars, uvars>>
       /\ elsewhere' # elsewhere => kind.edits
       /\ kind.of = "policy" => "option" \notin touched'
    \/ part = "transform" /\ DefinitionNext /\ UNCHANGED <<part, fvars, ovars, uvars>>
    \/ part = "operation" /\ OperationNext /\ UNCHANGED <<part, fvars, dvars, uvars>>
    \/ /\ part = "update" /\ UpdateNext /\ UNCHANGED <<part, fvars, dvars, ovars>>
       /\ \A i \in MCParts \ MCWritten :
            edited'[i] = old'[i] /\ held'[i] = held[i]
       /\ held'["other"] # 2 /\ edited'["other"] # 2
       /\ update.all => ucounts'.typed + ucounts'.foreign <= 2

MCSpec ==
    /\ MCInit
    /\ [][MCNext]_<<part, fvars, dvars, ovars, uvars>>
    /\ FormFairness /\ OperationFairness

\* The variables of the four parts have their types.
FormsTypeOK == FormTypeOK /\ DefinitionTypeOK /\ OperationTypeOK /\ UpdateTypeOK
=============================================================================
