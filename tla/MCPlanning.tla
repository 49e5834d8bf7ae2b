----------------------------- MODULE MCPlanning -----------------------------
(***************************************************************************)
(* From a prompt to tasks on the bus: the instances of Authoring,          *)
(* ContractRevision, PlanExecution and Publishing for TLC.                 *)
(*                                                                         *)
(* The components are explored one beside the other: `part` names the one  *)
(* that moves and never changes, so that a behaviour of this module is a   *)
(* behaviour of one instance while the variables of the others rest.  Two  *)
(* instances of one component share its variables.                         *)
(*                                                                         *)
(* PlanExecution, Publishing and ContractRevision are extended: their      *)
(* constants are given by the definitions below; the parts "nodes" and     *)
(* "keys" explore the one instance of the first, "api" and "daily" that of *)
(* the second, and "revision" that of the third.                           *)
(***************************************************************************)
EXTENDS PlanExecution, Publishing, ContractRevision, TLC

CONSTANTS
    Parts,          \* the instances to explore
    apiKey, a, b    \* the key and the trees of the API: values unlike any time

VARIABLES
    part,
    raw, tree, active, authRecord, response, tasks, lock, authJob, authGiven,
    authSends, authCrashes

authVars == <<raw, tree, active, authRecord, response, tasks, lock, authJob, authGiven,
              authSends, authCrashes>>
vars == <<part, planExecutionVars, publishingVars, authVars, revVars>>

-----------------------------------------------------------------------------
(* A plan of two nodes that two commands may publish, under one key or     *)
(* under two.                                                              *)

PlanTasks == {"t1", "t2", "t3", "t4"}
PlanSessions == [t \in PlanTasks |-> "s"]
PlanCapabilities == [t \in PlanTasks |-> "cap"]
PlanRanks == [t1 |-> 1, t2 |-> 2, t3 |-> 3, t4 |-> 4]
PlanNodes == <<"n1", "n2">>
PlanTaskIds == <<"n1", "k1">> :> "t1" @@ <<"n2", "k1">> :> "t2"
               @@ <<"n1", "k2">> :> "t3" @@ <<"n2", "k2">> :> "t4"

\* One thread handles the publish commands, all of one key: a retried command.
OneKey == pub'["p1"].key # "k2" /\ UNCHANGED pub["p2"]

\* Two threads publish; the user only archives, and there is no crash.
TwoKeys ==
    /\ crashes' = 0
    /\ commands' # commands => arch' # arch

(* Two trees that share their first node under one key of the API, and a   *)
(* daily schedule whose requests pass a pipeline: one publisher at a time. *)

Trees == a :> <<"x", "y">> @@ b :> <<"x", "z">>
DailyNodes == <<"x", "y">>
RunTimes == Time

ApiAlone ==
    /\ now' = now /\ schedule' = schedule /\ call'[Scheduler] = IdleCall
    /\ requests' <= 3 /\ publisherCrashes' <= 1

ScheduleAlone == \A h \in Handler : call'[h] = IdleCall

(* Authoring with plans, up to the draft tree; and without, up to the bus. *)

Prompt(k) == [kind |-> "prompt", key |-> k, on |-> 0]
On(kind, k, i) == [kind |-> kind, key |-> k, on |-> i]

Planning == INSTANCE Authoring WITH
    Thread <- {"t1", "t2"}, Plans <- TRUE, MaxSends <- 3, MaxCrash <- 1,
    Request <- {Prompt("k1"), On("answer", "k2", 1), On("generate", "k2", 1)},
    record <- authRecord, job <- authJob, given <- authGiven, sends <- authSends,
    crashes <- authCrashes

Legacy == INSTANCE Authoring WITH
    Thread <- {"t1", "t2"}, Plans <- FALSE, MaxSends <- 3, MaxCrash <- 1,
    Request <- {Prompt("k1"), On("publish", "k2", 0), On("publish", "k3", 0),
                On("edit", "no key", 1), On("refine", "no key", 1), On("repair", "k4", 0)},
    record <- authRecord, job <- authJob, given <- authGiven, sends <- authSends,
    crashes <- authCrashes

(* Every kind of contract command; "k1" is used for two requests.          *)

Guide(k, scope, p, n) ==
    [key |-> k, kind |-> "guidance", scope |-> scope, plan |-> p, node |-> n]
Contract(k, kind, scope, n) ==
    [key |-> k, kind |-> kind, scope |-> scope, plan |-> 0, node |-> n]

RevisionCommands ==
    {Guide("k1", "task", 1, 2), Guide("k2", "ask", 0, 0),
     Contract("k1", "create", "session", 0),
     [key |-> "k3", kind |-> "create", scope |-> "plan", plan |-> 1, node |-> 0],
     Contract("k4", "execute", "session", 0), Contract("k5", "delete", "task", 1),
     Contract("k6", "ask", "ask", 0)}

ASSUME PlanningAssumption ==
    Planning!RequestAssumption /\ Legacy!RequestAssumption

-----------------------------------------------------------------------------
Init ==
    /\ part \in Parts
    /\ PlanInit
    /\ PublishingInit
    /\ IF part = "legacy" THEN Legacy!Init ELSE Planning!Init
    /\ RevInit

PlanPart ==
    /\ PlanNext
    /\ \/ part = "nodes" /\ OneKey
       \/ part = "keys" /\ TwoKeys
    /\ UNCHANGED <<part, publishingVars, authVars, revVars>>

PublishPart ==
    /\ PublishingNext
    /\ \/ part = "api" /\ ApiAlone
       \/ part = "daily" /\ ScheduleAlone
    /\ UNCHANGED <<part, planExecutionVars, authVars, revVars>>

AuthorNext ==
    /\ \/ part = "planning" /\ Planning!Next
       \/ part = "legacy" /\ Legacy!Next
    /\ UNCHANGED <<part, planExecutionVars, publishingVars, revVars>>

RevisePart ==
    /\ part = "revision" /\ RevNext
    /\ UNCHANGED <<part, planExecutionVars, publishingVars, authVars>>

Next == PlanPart \/ PublishPart \/ AuthorNext \/ RevisePart

Spec == Init /\ [][Next]_vars

-----------------------------------------------------------------------------
(* The properties of the components, for the instance that moves; those of *)
(* the extended components hold as they stand.                             *)

\* Authoring commands do their work once and report what is stored
\* (authoring_commands.py and its stores).
AuthoringSound == part \in {"planning", "legacy"} =>
    IF part = "legacy" THEN Legacy!AuthoringSound ELSE Planning!AuthoringSound
=============================================================================
