---------------------------- MODULE RuntimeConfig ----------------------------
(***************************************************************************)
(* Runtime configuration: the PATCH route, the mutation service, the       *)
(* SQLite ledger of changes and snapshots, the ConfigBus and its logging   *)
(* consumer.                                                               *)
(*                                                                         *)
(* A request is [idem, scope, values, expects, partial, dry]; values maps  *)
(* key names to values, and expects says where the client took the base    *)
(* hash from, if it sends one.  A configuration stands for its own hash.   *)
(* Changes are numbered in the order of insertion.  The ledger survives a  *)
(* crash; the levels the logging manager holds do not.                     *)
(***************************************************************************)
EXTENDS Naturals, Sequences, FiniteSets

CONSTANTS
    ConfigThread,    \* HTTP request threads
    ConfigRequest,   \* the patches clients send
    Registry,        \* name -> [default, live, secret, levels, valid]
    BaseLayer,       \* [source, priority, values]: the service's base layer
    ProcessLayer,    \* the same for the gateway that answers GET effective
    KnownLevels,     \* the levels normalize_level knows; the registry takes any text
    MaxConfigSends,  \* bound: requests sent
    MaxConfigCrashes \* bound: crashes

Name == DOMAIN Registry
LevelKey == "level"    \* logging.level, the one key with a consumer

\* Layers set keys of the registry; the level is hot-applied (registry.py).
ASSUME ConfigAssumption ==
    /\ \A l \in {BaseLayer, ProcessLayer} : DOMAIN l.values \subseteq DOMAIN Registry
    /\ LevelKey \in DOMAIN Registry /\ Registry[LevelKey].live
    /\ MaxConfigSends \in Nat /\ MaxConfigCrashes \in Nat

VARIABLES
    changes,     \* runtime_config_changes: [req, status, accepted, requested, base, result]
    snapshots,   \* runtime_config_snapshots: [hash, change]
    published,   \* changes given to the ConfigBus, in order
    overrides,   \* the logging manager's overrides of a category: [scope, level], in order
    configJob,   \* what each thread is doing
    configAnswers,  \* [req, code, change] returned to clients; change 0 is none
    configShared,   \* history: two requests have been served at a time
    configSends, configCrashes

configVars == <<changes, snapshots, published, overrides, configJob, configAnswers,
                configShared, configSends, configCrashes>>

NoPatchJob == [pc |-> "idle"]

ConfigInit ==
    /\ changes = <<>> /\ snapshots = {} /\ published = <<>> /\ overrides = <<>>
    /\ configJob = [t \in ConfigThread |-> NoPatchJob]
    /\ configAnswers = {} /\ configShared = FALSE /\ configSends = 0 /\ configCrashes = 0

-----------------------------------------------------------------------------
(* RuntimeConfigResolver *)

DefaultLayer == [source |-> "built_in_defaults", priority |-> 0,
                 values |-> [n \in Name |-> Registry[n].default]]

RuntimePatchPriority == 80

PatchLayer(r, values) ==
    [source |-> r.idem, priority |-> RuntimePatchPriority,
     values |-> values]

\* Only a patch has to wait for its key's boundary.
EffectiveStatus(n, l) ==
    IF l.priority # RuntimePatchPriority \/ Registry[n].live THEN "active" ELSE "pending"

\* Of the layers that have a key the one of highest priority gives its value.
ResolveLayers(layers) ==
    [n \in Name |->
        LET having == {l \in layers \cup {DefaultLayer} : n \in DOMAIN l.values}
            l == CHOOSE x \in having : \A y \in having : y.priority <= x.priority
        IN [value |-> l.values[n], source |-> l.source, status |-> EffectiveStatus(n, l)]]

Base == ResolveLayers({BaseLayer})
Effective == ResolveLayers({ProcessLayer})

-----------------------------------------------------------------------------
(* DefaultRuntimeConfigMutationService.validate_patch *)

ExpectedHash(r) == [effective |-> Effective, base |-> Base][r.expects]

Stale(r) == r.expects # "none" /\ ExpectedHash(r) # Base

\* The keys that pass every check of the registry.
Acceptable(r) ==
    {n \in DOMAIN r.values \cap Name :
        /\ r.scope \in Registry[n].levels
        /\ ~Registry[n].secret
        /\ r.values[n] \in Registry[n].valid}

NoOp(r) == \A n \in DOMAIN r.values : r.values[n] = Base[n].value

PatchStatus(r) ==
    LET whole == Acceptable(r) = DOMAIN r.values
    IN CASE Stale(r) \/ Acceptable(r) = {} -> "rejected"
         [] ~whole /\ ~r.partial -> "rejected"
         [] whole /\ NoOp(r) -> "no_op"
         [] OTHER -> "accepted"

\* Secrets are redacted, except in a patch refused for its base hash.
Requested(r) ==
    [n \in DOMAIN r.values |->
        IF ~Stale(r) /\ n \in Name /\ Registry[n].secret /\ r.scope \in Registry[n].levels
          THEN "<redacted>" ELSE r.values[n]]

\* What is accepted of a patch.
Accepted(r) ==
    [n \in IF PatchStatus(r) = "accepted" THEN Acceptable(r) ELSE {} |-> r.values[n]]

\* The row of a patch in the ledger.
Change(r) ==
    [req |-> r, status |-> PatchStatus(r), requested |-> Requested(r), accepted |-> Accepted(r),
     base |-> Base,
     result |-> CASE PatchStatus(r) = "rejected" -> <<>>
                  [] PatchStatus(r) = "no_op" -> Base
                  [] OTHER -> ResolveLayers({BaseLayer, PatchLayer(r, Accepted(r))})]

-----------------------------------------------------------------------------
(* The PATCH route and apply_patch. *)

AtPc(t, pc) == configJob[t].pc = pc
GotoPc(t, pc) == configJob' = [configJob EXCEPT ![t].pc = pc]
Req(t) == configJob[t].req

ReplyTo(t, code, c) ==
    /\ configJob' = [configJob EXCEPT ![t] = NoPatchJob]
    /\ configAnswers' = configAnswers \cup {[req |-> Req(t), code |-> code, change |-> c]}

PatchJob(r) == [pc |-> IF r.dry THEN "apply" ELSE "route", req |-> r, change |-> 0, seen |-> <<>>]

SendPatch(t, r) ==
    /\ AtPc(t, "idle") /\ configSends < MaxConfigSends
    /\ configSends' = configSends + 1
    /\ configJob' = [configJob EXCEPT ![t] = PatchJob(r)]
    /\ configShared' = (configShared \/ \E u \in ConfigThread : ~AtPc(u, "idle"))
    /\ UNCHANGED <<changes, snapshots, published, overrides, configAnswers, configCrashes>>

\* get_change_by_idempotency_key: keys count within one scope.
Existing(r) ==
    {c \in DOMAIN changes : changes[c].req.idem = r.idem /\ changes[c].req.scope = r.scope}

\* _matches_existing_patch
Matches(r, c) ==
    /\ changes[c].requested = r.values
    /\ r.expects # "none" => ExpectedHash(r) = changes[c].base

RouteLookup(t) ==
    /\ AtPc(t, "route")
    /\ \/ /\ Existing(Req(t)) = {}
          /\ GotoPc(t, "service")
          /\ UNCHANGED configAnswers
       \/ \E c \in Existing(Req(t)) :
            \/ Matches(Req(t), c) /\ ReplyTo(t, "replayed", c)
            \/ ~Matches(Req(t), c) /\ ReplyTo(t, "conflict", 0)
    /\ UNCHANGED <<changes, snapshots, published, overrides, configShared, configSends,
                   configCrashes>>

\* apply_patch looks the key up again and compares nothing.
ServiceLookup(t) ==
    /\ AtPc(t, "service")
    /\ \/ /\ Existing(Req(t)) = {}
          /\ GotoPc(t, "apply")
          /\ UNCHANGED configAnswers
       \/ \E c \in Existing(Req(t)) : ReplyTo(t, "ok", c)
    /\ UNCHANGED <<changes, snapshots, published, overrides, configShared, configSends,
                   configCrashes>>

Inserted(t) ==
    /\ changes' = Append(changes, Change(Req(t)))
    /\ configJob' = [configJob EXCEPT ![t] = [@ EXCEPT !.pc = "snapshot", !.change = Len(changes) + 1]]
    /\ UNCHANGED configAnswers

\* Faulty: the table has no unique index on key and scope.
AppendChangeAgain(t) ==
    /\ AtPc(t, "apply")
    /\ \/ Req(t).dry /\ ReplyTo(t, "dry_run", 0) /\ UNCHANGED changes
       \/ ~Req(t).dry /\ Inserted(t)
    /\ UNCHANGED <<snapshots, published, overrides, configShared, configSends, configCrashes>>

\* validate_patch and append_change; the unique index refuses a second change.
AppendChange(t) ==
    /\ AtPc(t, "apply")
    /\ \/ Req(t).dry /\ ReplyTo(t, "dry_run", 0) /\ UNCHANGED changes
       \/ /\ ~Req(t).dry /\ Existing(Req(t)) # {}
          /\ ReplyTo(t, "unavailable", 0)
          /\ UNCHANGED changes
       \/ ~Req(t).dry /\ Existing(Req(t)) = {} /\ Inserted(t)
    /\ UNCHANGED <<snapshots, published, overrides, configShared, configSends, configCrashes>>

SaveSnapshot(t) ==
    /\ AtPc(t, "snapshot")
    /\ LET c == changes[configJob[t].change]
       IN snapshots' = IF c.status = "rejected" THEN snapshots
                       ELSE snapshots \cup {[hash |-> c.result, change |-> configJob[t].change]}
    /\ GotoPc(t, "publish")
    /\ UNCHANGED <<changes, published, overrides, configAnswers, configShared, configSends,
                   configCrashes>>

\* The accepted keys whose value may be used at once.
ActiveKeys(c) == {n \in DOMAIN c.accepted : c.result[n].status = "active"}

\* The scope of an override: a session, or any for every other scope of a patch.
OverrideScope(scope) == IF scope \in {"global", "workspace"} THEN "any" ELSE scope

\* The consumer skips null, and for a level it does not know normalize_level
\* raises and the bus swallows it.
Applies(c) == LevelKey \in ActiveKeys(c) /\ c.accepted[LevelKey] \in KnownLevels

\* publish_change, and the consumer's reading of the manager's overrides.
PublishChange(t) ==
    /\ AtPc(t, "publish")
    /\ LET c == changes[configJob[t].change]
       IN /\ published' = IF c.status = "accepted" THEN Append(published, configJob[t].change)
                          ELSE published
          /\ \/ /\ Applies(c)
                /\ configJob' = [configJob EXCEPT ![t] = [@ EXCEPT !.pc = "level", !.seen = overrides]]
                /\ UNCHANGED configAnswers
             \/ ~Applies(c) /\ ReplyTo(t, "ok", configJob[t].change)
    /\ UNCHANGED <<changes, snapshots, overrides, configShared, configSends, configCrashes>>

\* LoggingManager.set_level: the overrides read before, and one more.
SetLevel(t) ==
    /\ AtPc(t, "level")
    /\ LET c == changes[configJob[t].change]
       IN overrides' = Append(configJob[t].seen, [scope |-> OverrideScope(c.req.scope),
                                                  level |-> c.accepted[LevelKey]])
    /\ ReplyTo(t, "ok", configJob[t].change)
    /\ UNCHANGED <<changes, snapshots, published, configShared, configSends, configCrashes>>

\* What is in memory is lost: the levels applied so far with the rest.
ConfigCrash ==
    /\ configCrashes < MaxConfigCrashes
    /\ configCrashes' = configCrashes + 1
    /\ configJob' = [t \in ConfigThread |-> NoPatchJob]
    /\ overrides' = <<>> /\ published' = <<>>
    /\ UNCHANGED <<changes, snapshots, configAnswers, configShared, configSends>>

ConfigNext ==
    \/ \E t \in ConfigThread :
         \/ \E r \in ConfigRequest : SendPatch(t, r)
         \/ RouteLookup(t) \/ ServiceLookup(t) \/ AppendChange(t) \/ SaveSnapshot(t)
         \/ PublishChange(t) \/ SetLevel(t)
    \/ ConfigCrash

ConfigSpec == ConfigInit /\ [][ConfigNext]_configVars

-----------------------------------------------------------------------------
(* Properties *)

ChangeRow == {Change(r) : r \in ConfigRequest}
Override == [scope : {OverrideScope(r.scope) : r \in ConfigRequest}, level : KnownLevels]
BusyJob == [pc : {"route", "service", "apply", "snapshot", "publish", "level"},
            req : ConfigRequest, change : Nat, seen : Seq(Override)]
ReplyCode == {"ok", "replayed", "conflict", "unavailable", "dry_run"}

\* The ledger has the rows of patches that were sent, and an override has a
\* level there is.
ConfigTypeOK ==
    /\ changes \in Seq(ChangeRow)
    /\ snapshots \subseteq [hash : {c.result : c \in ChangeRow}, change : Nat]
    /\ published \in Seq(Nat)
    /\ overrides \in Seq(Override)
    /\ configJob \in [ConfigThread -> BusyJob \cup {NoPatchJob}]
    /\ configAnswers \subseteq [req : ConfigRequest, code : ReplyCode, change : Nat]
    /\ configShared \in BOOLEAN /\ configCrashes \in Nat

\* An event, a snapshot and an answer name a change of the ledger.
NamesAChange ==
    /\ \A i \in DOMAIN published : published[i] \in DOMAIN changes
    /\ \A s \in snapshots : s.change \in DOMAIN changes /\ s.hash = changes[s.change].result
    /\ \A a \in configAnswers : a.change \in DOMAIN changes \cup {0}

\* An idempotency key has one change in its scope, however its requests overlap
\* (two lookups without a lock, then the unique index).
KeyOnce ==
    \A i, j \in DOMAIN changes :
        changes[i].req.idem = changes[j].req.idem /\ changes[i].req.scope = changes[j].req.scope
          => i = j

\* No replay, no rejected and no no-op change is published, and none twice.
PublishedOnce ==
    /\ \A i, j \in DOMAIN published : published[i] = published[j] => i = j
    /\ \A i \in DOMAIN published : changes[published[i]].status = "accepted"

\* Unless partial acceptance is asked for, one bad key keeps every value of its
\* patch out of the ledger and away from the consumer.
AllOrNothing ==
    \A i \in DOMAIN changes :
        ~changes[i].req.partial /\ changes[i].status = "accepted"
          => DOMAIN changes[i].accepted = DOMAIN changes[i].req.values

\* No value of a secret key is accepted, so none reaches an event.
SecretsStayOut ==
    \A i \in DOMAIN changes : \A n \in DOMAIN changes[i].accepted : ~Registry[n].secret

\* A change that sets the level.
SetsLevel(c) ==
    /\ changes[c].status = "accepted" /\ LevelKey \in DOMAIN changes[c].accepted
    /\ changes[c].accepted[LevelKey] \in KnownLevels

\* Where records come from: a session, or none.
Contexts == {"any"} \cup {OverrideScope(r.scope) : r \in ConfigRequest}

\* LogScope.matches
Reaches(scope, context) == scope = "any" \/ scope = context

\* The level of a context is the one of the last override that reaches it
\* (_resolve_effective_rule).
InForce(context, level) ==
    \E i \in DOMAIN overrides :
        /\ Reaches(overrides[i].scope, context) /\ overrides[i].level = level
        /\ \A j \in DOMAIN overrides : j > i => ~Reaches(overrides[j].scope, context)

\* A change that sets the level in a context.
SetsIn(c, context) == SetsLevel(c) /\ Reaches(OverrideScope(changes[c].req.scope), context)

\* At rest the level in force is the one of the last change that was accepted with
\* a level there is and reaches the context: nothing applied before has come back.
\* A workspace's level replaces a session's that was set earlier, and an accepted
\* text that is no level leaves the old one in force though it is reported active.
AcceptedInForce ==
    (\A t \in ConfigThread : AtPc(t, "idle")) =>
        \A context \in Contexts, c \in DOMAIN changes :
            /\ SetsIn(c, context)
            /\ \A d \in DOMAIN changes : d > c => ~SetsIn(d, context)
            => InForce(context, changes[c].accepted[LevelKey])

\* A change a client has been told of as accepted or no_op has its snapshot.
AnsweredHasSnapshot ==
    \A a \in configAnswers :
        a.change # 0 /\ changes[a.change].status # "rejected"
          => \E s \in snapshots : s.change = a.change

\* A client gets the change of its own patch, or of one recorded just like it.
AnswerIsOwn ==
    \A a \in configAnswers : a.change # 0 =>
        changes[a.change].req = a.req \/ changes[a.change].requested = a.req.values

\* The ledger takes a patch once and whole, and no secret; and as long as
\* requests are served one at a time and nothing crashes, a level accepted is
\* in force, has its snapshot and is answered to the client that sent it.
ConfigSound ==
    /\ ConfigTypeOK /\ NamesAChange /\ KeyOnce /\ PublishedOnce /\ AllOrNothing
    /\ SecretsStayOut
    /\ ~configShared /\ configCrashes = 0 =>
         AcceptedInForce /\ AnsweredHasSnapshot /\ AnswerIsOwn

-----------------------------------------------------------------------------
(* The inductive invariant. *)

\* The pcs of a job whose change is in the ledger.
Holding == {"snapshot", "publish", "level"}

\* A job that holds a change inserted it, alone; it is not published before its
\* turn, and sets a level it accepted.
JobsHold ==
    \A t \in ConfigThread : configJob[t].pc \in Holding =>
        /\ configJob[t].change \in DOMAIN changes
        /\ changes[configJob[t].change].req = configJob[t].req
        /\ \A u \in ConfigThread :
              u # t /\ configJob[u].pc \in Holding => configJob[u].change # configJob[t].change
        /\ configJob[t].pc # "level" =>
              \A i \in DOMAIN published : published[i] # configJob[t].change
        /\ configJob[t].pc = "level" => SetsLevel(configJob[t].change)

\* What one request at a time knows: no other is served, its key is unused
\* until it inserts, then its change is the last, and the overrides are those
\* it read.
ServedAlone ==
    \A t \in ConfigThread : ~AtPc(t, "idle") =>
        /\ \A u \in ConfigThread : u # t => AtPc(u, "idle")
        /\ configJob[t].pc = "service" => Existing(Req(t)) = {}
        /\ configJob[t].pc \in Holding => configJob[t].change = Len(changes)
        /\ configJob[t].pc = "level" => configJob[t].seen = overrides

\* A change no job holds.
Free(c, pcs) ==
    \A t \in ConfigThread : configJob[t].pc \in pcs => configJob[t].change # c

\* The level of a change that its job has left is in force.
LevelsSettled ==
    \A context \in Contexts, c \in DOMAIN changes :
        /\ Free(c, Holding) /\ SetsIn(c, context)
        /\ \A d \in DOMAIN changes : d > c /\ Free(d, Holding) => ~SetsIn(d, context)
        => InForce(context, changes[c].accepted[LevelKey])

\* A change that is past its snapshot has one.
SnapshotsTaken ==
    \A c \in DOMAIN changes :
        Free(c, {"snapshot"}) /\ changes[c].status # "rejected"
          => \E s \in snapshots : s.change = c

ChangesSettled == LevelsSettled /\ SnapshotsTaken

ConfigInv ==
    /\ ConfigTypeOK /\ NamesAChange /\ KeyOnce /\ PublishedOnce /\ JobsHold
    /\ ~configShared => ServedAlone
    /\ ~configShared /\ configCrashes = 0 => ChangesSettled /\ AnsweredHasSnapshot /\ AnswerIsOwn
=============================================================================
