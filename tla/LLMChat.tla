------------------------------- MODULE LLMChat -------------------------------
(***************************************************************************)
(* Chat requests through the lazily configured client, the retry loop of   *)
(* the provider and the decorator that records token usage.  An error of   *)
(* the SDK is its kind; Settings hold the model, "none" before first run.  *)
(***************************************************************************)
EXTENDS Naturals, Sequences, FiniteSets

CONSTANTS
    Callers,      \* threads that share the client
    Models,       \* models Settings can name
    Faults,       \* what an attempt can end in besides an answer
    Usages,       \* token usage of an answer: [hit, input, misses]
    MaxAttempts,  \* RetryPolicy.max_attempts
    MaxChats,     \* requests in all
    MaxSaves      \* changes of Settings

VARIABLES
    settings,     \* the model Settings name now
    client,       \* the model of the resolved client, or "none"
    chat,         \* the request of each caller
    results,      \* what requests ended in, in order
    ledger,       \* usage events: [id, model, by], id the number of the result
    saves

chatVars == <<settings, client, chat, results, ledger, saves>>
-----------------------------------------------------------------------------
(* Classification of errors.                                                *)

ClassOf == [timeout |-> "retryable", server |-> "retryable", rate |-> "rate_limit",
            auth |-> "fatal_auth", request |-> "fatal_request", context |-> "context_limit",
            capability |-> "fatal_capability", compat |-> "fatal_request", other |-> "unknown"]

\* Errors the provider itself raises, already typed.
Typed == {"capability", "compat"}

Retryable == {"retryable", "rate_limit"}

TypeOf == [retryable |-> "LLMRetryExhaustedError", rate_limit |-> "LLMRetryExhaustedError",
           fatal_auth |-> "LLMAuthError", fatal_request |-> "LLMRequestError",
           fatal_capability |-> "LLMCapabilityError", context_limit |-> "LLMContextLimitError",
           unknown |-> "LLMProviderError"]

\* _raise_final: a typed error that follows retries is raised again as its base class.
RaisedType(fault, records) ==
    IF fault \in Typed /\ records # <<>> THEN "LLMProviderError" ELSE TypeOf[ClassOf[fault]]

\* Token counts that are None are 0; misses: the provider counts cache misses.
NoUsage == [hit |-> 0, input |-> 0, misses |-> FALSE]

NoChat == [at |-> "idle", model |-> "none", timeout |-> FALSE, attempts |-> 0, records |-> <<>>,
           timeouts |-> 0, usage |-> NoUsage]

ChatInit ==
    /\ settings \in Models \cup {"none"}
    /\ client = "none"
    /\ chat = [c \in Callers |-> NoChat]
    /\ results = <<>> /\ ledger = {} /\ saves = 0

Started == Len(results) + Cardinality({c \in Callers : chat[c].at # "idle"})

\* What a request with locals k ends in, and the model Settings name then.
Ending(type, class, k) ==
    [type |-> type, class |-> class, attempts |-> k.attempts, records |-> k.records,
     timeouts |-> k.timeouts, timeout |-> k.timeout, usage |-> k.usage, named |-> settings]

EndsIn(c, ending) ==
    /\ results' = Append(results, ending)
    /\ chat' = [chat EXCEPT ![c] = NoChat]
-----------------------------------------------------------------------------
(* Settings and the client.                                                 *)

\* A save of Settings; the client is not rebuilt.
SaveSettings(m) ==
    /\ saves < MaxSaves /\ m # settings
    /\ settings' = m /\ saves' = saves + 1
    /\ UNCHANGED <<client, chat, results, ledger>>

\* LazyLLMClient._resolve is a check-then-act without a lock: whether there is a
\* client is looked up once, and a second caller may look before the first stores.
Calls(c) ==
    /\ chat[c].at = "idle" /\ Started < MaxChats
    /\ \E t \in BOOLEAN :
         chat' = [chat EXCEPT ![c] = [NoChat EXCEPT !.timeout = t,
                                        !.at = IF client = "none" THEN "build" ELSE "use"]]
    /\ UNCHANGED <<settings, client, results, ledger, saves>>

\* from_env: without a key the request fails, and the next one tries again.
BuildsClient(c) ==
    /\ chat[c].at = "build"
    /\ \/ /\ settings = "none"
          /\ EndsIn(c, Ending("RuntimeError", "config", chat[c]))
       \/ /\ settings # "none"
          /\ chat' = [chat EXCEPT ![c] = [@ EXCEPT !.at = "store", !.model = settings]]
          /\ UNCHANGED results
    /\ UNCHANGED <<settings, client, ledger, saves>>

\* The last client stored stays, whoever built it.
StoresClient(c) ==
    /\ chat[c].at = "store"
    /\ client' = chat[c].model
    /\ chat' = [chat EXCEPT ![c] = [@ EXCEPT !.at = "use"]]
    /\ UNCHANGED <<settings, results, ledger, saves>>

\* The attribute is read again for the call: another's client may be there by now.
UsesClient(c) ==
    /\ chat[c].at = "use"
    /\ chat' = [chat EXCEPT ![c] = [@ EXCEPT !.at = "send", !.model = client]]
    /\ UNCHANGED <<settings, client, results, ledger, saves>>
-----------------------------------------------------------------------------
(* The retry loop.                                                          *)

\* Faulty: a timeout is retried like any other retryable error.
GivesUpAtLastAttempt(k, fault) ==
    \/ ClassOf[fault] \notin Retryable
    \/ k.attempts + 1 = MaxAttempts

\* A failure is final when it is a timeout of a bounded request, is not
\* retryable, or is the last attempt.
GivesUp(k, fault) ==
    \/ k.timeout /\ fault = "timeout"
    \/ ClassOf[fault] \notin Retryable
    \/ k.attempts + 1 = MaxAttempts

\* The locals after one more attempt.
Tried(k, fault) ==
    [k EXCEPT !.attempts = @ + 1, !.timeouts = IF fault = "timeout" THEN @ + 1 ELSE @]

\* An attempt fails: the request ends, or a record is kept and the caller sleeps.
Fails(c, fault) ==
    LET k == chat[c]
        tried == Tried(k, fault)
    IN  /\ k.at = "send"
        /\ \/ /\ GivesUp(k, fault)
              /\ EndsIn(c, Ending(RaisedType(fault, k.records), ClassOf[fault], tried))
           \/ /\ ~GivesUp(k, fault)
              /\ chat' = [chat EXCEPT ![c] = [tried EXCEPT !.at = "sleep",
                                                !.records = Append(k.records, ClassOf[fault])]]
              /\ UNCHANGED results
        /\ UNCHANGED <<settings, client, ledger, saves>>

Wake(c) ==
    /\ chat[c].at = "sleep"
    /\ chat' = [chat EXCEPT ![c].at = "send"]
    /\ UNCHANGED <<settings, client, results, ledger, saves>>

\* An attempt is answered.
Answered(c, usage) ==
    /\ chat[c].at = "send"
    /\ chat' = [chat EXCEPT ![c] = [@ EXCEPT !.at = "record", !.attempts = chat[c].attempts + 1,
                                             !.usage = usage]]
    /\ UNCHANGED <<settings, client, results, ledger, saves>>
-----------------------------------------------------------------------------
(* The usage decorator.                                                     *)

\* _cache_hit_ratio above one: more tokens from the cache than there were, and
\* no count of misses to divide by.
Overstated(usage) == ~usage.misses /\ usage.input > 0 /\ usage.hit > usage.input

\* The event is built outside the guarded store call: a ratio above one does
\* not validate and the error reaches the caller.  The model is the one
\* Settings name now; a failing store is ignored.
RecordUsage(c) ==
    /\ chat[c].at = "record"
    /\ \/ /\ Overstated(chat[c].usage)
          /\ EndsIn(c, Ending("ValidationError", "answer", chat[c]))
          /\ UNCHANGED ledger
       \/ /\ ~Overstated(chat[c].usage)
          /\ EndsIn(c, Ending("answer", "answer", chat[c]))
          /\ \/ ledger' = ledger \cup {[id |-> Len(results) + 1, model |-> settings,
                                        by |-> chat[c].model]}
             \/ UNCHANGED ledger
    /\ UNCHANGED <<settings, client, saves>>

ChatStep(c) ==
    \/ Calls(c) \/ BuildsClient(c) \/ StoresClient(c) \/ UsesClient(c)
    \/ Wake(c) \/ RecordUsage(c)
    \/ \E f \in Faults : Fails(c, f)
    \/ \E u \in Usages : Answered(c, u)

ChatNext ==
    \/ \E m \in Models : SaveSettings(m)
    \/ \E c \in Callers : ChatStep(c)

ChatSpec == ChatInit /\ [][ChatNext]_chatVars
-----------------------------------------------------------------------------
(* Properties.                                                              *)

TokenUsage == [hit : Nat, input : Nat, misses : BOOLEAN]

Locals == [at : {"idle", "build", "store", "use", "send", "sleep", "record"}, model : Models \cup {"none"},
           timeout : BOOLEAN, attempts : Nat, records : Seq(Retryable), timeouts : Nat,
           usage : TokenUsage]

Resolving == {"build", "store", "use"}

Class == {"config", "answer", "retryable", "rate_limit", "fatal_auth", "fatal_request",
          "fatal_capability", "context_limit", "unknown"}

ErrorType == {"answer", "RuntimeError", "ValidationError", "LLMRetryExhaustedError",
              "LLMAuthError", "LLMRequestError", "LLMCapabilityError", "LLMContextLimitError",
              "LLMProviderError"}

Result == [type : ErrorType, class : Class, attempts : Nat, records : Seq(Retryable),
           timeouts : Nat, timeout : BOOLEAN, usage : TokenUsage,
           named : Models \cup {"none"}]

ASSUME ChatAssumption ==
    /\ Faults \subseteq DOMAIN ClassOf /\ Usages \subseteq TokenUsage
    /\ "none" \notin Models
    /\ MaxAttempts \in Nat \ {0} /\ MaxChats \in Nat /\ MaxSaves \in Nat

ChatTypeOK ==
    /\ settings \in Models \cup {"none"} /\ client \in Models \cup {"none"}
    /\ chat \in [Callers -> Locals]
    /\ results \in Seq(Result)
    /\ ledger \subseteq [id : Nat, model : Models \cup {"none"}, by : Models \cup {"none"}]
    /\ saves \in Nat

\* A request with a timeout never waits for it twice, so that the wait of a user
\* is not multiplied by the number of attempts (_with_retry).
TimeoutNotMultiplied ==
    /\ \A i \in DOMAIN results : results[i].timeout => results[i].timeouts <= 1
    /\ \A c \in Callers : chat[c].timeout /\ chat[c].timeouts > 0 => chat[c].at = "idle"

\* An error no retry can cure is not retried, and each record is a retry that was
\* made: there is one fewer than attempts, of which there are at most max_attempts.
RetriesAreRecorded ==
    \A i \in DOMAIN results : results[i].class # "config" =>
        /\ results[i].attempts \in 1 .. MaxAttempts
        /\ Len(results[i].records) = results[i].attempts - 1

\* A retry gives up early on what no retry can cure only: the attempts of a
\* request that failed for a curable reason are used up, or a timeout ended it.
GivesUpForAReason ==
    \A i \in DOMAIN results : results[i].class \in Retryable =>
        results[i].attempts = MaxAttempts \/ (results[i].timeout /\ results[i].timeouts = 1)

\* A request that an attempt answered hands the answer on: "records provider
\* usage without changing LLM behavior" (UsageRecordingLLM), but for a usage
\* that does not validate.
AnswerReachesCaller ==
    \A i \in DOMAIN results : results[i].class = "answer" /\ ~Overstated(results[i].usage)
        => results[i].type = "answer"

\* Usage is booked once for a request, however many attempts it took, and only
\* for one whose answer was handed on.
UsageBookedOnce ==
    \A e \in ledger :
        /\ e.id \in DOMAIN results /\ results[e.id].type = "answer"
        /\ \A f \in ledger : e.id = f.id => e = f

\* A request fails for want of configuration only while Settings name no model,
\* and goes to a model Settings named: a client once there is not lost to callers
\* that build another one at the same time (LazyLLMClient).
ConfigErrorIsTrue ==
    /\ \A i \in DOMAIN results : results[i].class = "config" => results[i].named = "none"
    /\ \A c \in Callers :
         chat[c].at \in {"use", "send", "sleep", "record"} =>
            client # "none" /\ (chat[c].at # "use" => chat[c].model # "none")

\* A chat request retries only what a retry may cure, waits for a timeout once,
\* ends in what really happened and is booked once.
ChatSound ==
    /\ ChatTypeOK /\ TimeoutNotMultiplied /\ RetriesAreRecorded /\ GivesUpForAReason
    /\ AnswerReachesCaller /\ UsageBookedOnce /\ ConfigErrorIsTrue

-----------------------------------------------------------------------------
(* The inductive invariant.                                                 *)

\* What the locals of a request say of its attempts.
LocalsOK(k) ==
    /\ k.at \in {"send", "sleep"} => k.attempts < MaxAttempts /\ Len(k.records) = k.attempts
    /\ k.at = "record" => /\ k.attempts \in 1 .. MaxAttempts
                          /\ Len(k.records) = k.attempts - 1
    /\ k.timeout => k.timeouts = 0
    /\ k.at \in Resolving => k.attempts = 0 /\ k.records = <<>>
    /\ k.at \notin {"idle", "build", "use"} => k.model # "none"
    /\ k.at \notin {"idle", "build", "store"} => client # "none"

\* What a result says of its request.
ResultOK(r) ==
    /\ r.timeout => r.timeouts <= 1
    /\ r.class # "config" => r.attempts \in 1 .. MaxAttempts /\ Len(r.records) = r.attempts - 1
    /\ r.class \in Retryable => r.attempts = MaxAttempts \/ (r.timeout /\ r.timeouts = 1)
    /\ r.class = "answer" /\ ~Overstated(r.usage) => r.type = "answer"
    /\ r.class = "config" => r.named = "none"

ChatInv ==
    /\ ChatTypeOK
    /\ \A c \in Callers : LocalsOK(chat[c])
    /\ \A i \in DOMAIN results : ResultOK(results[i])
    /\ UsageBookedOnce
=============================================================================
