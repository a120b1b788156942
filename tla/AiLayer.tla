------------------------------ MODULE AiLayer ------------------------------
(***************************************************************************)
(* What the backend shares between chat and analytics: the connection pool  *)
(* (database.py), the executor's threads, and the lazily loaded models with *)
(* their one lock, failure records and score memo (ai_utils.py).  A job is   *)
(* a request or socket frame from its arrival to its answer, or the warm-up  *)
(* at startup (main.py).  What a job does to the rows is in Realtime.        *)
(***************************************************************************)
EXTENDS Naturals, Sequences, FiniteSets

CONSTANTS Requests,     \* slots for requests and frames (reused)
          Warmup,       \* the job of startup
          Texts,        \* what may be scored
          Kinds,        \* what requests may ask for, among JobKinds
          NoJob, NoText,
          PoolSize,     \* db_pool_size + db_max_overflow
          Threads,      \* workers of the event loop's executor
          MemoSize,     \* scores the memo keeps
          MaxCalls,     \* bound: model calls of one summary
          WarmupOnStartup

JobKinds == {"create", "chat", "score", "daily"}

ASSUME AiAssumption ==
    /\ Warmup \notin Requests /\ NoJob \notin Requests \cup {Warmup}
    /\ NoText \notin Texts /\ Kinds \subseteq JobKinds
    /\ {PoolSize, Threads, MemoSize, MaxCalls} \subseteq Nat \ {0}
    /\ WarmupOnStartup \in BOOLEAN

VARIABLES
    job,         \* [Jobs -> Job]
    queue,       \* jobs handed to the executor, not yet in a thread
    lock,        \* who holds _LOAD_LOCK
    pipelines,   \* _PIPELINES: the models in memory
    failures,    \* _LOAD_FAILURES: the models whose last load failed
    memo,        \* the texts _analyze_cached remembers
    importable,  \* whether the transformers package can be imported
    serving      \* the lifespan has yielded

vars == <<job, queue, lock, pipelines, failures, memo, importable, serving>>

Jobs == Requests \cup {Warmup}
Models == {"sentiment", "summary"}
Places == {"idle", "connecting", "querying", "queued", "scoring", "locking",
           "loading", "publishing", "inferring", "returned", "refreshing",
           "announcing"}
Results == {"none", "answer", "unavailable", "raised"}

(* left: the model calls a summary has still to make, or the models the *)
(* warm-up has still to load.                                           *)
Job == [kind : Kinds \cup {"none", "warmup"}, at : Places,
        text : Texts \cup {NoText}, left : 0..(MaxCalls + 2),
        conn : BOOLEAN, result : Results]

Idle == [kind |-> "none", at |-> "idle", text |-> NoText, left |-> 0,
         conn |-> FALSE, result |-> "none"]

InThread == {"scoring", "locking", "loading", "publishing", "inferring"}
InAiLayer(j) == job[j].at \in InThread \cup {"queued"}

(* _CAPABILITY_TASKS: which model a job is after. *)
ModelOf(j) ==
    IF job[j].kind = "daily" \/ (job[j].kind = "warmup" /\ job[j].left = 1)
    THEN "summary" ELSE "sentiment"

(* model_status, which takes no lock. *)
ModelStatus(model) ==
    IF model \in failures THEN "failed"
    ELSE IF model \in pipelines THEN "ready" ELSE "not_loaded"

Init ==
    /\ job = [j \in Jobs |->
                IF j = Warmup /\ WarmupOnStartup
                THEN [Idle EXCEPT !.kind = "warmup", !.at = "locking", !.left = 2]
                ELSE Idle]
    /\ queue = <<>> /\ lock = NoJob
    /\ pipelines = {} /\ failures = {} /\ memo = {}
    /\ importable \in BOOLEAN
    /\ serving = ~WarmupOnStartup

Move(j, place) == job' = [job EXCEPT ![j].at = place]
Finish(j) == job' = [job EXCEPT ![j] = Idle]

UNCHANGEDModels == UNCHANGED <<lock, pipelines, failures, memo, importable, serving>>

-----------------------------------------------------------------------------
(* Requests, frames and their connections. *)

Arrive(r, kind, text) ==
    /\ serving /\ job[r] = Idle
    /\ (text # NoText) <=> (kind \in {"create", "score"})
    /\ job' = [job EXCEPT ![r] = [Idle EXCEPT !.kind = kind, !.at = "connecting",
                                              !.text = text]]
    /\ UNCHANGED queue /\ UNCHANGEDModels

ConnectionFree == Cardinality({j \in Jobs : job[j].conn}) < PoolSize

(* The session's first statement checks a connection out of the pool. *)
Checkout(r) ==
    /\ job[r].at = "connecting" /\ ConnectionFree
    /\ job' = [job EXCEPT ![r].at = "querying", ![r].conn = TRUE]
    /\ UNCHANGED queue /\ UNCHANGEDModels

(* pool_timeout: the request is a 500, a socket's handler ends. *)
PoolTimeout(r) ==
    /\ job[r].at \in {"connecting", "refreshing"} /\ ~ConnectionFree
    /\ Finish(r)
    /\ UNCHANGED queue /\ UNCHANGEDModels

(* History, deletions, probes and the timeline; a day without messages; *)
(* a token that names nobody.                                           *)
QueryAnswers(r) ==
    /\ job[r].at = "querying"
    /\ Finish(r)
    /\ UNCHANGED queue /\ UNCHANGEDModels

(* flush: the message is inserted, then scored in a thread of the executor, *)
(* the connection still checked out.                                        *)
Flush(r) ==
    /\ job[r].at = "querying" /\ job[r].kind = "create"
    /\ queue' = Append(queue, r) /\ Move(r, "queued")
    /\ UNCHANGEDModels

(* The sync route of ad-hoc scoring has threads of its own. *)
Score(r) ==
    /\ job[r].at = "querying" /\ job[r].kind = "score"
    /\ Move(r, "scoring")
    /\ UNCHANGED queue /\ UNCHANGEDModels

(* The day's messages make none, one or several model calls. *)
DailySummary(r) ==
    /\ job[r].at = "querying" /\ job[r].kind = "daily"
    /\ queue' = Append(queue, r)
    /\ \E calls \in 0..MaxCalls :
          job' = [job EXCEPT ![r].at = "queued", ![r].left = calls]
    /\ UNCHANGEDModels

(* Mutant: a failed score fails the message. *)
MutScoreOrNothing(r) ==
    /\ job[r].at = "returned" /\ job[r].kind = "create"
    /\ IF job[r].result = "answer"
       THEN job' = [job EXCEPT ![r].at = "refreshing", ![r].conn = FALSE]
       ELSE Finish(r)
    /\ UNCHANGED queue /\ UNCHANGEDModels

(* The message is committed, with its score or without, and the connection *)
(* goes back to the pool.                                                  *)
Commit(r) ==
    /\ job[r].at = "returned" /\ job[r].kind = "create"
    /\ job' = [job EXCEPT ![r].at = "refreshing", ![r].conn = FALSE]
    /\ UNCHANGED queue /\ UNCHANGEDModels

(* refresh checks one out again.  A frame's session ends before it is       *)
(* announced, a request's after: the fan-out holds the connection.          *)
Refresh(r) ==
    /\ job[r].at = "refreshing" /\ ConnectionFree
    /\ \/ Finish(r)
       \/ job' = [job EXCEPT ![r].at = "announcing", ![r].conn = TRUE]
    /\ UNCHANGED queue /\ UNCHANGEDModels

Announced(r) ==
    /\ job[r].at = "announcing"
    /\ Finish(r)
    /\ UNCHANGED queue /\ UNCHANGEDModels

(* The answer, 503 or 500 of an analytics request. *)
AnswerAnalytics(r) ==
    /\ job[r].at = "returned" /\ job[r].kind \in {"score", "daily"}
    /\ Finish(r)
    /\ UNCHANGED queue /\ UNCHANGEDModels

-----------------------------------------------------------------------------
(* Threads. *)

InExecutor == {r \in Requests : job[r].at \in InThread /\ job[r].kind # "score"}

(* A worker takes the next job; a text too short to summarise needs no model. *)
StartThread(r) ==
    /\ job[r].at = "queued" /\ queue # <<>> /\ Head(queue) = r
    /\ Cardinality(InExecutor) < Threads
    /\ queue' = Tail(queue)
    /\ job' = [job EXCEPT
                 ![r].at = IF job[r].kind = "create" THEN "scoring"
                           ELSE IF job[r].left > 0 THEN "locking" ELSE "returned",
                 ![r].result = IF job[r].kind = "daily" /\ job[r].left = 0
                               THEN "answer" ELSE "none"]
    /\ UNCHANGEDModels

Return(j, result) == job' = [job EXCEPT ![j].at = "returned", ![j].result = result]

(* warmup goes on to the next model whatever became of this one; then the *)
(* lifespan yields.                                                       *)
NextModel(j) ==
    IF job[j].left > 1
    THEN /\ job' = [job EXCEPT ![j].at = "locking", ![j].left = @ - 1]
         /\ UNCHANGED serving
    ELSE Finish(j) /\ serving' = TRUE

(* A loader raises: warmup swallows it, a route answers 503 or 500. *)
LoaderRaises(j, result) ==
    IF job[j].kind = "warmup" THEN NextModel(j)
    ELSE Return(j, result) /\ UNCHANGED serving

LoaderReturns(j) ==
    IF job[j].kind = "warmup" THEN NextModel(j)
    ELSE Move(j, "inferring") /\ UNCHANGED serving

(* _analyze_cached. *)
Analyze(j) ==
    /\ job[j].at = "scoring"
    /\ IF job[j].text \in memo THEN Return(j, "answer") ELSE Move(j, "locking")
    /\ UNCHANGED queue /\ UNCHANGEDModels

(* Mutant: the table was looked up before the lock was taken. *)
MutLockWithoutLook(j) ==
    /\ job[j].at = "locking" /\ lock = NoJob
    /\ lock' = j /\ Move(j, "loading") /\ UNCHANGED serving
    /\ UNCHANGED <<queue, pipelines, failures, memo, importable>>

(* _load_pipeline looks under the lock, also for a model that is there. *)
TakeLock(j) ==
    /\ job[j].at = "locking" /\ lock = NoJob
    /\ IF ModelOf(j) \in pipelines
       THEN LoaderReturns(j) /\ UNCHANGED lock
       ELSE lock' = j /\ Move(j, "loading") /\ UNCHANGED serving
    /\ UNCHANGED <<queue, pipelines, failures, memo, importable>>

(* The import comes before the try that records failures. *)
ImportFails(j) ==
    /\ job[j].at = "loading" /\ ~importable
    /\ lock' = NoJob /\ LoaderRaises(j, "raised")
    /\ UNCHANGED <<queue, pipelines, failures, memo, importable>>

(* Mutant: the lock is released where loading succeeds only. *)
MutKeepsLock(j) ==
    /\ job[j].at = "loading" /\ importable
    /\ failures' = failures \cup {ModelOf(j)}
    /\ LoaderRaises(j, "unavailable")
    /\ UNCHANGED <<queue, lock, pipelines, memo, importable>>

LoadFails(j) ==
    /\ job[j].at = "loading" /\ importable
    /\ failures' = failures \cup {ModelOf(j)}
    /\ lock' = NoJob /\ LoaderRaises(j, "unavailable")
    /\ UNCHANGED <<queue, pipelines, memo, importable>>

(* Mutant: the failure is kept. *)
MutKeepsFailure(j) ==
    /\ job[j].at = "loading" /\ importable
    /\ Move(j, "publishing")
    /\ UNCHANGED <<queue, lock, pipelines, failures, memo, importable, serving>>

(* The record of a failure goes first, then the model is published. *)
LoadSucceeds(j) ==
    /\ job[j].at = "loading" /\ importable
    /\ failures' = failures \ {ModelOf(j)}
    /\ Move(j, "publishing")
    /\ UNCHANGED <<queue, lock, pipelines, memo, importable, serving>>

Publish(j) ==
    /\ job[j].at = "publishing"
    /\ pipelines' = pipelines \cup {ModelOf(j)}
    /\ lock' = NoJob /\ LoaderReturns(j)
    /\ UNCHANGED <<queue, failures, memo, importable>>

(* lru_cache remembers answers, not exceptions, and makes room for them. *)
Remember(text) ==
    IF text \in memo \/ Cardinality(memo) < MemoSize THEN memo' = memo \cup {text}
    ELSE \E old \in memo : memo' = (memo \ {old}) \cup {text}

Infer(j) ==
    /\ job[j].at = "inferring"
    /\ \/ Return(j, "raised") /\ UNCHANGED memo
       \/ job[j].kind # "daily" /\ Return(j, "answer") /\ Remember(job[j].text)
       \/ /\ job[j].kind = "daily" /\ UNCHANGED memo
          /\ job' = [job EXCEPT ![j].left = @ - 1,
                                ![j].at = IF job[j].left > 1 THEN "locking" ELSE "returned",
                                ![j].result = IF job[j].left > 1 THEN "none" ELSE "answer"]
    /\ UNCHANGED <<queue, lock, pipelines, failures, importable, serving>>

-----------------------------------------------------------------------------
LoadStep(j) ==
    \/ ImportFails(j) \/ LoadFails(j) \/ LoadSucceeds(j) \/ Publish(j)

(* What a job does next without anyone asking it to, but for the lock. *)
JobStep(j) ==
    \/ Analyze(j) \/ LoadStep(j) \/ Infer(j)
    \/ j \in Requests /\ \/ Checkout(j) \/ PoolTimeout(j) \/ QueryAnswers(j)
                         \/ Flush(j) \/ Score(j) \/ DailySummary(j)
                         \/ StartThread(j) \/ Commit(j) \/ Refresh(j)
                         \/ Announced(j) \/ AnswerAnalytics(j)

Next ==
    \/ \E r \in Requests, kind \in Kinds, text \in Texts \cup {NoText} : Arrive(r, kind, text)
    \/ \E j \in Jobs : JobStep(j) \/ TakeLock(j)

Spec == Init /\ [][Next]_vars

(***************************************************************************)
(* The event loop and the threads run, loads and inferences return, the     *)
(* keepalive ends a fan-out, and pool_timeout is a timer.  A thread waiting  *)
(* for the lock gets it after others have had it: strong fairness.  Nobody   *)
(* owes a request.                                                          *)
(***************************************************************************)
Fairness == \A j \in Jobs : WF_vars(JobStep(j)) /\ SF_vars(TakeLock(j))

FairSpec == Spec /\ Fairness

-----------------------------------------------------------------------------
(* Every variable has its type. *)
TypeOK ==
    /\ job \in [Jobs -> Job]
    /\ queue \in Seq(Requests)
    /\ lock \in Jobs \cup {NoJob}
    /\ pipelines \subseteq Models /\ failures \subseteq Models
    /\ memo \subseteq Texts
    /\ importable \in BOOLEAN /\ serving \in BOOLEAN

(* ai_utils.py: "two concurrent first requests cannot load twice".  No two *)
(* jobs load at once, and nobody loads what is in memory already.          *)
LoadedOnce ==
    \A j \in Jobs : job[j].at \in {"loading", "publishing"} =>
        /\ ModelOf(j) \notin pipelines
        /\ \A k \in Jobs : job[k].at \in {"loading", "publishing"} => k = j

(* /health/ready never reports as failed a model that is in memory: a load *)
(* that fails and is retried, by whatever request comes, leaves no trace.  *)
StatusTruthful ==
    \A model \in pipelines : ModelStatus(model) = "ready"

(* crud.py: "Chat must work with the AI layer down: only the score is       *)
(* lost".  Whatever the models, the import, the inference and the other     *)
(* jobs do, a message that was inserted leaves the AI layer committed.      *)
OnlyTheScoreIsLost ==
    [][\A r \in Requests :
          job[r].kind = "create" /\ (InAiLayer(r) \/ job[r].at = "returned") =>
             job[r]'.at \in InThread \cup {"queued", "returned", "refreshing"}]_vars

(* Pool, executor and lock are waited for by jobs that hold the others;    *)
(* still every job ends, the warm-up included, after which the app serves.  *)
JobsEnd ==
    /\ \A j \in Jobs : job[j].at # "idle" ~> job[j].at = "idle"
    /\ <>serving

-----------------------------------------------------------------------------
(* The inductive invariant behind the safety properties. *)

(* A job is only where its kind takes it, with a text to score or a call   *)
(* left to make.                                                           *)
WellFormed(t) ==
    /\ t.kind \in {"create", "score"} => t.text # NoText
    /\ t.at = "queued" => t.kind \in {"create", "daily"}
    /\ t.at = "scoring" => t.kind \in {"create", "score"}
    /\ t.at \in {"locking", "loading", "publishing"} =>
          t.kind \in {"create", "score", "daily", "warmup"}
    /\ t.at \in {"inferring", "returned"} => t.kind \in {"create", "score", "daily"}
    /\ t.kind = "daily" /\ t.at \in {"locking", "loading", "publishing", "inferring"} =>
          t.left > 0

Loading == {"loading", "publishing"}

(* Who loads holds the lock, and what it loads is not there yet. *)
LoadInv ==
    /\ \A j \in Jobs : job[j].at \in Loading => lock = j /\ ModelOf(j) \notin pipelines
    /\ \A j \in Jobs : job[j].at = "publishing" => ModelOf(j) \notin failures
    /\ failures \cap pipelines = {}

AiInv == (\A j \in Jobs : WellFormed(job[j])) /\ LoadInv

-----------------------------------------------------------------------------
(* What the repository says and the code does not keep (see the README). *)

(* main.py: "Chat, history and deletes must never wait on -- or be blocked  *)
(* by -- the AI layer".  Where chat waits for a connection, one at least    *)
(* would be held by somebody else.                                         *)
ChatNeverWaits ==
    \A r \in Requests :
        job[r].kind = "chat" /\ job[r].at = "connecting" /\ ~ConnectionFree =>
            \E j \in Jobs : job[j].conn /\ ~InAiLayer(j)

(* ai_utils.py: "identical text is never scored twice". *)
ScoredOnce ==
    \A j, k \in Jobs :
        job[j].at = "inferring" /\ job[k].at = "inferring"
          /\ job[j].text = job[k].text /\ job[j].text # NoText => j = k

(* ai_utils.py: failures "are already recorded in _LOAD_FAILURES". *)
FailureRecorded ==
    \A j \in Requests :
        job[j].at = "returned" /\ job[j].result = "raised" /\ ModelOf(j) \notin pipelines =>
            ModelStatus(ModelOf(j)) = "failed"

(* ai_utils.py: "double-checked caching".  A model in memory is not waited *)
(* for while another one loads.                                            *)
LoadedIsAtHand ==
    \A j \in Jobs : job[j].at = "locking" /\ ModelOf(j) \in pipelines => lock = NoJob
=============================================================================
