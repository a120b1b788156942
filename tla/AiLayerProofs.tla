--------------------------- MODULE AiLayerProofs ---------------------------
(***************************************************************************)
(* The safety of the AI layer's shared state, for any number of requests,  *)
(* threads, connections and texts: its types, and the inductive invariant  *)
(* AiInv with what follows from it.                                        *)
(***************************************************************************)
EXTENDS AiLayer, TLAPS

(* A step of job j to a record that is well formed and does not load. *)
Moved(j, t) == t \in Job /\ WellFormed(t) /\ job' = [job EXCEPT ![j] = t]

(* A step of one job leaves the others where they were. *)
LEMMA OneJob ==
    ASSUME TypeOK, AiInv, NEW j \in Jobs, NEW t, Moved(j, t)
    PROVE  /\ job' \in [Jobs -> Job] /\ job'[j] = t
           /\ \A k \in Jobs : k # j => job'[k] = job[k]
           /\ \A k \in Jobs : WellFormed(job'[k])
<1>1. t \in Job /\ WellFormed(t) /\ job' = [job EXCEPT ![j] = t]
  BY DEF Moved
<1>2. job' \in [Jobs -> Job] /\ job'[j] = t /\ \A k \in Jobs : k # j => job'[k] = job[k]
  BY <1>1 DEF TypeOK
<1>3. \A k \in Jobs : WellFormed(job[k])
  BY DEF AiInv
<1> QED
  BY <1>1, <1>2, <1>3

(* What another job is after does not change. *)
LEMMA OthersModel ==
    ASSUME NEW k \in Jobs, job'[k] = job[k]
    PROVE  ModelOf(k)' = ModelOf(k)
  BY DEF ModelOf

(* A step that neither starts nor ends a load, or gives one up. *)
Quiet(j, t) ==
    /\ Moved(j, t) /\ t.at \notin Loading
    /\ UNCHANGED <<pipelines, failures, importable>>
    /\ lock' = lock \/ (lock = j /\ lock' = NoJob)

LEMMA QuietKeeps ==
    ASSUME TypeOK, AiInv, NEW j \in Jobs, NEW t, Quiet(j, t),
           queue' \in Seq(Requests), memo' \subseteq Texts, serving' \in BOOLEAN
    PROVE  TypeOK' /\ AiInv'
<1>1. /\ Moved(j, t) /\ t.at \notin Loading
      /\ UNCHANGED <<pipelines, failures, importable>>
      /\ lock' = lock \/ (lock = j /\ lock' = NoJob)
  BY DEF Quiet
<1>2. /\ job' \in [Jobs -> Job] /\ job'[j] = t
      /\ \A k \in Jobs : k # j => job'[k] = job[k]
      /\ \A k \in Jobs : WellFormed(job'[k])
  BY <1>1, OneJob
<1>3. TypeOK'
  BY <1>1, <1>2 DEF TypeOK
<1>4. ASSUME NEW k \in Jobs, job'[k].at \in Loading
      PROVE  k # j /\ job'[k] = job[k] /\ lock' = k /\ ModelOf(k)' = ModelOf(k)
  <2>1. k # j /\ job'[k] = job[k]
    BY <1>1, <1>2, <1>4
  <2>2. lock = k
    BY <1>4, <2>1 DEF AiInv, LoadInv
  <2> QED
    BY <1>1, <2>1, <2>2, OthersModel
<1>5. LoadInv'
  BY <1>1, <1>4 DEF AiInv, LoadInv, Loading
<1> QED
  BY <1>2, <1>3, <1>5 DEF AiInv

-----------------------------------------------------------------------------
(* Requests and frames. *)

(* Idle is well formed. *)
LEMMA IdleJob == Idle \in Job /\ WellFormed(Idle) /\ Idle.at \notin Loading
  BY AiAssumption DEF Idle, Job, Places, Results, WellFormed, Loading

(* Whatever arrives brings a text if it is to be scored. *)
LEMMA ArriveKeeps ==
    ASSUME TypeOK, AiInv, NEW r \in Requests, NEW kind \in Kinds,
           NEW text \in Texts \cup {NoText}, Arrive(r, kind, text)
    PROVE  TypeOK' /\ AiInv'
<1> DEFINE t == [Idle EXCEPT !.kind = kind, !.at = "connecting", !.text = text]
<1>0. /\ Idle \in Job /\ kind \in JobKinds /\ "connecting" \in Places
      /\ kind \in {"create", "score"} => text # NoText
  BY IdleJob, AiAssumption DEF Arrive, Places
<1>1. t.kind = kind /\ t.at = "connecting" /\ t.text = text
  BY DEF Idle
<1>2. t \in Job
  BY <1>0 DEF Job
<1>5. WellFormed(t) /\ t.at \notin Loading
  BY <1>0, <1>1 DEF WellFormed, Loading
<1>3. job' = [job EXCEPT ![r] = t] /\ UNCHANGED <<queue, lock, pipelines, failures, memo, importable, serving>>
  BY DEF Arrive, UNCHANGEDModels
<1> HIDE DEF t
<1>4. Quiet(r, t)
  BY <1>2, <1>3, <1>5 DEF Quiet, Moved
<1> QED
  BY <1>3, <1>4, QuietKeeps DEF TypeOK, Jobs

(* What is done of a job before and after it is in the AI layer. *)
LEMMA RequestSteps ==
    ASSUME TypeOK, AiInv, NEW r \in Requests,
           \/ Checkout(r) \/ PoolTimeout(r) \/ QueryAnswers(r) \/ Flush(r) \/ Score(r)
           \/ DailySummary(r) \/ StartThread(r) \/ Commit(r) \/ Refresh(r)
           \/ Announced(r) \/ AnswerAnalytics(r)
    PROVE  TypeOK' /\ AiInv'
<1>1. /\ job[r] \in Job /\ WellFormed(job[r]) /\ r \in Jobs
      /\ MaxCalls \in Nat /\ queue \in Seq(Requests)
  BY AiAssumption DEF TypeOK, AiInv, Jobs
<1>2. UNCHANGED <<lock, pipelines, failures, memo, importable, serving>>
  BY DEF Checkout, PoolTimeout, QueryAnswers, Flush, Score, DailySummary, StartThread,
         Commit, Refresh, Announced, AnswerAnalytics, UNCHANGEDModels
<1>3. queue' \in Seq(Requests)
  <2>1. \/ UNCHANGED queue
        \/ queue' = Append(queue, r)
        \/ queue # <<>> /\ queue' = Tail(queue)
    BY DEF Checkout, PoolTimeout, QueryAnswers, Flush, Score, DailySummary, StartThread,
           Commit, Refresh, Announced, AnswerAnalytics
  <2> QED
    BY <1>1, <2>1
<1>4. ASSUME NEW t, Moved(r, t), t.at \notin Loading
      PROVE  TypeOK' /\ AiInv'
  BY <1>1, <1>2, <1>3, <1>4, QuietKeeps DEF Quiet, TypeOK
<1>5. ASSUME Finish(r)
      PROVE  TypeOK' /\ AiInv'
  BY <1>4, <1>5, IdleJob DEF Finish, Moved
<1>6. CASE Checkout(r)
  <2> DEFINE t == [job[r] EXCEPT !.at = "querying", !.conn = TRUE]
  <2>1. t \in Job /\ WellFormed(t) /\ t.at \notin Loading
    BY <1>1 DEF Job, Places, WellFormed, Loading
  <2>2. job' = [job EXCEPT ![r] = t]
    BY <1>6 DEF Checkout
  <2> HIDE DEF t
  <2> QED
    BY <1>4, <2>1, <2>2 DEF Moved
<1>7. CASE Flush(r)
  <2> DEFINE t == [job[r] EXCEPT !.at = "queued"]
  <2>1. t \in Job /\ WellFormed(t) /\ t.at \notin Loading
    BY <1>1, <1>7 DEF Flush, Job, Places, WellFormed, Loading
  <2>2. job' = [job EXCEPT ![r] = t]
    BY <1>7 DEF Flush, Move
  <2> HIDE DEF t
  <2> QED
    BY <1>4, <2>1, <2>2 DEF Moved
<1>8. CASE Score(r)
  <2> DEFINE t == [job[r] EXCEPT !.at = "scoring"]
  <2>1. t \in Job /\ WellFormed(t) /\ t.at \notin Loading
    BY <1>1, <1>8 DEF Score, Job, Places, WellFormed, Loading
  <2>2. job' = [job EXCEPT ![r] = t]
    BY <1>8 DEF Score, Move
  <2> HIDE DEF t
  <2> QED
    BY <1>4, <2>1, <2>2 DEF Moved
<1>9. CASE DailySummary(r)
  <2>1. PICK calls \in 0..MaxCalls : job' = [job EXCEPT ![r].at = "queued", ![r].left = calls]
    BY <1>9 DEF DailySummary
  <2> DEFINE t == [job[r] EXCEPT !.at = "queued", !.left = calls]
  <2>0. calls \in 0..(MaxCalls + 2) /\ "queued" \in Places /\ job[r].kind = "daily"
    BY <1>1, <1>9 DEF DailySummary, Places
  <2>4. t.at = "queued" /\ t.kind = "daily"
    BY <1>1, <2>0 DEF Job
  <2>5. t \in Job
    BY <1>1, <2>0 DEF Job
  <2>2. t \in Job /\ WellFormed(t) /\ t.at \notin Loading
    BY <2>4, <2>5 DEF WellFormed, Loading
  <2>3. job' = [job EXCEPT ![r] = t]
    BY <2>1
  <2> HIDE DEF t
  <2> QED
    BY <1>4, <2>2, <2>3 DEF Moved
<1>10. CASE StartThread(r)
  <2> DEFINE place == IF job[r].kind = "create" THEN "scoring"
                      ELSE IF job[r].left > 0 THEN "locking" ELSE "returned"
             result == IF job[r].kind = "daily" /\ job[r].left = 0 THEN "answer" ELSE "none"
             t == [job[r] EXCEPT !.at = place, !.result = result]
  <2>1. job' = [job EXCEPT ![r] = t]
    BY <1>10 DEF StartThread
  <2>2. /\ job[r].kind \in {"create", "daily"} /\ job[r].left \in Nat
        /\ job[r].kind = "create" => job[r].text # NoText
    BY <1>1, <1>10 DEF StartThread, WellFormed, Job
  <2>3. place \in Places \ Loading /\ result \in Results
    BY DEF Places, Results, Loading
  <2>4. /\ place = "scoring" => job[r].kind = "create"
        /\ place = "locking" => job[r].kind = "daily" /\ job[r].left > 0
        /\ place \in {"scoring", "locking", "returned"}
    BY <2>2
  <2> HIDE DEF place, result
  <2>5. /\ t \in Job /\ t.at = place
        /\ t.kind = job[r].kind /\ t.text = job[r].text /\ t.left = job[r].left
    BY <1>1, <2>3 DEF Job
  <2> HIDE DEF t
  <2>6. WellFormed(t)
    BY <2>2, <2>4, <2>5 DEF WellFormed
  <2> QED
    BY <1>4, <2>1, <2>3, <2>5, <2>6 DEF Moved
<1>11. CASE Commit(r)
  <2> DEFINE t == [job[r] EXCEPT !.at = "refreshing", !.conn = FALSE]
  <2>1. t \in Job /\ WellFormed(t) /\ t.at \notin Loading
    BY <1>1 DEF Job, Places, WellFormed, Loading
  <2>2. job' = [job EXCEPT ![r] = t]
    BY <1>11 DEF Commit
  <2> HIDE DEF t
  <2> QED
    BY <1>4, <2>1, <2>2 DEF Moved
<1>12. CASE Refresh(r)
  <2> DEFINE t == [job[r] EXCEPT !.at = "announcing", !.conn = TRUE]
  <2>1. t \in Job /\ WellFormed(t) /\ t.at \notin Loading
    BY <1>1 DEF Job, Places, WellFormed, Loading
  <2>2. Finish(r) \/ job' = [job EXCEPT ![r] = t]
    BY <1>12 DEF Refresh
  <2> HIDE DEF t
  <2> QED
    BY <1>4, <1>5, <2>1, <2>2 DEF Moved
<1> QED
  BY <1>5, <1>6, <1>7, <1>8, <1>9, <1>10, <1>11, <1>12
     DEF PoolTimeout, QueryAnswers, Announced, AnswerAnalytics

-----------------------------------------------------------------------------
(* Threads. *)

(* A job in Jobs is well formed, and nobody is called NoJob. *)
LEMMA JobFacts ==
    ASSUME TypeOK, AiInv, NEW j \in Jobs
    PROVE  job[j] \in Job /\ WellFormed(job[j]) /\ NoJob \notin Jobs
  BY AiAssumption DEF TypeOK, AiInv, Jobs

(* However a loader ends, its job goes where it does not load. *)
LEMMA LoaderEnds ==
    ASSUME TypeOK, AiInv, NEW j \in Jobs, NEW result \in Results,
           job[j].at \in Loading \cup {"locking"},
           LoaderRaises(j, result) \/ LoaderReturns(j)
    PROVE  /\ serving' \in BOOLEAN
           /\ \E t : Moved(j, t) /\ t.at \notin Loading
<1>1. job[j] \in Job /\ WellFormed(job[j])
  BY JobFacts
<1>2. job[j].kind \in {"create", "score", "daily", "warmup"}
  BY <1>1 DEF WellFormed, Loading
<1>3. CASE job[j].kind = "warmup" /\ job[j].left > 1
  <2> DEFINE t == [job[j] EXCEPT !.at = "locking", !.left = @ - 1]
  <2>1. job' = [job EXCEPT ![j] = t] /\ UNCHANGED serving
    BY <1>3 DEF LoaderRaises, LoaderReturns, NextModel
  <2>2. job[j].left - 1 \in 0..(MaxCalls + 2)
    BY <1>1, <1>3, AiAssumption DEF Job
  <2>3. t \in Job /\ t.at = "locking" /\ t.kind = "warmup"
    BY <1>1, <1>3, <2>2 DEF Job, Places
  <2> HIDE DEF t
  <2>4. WellFormed(t) /\ t.at \notin Loading
    BY <2>3 DEF WellFormed, Loading
  <2> QED
    BY <2>1, <2>3, <2>4 DEF Moved, TypeOK
<1>4. CASE job[j].kind = "warmup" /\ ~(job[j].left > 1)
  <2>1. job' = [job EXCEPT ![j] = Idle] /\ serving' = TRUE
    BY <1>4 DEF LoaderRaises, LoaderReturns, NextModel, Finish
  <2> QED
    BY <2>1, IdleJob DEF Moved
<1>5. CASE job[j].kind # "warmup" /\ LoaderRaises(j, result)
  <2> DEFINE t == [job[j] EXCEPT !.at = "returned", !.result = result]
  <2>1. job' = [job EXCEPT ![j] = t] /\ UNCHANGED serving
    BY <1>5 DEF LoaderRaises, Return
  <2>2. t \in Job /\ t.at = "returned" /\ t.kind = job[j].kind /\ t.text = job[j].text
    BY <1>1 DEF Job, Places
  <2> HIDE DEF t
  <2>3. WellFormed(t) /\ t.at \notin Loading
    BY <1>1, <1>2, <1>5, <2>2 DEF WellFormed, Loading
  <2> QED
    BY <2>1, <2>2, <2>3 DEF Moved, TypeOK
<1>6. CASE job[j].kind # "warmup" /\ LoaderReturns(j)
  <2> DEFINE t == [job[j] EXCEPT !.at = "inferring"]
  <2>1. job' = [job EXCEPT ![j] = t] /\ UNCHANGED serving
    BY <1>6 DEF LoaderReturns, Move
  <2>2. /\ t \in Job /\ t.at = "inferring" /\ t.kind = job[j].kind
        /\ t.text = job[j].text /\ t.left = job[j].left
    BY <1>1 DEF Job, Places
  <2> HIDE DEF t
  <2>3. WellFormed(t) /\ t.at \notin Loading
    BY <1>1, <1>2, <1>6, <2>2 DEF WellFormed, Loading
  <2> QED
    BY <2>1, <2>2, <2>3 DEF Moved, TypeOK
<1> QED
  BY <1>3, <1>4, <1>5, <1>6

(* Scoring looks the memo up, or goes for the lock. *)
LEMMA AnalyzeKeeps ==
    ASSUME TypeOK, AiInv, NEW j \in Jobs, Analyze(j)
    PROVE  TypeOK' /\ AiInv'
<1>1. job[j] \in Job /\ WellFormed(job[j]) /\ job[j].at = "scoring"
  BY JobFacts DEF Analyze
<1>2. job[j].kind \in {"create", "score"} /\ job[j].text # NoText
  BY <1>1 DEF WellFormed
<1>3. UNCHANGED <<queue, lock, pipelines, failures, memo, importable, serving>>
  BY DEF Analyze, UNCHANGEDModels
<1> DEFINE hit == [job[j] EXCEPT !.at = "returned", !.result = "answer"]
           miss == [job[j] EXCEPT !.at = "locking"]
<1>4. job' = [job EXCEPT ![j] = hit] \/ job' = [job EXCEPT ![j] = miss]
  BY DEF Analyze, Return, Move
<1>5. /\ hit \in Job /\ hit.at = "returned" /\ hit.kind = job[j].kind /\ hit.text = job[j].text
      /\ miss \in Job /\ miss.at = "locking" /\ miss.kind = job[j].kind /\ miss.text = job[j].text
  BY <1>1 DEF Job, Places, Results
<1> HIDE DEF hit, miss
<1>6. WellFormed(hit) /\ WellFormed(miss) /\ hit.at \notin Loading /\ miss.at \notin Loading
  BY <1>2, <1>5 DEF WellFormed, Loading
<1>7. Quiet(j, hit) \/ Quiet(j, miss)
  BY <1>3, <1>4, <1>5, <1>6 DEF Quiet, Moved
<1> QED
  BY <1>3, <1>7, QuietKeeps DEF TypeOK

(* The lock is free, or it is taken by a job whose model is not there. *)
LEMMA TakeLockKeeps ==
    ASSUME TypeOK, AiInv, NEW j \in Jobs, TakeLock(j)
    PROVE  TypeOK' /\ AiInv'
<1>1. /\ job[j] \in Job /\ WellFormed(job[j]) /\ NoJob \notin Jobs
      /\ job[j].at = "locking" /\ lock = NoJob
      /\ UNCHANGED <<queue, pipelines, failures, memo, importable>>
  BY JobFacts DEF TakeLock
<1>2. CASE ModelOf(j) \in pipelines
  <2>1. LoaderReturns(j) /\ UNCHANGED lock
    BY <1>2 DEF TakeLock
  <2>2. serving' \in BOOLEAN /\ \E t : Moved(j, t) /\ t.at \notin Loading
    BY <1>1, <2>1, LoaderEnds DEF Results
  <2>3. PICK t : Quiet(j, t)
    BY <1>1, <2>1, <2>2 DEF Quiet
  <2> QED
    BY <1>1, <2>2, <2>3, QuietKeeps DEF TypeOK
<1>3. CASE ModelOf(j) \notin pipelines
  <2> DEFINE t == [job[j] EXCEPT !.at = "loading"]
  <2>1. job' = [job EXCEPT ![j] = t] /\ lock' = j /\ UNCHANGED serving
    BY <1>3 DEF TakeLock, Move
  <2>2. /\ t \in Job /\ t.at = "loading" /\ t.kind = job[j].kind
        /\ t.text = job[j].text /\ t.left = job[j].left
    BY <1>1 DEF Job, Places
  <2> HIDE DEF t
  <2>3. WellFormed(t)
    BY <1>1, <2>2 DEF WellFormed
  <2>4. /\ job' \in [Jobs -> Job] /\ job'[j] = t
        /\ \A k \in Jobs : k # j => job'[k] = job[k]
        /\ \A k \in Jobs : WellFormed(job'[k])
    BY <2>1, <2>2, <2>3, OneJob DEF Moved
  <2>5. \A k \in Jobs : k # j => job'[k].at \notin Loading
    BY <1>1, <2>4 DEF AiInv, LoadInv
  <2>6. ModelOf(j)' = ModelOf(j)
    BY <2>2, <2>4 DEF ModelOf
  <2>7. LoadInv'
    BY <1>1, <1>3, <2>1, <2>2, <2>4, <2>5, <2>6 DEF AiInv, LoadInv, Loading
  <2>8. TypeOK'
    BY <1>1, <2>1, <2>4 DEF TypeOK
  <2> QED
    BY <2>4, <2>7, <2>8 DEF AiInv
<1> QED
  BY <1>2, <1>3

(* A load ends, well or badly: nobody holds the lock, so nobody loads. *)
LEMMA LoadEndKeeps ==
    ASSUME TypeOK, AiInv, NEW j \in Jobs, ImportFails(j) \/ LoadFails(j) \/ Publish(j)
    PROVE  TypeOK' /\ AiInv'
<1>1. /\ job[j] \in Job /\ WellFormed(job[j]) /\ NoJob \notin Jobs
      /\ job[j].at \in Loading /\ lock' = NoJob
      /\ UNCHANGED <<queue, memo, importable>>
  BY JobFacts DEF ImportFails, LoadFails, Publish, Loading
<1>2. LoaderRaises(j, "raised") \/ LoaderRaises(j, "unavailable") \/ LoaderReturns(j)
  BY DEF ImportFails, LoadFails, Publish
<1>3. "raised" \in Results /\ "unavailable" \in Results
  BY DEF Results
<1>4. serving' \in BOOLEAN /\ \E t : Moved(j, t) /\ t.at \notin Loading
  BY <1>1, <1>2, <1>3, LoaderEnds
<1>5. PICK t : Moved(j, t) /\ t.at \notin Loading
  BY <1>4
<1>6. /\ job' \in [Jobs -> Job] /\ job'[j] = t
      /\ \A k \in Jobs : k # j => job'[k] = job[k]
      /\ \A k \in Jobs : WellFormed(job'[k])
  BY <1>5, OneJob
<1>7. lock = j /\ ModelOf(j) \notin pipelines
  BY <1>1 DEF AiInv, LoadInv
<1>8. \A k \in Jobs : job'[k].at \notin Loading
  BY <1>1, <1>5, <1>6, <1>7 DEF AiInv, LoadInv
<1>9. ModelOf(j) \in Models
  BY DEF ModelOf, Models
<1>10. /\ failures' \subseteq Models /\ pipelines' \subseteq Models
       /\ failures' \cap pipelines' = {}
  <2>1. failures \cap pipelines = {} /\ failures \subseteq Models /\ pipelines \subseteq Models
    BY DEF AiInv, LoadInv, TypeOK
  <2>2. CASE ImportFails(j)
    BY <2>1, <2>2 DEF ImportFails
  <2>3. CASE LoadFails(j)
    BY <1>7, <1>9, <2>1, <2>3 DEF LoadFails
  <2>4. CASE Publish(j)
    <3>1. ModelOf(j) \notin failures
      BY <2>4 DEF Publish, AiInv, LoadInv
    <3> QED
      BY <1>9, <2>1, <2>4, <3>1 DEF Publish
  <2> QED
    BY <2>2, <2>3, <2>4
<1>11. LoadInv'
  BY <1>8, <1>10 DEF LoadInv, Loading
<1>12. TypeOK'
  BY <1>1, <1>4, <1>6, <1>10 DEF TypeOK
<1> QED
  BY <1>6, <1>11, <1>12 DEF AiInv

(* The record of a failure goes before the model is published. *)
LEMMA LoadSucceedsKeeps ==
    ASSUME TypeOK, AiInv, NEW j \in Jobs, LoadSucceeds(j)
    PROVE  TypeOK' /\ AiInv'
<1>1. /\ job[j] \in Job /\ WellFormed(job[j]) /\ NoJob \notin Jobs
      /\ job[j].at = "loading" /\ failures' = failures \ {ModelOf(j)}
      /\ UNCHANGED <<queue, lock, pipelines, memo, importable, serving>>
  BY JobFacts DEF LoadSucceeds
<1> DEFINE t == [job[j] EXCEPT !.at = "publishing"]
<1>2. job' = [job EXCEPT ![j] = t]
  BY DEF LoadSucceeds, Move
<1>3. /\ t \in Job /\ t.at = "publishing" /\ t.kind = job[j].kind
      /\ t.text = job[j].text /\ t.left = job[j].left
  BY <1>1 DEF Job, Places
<1> HIDE DEF t
<1>4. WellFormed(t)
  BY <1>1, <1>3 DEF WellFormed
<1>5. /\ job' \in [Jobs -> Job] /\ job'[j] = t
      /\ \A k \in Jobs : k # j => job'[k] = job[k]
      /\ \A k \in Jobs : WellFormed(job'[k])
  BY <1>2, <1>3, <1>4, OneJob DEF Moved
<1>6. lock = j /\ ModelOf(j) \notin pipelines
  BY <1>1 DEF AiInv, LoadInv, Loading
<1>7. \A k \in Jobs : k # j => job'[k].at \notin Loading
  BY <1>1, <1>5, <1>6 DEF AiInv, LoadInv
<1>8. ModelOf(j)' = ModelOf(j)
  BY <1>3, <1>5 DEF ModelOf
<1>9. LoadInv'
  <2>1. \A k \in Jobs : job'[k].at \in Loading => lock' = k /\ ModelOf(k)' \notin pipelines'
    BY <1>1, <1>6, <1>7, <1>8
  <2>2. \A k \in Jobs : job'[k].at = "publishing" => ModelOf(k)' \notin failures'
    BY <1>1, <1>7, <1>8 DEF Loading
  <2>3. failures' \cap pipelines' = {}
    BY <1>1 DEF AiInv, LoadInv
  <2> QED
    BY <2>1, <2>2, <2>3 DEF LoadInv
<1>10. TypeOK'
  BY <1>1, <1>5 DEF TypeOK
<1> QED
  BY <1>5, <1>9, <1>10 DEF AiInv

(* An inference touches the memo and its own job. *)
LEMMA InferKeeps ==
    ASSUME TypeOK, AiInv, NEW j \in Jobs, Infer(j)
    PROVE  TypeOK' /\ AiInv'
<1>1. /\ job[j] \in Job /\ WellFormed(job[j]) /\ job[j].at = "inferring"
      /\ UNCHANGED <<queue, lock, pipelines, failures, importable, serving>>
  BY JobFacts DEF Infer
<1>2. job[j].kind \in {"create", "score", "daily"}
  BY <1>1 DEF WellFormed
<1>3. memo' \subseteq Texts
  <2>1. job[j].kind # "daily" => job[j].text \in Texts
    BY <1>1, <1>2 DEF WellFormed, Job
  <2> QED
    BY <2>1 DEF Infer, Remember, TypeOK
<1>4. ASSUME NEW t, Moved(j, t), t.at \notin Loading
      PROVE  TypeOK' /\ AiInv'
  BY <1>1, <1>3, <1>4, QuietKeeps DEF Quiet, TypeOK
<1>5. ASSUME NEW result \in Results, Return(j, result)
      PROVE  TypeOK' /\ AiInv'
  <2> DEFINE t == [job[j] EXCEPT !.at = "returned", !.result = result]
  <2>1. job' = [job EXCEPT ![j] = t]
    BY <1>5 DEF Return
  <2>2. t \in Job /\ t.at = "returned" /\ t.kind = job[j].kind /\ t.text = job[j].text
    BY <1>1 DEF Job, Places
  <2> HIDE DEF t
  <2>3. WellFormed(t) /\ t.at \notin Loading
    BY <1>1, <1>2, <2>2 DEF WellFormed, Loading
  <2> QED
    BY <1>4, <2>1, <2>2, <2>3 DEF Moved
<1>6. CASE job[j].kind = "daily"
           /\ job' = [job EXCEPT ![j].left = @ - 1,
                                 ![j].at = IF job[j].left > 1 THEN "locking" ELSE "returned",
                                 ![j].result = IF job[j].left > 1 THEN "none" ELSE "answer"]
  <2> DEFINE place == IF job[j].left > 1 THEN "locking" ELSE "returned"
             result == IF job[j].left > 1 THEN "none" ELSE "answer"
             calls == job[j].left - 1
             t == [job[j] EXCEPT !.left = calls, !.at = place, !.result = result]
  <2>1. job' = [job EXCEPT ![j] = t]
    BY <1>1, <1>6 DEF TypeOK
  <2>2. /\ place \in {"locking", "returned"} /\ place \in Places /\ result \in Results
        /\ place = "locking" => job[j].left > 1
    BY DEF Places, Results
  <2>3. job[j].left > 0 /\ job[j].left \in 0..(MaxCalls + 2) /\ MaxCalls \in Nat
    BY <1>1, <1>6, AiAssumption DEF WellFormed, Job
  <2>4. calls \in 0..(MaxCalls + 2) /\ (place = "locking" => calls > 0)
    BY <2>2, <2>3
  <2> HIDE DEF place, result, calls
  <2>5. t \in Job /\ t.at = place /\ t.kind = "daily" /\ t.left = calls
    BY <1>1, <1>6, <2>2, <2>4 DEF Job
  <2> HIDE DEF t
  <2>6. WellFormed(t) /\ t.at \notin Loading
    BY <2>2, <2>4, <2>5 DEF WellFormed, Loading
  <2> QED
    BY <1>4, <2>1, <2>5, <2>6 DEF Moved
<1>7. \/ Return(j, "raised") \/ Return(j, "answer")
      \/ /\ job[j].kind = "daily"
         /\ job' = [job EXCEPT ![j].left = @ - 1,
                               ![j].at = IF job[j].left > 1 THEN "locking" ELSE "returned",
                               ![j].result = IF job[j].left > 1 THEN "none" ELSE "answer"]
  BY DEF Infer
<1> QED
  BY <1>5, <1>6, <1>7 DEF Results

-----------------------------------------------------------------------------
(* The inductive invariant, and the theorems that follow from it. *)

LEMMA InitEstablishes == Init => TypeOK /\ AiInv
<1> SUFFICES ASSUME Init PROVE TypeOK /\ AiInv
  OBVIOUS
<1> DEFINE t == [Idle EXCEPT !.kind = "warmup", !.at = "locking", !.left = 2]
<1>0. 2 \in 0..(MaxCalls + 2) /\ "locking" \in Places
  BY AiAssumption DEF Places
<1>1. t \in Job /\ t.at = "locking" /\ t.kind = "warmup"
  BY <1>0, IdleJob DEF Job
<1>2. \A j \in Jobs : job[j] = t \/ job[j] = Idle
  BY DEF Init
<1> HIDE DEF t
<1>3. WellFormed(t) /\ t.at \notin Loading
  BY <1>1 DEF WellFormed, Loading
<1>4. job \in [Jobs -> Job]
  <2>1. DOMAIN job = Jobs /\ job = [j \in Jobs |-> job[j]]
    BY DEF Init
  <2> QED
    BY <1>1, <1>2, <2>1, IdleJob
<1>5. \A j \in Jobs : WellFormed(job[j]) /\ job[j].at \notin Loading
  BY <1>2, <1>3, IdleJob
<1>6. LoadInv
  BY <1>5 DEF LoadInv, Init, Loading
<1>7. TypeOK
  BY <1>4, AiAssumption DEF TypeOK, Init
<1> QED
  BY <1>5, <1>6, <1>7 DEF AiInv

LEMMA NextKeeps == TypeOK /\ AiInv /\ [Next]_vars => TypeOK' /\ AiInv'
<1> SUFFICES ASSUME TypeOK, AiInv, [Next]_vars PROVE TypeOK' /\ AiInv'
  OBVIOUS
<1>1. CASE \E r \in Requests, kind \in Kinds, text \in Texts \cup {NoText} : Arrive(r, kind, text)
  BY <1>1, ArriveKeeps
<1>2. ASSUME NEW j \in Jobs, JobStep(j) \/ TakeLock(j)
      PROVE  TypeOK' /\ AiInv'
  <2>1. CASE Analyze(j)
    BY <2>1, AnalyzeKeeps
  <2>2. CASE LoadStep(j)
    BY <2>2, LoadEndKeeps, LoadSucceedsKeeps DEF LoadStep
  <2>3. CASE Infer(j)
    BY <2>3, InferKeeps
  <2>4. CASE TakeLock(j)
    BY <2>4, TakeLockKeeps
  <2>5. CASE j \in Requests /\ \/ Checkout(j) \/ PoolTimeout(j) \/ QueryAnswers(j)
                               \/ Flush(j) \/ Score(j) \/ DailySummary(j)
                               \/ StartThread(j) \/ Commit(j) \/ Refresh(j)
                               \/ Announced(j) \/ AnswerAnalytics(j)
    BY <2>5, RequestSteps
  <2> QED
    BY <1>2, <2>1, <2>2, <2>3, <2>4, <2>5 DEF JobStep
<1>3. CASE UNCHANGED vars
  <2>1. /\ UNCHANGED <<job, queue, lock, pipelines, failures, memo, importable, serving>>
        /\ \A j \in Jobs : ModelOf(j)' = ModelOf(j)
    BY <1>3 DEF vars, ModelOf
  <2> QED
    BY <2>1 DEF TypeOK, AiInv, LoadInv
<1> QED
  BY <1>1, <1>2, <1>3 DEF Next

THEOREM Inductive == Spec => [](TypeOK /\ AiInv)
  BY InitEstablishes, NextKeeps, PTL DEF Spec

(* Every variable keeps its type: no summary counts its calls below zero,  *)
(* and what runs is always a request's or the warm-up's job.               *)
THEOREM TypeCorrect == Spec => []TypeOK
  BY Inductive, PTL

(* However many first requests there are, no two load at once and nobody  *)
(* loads what is in memory (_load_pipeline).                               *)
THEOREM ModelsLoadOnce == Spec => []LoadedOnce
<1>1. AiInv => LoadedOnce
  BY DEF AiInv, LoadInv, LoadedOnce, Loading
<1> QED
  BY <1>1, Inductive, PTL

(* Readiness, read without the lock, never calls failed what is in memory. *)
THEOREM StatusIsTruthful == Spec => []StatusTruthful
<1>1. TypeOK /\ AiInv => StatusTruthful
  BY DEF AiInv, LoadInv, StatusTruthful, ModelStatus
<1> QED
  BY <1>1, Inductive, PTL

-----------------------------------------------------------------------------
(* What a step does to the job of a message in the AI layer. *)

Scored(r) == job[r].kind = "create" /\ (InAiLayer(r) \/ job[r].at = "returned")

(* A step moves one job only. *)
LEMMA OthersStay ==
    ASSUME TypeOK, NEW j \in Jobs, NEW k \in Jobs, k # j,
           \/ JobStep(j) \/ TakeLock(j)
           \/ \E kind \in Kinds, text \in Texts \cup {NoText} : Arrive(j, kind, text)
    PROVE  job'[k] = job[k]
<1>1. ASSUME LoaderReturns(j) \/ \E result \in Results : LoaderRaises(j, result)
      PROVE  job'[k] = job[k]
  BY <1>1 DEF LoaderReturns, LoaderRaises, NextModel, Return, Move, Finish, TypeOK
<1>2. "raised" \in Results /\ "unavailable" \in Results
  BY DEF Results
<1>3. CASE TakeLock(j)
  BY <1>1, <1>3 DEF TakeLock, Move, TypeOK
<1>4. CASE LoadStep(j)
  BY <1>1, <1>2, <1>4 DEF LoadStep, ImportFails, LoadFails, LoadSucceeds, Publish, Move, TypeOK
<1>5. CASE Analyze(j) \/ Infer(j)
  BY <1>5 DEF Analyze, Infer, Return, Move, TypeOK
<1>6. CASE \/ Checkout(j) \/ PoolTimeout(j) \/ QueryAnswers(j) \/ Flush(j) \/ Score(j)
           \/ DailySummary(j) \/ StartThread(j) \/ Commit(j) \/ Refresh(j)
           \/ Announced(j) \/ AnswerAnalytics(j)
  BY <1>6 DEF Checkout, PoolTimeout, QueryAnswers, Flush, Score, DailySummary, StartThread,
              Commit, Refresh, Announced, AnswerAnalytics, Move, Finish, TypeOK
<1>7. CASE \E kind \in Kinds, text \in Texts \cup {NoText} : Arrive(j, kind, text)
  BY <1>7 DEF Arrive, TypeOK
<1> QED
  BY <1>3, <1>4, <1>5, <1>6, <1>7 DEF JobStep

(* The job's own steps: none ends it before its message is committed. *)
LEMMA OwnStep ==
    ASSUME TypeOK, NEW r \in Requests, Scored(r), JobStep(r) \/ TakeLock(r)
    PROVE  job'[r].at \in InThread \cup {"queued", "returned", "refreshing"}
<1>1. /\ job \in [Jobs -> Job] /\ r \in Jobs /\ job[r] \in Job
      /\ job[r].kind = "create" /\ job[r].at \in InThread \cup {"queued", "returned"}
  BY DEF TypeOK, Jobs, Scored, InAiLayer
<1>2. ASSUME NEW place \in {"locking", "loading", "publishing", "inferring", "scoring"},
             Move(r, place)
      PROVE  job'[r].at \in InThread
  BY <1>1, <1>2 DEF Move, InThread, Job
<1>3. ASSUME NEW result \in Results, Return(r, result)
      PROVE  job'[r].at = "returned"
  BY <1>1, <1>3 DEF Return, Job
<1>4. ASSUME LoaderReturns(r) \/ \E result \in Results : LoaderRaises(r, result)
      PROVE  job'[r].at \in InThread \cup {"returned"}
  BY <1>1, <1>2, <1>3, <1>4 DEF LoaderReturns, LoaderRaises
<1>5. {"raised", "unavailable", "answer"} \subseteq Results
  BY DEF Results
<1>6. CASE TakeLock(r)
  BY <1>2, <1>4, <1>6 DEF TakeLock
<1>7. CASE LoadStep(r)
  BY <1>2, <1>4, <1>5, <1>7 DEF LoadStep, ImportFails, LoadFails, LoadSucceeds, Publish
<1>8. CASE Analyze(r)
  BY <1>2, <1>3, <1>5, <1>8 DEF Analyze
<1>9. CASE Infer(r)
  BY <1>1, <1>3, <1>5, <1>9 DEF Infer
<1>10. CASE StartThread(r)
  <2>1. job'[r].at = "scoring"
    BY <1>1, <1>10 DEF StartThread, Job
  <2> QED
    BY <2>1 DEF InThread
<1>11. CASE Commit(r)
  BY <1>1, <1>11 DEF Commit, Job
<1>12. CASE \/ Checkout(r) \/ PoolTimeout(r) \/ QueryAnswers(r) \/ Flush(r) \/ Score(r)
            \/ DailySummary(r) \/ Refresh(r) \/ Announced(r) \/ AnswerAnalytics(r)
  BY <1>1, <1>12 DEF Checkout, PoolTimeout, QueryAnswers, Flush, Score, DailySummary,
                     Refresh, Announced, AnswerAnalytics, InThread
<1> QED
  BY <1>6, <1>7, <1>8, <1>9, <1>10, <1>11, <1>12 DEF JobStep

(* crud.py, for any number of anything: whatever becomes of the AI layer, *)
(* a message that entered it is committed (_attach_sentiment).            *)
THEOREM MessagesSurviveTheAiLayer == Spec => OnlyTheScoreIsLost
<1> DEFINE Kept ==
      \A r \in Requests :
          Scored(r) => job[r]'.at \in InThread \cup {"queued", "returned", "refreshing"}
<1>1. TypeOK /\ [Next]_vars => Kept
  <2> SUFFICES ASSUME TypeOK, [Next]_vars, NEW r \in Requests, Scored(r)
               PROVE  job'[r].at \in InThread \cup {"queued", "returned", "refreshing"}
    OBVIOUS
  <2>0. r \in Jobs /\ job[r].at \in InThread \cup {"queued", "returned"}
    BY DEF Jobs, Scored, InAiLayer
  <2>1. ASSUME NEW j \in Requests, NEW kind \in Kinds, NEW text \in Texts \cup {NoText},
               Arrive(j, kind, text)
        PROVE  job'[r] = job[r]
    <3>1. j # r /\ j \in Jobs
      BY <2>1 DEF Arrive, Idle, Scored, Jobs
    <3> QED
      BY <2>0, <2>1, <3>1, OthersStay
  <2>2. ASSUME NEW j \in Jobs, JobStep(j) \/ TakeLock(j), j # r
        PROVE  job'[r] = job[r]
    BY <2>0, <2>2, OthersStay
  <2>3. CASE UNCHANGED vars
    BY <2>0, <2>3 DEF vars
  <2> QED
    BY <2>0, <2>1, <2>2, <2>3, OwnStep DEF Next
<1>2. Kept => \A r \in Requests :
                job[r].kind = "create" /\ (InAiLayer(r) \/ job[r].at = "returned") =>
                  job[r]'.at \in InThread \cup {"queued", "returned", "refreshing"}
  BY DEF Scored
<1> QED
  BY <1>1, <1>2, TypeCorrect, PTL DEF Spec, OnlyTheScoreIsLost
=============================================================================
