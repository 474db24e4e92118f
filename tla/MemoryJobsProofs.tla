-------------------------- MODULE MemoryJobsProofs --------------------------
(***************************************************************************)
(* What MemoryJobs promises for any number of threads, processes, claims   *)
(* and resets.  Two of the results are about processes that keep their     *)
(* leases; their hypotheses on the constants are named below.              *)
(***************************************************************************)
EXTENDS MemoryJobs, FiniteSetTheorems, WellFoundedInduction, TLAPS

\* Selected jobs are tried soon: within the retry delay, and within what is left of a lease
\* whose transaction used an old time.
ScansInTime == ~Suspends /\ ScanTime <= RetryDelay /\ ScanTime + Delay <= Lease

\* Consolidators keep their leases, and nobody resets the memories.
LeasesKept == ~Suspends /\ Delay < Lease /\ MaxResets = 0

-----------------------------------------------------------------------------
(* Stage 1.                                                                 *)

JobRows == [status : Statuses, token : Nat, lease : Int, retryAt : Int, retries : 0..Retries,
            input : Int, success : Int]
OutRows == [source : Int, selected : Int, reset : Nat]
Picks == [thread : Threads, source : 0..MaxTime, at : Nat]
Claims == [by : Extractors, thread : Threads, source : 0..MaxTime, token : Nat \ {0},
           until : Int, reset : Nat]

StageTypes ==
  /\ now \in 0..MaxTime /\ updated \in [Threads -> Int]
  /\ job \in [Threads -> JobRows] /\ out \in [Threads -> OutRows]
  /\ scan \in [Extractors -> SUBSET Picks] /\ held \in SUBSET Claims
  /\ tokens \in 0..MaxTokens /\ resets \in 0..MaxResets
  /\ fails \in [Threads -> [0..MaxTime -> Nat]]

\* No row, selection or claim is about a version its thread does not have yet.
RowInv(t) ==
  /\ updated[t] \in 0..now
  /\ job[t].input \in -1..updated[t] /\ job[t].token <= tokens
  /\ job[t].status = "running" => job[t].retries > 0
  /\ job[t].status = "done" => job[t].success = job[t].input
OutInv(t) ==
  /\ out[t].source \in -1..updated[t] /\ out[t].selected \in -1..out[t].source
  /\ out[t].source >= 0 => out[t].reset = resets
PickInv(s) == s.source <= updated[s.thread] /\ s.at <= now

\* A claim and the row it was made of: the tokens tell which claim has the row, and a claim
\* of after the last reset whose lease lasts has it.
ClaimInv(h) ==
  /\ h.source <= updated[h.thread] /\ h.token <= tokens /\ h.reset <= resets
  /\ job[h.thread].token = h.token => h.reset = resets
  /\ Owned(job[h.thread], h.token) => /\ h.source = job[h.thread].input
                                      /\ h.until = job[h.thread].lease
  /\ h.reset = resets /\ h.until > now => Owned(job[h.thread], h.token)

TokensUnique == \A h, k \in held : h.token = k.token => h = k

StageInv ==
  /\ StageTypes
  /\ \A t \in Threads : RowInv(t) /\ OutInv(t)
  /\ \A e \in Extractors : \A s \in scan[e] : PickInv(s)
  /\ \A h \in held : ClaimInv(h)
  /\ TokensUnique /\ NoDuplicateWork /\ RunningCap

\* Failures are counted against the retries of the version they are of, and a selection
\* that is out of date finds its row backing off, leased or done.
RetryInv(t) ==
  /\ \A v \in 0..MaxTime : v > job[t].input => fails[t][v] = 0
  /\ job[t].input >= 0 => fails[t][job[t].input] + job[t].retries <= Retries
StaleInv(s) ==
  /\ s.at + ScanTime > now
  /\ job[s.thread].input > s.source =>
       LET j == job[s.thread] IN
       \/ j.status = "error" /\ j.retryAt >= s.at + RetryDelay
       \/ j.status = "running" /\ j.lease + Delay >= s.at + Lease
       \/ j.status = "done"
FailInv ==
  /\ \A t \in Threads : RetryInv(t)
  /\ \A e \in Extractors : \A s \in scan[e] : StaleInv(s)
  /\ RetriesBounded

-----------------------------------------------------------------------------
(* Phase 2.                                                                 *)

GlobRows == [status : Statuses, token : Nat, lease : Int, retryAt : Int, retries : 0..Retries,
             finished : Int, failed : BOOLEAN, input : Int, success : Int]
Snapshots == [thread : Threads, source : Int, reset : Nat]
Runs == [stage : Stages, token : Nat, mark : Int, input : SUBSET Snapshots, until : Int]
Dirs == [inputs : SUBSET Snapshots, digest : SUBSET Snapshots, repo : BOOLEAN]

GlobTypes ==
  /\ glob \in GlobRows /\ con \in [Consolidators -> Runs] /\ lastDone \in Int
  /\ work \in Dirs /\ base \in Dirs

\* The run that has the row has seen no output the row does not know of.
RunInv(c) ==
  /\ con[c].token <= tokens
  /\ con[c].stage = "rest" => con[c].token = 0
  /\ Owned(glob, con[c].token) => /\ con[c].mark <= glob.input
                                  /\ \A i \in con[c].input : i.source <= glob.input
RunTokensUnique ==
  \A c, d \in Consolidators : con[c].token = con[d].token /\ con[c].token # 0 => c = d

GlobInv ==
  /\ GlobTypes
  /\ glob.token <= tokens /\ (glob.status = "running" => glob.token # 0)
  /\ glob.input >= -1 /\ (glob.status # "absent" => glob.input >= 0)
  /\ glob.status = "absent" => glob = NoGlob
  /\ glob.status # "running" /\ ~glob.failed /\ lastDone >= 0 => glob.finished = lastDone
  /\ \A c \in Consolidators : RunInv(c)
  /\ RunTokensUnique /\ OutputsEnqueued

\* While leases are kept, a run that has not given up has the row, and the inputs in the
\* directory, later in the baseline, are the ones it selected.
Active(c) == con[c].stage \notin {"rest", "closing"}
HasDirectory(c) ==
  /\ Active(c) => Owned(glob, con[c].token) /\ glob.lease = con[c].until /\ con[c].until > now
  /\ con[c].stage \in {"diff", "agent", "reset"} => work.inputs = con[c].input
  /\ con[c].stage = "succeed" => base.inputs = con[c].input
DirectoryInv ==
  /\ ~resetting
  /\ \A c \in Consolidators : HasDirectory(c)
  /\ SelectedInBaseline

-----------------------------------------------------------------------------
(* Facts the proofs keep needing.                                           *)

LEMMA Numbers ==
  /\ MaxRunning \in Nat \ {0} /\ Lease \in Nat \ {0} /\ RetryDelay \in Nat \ {0}
  /\ Retries \in Nat \ {0} /\ ScanTime \in Nat \ {0}
  /\ Cooldown \in Nat /\ Idle \in Nat /\ Delay \in Nat /\ MaxTime \in Nat
  /\ MaxTokens \in Nat /\ MaxResets \in Nat /\ Idle <= MaxTime
BY ConstantsAssumption

\* The fields of rows, selections and claims.
LEMMA StageFields ==
  ASSUME StageTypes
  PROVE  /\ \A t \in Threads :
              /\ updated[t] \in Int /\ job[t] \in JobRows /\ out[t] \in OutRows
              /\ job[t].status \in Statuses /\ job[t].token \in Nat /\ job[t].lease \in Int
              /\ job[t].retryAt \in Int /\ job[t].retries \in 0..Retries
              /\ job[t].input \in Int /\ job[t].success \in Int
              /\ out[t].source \in Int /\ out[t].selected \in Int /\ out[t].reset \in Nat
         /\ \A e \in Extractors : \A s \in scan[e] :
              s.thread \in Threads /\ s.source \in 0..MaxTime /\ s.at \in Nat
         /\ \A h \in held :
              /\ h.thread \in Threads /\ h.source \in 0..MaxTime /\ h.token \in Nat \ {0}
              /\ h.until \in Int /\ h.reset \in Nat
<1>1. \A t \in Threads :
        /\ updated[t] \in Int /\ job[t] \in JobRows /\ out[t] \in OutRows
        /\ job[t].status \in Statuses /\ job[t].token \in Nat /\ job[t].lease \in Int
        /\ job[t].retryAt \in Int /\ job[t].retries \in 0..Retries
        /\ job[t].input \in Int /\ job[t].success \in Int
        /\ out[t].source \in Int /\ out[t].selected \in Int /\ out[t].reset \in Nat
  BY DEF StageTypes, JobRows, OutRows
<1>2. \A e \in Extractors : \A s \in scan[e] :
        s.thread \in Threads /\ s.source \in 0..MaxTime /\ s.at \in Nat
  BY DEF StageTypes, Picks
<1>3. \A h \in held :
        /\ h.thread \in Threads /\ h.source \in 0..MaxTime /\ h.token \in Nat \ {0}
        /\ h.until \in Int /\ h.reset \in Nat
  BY DEF StageTypes, Claims
<1> QED BY <1>1, <1>2, <1>3

\* RunningCap only counts jobs that are leased now.
LeasedAt(at) == {t \in Threads : Fresh(job[t], at)}

LEMMA LeasedFinite ==
  ASSUME NEW at
  PROVE  IsFiniteSet(LeasedAt(at)) /\ Cardinality(LeasedAt(at)) \in Nat
<1>1. LeasedAt(at) \in SUBSET Threads
  BY DEF LeasedAt
<1>2. IsFiniteSet(LeasedAt(at))
  BY <1>1, FS_Subset, ConstantsAssumption
<1> QED BY <1>2, FS_CardinalityType

LEMMA CapKept ==
  ASSUME RunningCap, LeasedAt(now)' \subseteq LeasedAt(now)
  PROVE  RunningCap'
<1>1. IsFiniteSet(LeasedAt(now)) /\ Cardinality(LeasedAt(now)) \in Nat
  BY LeasedFinite
<1>2. /\ Cardinality(LeasedAt(now)') <= Cardinality(LeasedAt(now))
      /\ Cardinality(LeasedAt(now)') \in Nat
  BY <1>1, FS_Subset, FS_CardinalityType
<1> QED BY <1>1, <1>2, Numbers DEF RunningCap, LeasedAt

\* What the claims of one thread have to do with each other.
LEMMA OneOwner ==
  ASSUME StageInv, NEW h \in held, NEW k \in held, h # k, h.thread = k.thread,
         OwnsJob(h)
  PROVE  /\ job[k.thread].token # k.token
         /\ ~(k.reset = resets /\ k.until > now)
<1>1. h.token # k.token
  BY DEF StageInv, TokensUnique
<1>2. job[k.thread].token # k.token
  BY <1>1 DEF OwnsJob, Owned
<1> QED BY <1>2 DEF StageInv, ClaimInv, Owned

-----------------------------------------------------------------------------
(* Steps on stage 1.                                                        *)

stageVars == <<now, updated, job, scan, held, resets, fails>>

\* A step that changes outputs, or gives a token to a consolidator.
LEMMA OutputsChange ==
  ASSUME StageInv, UNCHANGED stageVars, tokens' \in 0..MaxTokens, tokens <= tokens',
         out' \in [Threads -> OutRows], \A t \in Threads : OutInv(t)'
  PROVE  StageInv'
<1> USE DEF StageInv, stageVars
<1>1. StageTypes' /\ tokens \in Nat /\ tokens' \in Nat
  BY Numbers DEF StageTypes
<1>2. \A t \in Threads : RowInv(t)'
  BY <1>1, StageFields DEF RowInv
<1>3. \A e \in Extractors : \A s \in scan[e] : PickInv(s)'
  BY DEF PickInv
<1>4. \A h \in held : ClaimInv(h)'
  BY <1>1, StageFields DEF ClaimInv
<1>5. TokensUnique' /\ NoDuplicateWork' /\ RunningCap'
  BY DEF TokensUnique, NoDuplicateWork, RunningCap
<1> QED BY <1>1, <1>2, <1>3, <1>4, <1>5

\* A step that leaves stage 1 alone.
LEMMA StageFrame ==
  ASSUME StageInv, UNCHANGED stageVars, UNCHANGED out, tokens' \in 0..MaxTokens,
         tokens <= tokens'
  PROVE  StageInv'
<1>1. out' \in [Threads -> OutRows] /\ \A t \in Threads : OutInv(t)'
  BY DEF StageInv, StageTypes, OutInv, stageVars
<1> QED BY <1>1, OutputsChange

\* Selections and claims that are dropped.
LEMMA Dropped ==
  ASSUME StageInv, UNCHANGED <<now, updated, job, out, tokens, resets, fails>>,
         scan' \in [Extractors -> SUBSET Picks], \A e \in Extractors : scan'[e] \subseteq scan[e],
         held' \subseteq held
  PROVE  StageInv'
<1> USE DEF StageInv
<1>1. StageTypes'
  BY DEF StageTypes
<1>2. \A t \in Threads : RowInv(t)' /\ OutInv(t)'
  BY DEF RowInv, OutInv
<1>3. \A e \in Extractors : \A s \in scan'[e] : PickInv(s)'
  BY DEF PickInv
<1>4. \A h \in held' : ClaimInv(h)'
  BY DEF ClaimInv
<1>5. TokensUnique' /\ NoDuplicateWork' /\ RunningCap'
  BY DEF TokensUnique, NoDuplicateWork, RunningCap
<1> QED BY <1>1, <1>2, <1>3, <1>4, <1>5

\* The owner of a row gives it up.
LEMMA Released ==
  ASSUME StageInv, NEW h \in held, OwnsJob(h), held' = held \ {h},
         UNCHANGED <<now, updated, scan, tokens, resets>>,
         NEW j \in JobRows, job' = [job EXCEPT ![h.thread] = j], j.status # "running",
         j.token = job[h.thread].token, j.input = job[h.thread].input,
         j.status = "done" => j.success = j.input,
         out' \in [Threads -> OutRows], \A t \in Threads : OutInv(t)',
         fails' \in [Threads -> [0..MaxTime -> Nat]]
  PROVE  StageInv'
<1> USE DEF StageInv
<1>1. h.thread \in Threads
  BY StageFields
<1>2. job' \in [Threads -> JobRows] /\ job'[h.thread] = j
      /\ \A t \in Threads : t # h.thread => job'[t] = job[t]
  BY <1>1 DEF StageTypes
<1>3. StageTypes'
  BY <1>2 DEF StageTypes
<1>4. ASSUME NEW t \in Threads PROVE RowInv(t)'
  <2>1. CASE t = h.thread
    BY <2>1, <1>2 DEF RowInv
  <2>2. CASE t # h.thread
    BY <2>2, <1>2 DEF RowInv
  <2> QED BY <2>1, <2>2
<1>5. \A e \in Extractors : \A s \in scan'[e] : PickInv(s)'
  BY DEF PickInv
<1>6. ASSUME NEW k \in held' PROVE ClaimInv(k)'
  <2>1. k \in held /\ k # h /\ ClaimInv(k) /\ k.thread \in Threads
    BY StageFields
  <2>2. CASE k.thread # h.thread
    BY <2>1, <2>2, <1>2 DEF ClaimInv
  <2>3. CASE k.thread = h.thread
    BY <2>1, <2>3, <1>2, OneOwner DEF ClaimInv, Owned
  <2> QED BY <2>2, <2>3
<1>7. TokensUnique' /\ NoDuplicateWork'
  BY DEF TokensUnique, NoDuplicateWork
<1>8. LeasedAt(now)' \subseteq LeasedAt(now)
  BY <1>2 DEF LeasedAt, Fresh
<1> QED BY <1>3, <1>4, <1>5, <1>6, <1>7, <1>8, CapKept

\* claim_stage1_jobs_for_startup selects.
LEMMA ScanStep ==
  ASSUME StageInv, NEW e \in Extractors, Scan(e)
  PROVE  StageInv'
<1> USE DEF StageInv
<1> DEFINE new == {[thread |-> t, source |-> updated[t], at |-> now] :
                     t \in {u \in Threads : Eligible(u)}}
<1>1. UNCHANGED <<now, updated, job, out, held, tokens, resets, fails>>
  BY DEF Scan, people, stageOne
<1>2. scan' = [scan EXCEPT ![e] = new]
  BY DEF Scan
<1>3. now \in Nat /\ \A t \in Threads : updated[t] \in 0..MaxTime
  BY Numbers DEF StageTypes, RowInv
<1>4. \A s \in new : s \in Picks /\ s.thread \in Threads /\ s.source = updated[s.thread] /\ s.at = now
  BY <1>3 DEF Picks
<1> HIDE DEF new
<1>5. scan' \in [Extractors -> SUBSET Picks]
  BY <1>2, <1>4 DEF StageTypes
<1>6. StageTypes'
  BY <1>1, <1>5 DEF StageTypes
<1>7. \A t \in Threads : RowInv(t)' /\ OutInv(t)'
  BY <1>1 DEF RowInv, OutInv
<1>8. ASSUME NEW d \in Extractors, NEW s \in scan'[d] PROVE PickInv(s)'
  <2>1. CASE s \in new
    BY <2>1, <1>1, <1>3, <1>4 DEF PickInv
  <2>2. CASE s \in scan[d]
    BY <2>2, <1>1 DEF PickInv
  <2> QED BY <2>1, <2>2, <1>2 DEF StageTypes
<1>9. \A h \in held' : ClaimInv(h)'
  BY <1>1 DEF ClaimInv
<1>10. TokensUnique' /\ NoDuplicateWork' /\ RunningCap'
  BY <1>1 DEF TokensUnique, NoDuplicateWork, RunningCap
<1> QED BY <1>6, <1>7, <1>8, <1>9, <1>10

\* What a claim leaves behind.
NewClaim(e, s, at) ==
  [by |-> e, thread |-> s.thread, source |-> s.source, token |-> tokens + 1,
   until |-> at + Lease, reset |-> resets]

LEMMA ClaimEffect ==
  ASSUME StageInv, NEW e \in Extractors, NEW s \in scan[e], ClaimJob(e, s)
  PROVE  /\ s.thread \in Threads /\ s.source \in 0..MaxTime
         /\ UNCHANGED <<now, updated, out, resets, fails>> /\ tokens' = tokens + 1
         /\ tokens' \in 0..MaxTokens
         /\ scan' \in [Extractors -> SUBSET Picks]
         /\ \A d \in Extractors : scan'[d] \subseteq scan[d]
         /\ \E at \in Times :
              /\ at \in Nat /\ at <= now /\ now <= at + Delay
              /\ CanClaim(s.thread, s.source, at)
              /\ job' \in [Threads -> JobRows]
              /\ \A t \in Threads : t # s.thread => job'[t] = job[t]
              /\ job'[s.thread].status = "running" /\ job'[s.thread].token = tokens + 1
              /\ job'[s.thread].lease = at + Lease /\ job'[s.thread].input = s.source
              /\ job'[s.thread].retries = IF s.source > job[s.thread].input
                                            THEN Retries ELSE job[s.thread].retries
              /\ held' = held \cup {NewClaim(e, s, at)} /\ NewClaim(e, s, at) \in Claims
<1> USE DEF StageInv
<1>1. s.thread \in Threads /\ s.source \in 0..MaxTime
  BY StageFields
<1>2. UNCHANGED <<now, updated, out, resets, fails>> /\ tokens' = tokens + 1 /\ tokens < MaxTokens
  BY DEF ClaimJob, people
<1>3. tokens \in Nat /\ now \in Nat /\ resets \in Nat /\ tokens' \in 0..MaxTokens
  BY <1>2, Numbers DEF StageTypes
<1>4. /\ scan' \in [Extractors -> SUBSET Picks]
      /\ \A d \in Extractors : scan'[d] \subseteq scan[d]
  BY DEF ClaimJob, StageTypes
<1>5. PICK at \in Times :
        /\ CanClaim(s.thread, s.source, at)
        /\ job' = [job EXCEPT ![s.thread] =
                     [@ EXCEPT !.status = "running", !.token = tokens + 1,
                               !.lease = at + Lease, !.retryAt = -1,
                               !.retries = IF s.source > job[s.thread].input THEN Retries ELSE job[s.thread].retries,
                               !.input = s.source]]
        /\ held' = held \cup {[by |-> e, thread |-> s.thread, source |-> s.source,
                               token |-> tokens + 1, until |-> at + Lease, reset |-> resets]}
  BY DEF ClaimJob
<1>6. at \in Nat /\ at <= now /\ now <= at + Delay
  BY <1>3, Numbers DEF Times
<1> DEFINE j == job[s.thread]
           r == IF s.source > j.input THEN Retries ELSE j.retries
           new == [job[s.thread] EXCEPT
                     !.status = "running", !.token = tokens + 1, !.lease = at + Lease,
                     !.retryAt = -1,
                     !.retries = IF s.source > job[s.thread].input THEN Retries ELSE job[s.thread].retries,
                     !.input = s.source]
<1>7. j \in JobRows /\ r \in 0..Retries /\ tokens + 1 \in Nat /\ at + Lease \in Int
      /\ -1 \in Int /\ s.source \in Int /\ "running" \in Statuses
  BY <1>1, <1>3, <1>6, StageFields, Numbers DEF Statuses
<1>8. job' = [job EXCEPT ![s.thread] = new] /\ held' = held \cup {NewClaim(e, s, at)}
  BY <1>5, Zenon DEF NewClaim
<1>9. new \in JobRows
  BY <1>7, Zenon DEF JobRows
<1>10. /\ new.status = "running" /\ new.token = tokens + 1 /\ new.lease = at + Lease
       /\ new.input = s.source /\ new.retries = r
  BY <1>7 DEF JobRows
<1> HIDE DEF new, j, r
<1>11. /\ job' \in [Threads -> JobRows] /\ job'[s.thread] = new
       /\ \A t \in Threads : t # s.thread => job'[t] = job[t]
  BY <1>1, <1>8, <1>9 DEF StageTypes
<1>12. NewClaim(e, s, at) \in Claims
  BY <1>1, <1>3, <1>6, <1>7 DEF NewClaim, Claims
<1> QED BY <1>1, <1>2, <1>3, <1>4, <1>5, <1>6, <1>8, <1>10, <1>11, <1>12 DEF r, j

\* try_claim_stage1_job.
LEMMA ClaimStep ==
  ASSUME StageInv, NEW e \in Extractors, NEW s \in scan[e], ClaimJob(e, s)
  PROVE  StageInv'
<1> USE DEF StageInv
<1>1. /\ s.thread \in Threads /\ s.source \in 0..MaxTime
      /\ UNCHANGED <<now, updated, out, resets, fails>> /\ tokens' = tokens + 1
      /\ tokens' \in 0..MaxTokens
      /\ scan' \in [Extractors -> SUBSET Picks]
      /\ \A d \in Extractors : scan'[d] \subseteq scan[d]
  BY ClaimEffect
<1>2. PICK at \in Times :
              /\ at \in Nat /\ at <= now /\ now <= at + Delay
              /\ CanClaim(s.thread, s.source, at)
              /\ job' \in [Threads -> JobRows]
              /\ \A t \in Threads : t # s.thread => job'[t] = job[t]
              /\ job'[s.thread].status = "running" /\ job'[s.thread].token = tokens + 1
              /\ job'[s.thread].lease = at + Lease /\ job'[s.thread].input = s.source
              /\ job'[s.thread].retries = IF s.source > job[s.thread].input
                                            THEN Retries ELSE job[s.thread].retries
              /\ held' = held \cup {NewClaim(e, s, at)} /\ NewClaim(e, s, at) \in Claims
  BY ClaimEffect
<1> DEFINE n == NewClaim(e, s, at)
           j == job[s.thread]
<1>3. /\ n.thread = s.thread /\ n.source = s.source /\ n.token = tokens + 1
      /\ n.until = at + Lease /\ n.reset = resets
  BY DEF NewClaim
<1>4. tokens \in Nat /\ now \in Nat /\ resets \in Nat
  BY Numbers DEF StageTypes
<1>5. StageTypes'
  BY <1>1, <1>2 DEF StageTypes
<1>6. s.source <= updated[s.thread] /\ updated[s.thread] \in 0..now
  BY <1>1 DEF PickInv, RowInv
<1>7. ASSUME NEW t \in Threads PROVE RowInv(t)' /\ OutInv(t)'
  <2>1. OutInv(t)'
    BY <1>1 DEF OutInv
  <2>2. CASE t # s.thread
    <3>1. RowInv(t)'
      BY <2>2, <1>1, <1>2, <1>4, StageFields DEF RowInv
    <3> QED BY <2>1, <3>1
  <2>3. CASE t = s.thread
    <3>1. job'[t].retries > 0
      BY <2>3, <1>2, <1>1, StageFields, Numbers DEF CanClaim
    <3>2. RowInv(t)'
      BY <2>3, <3>1, <1>1, <1>2, <1>4, <1>6 DEF RowInv
    <3> QED BY <2>1, <3>2
  <2> QED BY <2>2, <2>3
<1>8. \A d \in Extractors : \A p \in scan'[d] : PickInv(p)'
  BY <1>1 DEF PickInv
<1>9. ASSUME NEW k \in held, k.thread = s.thread
      PROVE  ~(k.reset = resets /\ k.until > now)
  <2>1. ~Fresh(j, at)
    BY <1>2 DEF CanClaim
  <2>2. k.until \in Int /\ j.lease \in Int
    BY <1>1, StageFields
  <2>3. Owned(j, k.token) => k.until = j.lease
    BY <1>9 DEF ClaimInv
  <2> QED BY <2>1, <2>2, <2>3, <1>2, <1>4, <1>9 DEF ClaimInv, Owned, Fresh
<1>10. \A k \in held : k.token <= tokens /\ k.token \in Nat /\ k.thread \in Threads
  BY StageFields DEF ClaimInv
<1>11. ASSUME NEW k \in held' PROVE ClaimInv(k)'
  <2>1. CASE k = n
    BY <2>1, <1>1, <1>2, <1>3, <1>4, <1>6 DEF ClaimInv, Owned
  <2>2. CASE k \in held /\ k.thread # s.thread
    BY <2>2, <1>1, <1>2, <1>4, <1>10 DEF ClaimInv
  <2>3. CASE k \in held /\ k.thread = s.thread
    <3>1. job'[k.thread].token # k.token
      BY <2>3, <1>2, <1>4, <1>10
    <3> QED BY <2>3, <3>1, <1>1, <1>4, <1>9, <1>10 DEF ClaimInv, Owned
  <2> QED BY <2>1, <2>2, <2>3, <1>2
<1>12. TokensUnique'
  BY <1>2, <1>3, <1>4, <1>10 DEF TokensUnique
<1>13. NoDuplicateWork'
  <2> SUFFICES ASSUME NEW h \in held', NEW k \in held', h # k, h.thread = k.thread,
                      h.reset = k.reset
               PROVE  h.until <= now \/ k.until <= now
    BY <1>1 DEF NoDuplicateWork
  <2>1. CASE h \in held /\ k \in held
    BY <2>1 DEF NoDuplicateWork
  <2>2. \A m \in held : m.until \in Int
    BY StageFields
  <2>3. CASE h = n /\ k \in held
    BY <2>2, <2>3, <1>3, <1>4, <1>9
  <2>4. CASE k = n /\ h \in held
    BY <2>2, <2>4, <1>3, <1>4, <1>9
  <2> QED BY <2>1, <2>3, <2>4, <1>2
<1>14. RunningCap'
  <2>1. Cardinality(LeasedAt(at)) < MaxRunning
    BY <1>2 DEF CanClaim, LeasedAt
  <2>2. IsFiniteSet(LeasedAt(at)) /\ Cardinality(LeasedAt(at)) \in Nat
    BY LeasedFinite
  <2> DEFINE S == LeasedAt(at) \cup {s.thread}
  <2>3. IsFiniteSet(S) /\ Cardinality(S) <= Cardinality(LeasedAt(at)) + 1
        /\ Cardinality(S) \in Nat
    <3>1. IsFiniteSet(S) /\ (\/ Cardinality(S) = Cardinality(LeasedAt(at))
                             \/ Cardinality(S) = Cardinality(LeasedAt(at)) + 1)
      BY <2>2, FS_AddElement
    <3> QED BY <2>2, <3>1
  <2>4. LeasedAt(now)' \subseteq S
    <3> SUFFICES ASSUME NEW t \in Threads, t # s.thread, Fresh(job'[t], now)
                 PROVE  Fresh(job[t], at)
      BY <1>1, <1>2 DEF LeasedAt
    <3> QED BY <1>2, <1>4, StageFields DEF Fresh
  <2>5. Cardinality(LeasedAt(now)') <= Cardinality(S) /\ Cardinality(LeasedAt(now)') \in Nat
    BY <2>3, <2>4, FS_Subset, FS_CardinalityType
  <2>6. Cardinality(LeasedAt(now)') <= MaxRunning
    BY <2>1, <2>2, <2>3, <2>5, Numbers
  <2> QED BY <2>6 DEF RunningCap, LeasedAt
<1> QED BY <1>5, <1>7, <1>8, <1>11, <1>12, <1>13, <1>14

\* The two rows a successful extraction leaves: its job and its output.
LEMMA FinishedEffect ==
  ASSUME StageInv, NEW h \in held, Finished(h)
  PROVE  \E j \in JobRows :
           /\ job' = [job EXCEPT ![h.thread] = j] /\ j.status = "done"
           /\ j.token = job[h.thread].token /\ j.input = job[h.thread].input
           /\ j.success = j.input /\ j.retries = job[h.thread].retries
<1> DEFINE o == job[h.thread]
           j == [job[h.thread] EXCEPT !.status = "done", !.lease = -1,
                                      !.success = job[h.thread].input]
<1>1. o \in JobRows /\ o.input \in Int /\ -1 \in Int /\ "done" \in Statuses
  BY StageFields DEF StageInv, Statuses
<1>2. j \in JobRows
  BY <1>1, Zenon DEF JobRows
<1>3. /\ j.status = "done" /\ j.token = o.token /\ j.input = o.input /\ j.success = o.input
      /\ j.retries = o.retries
  BY <1>1 DEF JobRows
<1>4. job' = [job EXCEPT ![h.thread] = j]
  BY Zenon DEF Finished
<1> HIDE DEF j
<1> QED BY <1>2, <1>3, <1>4

\* mark_stage1_job_succeeded.
LEMMA SucceedsStep ==
  ASSUME StageInv, NEW h \in held, StageOneSucceeds(h)
  PROVE  StageInv'
<1>1. /\ held' = held \ {h} /\ OwnsJob(h) /\ Finished(h)
      /\ UNCHANGED <<now, updated, scan, tokens, resets, fails>>
  BY DEF StageOneSucceeds, Settled, people
<1>2. PICK j \in JobRows :
        /\ job' = [job EXCEPT ![h.thread] = j] /\ j.status = "done"
        /\ j.token = job[h.thread].token /\ j.input = job[h.thread].input
        /\ j.success = j.input /\ j.retries = job[h.thread].retries
  BY <1>1, FinishedEffect
<1> DEFINE o == out[h.thread]
           n == [out[h.thread] EXCEPT !.source = h.source, !.reset = h.reset]
<1>3. /\ StageTypes /\ h.thread \in Threads /\ h.source \in Int /\ h.source >= 0 /\ h.reset \in Nat
      /\ o \in OutRows /\ OutInv(h.thread) /\ o.source \in Int /\ o.selected \in Int
      /\ h.source <= updated[h.thread] /\ updated[h.thread] \in Int
  BY StageFields DEF StageInv, ClaimInv
<1>4. h.reset = resets
  BY <1>1 DEF StageInv, ClaimInv, OwnsJob, Owned
<1>5. n \in OutRows /\ n.source = h.source /\ n.selected = o.selected /\ n.reset = h.reset
  BY <1>3 DEF OutRows
<1>6. \/ h.source >= o.source /\ out' = [out EXCEPT ![h.thread] = n]
      \/ out' = out
  BY Zenon DEF StageOneSucceeds
<1> HIDE DEF n
<1>7. out' \in [Threads -> OutRows] /\ \A t \in Threads : OutInv(t)'
  <2>1. CASE out' = out
    BY <2>1, <1>1, <1>3 DEF StageInv, StageTypes, OutInv
  <2>2. CASE h.source >= o.source /\ out' = [out EXCEPT ![h.thread] = n]
    <3>1. /\ out' \in [Threads -> OutRows] /\ out'[h.thread] = n
          /\ \A t \in Threads : t # h.thread => out'[t] = out[t]
      BY <2>2, <1>3, <1>5 DEF StageTypes
    <3>2. OutInv(h.thread)'
      BY <2>2, <3>1, <1>1, <1>3, <1>4, <1>5 DEF OutInv
    <3>3. \A t \in Threads : t # h.thread => OutInv(t)'
      BY <3>1, <1>1 DEF StageInv, OutInv
    <3> QED BY <3>1, <3>2, <3>3
  <2> QED BY <2>1, <2>2, <1>6
<1>8. fails' \in [Threads -> [0..MaxTime -> Nat]]
  BY <1>1, <1>3 DEF StageTypes
<1> QED BY <1>1, <1>2, <1>7, <1>8, Released

\* An output is deleted.
LEMMA OutputDeleted ==
  ASSUME StageInv, NEW t \in Threads, out' = [out EXCEPT ![t] = NoOut],
         UNCHANGED <<now, updated, resets>>
  PROVE  out' \in [Threads -> OutRows] /\ \A u \in Threads : OutInv(u)'
<1>1. NoOut \in OutRows /\ NoOut.source = -1 /\ NoOut.selected = -1
  BY DEF NoOut, OutRows
<1>2. /\ out' \in [Threads -> OutRows] /\ out'[t] = NoOut
      /\ \A u \in Threads : u # t => out'[u] = out[u]
  BY <1>1 DEF StageInv, StageTypes
<1>3. updated[t] \in Int /\ updated[t] >= 0
  BY DEF StageInv, RowInv, StageTypes
<1>4. OutInv(t)'
  BY <1>1, <1>2, <1>3 DEF OutInv
<1>5. \A u \in Threads : u # t => OutInv(u)'
  BY <1>2 DEF StageInv, OutInv
<1> QED BY <1>2, <1>4, <1>5

\* mark_stage1_job_succeeded_no_output.
LEMMA EmptyStep ==
  ASSUME StageInv, NEW h \in held, StageOneEmpty(h)
  PROVE  StageInv'
<1>1. /\ held' = held \ {h} /\ OwnsJob(h) /\ Finished(h)
      /\ UNCHANGED <<now, updated, scan, tokens, resets, fails>>
      /\ out' = [out EXCEPT ![h.thread] = NoOut]
  BY DEF StageOneEmpty, Settled, people
<1>2. PICK j \in JobRows :
        /\ job' = [job EXCEPT ![h.thread] = j] /\ j.status = "done"
        /\ j.token = job[h.thread].token /\ j.input = job[h.thread].input
        /\ j.success = j.input /\ j.retries = job[h.thread].retries
  BY <1>1, FinishedEffect
<1>3. out' \in [Threads -> OutRows] /\ \A u \in Threads : OutInv(u)'
  BY <1>1, StageFields, OutputDeleted DEF StageInv
<1>4. fails' \in [Threads -> [0..MaxTime -> Nat]]
  BY <1>1 DEF StageInv, StageTypes
<1> QED BY <1>1, <1>2, <1>3, <1>4, Released

\* mark_stage1_job_failed: a retry is used up, and the row backs off.
LEMMA FailsEffect ==
  ASSUME StageInv, NEW h \in held, StageOneFails(h)
  PROVE  /\ held' = held \ {h} /\ OwnsJob(h)
         /\ UNCHANGED <<now, updated, out, scan, tokens, resets>>
         /\ \E j \in JobRows :
              /\ job' = [job EXCEPT ![h.thread] = j] /\ j.status = "error"
              /\ j.token = job[h.thread].token /\ j.input = job[h.thread].input
              /\ j.retryAt = now + RetryDelay /\ j.retries = job[h.thread].retries - 1
         /\ fails' \in [Threads -> [0..MaxTime -> Nat]]
         /\ \A t \in Threads : \A v \in 0..MaxTime :
              fails'[t][v] = IF t = h.thread /\ v = h.source THEN fails[t][v] + 1 ELSE fails[t][v]
<1>1. /\ held' = held \ {h} /\ OwnsJob(h)
      /\ UNCHANGED <<now, updated, out, scan, tokens, resets>>
  BY DEF StageOneFails, Settled, people
<1> DEFINE o == job[h.thread]
           j == [job[h.thread] EXCEPT !.status = "error", !.lease = -1,
                   !.retryAt = now + RetryDelay, !.retries = job[h.thread].retries - 1]
<1>2. /\ StageTypes /\ h.thread \in Threads /\ h.source \in 0..MaxTime
      /\ o \in JobRows /\ o.retries \in 0..Retries
  BY StageFields DEF StageInv
<1>3. o.retries > 0
  BY <1>1, <1>2 DEF StageInv, RowInv, OwnsJob, Owned
<1>4. now + RetryDelay \in Int /\ o.retries - 1 \in 0..Retries /\ -1 \in Int /\ "error" \in Statuses
  BY <1>2, <1>3, Numbers DEF StageTypes, Statuses
<1>5. j \in JobRows
  BY <1>2, <1>4, Zenon DEF JobRows
<1>6. /\ j.status = "error" /\ j.token = o.token /\ j.input = o.input
      /\ j.retryAt = now + RetryDelay /\ j.retries = o.retries - 1
  BY <1>2 DEF JobRows
<1>7. job' = [job EXCEPT ![h.thread] = j]
  BY Zenon DEF StageOneFails
<1>8. fails' = [fails EXCEPT ![h.thread] = [fails[h.thread] EXCEPT ![h.source] =
                                              fails[h.thread][h.source] + 1]]
  BY <1>2, Zenon DEF StageOneFails, StageTypes
<1>9. fails[h.thread] \in [0..MaxTime -> Nat] /\ fails[h.thread][h.source] + 1 \in Nat
  <2>1. fails[h.thread] \in [0..MaxTime -> Nat]
    BY <1>2 DEF StageTypes
  <2>2. fails[h.thread][h.source] \in Nat
    BY <1>2, <2>1
  <2> QED BY <2>1, <2>2
<1>10. fails' \in [Threads -> [0..MaxTime -> Nat]]
  BY <1>2, <1>8, <1>9 DEF StageTypes
<1>11. \A t \in Threads : \A v \in 0..MaxTime :
         fails'[t][v] = IF t = h.thread /\ v = h.source THEN fails[t][v] + 1 ELSE fails[t][v]
  BY <1>2, <1>8, <1>9 DEF StageTypes
<1> HIDE DEF j
<1> QED BY <1>1, <1>5, <1>6, <1>7, <1>10, <1>11

LEMMA FailsStep ==
  ASSUME StageInv, NEW h \in held, StageOneFails(h)
  PROVE  StageInv'
<1>1. /\ held' = held \ {h} /\ OwnsJob(h)
      /\ UNCHANGED <<now, updated, out, scan, tokens, resets>>
      /\ fails' \in [Threads -> [0..MaxTime -> Nat]]
  BY FailsEffect
<1>2. PICK j \in JobRows :
              /\ job' = [job EXCEPT ![h.thread] = j] /\ j.status = "error"
              /\ j.token = job[h.thread].token /\ j.input = job[h.thread].input
              /\ j.retryAt = now + RetryDelay /\ j.retries = job[h.thread].retries - 1
  BY FailsEffect
<1>3. out' \in [Threads -> OutRows] /\ \A t \in Threads : OutInv(t)'
  BY <1>1 DEF StageInv, StageTypes, OutInv
<1> QED BY <1>1, <1>2, <1>3, Released

\* clear_memory_data: no claim made before it has a row after it.
LEMMA ClearStep ==
  ASSUME StageInv, ClearMemoryData
  PROVE  StageInv'
<1> USE DEF StageInv
<1>1. /\ UNCHANGED <<now, updated, scan, held, tokens>> /\ resets < MaxResets
      /\ resets' = resets + 1
      /\ out' = [t \in Threads |-> NoOut] /\ job' = [t \in Threads |-> NoJob]
      /\ fails' = [t \in Threads |-> [v \in 0..MaxTime |-> 0]]
  BY DEF ClearMemoryData, people
<1>2. NoOut \in OutRows /\ NoOut.source = -1 /\ NoOut.selected = -1
  BY DEF NoOut, OutRows
<1>3. NoJob \in JobRows /\ NoJob.status = "absent" /\ NoJob.token = 0 /\ NoJob.input = -1
  BY Numbers DEF NoJob, JobRows, Statuses
<1>4. fails' \in [Threads -> [0..MaxTime -> Nat]]
  BY <1>1
<1>5. StageTypes' /\ resets \in Nat /\ tokens \in Nat /\ now \in Nat
  BY <1>1, <1>2, <1>3, <1>4, Numbers DEF StageTypes
<1>6. \A t \in Threads : RowInv(t)' /\ OutInv(t)'
  BY <1>1, <1>2, <1>3, <1>5 DEF RowInv, OutInv
<1>7. \A e \in Extractors : \A s \in scan'[e] : PickInv(s)'
  BY <1>1 DEF PickInv
<1>8. ASSUME NEW h \in held' PROVE ClaimInv(h)'
  <2>1. /\ h \in held /\ ClaimInv(h) /\ h.thread \in Threads /\ h.token \in Nat \ {0}
        /\ h.reset \in Nat
    BY <1>1, StageFields
  <2>2. job'[h.thread].token # h.token
    BY <2>1, <1>1, <1>3
  <2> QED BY <2>1, <2>2, <1>1, <1>5 DEF ClaimInv, Owned
<1>9. TokensUnique' /\ NoDuplicateWork'
  BY <1>1 DEF TokensUnique, NoDuplicateWork
<1>10. LeasedAt(now)' \subseteq LeasedAt(now)
  BY <1>1, <1>3 DEF LeasedAt, Fresh
<1> QED BY <1>5, <1>6, <1>7, <1>8, <1>9, <1>10, CapKept

\* A thread is written to.
LEMMA TouchStep ==
  ASSUME StageInv, NEW u \in Threads, TouchThread(u)
  PROVE  StageInv'
<1> USE DEF StageInv
<1>1. /\ UNCHANGED <<now, job, out, scan, held, tokens, resets, fails>>
      /\ updated[u] < now /\ updated' = [updated EXCEPT ![u] = now]
  BY DEF TouchThread, stageOne
<1>2. now \in Nat /\ updated' \in [Threads -> Int]
      /\ \A t \in Threads : updated'[t] \in 0..now /\ updated[t] <= updated'[t]
  BY <1>1, Numbers DEF StageTypes, RowInv
<1>3. StageTypes'
  BY <1>1, <1>2 DEF StageTypes
<1>4. \A t \in Threads : RowInv(t)' /\ OutInv(t)'
  BY <1>1, <1>2, StageFields DEF RowInv, OutInv
<1>5. \A e \in Extractors : \A s \in scan'[e] : PickInv(s)'
  BY <1>1, <1>2, StageFields DEF PickInv
<1>6. \A h \in held' : ClaimInv(h)'
  BY <1>1, <1>2, StageFields DEF ClaimInv
<1>7. TokensUnique' /\ NoDuplicateWork' /\ RunningCap'
  BY <1>1 DEF TokensUnique, NoDuplicateWork, RunningCap
<1> QED BY <1>3, <1>4, <1>5, <1>6, <1>7

LEMMA TickStep ==
  ASSUME StageInv, Tick
  PROVE  StageInv'
<1> USE DEF StageInv
<1>1. /\ UNCHANGED <<updated, job, out, scan, held, tokens, resets, fails>>
      /\ now < MaxTime /\ now' = now + 1
  BY DEF Tick, people, stageOne
<1>2. now \in Nat /\ now' \in 0..MaxTime
  BY <1>1, Numbers DEF StageTypes
<1>3. StageTypes'
  BY <1>1, <1>2 DEF StageTypes
<1>4. \A t \in Threads : RowInv(t)' /\ OutInv(t)'
  BY <1>1, <1>2, StageFields DEF RowInv, OutInv
<1>5. \A e \in Extractors : \A s \in scan'[e] : PickInv(s)'
  BY <1>1, <1>2, StageFields DEF PickInv
<1>6. \A h \in held' : ClaimInv(h)'
  BY <1>1, <1>2, StageFields DEF ClaimInv
<1>7. TokensUnique' /\ NoDuplicateWork'
  BY <1>1, <1>2, StageFields DEF TokensUnique, NoDuplicateWork
<1>8. LeasedAt(now)' \subseteq LeasedAt(now)
  BY <1>1, <1>2, StageFields DEF LeasedAt, Fresh
<1> QED BY <1>3, <1>4, <1>5, <1>6, <1>7, <1>8, CapKept

\* The outputs that phase 2 marks are the ones there are.
LEMMA MarkedOutputs ==
  ASSUME StageInv, NEW input
  PROVE  /\ Marked(input) \in [Threads -> OutRows]
         /\ \A t \in Threads :
              /\ Marked(input)[t].source = out[t].source
              /\ Marked(input)[t].reset = out[t].reset
              /\ Marked(input)[t].selected \in {-1, out[t].source}
              /\ Marked(input)[t].selected >= 0 =>
                   \E i \in input : i.thread = t /\ i.source = Marked(input)[t].selected
<1> SUFFICES ASSUME NEW t \in Threads
             PROVE  /\ Marked(input)[t] \in OutRows
                    /\ Marked(input)[t].source = out[t].source
                    /\ Marked(input)[t].reset = out[t].reset
                    /\ Marked(input)[t].selected \in {-1, out[t].source}
                    /\ Marked(input)[t].selected >= 0 =>
                         \E i \in input : i.thread = t /\ i.source = Marked(input)[t].selected
  BY DEF Marked
<1> DEFINE P == \E i \in input : i.thread = t /\ i.source = out[t].source
           sel == IF P THEN out[t].source ELSE -1
<1>1. out[t] \in OutRows /\ out[t].source \in Int
  BY StageFields DEF StageInv
<1>2. sel \in Int /\ sel \in {-1, out[t].source} /\ (sel >= 0 => P /\ sel = out[t].source)
  BY <1>1
<1>3. Marked(input)[t] = [out[t] EXCEPT !.selected = sel]
  BY DEF Marked
<1> HIDE DEF sel
<1>4. [out[t] EXCEPT !.selected = sel] \in OutRows
  BY <1>1, <1>2, Zenon DEF OutRows
<1>5. /\ [out[t] EXCEPT !.selected = sel].source = out[t].source
      /\ [out[t] EXCEPT !.selected = sel].reset = out[t].reset
      /\ [out[t] EXCEPT !.selected = sel].selected = sel
  BY <1>1 DEF OutRows
<1> QED BY <1>2, <1>3, <1>4, <1>5

\* What phase 2 does to stage 1: it takes a token, or it marks outputs.
LEMMA PhaseTwoEffect ==
  ASSUME NEW c \in Consolidators,
         \/ ClaimGlobal(c) \/ Prepare(c) \/ Select(c) \/ Sync(c)
         \/ NoChanges(c) \/ SpawnAgent(c) \/ RunFails(c)
         \/ AgentWrites(c) \/ Heartbeat(c) \/ HeartbeatFails(c)
         \/ AgentFails(c) \/ AgentCompletes(c) \/ ShutdownAgent(c)
         \/ ResetBaseline(c) \/ Succeed(c) \/ ConsolidatorDies(c)
  PROVE  /\ UNCHANGED stageVars /\ resetting' = resetting
         /\ tokens' = tokens \/ (tokens < MaxTokens /\ tokens' = tokens + 1)
         /\ out' = out \/ out' = Marked(con[c].input)
<1> USE DEF stageVars, ConFrame, people
<1>1. CASE ClaimGlobal(c)      BY <1>1 DEF ClaimGlobal
<1>2. CASE Prepare(c)          BY <1>2 DEF Prepare
<1>3. CASE Select(c)           BY <1>3 DEF Select
<1>4. CASE Sync(c)             BY <1>4 DEF Sync
<1>5. CASE NoChanges(c)        BY <1>5 DEF NoChanges, GlobalSucceeded
<1>6. CASE SpawnAgent(c)       BY <1>6 DEF SpawnAgent
<1>7. CASE RunFails(c)         BY <1>7 DEF RunFails
<1>8. CASE AgentWrites(c)      BY <1>8 DEF AgentWrites
<1>9. CASE Heartbeat(c)        BY <1>9 DEF Heartbeat
<1>10. CASE HeartbeatFails(c)  BY <1>10 DEF HeartbeatFails
<1>11. CASE AgentFails(c)      BY <1>11 DEF AgentFails
<1>12. CASE AgentCompletes(c)  BY <1>12 DEF AgentCompletes
<1>13. CASE ShutdownAgent(c)   BY <1>13 DEF ShutdownAgent
<1>14. CASE ResetBaseline(c)   BY <1>14 DEF ResetBaseline
<1>15. CASE Succeed(c)         BY <1>15 DEF Succeed, GlobalSucceeded
<1>16. CASE ConsolidatorDies(c) BY <1>16 DEF ConsolidatorDies
<1> QED BY <1>1, <1>2, <1>3, <1>4, <1>5, <1>6, <1>7, <1>8, <1>9, <1>10, <1>11, <1>12,
           <1>13, <1>14, <1>15, <1>16

LEMMA PhaseTwoStep ==
  ASSUME StageInv, PhaseTwo
  PROVE  StageInv'
<1>1. PICK c \in Consolidators :
        /\ UNCHANGED stageVars /\ resetting' = resetting
        /\ tokens' = tokens \/ (tokens < MaxTokens /\ tokens' = tokens + 1)
        /\ out' = out \/ out' = Marked(con[c].input)
  BY PhaseTwoEffect DEF PhaseTwo
<1>2. tokens' \in 0..MaxTokens /\ tokens <= tokens'
  BY <1>1, Numbers DEF StageInv, StageTypes
<1>3. CASE out' = out
  BY <1>1, <1>2, <1>3, StageFrame
<1>4. CASE out' = Marked(con[c].input)
  <2>1. out' \in [Threads -> OutRows]
    BY <1>4, MarkedOutputs
  <2>2. ASSUME NEW t \in Threads PROVE OutInv(t)'
    <3>1. /\ out'[t].source = out[t].source /\ out'[t].reset = out[t].reset
          /\ out'[t].selected \in {-1, out[t].source}
      BY <1>4, MarkedOutputs
    <3>2. OutInv(t) /\ updated' = updated /\ resets' = resets /\ out[t].source \in Int
      BY <1>1, StageFields DEF StageInv, stageVars
    <3> QED BY <3>1, <3>2 DEF OutInv
  <2> QED BY <1>1, <1>2, <2>1, <2>2, OutputsChange
<1> QED BY <1>1, <1>3, <1>4

\* Initially, and after every step.
LEMMA StageInit ==
  ASSUME Init
  PROVE  StageInv
<1>1. /\ now = Idle /\ updated = [t \in Threads |-> 0] /\ held = {}
      /\ job = [t \in Threads |-> NoJob] /\ out = [t \in Threads |-> NoOut]
      /\ scan = [e \in Extractors |-> {}] /\ tokens = 0 /\ resets = 0
      /\ fails = [t \in Threads |-> [v \in 0..MaxTime |-> 0]]
  BY DEF Init
<1>2. NoOut \in OutRows /\ NoOut.source = -1 /\ NoOut.selected = -1
  BY DEF NoOut, OutRows
<1>3. NoJob \in JobRows /\ NoJob.status = "absent" /\ NoJob.token = 0 /\ NoJob.input = -1
  BY Numbers DEF NoJob, JobRows, Statuses
<1>4. fails \in [Threads -> [0..MaxTime -> Nat]]
  BY <1>1
<1>5. StageTypes
  BY <1>1, <1>2, <1>3, <1>4, Numbers DEF StageTypes
<1>6. \A t \in Threads : RowInv(t) /\ OutInv(t)
  BY <1>1, <1>2, <1>3, Numbers DEF RowInv, OutInv
<1>7. /\ \A e \in Extractors : \A s \in scan[e] : PickInv(s)
      /\ \A h \in held : ClaimInv(h)
      /\ TokensUnique /\ NoDuplicateWork
  BY <1>1 DEF TokensUnique, NoDuplicateWork
<1>8. RunningCap
  <2>1. {t \in Threads : Fresh(job[t], now)} = {}
    BY <1>1, <1>3 DEF Fresh
  <2>2. Cardinality({}) = 0
    BY FS_EmptySet
  <2>3. Cardinality({t \in Threads : Fresh(job[t], now)}) = 0
    BY <2>1, <2>2, Zenon
  <2> QED BY <2>3, Numbers DEF RunningCap
<1> QED BY <1>5, <1>6, <1>7, <1>8 DEF StageInv

LEMMA StageNext ==
  ASSUME StageInv, [Next]_vars
  PROVE  StageInv'
<1>1. tokens \in 0..MaxTokens /\ tokens <= tokens
  BY Numbers DEF StageInv, StageTypes
<1>2. CASE UNCHANGED vars
  BY <1>1, <1>2, StageFrame DEF vars, stageVars, stageOne, people
<1>3. CASE StageOne
  <2>1. ASSUME NEW e \in Extractors, Scan(e) PROVE StageInv'
    BY <2>1, ScanStep
  <2>2. ASSUME NEW e \in Extractors, ExtractorDies(e) PROVE StageInv'
    <3>1. /\ UNCHANGED <<now, updated, job, out, tokens, resets, fails>>
          /\ scan' = [scan EXCEPT ![e] = {}] /\ held' \subseteq held
      BY <2>2 DEF ExtractorDies, people, stageOne
    <3>2. /\ scan' \in [Extractors -> SUBSET Picks]
          /\ \A d \in Extractors : scan'[d] \subseteq scan[d]
      BY <3>1 DEF StageInv, StageTypes
    <3> QED BY <3>1, <3>2, Dropped
  <2>3. ASSUME NEW e \in Extractors, NEW s \in scan[e], ClaimJob(e, s) PROVE StageInv'
    BY <2>3, ClaimStep
  <2>4. ASSUME NEW e \in Extractors, NEW s \in scan[e], SkipJob(e, s) PROVE StageInv'
    <3>1. /\ UNCHANGED <<now, updated, job, out, tokens, resets, fails>>
          /\ scan' = [scan EXCEPT ![e] = @ \ {s}] /\ held' \subseteq held
      BY <2>4 DEF SkipJob, people, stageOne
    <3>2. /\ scan' \in [Extractors -> SUBSET Picks]
          /\ \A d \in Extractors : scan'[d] \subseteq scan[d]
      BY <3>1 DEF StageInv, StageTypes
    <3> QED BY <3>1, <3>2, Dropped
  <2>5. ASSUME NEW h \in held, StageOneSucceeds(h) PROVE StageInv'
    BY <2>5, SucceedsStep
  <2>6. ASSUME NEW h \in held, StageOneEmpty(h) PROVE StageInv'
    BY <2>6, EmptyStep
  <2>7. ASSUME NEW h \in held, StageOneFails(h) PROVE StageInv'
    BY <2>7, FailsStep
  <2>8. ASSUME NEW h \in held, StageOneLost(h) PROVE StageInv'
    <3>1. /\ UNCHANGED <<now, updated, job, out, tokens, resets, fails, scan>>
          /\ held' \subseteq held
      BY <2>8 DEF StageOneLost, Settled, people, stageOne
    <3>2. /\ scan' \in [Extractors -> SUBSET Picks]
          /\ \A d \in Extractors : scan'[d] \subseteq scan[d]
      BY <3>1 DEF StageInv, StageTypes
    <3> QED BY <3>1, <3>2, Dropped
  <2>9. ASSUME NEW t \in Threads, Prune(t) PROVE StageInv'
    <3>1. UNCHANGED stageVars /\ tokens' = tokens /\ out' = [out EXCEPT ![t] = NoOut]
      BY <2>9 DEF Prune, people, stageVars
    <3>2. out' \in [Threads -> OutRows] /\ \A u \in Threads : OutInv(u)'
      BY <3>1, OutputDeleted DEF stageVars
    <3> QED BY <1>1, <3>1, <3>2, OutputsChange
  <2> QED BY <1>3, <2>1, <2>2, <2>3, <2>4, <2>5, <2>6, <2>7, <2>8, <2>9 DEF StageOne
<1>4. CASE PhaseTwo
  BY <1>4, PhaseTwoStep
<1>5. CASE Users
  <2>1. ASSUME NEW t \in Threads, TouchThread(t) PROVE StageInv'
    BY <2>1, TouchStep
  <2>2. ASSUME NEW t \in Threads, Pollute(t) PROVE StageInv'
    BY <1>1, <2>2, StageFrame DEF Pollute, stageOne, stageVars
  <2>3. ASSUME ClearMemoryData PROVE StageInv'
    BY <2>3, ClearStep
  <2>4. ASSUME ClearMemoryRoots PROVE StageInv'
    BY <1>1, <2>4, StageFrame DEF ClearMemoryRoots, stageOne, stageVars, people
  <2> QED BY <1>5, <2>1, <2>2, <2>3, <2>4 DEF Users
<1>6. CASE Tick
  BY <1>6, TickStep
<1> QED BY <1>2, <1>3, <1>4, <1>5, <1>6 DEF Next

\* Stage 1 keeps its invariant, whatever phase 2, the users and the clock do.
THEOREM StageInvariance == Spec => []StageInv
<1>1. Init => StageInv
  BY StageInit
<1>2. StageInv /\ [Next]_vars => StageInv'
  BY StageNext
<1> QED BY <1>1, <1>2, PTL DEF Spec

\* However many processes call try_claim_stage1_job, with times read up to Delay ago, no more
\* than max_rollouts_per_startup jobs have a live lease.
THEOREM CapHolds == Spec => []RunningCap
<1>1. StageInv => RunningCap
  BY DEF StageInv
<1> QED BY <1>1, StageInvariance, PTL

\* Two extractions of one thread since the last reset never both have a live lease.
THEOREM WorkNotDuplicated == Spec => []NoDuplicateWork
<1>1. StageInv => NoDuplicateWork
  BY DEF StageInv
<1> QED BY <1>1, StageInvariance, PTL

\* No output was extracted before the last reset: the ownership token of a claim is gone
\* with the row that clear_memory_data deletes, and no later row gets it again.
THEOREM ResetForgets == Spec => []ResetForgetsOutputs
<1>1. StageInv => ResetForgetsOutputs
  BY DEF StageInv, OutInv, ResetForgetsOutputs
<1> QED BY <1>1, StageInvariance, PTL

-----------------------------------------------------------------------------
(* Retries.                                                                 *)

\* A step on neither rows nor clock, that selects nothing.
LEMMA FailFrame ==
  ASSUME FailInv, UNCHANGED <<now, job, fails>>,
         \A e \in Extractors : scan'[e] \subseteq scan[e]
  PROVE  FailInv'
<1> USE DEF FailInv
<1>1. \A t \in Threads : RetryInv(t)'
  BY DEF RetryInv
<1>2. \A e \in Extractors : \A s \in scan'[e] : StaleInv(s)'
  BY DEF StaleInv
<1>3. RetriesBounded'
  BY DEF RetriesBounded
<1> QED BY <1>1, <1>2, <1>3

LEMMA FailScan ==
  ASSUME StageInv, FailInv, NEW e \in Extractors, Scan(e)
  PROVE  FailInv'
<1> DEFINE new == {[thread |-> t, source |-> updated[t], at |-> now] :
                     t \in {u \in Threads : Eligible(u)}}
<1>1. UNCHANGED <<now, job, fails>> /\ scan' = [scan EXCEPT ![e] = new]
  BY DEF Scan, stageOne
<1>2. \A s \in new : s.thread \in Threads /\ s.source = updated[s.thread] /\ s.at = now
  OBVIOUS
<1> HIDE DEF new
<1>3. now \in Nat /\ \A t \in Threads : job[t].input <= updated[t]
  BY Numbers DEF StageInv, StageTypes, RowInv
<1>4. \A t \in Threads : job[t].input \in Int /\ updated[t] \in Int
  BY StageFields DEF StageInv
<1>5. ASSUME NEW d \in Extractors, NEW s \in scan'[d] PROVE StaleInv(s)'
  <2>1. CASE s \in new
    BY <2>1, <1>1, <1>2, <1>3, <1>4, Numbers DEF StaleInv
  <2>2. CASE s \in scan[d]
    BY <2>2, <1>1 DEF FailInv, StaleInv
  <2> QED BY <2>1, <2>2, <1>1 DEF StageInv, StageTypes
<1>6. \A t \in Threads : RetryInv(t)'
  BY <1>1 DEF FailInv, RetryInv
<1>7. RetriesBounded'
  BY <1>1 DEF FailInv, RetriesBounded
<1> QED BY <1>5, <1>6, <1>7 DEF FailInv

\* A selection that is out of date is turned away.
LEMMA StaleRefused ==
  ASSUME ScansInTime, StageInv, FailInv, NEW e \in Extractors, NEW s \in scan[e],
         NEW at \in Nat, at <= now, CanClaim(s.thread, s.source, at)
  PROVE  job[s.thread].input <= s.source
<1> DEFINE j == job[s.thread]
<1>1. /\ s.thread \in Threads /\ s.source \in Int /\ s.at \in Nat /\ now \in Nat
      /\ j.input \in Int /\ j.lease \in Int /\ j.retryAt \in Int /\ j.success \in Int
  BY StageFields, Numbers DEF StageInv, StageTypes
<1>2. StaleInv(s) /\ RowInv(s.thread)
  BY <1>1 DEF FailInv, StageInv
<1>3. /\ j.success < s.source /\ ~(j.status = "running" /\ j.lease > at)
      /\ j.retryAt <= at \/ s.source > j.input
  BY DEF CanClaim, Fresh
<1>4. ScanTime <= RetryDelay /\ ScanTime + Delay <= Lease
  BY DEF ScansInTime
<1>5. s.at + ScanTime > at
  BY <1>1, <1>2, Numbers DEF StaleInv
<1>6. j.status = "done" => j.success = j.input
  BY <1>2 DEF RowInv
<1>7. j.input > s.source =>
       \/ j.status = "error" /\ j.retryAt >= s.at + RetryDelay
       \/ j.status = "running" /\ j.lease + Delay >= s.at + Lease
       \/ j.status = "done"
  BY <1>2 DEF StaleInv
<1> HIDE DEF j
<1>8. j.input <= s.source
  BY <1>1, <1>3, <1>4, <1>5, <1>6, <1>7, Numbers
<1> QED BY <1>8 DEF j

LEMMA FailClaim ==
  ASSUME ScansInTime, StageInv, FailInv, NEW e \in Extractors, NEW s \in scan[e],
         ClaimJob(e, s)
  PROVE  FailInv'
<1>1. /\ s.thread \in Threads /\ s.source \in 0..MaxTime
      /\ UNCHANGED <<now, fails>>
      /\ \A d \in Extractors : scan'[d] \subseteq scan[d]
  BY ClaimEffect
<1>2. PICK at \in Times :
              /\ at \in Nat /\ at <= now /\ now <= at + Delay
              /\ CanClaim(s.thread, s.source, at)
              /\ \A t \in Threads : t # s.thread => job'[t] = job[t]
              /\ job'[s.thread].status = "running"
              /\ job'[s.thread].lease = at + Lease /\ job'[s.thread].input = s.source
              /\ job'[s.thread].retries = IF s.source > job[s.thread].input
                                            THEN Retries ELSE job[s.thread].retries
  BY ClaimEffect
<1>3. /\ job[s.thread].input <= s.source /\ job[s.thread].input \in Int
      /\ job[s.thread].retries \in 0..Retries /\ now \in Nat
  <2>1. job[s.thread].input <= s.source
    BY <1>2, StaleRefused
  <2> QED BY <2>1, <1>1, StageFields, Numbers DEF StageInv, StageTypes
<1>4. ASSUME NEW t \in Threads PROVE RetryInv(t)'
  <2>1. CASE t # s.thread
    BY <2>1, <1>1, <1>2 DEF FailInv, RetryInv
  <2>2. CASE t = s.thread
    <3>1. RetryInv(t) /\ fails' = fails
      BY <1>1 DEF FailInv
    <3>2. \A v \in 0..MaxTime : v > s.source => fails[t][v] = 0
      BY <2>2, <3>1, <1>1, <1>3, Numbers DEF RetryInv
    <3>3. fails[t][s.source] + job'[t].retries <= Retries
      <4>1. CASE s.source > job[t].input
        BY <2>2, <4>1, <3>1, <1>1, <1>2, <1>3, Numbers DEF RetryInv
      <4>2. CASE s.source = job[t].input
        BY <2>2, <4>2, <3>1, <1>1, <1>2, <1>3, Numbers DEF RetryInv
      <4> QED BY <2>2, <4>1, <4>2, <1>1, <1>3
    <3> QED BY <2>2, <3>1, <3>2, <3>3, <1>2 DEF RetryInv
  <2> QED BY <2>1, <2>2
<1>5. ASSUME NEW d \in Extractors, NEW p \in scan'[d] PROVE StaleInv(p)'
  <2>1. p \in scan[d] /\ StaleInv(p) /\ PickInv(p) /\ p.thread \in Threads /\ p.at \in Nat
    BY <1>1, StageFields DEF FailInv, StageInv
  <2>2. CASE p.thread # s.thread
    BY <2>1, <2>2, <1>1, <1>2 DEF StaleInv
  <2>3. CASE p.thread = s.thread
    <3>1. job'[p.thread].lease + Delay >= p.at + Lease
      BY <2>1, <2>3, <1>2, <1>3, Numbers DEF PickInv
    <3> QED BY <2>1, <2>3, <3>1, <1>1, <1>2 DEF StaleInv
  <2> QED BY <2>2, <2>3
<1>6. RetriesBounded'
  BY <1>1 DEF FailInv, RetriesBounded
<1> QED BY <1>4, <1>5, <1>6 DEF FailInv

\* The owner of a row gives it up without a failure.
LEMMA FailFinished ==
  ASSUME StageInv, FailInv, NEW h \in held, Finished(h), UNCHANGED <<now, scan, fails>>
  PROVE  FailInv'
<1>1. PICK j \in JobRows :
        /\ job' = [job EXCEPT ![h.thread] = j] /\ j.status = "done"
        /\ j.token = job[h.thread].token /\ j.input = job[h.thread].input
        /\ j.success = j.input /\ j.retries = job[h.thread].retries
  BY FinishedEffect
<1>2. h.thread \in Threads
  BY StageFields DEF StageInv
<1>3. job'[h.thread] = j /\ \A t \in Threads : t # h.thread => job'[t] = job[t]
  BY <1>1, <1>2 DEF StageInv, StageTypes
<1>4. ASSUME NEW t \in Threads PROVE RetryInv(t)'
  BY <1>1, <1>3 DEF FailInv, RetryInv
<1>5. ASSUME NEW d \in Extractors, NEW p \in scan'[d] PROVE StaleInv(p)'
  <2>1. p \in scan[d] /\ StaleInv(p) /\ p.thread \in Threads
    BY StageFields DEF FailInv, StageInv
  <2>2. CASE p.thread # h.thread
    BY <2>1, <2>2, <1>3 DEF StaleInv
  <2>3. CASE p.thread = h.thread
    BY <2>1, <2>3, <1>1, <1>3 DEF StaleInv
  <2> QED BY <2>2, <2>3
<1>6. RetriesBounded'
  BY DEF FailInv, RetriesBounded
<1> QED BY <1>4, <1>5, <1>6 DEF FailInv

LEMMA FailFails ==
  ASSUME StageInv, FailInv, NEW h \in held, StageOneFails(h)
  PROVE  FailInv'
<1>1. /\ OwnsJob(h) /\ UNCHANGED <<now, scan>>
      /\ \A t \in Threads : \A v \in 0..MaxTime :
           fails'[t][v] = IF t = h.thread /\ v = h.source THEN fails[t][v] + 1 ELSE fails[t][v]
  BY FailsEffect
<1>2. PICK j \in JobRows :
              /\ job' = [job EXCEPT ![h.thread] = j] /\ j.status = "error"
              /\ j.token = job[h.thread].token /\ j.input = job[h.thread].input
              /\ j.retryAt = now + RetryDelay /\ j.retries = job[h.thread].retries - 1
  BY FailsEffect
<1>3. h.thread \in Threads /\ h.source \in 0..MaxTime /\ now \in Nat
  BY StageFields, Numbers DEF StageInv, StageTypes
<1>4. job'[h.thread] = j /\ \A t \in Threads : t # h.thread => job'[t] = job[t]
  BY <1>2, <1>3 DEF StageInv, StageTypes
<1>5. h.source = job[h.thread].input
  BY <1>1 DEF StageInv, ClaimInv, OwnsJob
<1>6. \A t \in Threads : \A v \in 0..MaxTime : fails[t][v] \in Nat
  <2>1. \A t \in Threads : fails[t] \in [0..MaxTime -> Nat]
    BY DEF StageInv, StageTypes
  <2> QED BY <2>1
<1>7. /\ job[h.thread].retries \in Nat /\ j.retries \in Nat
      /\ fails[h.thread][h.source] + job[h.thread].retries <= Retries
      /\ \A v \in 0..MaxTime : v > h.source => fails[h.thread][v] = 0
  BY <1>2, <1>3, <1>5, StageFields, Numbers DEF StageInv, FailInv, RetryInv, JobRows
<1>8. fails'[h.thread][h.source] = fails[h.thread][h.source] + 1
  BY <1>1, <1>3
<1>9. fails'[h.thread][h.source] + j.retries <= Retries
  BY <1>2, <1>3, <1>6, <1>7, <1>8, Numbers
<1>10. ASSUME NEW t \in Threads PROVE RetryInv(t)'
  <2>1. CASE t # h.thread
    <3>1. job'[t] = job[t] /\ \A v \in 0..MaxTime : fails'[t][v] = fails[t][v]
      BY <2>1, <1>1, <1>4
    <3>2. RetryInv(t) /\ job[t].input \in -1..MaxTime
      <4>1. job[t].input \in -1..updated[t] /\ updated[t] \in 0..now /\ now \in 0..MaxTime
        BY DEF StageInv, StageTypes, RowInv
      <4> QED BY <4>1, Numbers DEF FailInv
    <3> QED BY <3>1, <3>2, Numbers DEF RetryInv
  <2>2. CASE t = h.thread
    <3>1. \A v \in 0..MaxTime : v > h.source => fails'[h.thread][v] = 0
      BY <1>1, <1>3, <1>7
    <3> QED BY <2>2, <3>1, <1>2, <1>4, <1>5, <1>9 DEF RetryInv
  <2> QED BY <2>1, <2>2
<1>11. ASSUME NEW d \in Extractors, NEW p \in scan'[d] PROVE StaleInv(p)'
  <2>1. /\ p \in scan[d] /\ StaleInv(p) /\ PickInv(p) /\ p.thread \in Threads /\ p.at \in Nat
    BY <1>1, StageFields DEF FailInv, StageInv
  <2>2. CASE p.thread # h.thread
    BY <2>1, <2>2, <1>1, <1>4 DEF StaleInv
  <2>3. CASE p.thread = h.thread
    <3>1. job'[p.thread].retryAt >= p.at + RetryDelay
      BY <2>1, <2>3, <1>2, <1>3, <1>4, Numbers DEF PickInv
    <3> QED BY <2>1, <2>3, <3>1, <1>1, <1>2, <1>4 DEF StaleInv
  <2> QED BY <2>2, <2>3
<1>12. RetriesBounded'
  <2> SUFFICES ASSUME NEW t \in Threads, NEW v \in 0..MaxTime PROVE fails'[t][v] <= Retries
    BY DEF RetriesBounded
  <2>1. CASE t = h.thread /\ v = h.source
    BY <2>1, <1>3, <1>6, <1>7, <1>8, <1>9, Numbers
  <2>2. CASE ~(t = h.thread /\ v = h.source)
    BY <2>2, <1>1 DEF FailInv, RetriesBounded
  <2> QED BY <2>1, <2>2
<1> QED BY <1>10, <1>11, <1>12 DEF FailInv

LEMMA FailClear ==
  ASSUME StageInv, FailInv, ClearMemoryData
  PROVE  FailInv'
<1>1. /\ UNCHANGED <<now, scan>> /\ job' = [t \in Threads |-> NoJob]
      /\ fails' = [t \in Threads |-> [v \in 0..MaxTime |-> 0]]
  BY DEF ClearMemoryData
<1>2. \A t \in Threads : job'[t].input = -1 /\ \A v \in 0..MaxTime : fails'[t][v] = 0
  BY <1>1 DEF NoJob
<1>3. \A t \in Threads : RetryInv(t)'
  BY <1>2 DEF RetryInv
<1>4. ASSUME NEW d \in Extractors, NEW p \in scan'[d] PROVE StaleInv(p)'
  <2>1. p \in scan[d] /\ StaleInv(p) /\ p.thread \in Threads /\ p.source \in Nat
    BY <1>1, StageFields, Numbers DEF FailInv, StageInv
  <2> QED BY <2>1, <1>1, <1>2 DEF StaleInv
<1>5. RetriesBounded'
  BY <1>2, Numbers DEF RetriesBounded
<1> QED BY <1>3, <1>4, <1>5 DEF FailInv

LEMMA FailTick ==
  ASSUME ScansInTime, StageInv, FailInv, Tick
  PROVE  FailInv'
<1>1. UNCHANGED <<job, fails, scan>> /\ now' = now + 1 /\ InTime(now')
  BY DEF Tick, stageOne, ScansInTime
<1>2. \A t \in Threads : RetryInv(t)'
  BY <1>1 DEF FailInv, RetryInv
<1>3. \A e \in Extractors : \A s \in scan'[e] : StaleInv(s)'
  BY <1>1 DEF FailInv, StaleInv, InTime
<1>4. RetriesBounded'
  BY <1>1 DEF FailInv, RetriesBounded
<1> QED BY <1>2, <1>3, <1>4 DEF FailInv

LEMMA FailInit ==
  ASSUME Init
  PROVE  FailInv
<1>1. /\ job = [t \in Threads |-> NoJob] /\ scan = [e \in Extractors |-> {}]
      /\ fails = [t \in Threads |-> [v \in 0..MaxTime |-> 0]]
  BY DEF Init
<1>2. \A t \in Threads : job[t].input = -1 /\ \A v \in 0..MaxTime : fails[t][v] = 0
  BY <1>1 DEF NoJob
<1> QED BY <1>1, <1>2, Numbers DEF FailInv, RetryInv, RetriesBounded

LEMMA FailNext ==
  ASSUME ScansInTime, StageInv, FailInv, [Next]_vars
  PROVE  FailInv'
<1>1. CASE UNCHANGED vars
  BY <1>1, FailFrame DEF vars, stageOne
<1>2. CASE StageOne
  <2>1. ASSUME NEW e \in Extractors, Scan(e) PROVE FailInv'
    BY <2>1, FailScan
  <2>2. ASSUME NEW e \in Extractors, ExtractorDies(e) PROVE FailInv'
    <3>1. UNCHANGED <<now, job, fails>> /\ scan' = [scan EXCEPT ![e] = {}]
      BY <2>2 DEF ExtractorDies, stageOne
    <3>2. \A d \in Extractors : scan'[d] \subseteq scan[d]
      BY <3>1 DEF StageInv, StageTypes
    <3> QED BY <3>1, <3>2, FailFrame
  <2>3. ASSUME NEW e \in Extractors, NEW s \in scan[e], ClaimJob(e, s) PROVE FailInv'
    BY <2>3, FailClaim
  <2>4. ASSUME NEW e \in Extractors, NEW s \in scan[e], SkipJob(e, s) PROVE FailInv'
    <3>1. UNCHANGED <<now, job, fails>> /\ scan' = [scan EXCEPT ![e] = @ \ {s}]
      BY <2>4 DEF SkipJob, stageOne
    <3>2. \A d \in Extractors : scan'[d] \subseteq scan[d]
      BY <3>1 DEF StageInv, StageTypes
    <3> QED BY <3>1, <3>2, FailFrame
  <2>5. ASSUME NEW h \in held, StageOneSucceeds(h) PROVE FailInv'
    BY <2>5, FailFinished DEF StageOneSucceeds, Settled
  <2>6. ASSUME NEW h \in held, StageOneEmpty(h) PROVE FailInv'
    BY <2>6, FailFinished DEF StageOneEmpty, Settled
  <2>7. ASSUME NEW h \in held, StageOneFails(h) PROVE FailInv'
    BY <2>7, FailFails
  <2>8. ASSUME NEW h \in held, StageOneLost(h) PROVE FailInv'
    BY <2>8, FailFrame DEF StageOneLost, Settled, stageOne
  <2>9. ASSUME NEW t \in Threads, Prune(t) PROVE FailInv'
    BY <2>9, FailFrame DEF Prune
  <2> QED BY <1>2, <2>1, <2>2, <2>3, <2>4, <2>5, <2>6, <2>7, <2>8, <2>9 DEF StageOne
<1>3. CASE PhaseTwo
  <2>1. UNCHANGED stageVars
    BY <1>3, PhaseTwoEffect DEF PhaseTwo
  <2> QED BY <2>1, FailFrame DEF stageVars
<1>4. CASE Users
  <2>1. ASSUME NEW t \in Threads, TouchThread(t) PROVE FailInv'
    BY <2>1, FailFrame DEF TouchThread, stageOne
  <2>2. ASSUME NEW t \in Threads, Pollute(t) PROVE FailInv'
    BY <2>2, FailFrame DEF Pollute, stageOne
  <2>3. ASSUME ClearMemoryData PROVE FailInv'
    BY <2>3, FailClear
  <2>4. ASSUME ClearMemoryRoots PROVE FailInv'
    BY <2>4, FailFrame DEF ClearMemoryRoots, stageOne
  <2> QED BY <1>4, <2>1, <2>2, <2>3, <2>4 DEF Users
<1>5. CASE Tick
  BY <1>5, FailTick
<1> QED BY <1>1, <1>2, <1>3, <1>4, <1>5 DEF Next

\* While extractors try soon what they select, no version of a thread is failed more often
\* than its retries allow: the counter that mark_stage1_job_failed decrements is refilled
\* only for a version that was never failed, never by an old selection.
THEOREM RetriesHold == ScansInTime => (Spec => []RetriesBounded)
<1> SUFFICES ASSUME ScansInTime PROVE Spec => []RetriesBounded
  OBVIOUS
<1>1. Init => FailInv
  BY FailInit
<1>2. StageInv /\ FailInv /\ [Next]_vars => FailInv'
  BY FailNext
<1>3. FailInv => RetriesBounded
  BY DEF FailInv
<1> QED BY <1>1, <1>2, <1>3, StageInvariance, PTL DEF Spec

-----------------------------------------------------------------------------
(* The row of phase 2.                                                      *)

\* A set of integers with an upper bound has a largest element.
LEMMA BoundedMax ==
  ASSUME NEW S \in SUBSET Int, S # {}, NEW b \in Int, \A x \in S : x <= b
  PROVE  Max(S) \in S /\ \A y \in S : y <= Max(S)
<1> DEFINE T == {b - x : x \in S}
<1>1. T \subseteq Nat
  OBVIOUS
<1>2. T # {}
  OBVIOUS
<1>3. PICK m \in T : \A n \in T : ~(n < m)
  <2> HIDE DEF T
  <2>1. PICK m \in T : \A n \in T : <<n, m>> \notin OpToRel(<, Nat)
    BY <1>1, <1>2, WFMin, NatLessThanWellFounded, Zenon
  <2>2. \A n \in T : ~(n < m)
    BY <1>1, <2>1, Zenon DEF OpToRel
  <2> QED BY <2>2
<1>4. PICK x \in S : m = b - x
  OBVIOUS
<1>5. ASSUME NEW y \in S PROVE x >= y
  <2>1. b - y \in T
    OBVIOUS
  <2>2. ~(b - y < b - x) /\ x \in Int /\ y \in Int
    BY <2>1, <1>3, <1>4
  <2> QED BY <2>2
<1> QED BY <1>5 DEF Max

LEMMA GlobFields ==
  ASSUME GlobTypes
  PROVE  /\ glob.status \in Statuses /\ glob.token \in Nat /\ glob.lease \in Int
         /\ glob.retryAt \in Int /\ glob.retries \in 0..Retries /\ glob.finished \in Int
         /\ glob.failed \in BOOLEAN /\ glob.input \in Int /\ glob.success \in Int
         /\ \A c \in Consolidators :
              /\ con[c] \in Runs /\ con[c].stage \in Stages /\ con[c].token \in Nat
              /\ con[c].mark \in Int /\ con[c].input \in SUBSET Snapshots /\ con[c].until \in Int
<1>1. /\ glob.status \in Statuses /\ glob.token \in Nat /\ glob.lease \in Int
      /\ glob.retryAt \in Int /\ glob.retries \in 0..Retries /\ glob.finished \in Int
      /\ glob.failed \in BOOLEAN /\ glob.input \in Int /\ glob.success \in Int
  BY DEF GlobTypes, GlobRows
<1>2. \A c \in Consolidators :
        /\ con[c] \in Runs /\ con[c].stage \in Stages /\ con[c].token \in Nat
        /\ con[c].mark \in Int /\ con[c].input \in SUBSET Snapshots /\ con[c].until \in Int
  BY DEF GlobTypes, Runs
<1> QED BY <1>1, <1>2

LEMMA NoGlobRow ==
  /\ NoGlob \in GlobRows /\ NoGlob.status = "absent" /\ NoGlob.token = 0 /\ NoGlob.finished = -1
  /\ NoGlob.input = -1 /\ NoGlob.success = -1 /\ NoGlob.failed = FALSE
  /\ NoGlob.lease = -1 /\ NoGlob.retryAt = -1
BY Numbers DEF NoGlob, GlobRows, Statuses

\* enqueue_global_consolidation_with_executor leaves a running job running, and its
\* watermark passes both the old one and the one that is asked for.
LEMMA EnqueuedEffect ==
  ASSUME GlobInv, NEW m \in Nat
  PROVE  LET e == Enqueued(glob, m) IN
         /\ e \in GlobRows /\ e.status \in {"pending", "running"}
         /\ e.status = "running" <=> glob.status = "running"
         /\ e.token = glob.token /\ e.lease = glob.lease /\ e.finished = glob.finished
         /\ e.failed = glob.failed /\ e.input >= glob.input /\ e.input >= m
         /\ e.success <= e.input
<1> DEFINE e == Enqueued(glob, m)
<1>1. /\ glob \in GlobRows /\ glob.input \in Int /\ glob.retries \in 0..Retries
      /\ glob.retryAt \in Int /\ glob.status \in Statuses /\ glob.success \in Int
      /\ glob.success <= glob.input /\ glob.input >= -1
  BY GlobFields DEF GlobInv, GlobTypes, OutputsEnqueued
<1>2. CASE glob.status = "absent"
  <2> DEFINE n == [NoGlob EXCEPT !.status = "pending", !.retries = Retries, !.input = m,
                                 !.success = 0]
  <2>1. e = n
    BY <1>2 DEF Enqueued
  <2>2. glob = NoGlob
    BY <1>2 DEF GlobInv
  <2>3. Retries \in 0..Retries /\ m \in Int /\ 0 \in Int /\ "pending" \in Statuses
    BY Numbers DEF Statuses
  <2>4. n \in GlobRows
    BY <2>3, NoGlobRow, Zenon DEF GlobRows
  <2>5. /\ n.status = "pending" /\ n.input = m /\ n.success = 0 /\ n.token = NoGlob.token
        /\ n.lease = NoGlob.lease /\ n.finished = NoGlob.finished /\ n.failed = NoGlob.failed
    BY NoGlobRow DEF GlobRows
  <2> HIDE DEF n, e
  <2>6. /\ e \in GlobRows /\ e.status \in {"pending", "running"}
        /\ e.token = glob.token /\ e.lease = glob.lease /\ e.finished = glob.finished
        /\ e.failed = glob.failed /\ e.input >= glob.input /\ e.input >= m
        /\ e.success <= e.input
    BY <2>1, <2>2, <2>4, <2>5, NoGlobRow
  <2>7. e.status # "running" /\ glob.status # "running"
    BY <2>1, <2>5, <1>2
  <2> QED BY <2>6, <2>7 DEF e
<1>3. CASE glob.status # "absent"
  <2> DEFINE st == IF glob.status = "running" THEN glob.status ELSE "pending"
             ra == IF glob.status = "running" THEN glob.retryAt ELSE -1
             re == IF glob.retries > Retries THEN glob.retries ELSE Retries
             ip == IF m > glob.input THEN m ELSE glob.input + 1
             n == [glob EXCEPT !.status = st, !.retryAt = ra, !.retries = re, !.input = ip]
  <2>1. e = n
    BY <1>3, Zenon DEF Enqueued
  <2>2. /\ st \in Statuses /\ ra \in Int /\ re \in 0..Retries /\ ip \in Int
        /\ st \in {"pending", "running"} /\ ip >= glob.input /\ ip >= m
    BY <1>1, Numbers DEF Statuses
  <2>3. st = "running" <=> glob.status = "running"
    OBVIOUS
  <2> HIDE DEF st, ra, re, ip
  <2>4. n \in GlobRows
    BY <1>1, <2>2, Zenon DEF GlobRows
  <2>5. /\ n.status = st /\ n.input = ip /\ n.success = glob.success /\ n.token = glob.token
        /\ n.lease = glob.lease /\ n.finished = glob.finished /\ n.failed = glob.failed
    BY <1>1 DEF GlobRows
  <2> HIDE DEF n, e
  <2>6. /\ e \in GlobRows /\ e.status \in {"pending", "running"}
        /\ e.token = glob.token /\ e.lease = glob.lease /\ e.finished = glob.finished
        /\ e.failed = glob.failed /\ e.input >= glob.input /\ e.input >= m
    BY <2>1, <2>2, <2>4, <2>5
  <2>7. e.success <= e.input
    BY <1>1, <2>1, <2>2, <2>5
  <2>8. e.status = "running" <=> glob.status = "running"
    BY <2>1, <2>3, <2>5
  <2> QED BY <2>6, <2>7, <2>8 DEF e
<1> QED BY <1>2, <1>3

\* A step of stage 1, the users or the clock that leaves the row alone.
LEMMA GlobFrame ==
  ASSUME GlobInv, UNCHANGED <<glob, con, lastDone>>, tokens \in Nat, tokens' \in Nat,
         tokens <= tokens', work' \in Dirs, base' \in Dirs,
         \A t \in Threads : out'[t].source <= glob.input
  PROVE  GlobInv'
<1> USE DEF GlobInv
<1>1. GlobTypes' /\ glob.token \in Nat /\ \A c \in Consolidators : con[c].token \in Nat
  BY GlobFields DEF GlobTypes
<1>2. \A c \in Consolidators : RunInv(c)'
  BY <1>1 DEF RunInv
<1>3. RunTokensUnique' /\ OutputsEnqueued'
  BY DEF RunTokensUnique, OutputsEnqueued
<1> QED BY <1>1, <1>2, <1>3

\* A step that enqueues a consolidation.
LEMMA GlobEnqueue ==
  ASSUME GlobInv, NEW m \in Nat, glob' = Enqueued(glob, m),
         UNCHANGED <<con, lastDone, tokens, work, base>>,
         \A t \in Threads : \/ out'[t].source <= glob.input
                            \/ out'[t].source <= m,
         \A t \in Threads : out'[t].source \in Int
  PROVE  GlobInv'
<1> USE DEF GlobInv
<1>1. /\ glob' \in GlobRows /\ glob'.status \in {"pending", "running"}
      /\ glob'.status = "running" <=> glob.status = "running"
      /\ glob'.token = glob.token /\ glob'.lease = glob.lease /\ glob'.finished = glob.finished
      /\ glob'.failed = glob.failed /\ glob'.input >= glob.input /\ glob'.input >= m
      /\ glob'.success <= glob'.input
  BY EnqueuedEffect
<1>2. GlobTypes' /\ glob.input \in Int /\ glob'.input \in Int
  BY <1>1, GlobFields DEF GlobTypes, GlobRows
<1>3. glob'.token <= tokens' /\ (glob'.status = "running" => glob'.token # 0)
  BY <1>1
<1>4. glob'.input >= 0 /\ glob'.status # "absent"
  BY <1>1, <1>2
<1>5. glob'.status # "running" /\ ~glob'.failed /\ lastDone' >= 0 => glob'.finished = lastDone'
  BY <1>1
<1>6. ASSUME NEW c \in Consolidators PROVE RunInv(c)'
  <2>1. Owned(glob', con[c].token) => Owned(glob, con[c].token)
    BY <1>1 DEF Owned
  <2>2. con[c].mark \in Int /\ \A i \in con[c].input : i.source \in Int
    BY GlobFields DEF Snapshots
  <2> QED BY <2>1, <2>2, <1>1, <1>2 DEF RunInv
<1>7. RunTokensUnique'
  BY DEF RunTokensUnique
<1>8. OutputsEnqueued'
  BY <1>1, <1>2 DEF OutputsEnqueued
<1> QED BY <1>2, <1>3, <1>4, <1>5, <1>6, <1>7, <1>8

\* A step of a run that claims nothing.
LEMMA GlobRun ==
  ASSUME GlobInv, NEW c \in Consolidators, NEW r \in Runs, con' = [con EXCEPT ![c] = r],
         r.token = 0 \/ (r.token = con[c].token /\ r.stage # "rest"),
         Owned(glob, con[c].token) /\ r.token # 0 =>
           r.mark <= glob.input /\ \A i \in r.input : i.source <= glob.input,
         tokens' = tokens, tokens \in Nat, work' \in Dirs, base' \in Dirs, lastDone' \in Int,
         glob' \in GlobRows, glob'.token = glob.token, glob'.input = glob.input,
         glob'.success <= glob.input, glob'.status = "running" => glob.status = "running",
         glob' = glob \/ (glob.status # "absent" /\ glob'.status # "absent"),
         glob'.status # "running" /\ ~glob'.failed /\ lastDone' >= 0 =>
           glob'.finished = lastDone',
         \A t \in Threads : out'[t].source = out[t].source
  PROVE  GlobInv'
<1> USE DEF GlobInv
<1>1. con'[c] = r /\ \A d \in Consolidators : d # c => con'[d] = con[d]
  BY DEF GlobTypes
<1>2. GlobTypes'
  BY DEF GlobTypes
<1>3. /\ glob'.token <= tokens' /\ (glob'.status = "running" => glob'.token # 0)
      /\ glob'.input >= -1 /\ (glob'.status # "absent" => glob'.input >= 0)
      /\ glob'.status = "absent" => glob' = NoGlob
  OBVIOUS
<1>4. ASSUME NEW d \in Consolidators PROVE RunInv(d)'
  <2>1. Owned(glob', con[d].token) => Owned(glob, con[d].token)
    BY DEF Owned
  <2>2. CASE d # c
    BY <2>1, <2>2, <1>1 DEF RunInv
  <2>3. CASE d = c /\ r.token = 0
    BY <2>3, <1>1, <1>3 DEF RunInv, Owned
  <2>4. CASE d = c /\ r.token = con[c].token /\ r.stage # "rest" /\ r.token # 0
    BY <2>1, <2>4, <1>1 DEF RunInv
  <2> QED BY <2>2, <2>3, <2>4
<1>5. RunTokensUnique'
  BY <1>1 DEF RunTokensUnique
<1>6. OutputsEnqueued'
  BY DEF OutputsEnqueued
<1> QED BY <1>2, <1>3, <1>4, <1>5, <1>6

\* The ways in which a run moves on.
LEMMA GoToRun ==
  ASSUME GlobTypes, NEW c \in Consolidators, NEW st \in Stages, GoTo(c, st)
  PROVE  \E r \in Runs :
           /\ con' = [con EXCEPT ![c] = r] /\ r.stage = st /\ r.token = con[c].token
           /\ r.mark = con[c].mark /\ r.input = con[c].input /\ r.until = con[c].until
<1> DEFINE r == [con[c] EXCEPT !.stage = st]
<1>1. con[c] \in Runs
  BY GlobFields
<1>2. r \in Runs
  BY <1>1 DEF Runs
<1>3. /\ r.stage = st /\ r.token = con[c].token
      /\ r.mark = con[c].mark /\ r.input = con[c].input /\ r.until = con[c].until
  BY <1>1 DEF Runs
<1>4. con' = [con EXCEPT ![c] = r]
  BY DEF GoTo, GlobTypes
<1> HIDE DEF r
<1> QED BY <1>2, <1>3, <1>4

LEMMA RestingRun == Resting \in Runs /\ Resting.stage = "rest" /\ Resting.token = 0
BY DEF Resting, Runs, Stages

\* What a step of a run that claims nothing may do to the row.
RowStep ==
  /\ glob' \in GlobRows /\ glob'.token = glob.token /\ glob'.input = glob.input
  /\ glob'.success <= glob.input /\ (glob'.status = "running" => glob.status = "running")
  /\ glob' = glob \/ (glob.status # "absent" /\ glob'.status # "absent")
  /\ glob'.status # "running" /\ ~glob'.failed /\ lastDone' >= 0 => glob'.finished = lastDone'
  /\ lastDone' \in Int

LEMMA RowUnchanged ==
  ASSUME GlobInv, UNCHANGED <<glob, lastDone>>
  PROVE  RowStep
BY DEF RowStep, GlobInv, GlobTypes, OutputsEnqueued

\* mark_global_phase2_job_failed.
LEMMA RowFailed ==
  ASSUME GlobInv, NEW c \in Consolidators, GlobalFailed(c) \/ UNCHANGED glob,
         UNCHANGED lastDone, now \in Nat
  PROVE  RowStep
<1>1. CASE glob' = glob
  BY <1>1, RowUnchanged
<1>2. CASE glob' # glob
  <2> DEFINE re == IF glob.retries = 0 THEN 0 ELSE glob.retries - 1
             g == [glob EXCEPT !.status = "error", !.finished = now, !.lease = -1,
                               !.retryAt = now + RetryDelay, !.failed = TRUE, !.retries = re]
  <2>1. Owned(glob, con[c].token) /\ glob' = g
    BY <1>2, Zenon DEF GlobalFailed
  <2>2. /\ glob \in GlobRows /\ re \in 0..Retries /\ now \in Int /\ -1 \in Int
        /\ now + RetryDelay \in Int /\ TRUE \in BOOLEAN /\ "error" \in Statuses
    BY GlobFields, Numbers DEF GlobInv, GlobTypes, Statuses
  <2> HIDE DEF re
  <2>3. g \in GlobRows
    BY <2>2, Zenon DEF GlobRows
  <2>4. /\ g.token = glob.token /\ g.input = glob.input /\ g.success = glob.success
        /\ g.status = "error"
    BY <2>2 DEF GlobRows
  <2>5. g.failed = TRUE
    BY <2>2 DEF GlobRows
  <2> HIDE DEF g
  <2> QED BY <2>1, <2>3, <2>4, <2>5 DEF RowStep, GlobInv, GlobTypes, OutputsEnqueued, Owned
<1> QED BY <1>1, <1>2

\* mark_global_phase2_job_succeeded: the watermark stays below what is enqueued.
LEMMA RowSucceeded ==
  ASSUME StageInv, GlobInv, NEW c \in Consolidators,
         GlobalSucceeded(c) \/ UNCHANGED <<glob, out, lastDone>>
  PROVE  RowStep /\ \A t \in Threads : out'[t].source = out[t].source
<1>1. CASE UNCHANGED <<glob, out, lastDone>>
  BY <1>1, RowUnchanged
<1>2. CASE Owned(glob, con[c].token) /\ GlobalSucceeded(c)
  <2> DEFINE S == {con[c].mark} \cup {i.source : i \in con[c].input}
             T == {glob.success, NewMark(c)}
             g == [glob EXCEPT !.status = "done", !.finished = now, !.lease = -1,
                               !.failed = FALSE, !.success = Max(T)]
  <2>1. glob' = g /\ out' = Marked(con[c].input) /\ lastDone' = now
    BY <1>2, Zenon DEF GlobalSucceeded
  <2>2. /\ glob \in GlobRows /\ glob.input \in Int /\ glob.success \in Int /\ con[c].mark \in Int
        /\ con[c].input \in SUBSET Snapshots
    BY GlobFields DEF GlobInv, GlobTypes
  <2>3. NewMark(c) \in Int /\ NewMark(c) <= glob.input
    <3>1. RunInv(c)
      BY DEF GlobInv
    <3>2. /\ \A i \in con[c].input : i.source \in Int /\ i.source <= glob.input
          /\ con[c].mark <= glob.input
      BY <1>2, <2>2, <3>1 DEF Snapshots, RunInv
    <3>3. S \in SUBSET Int /\ S # {} /\ \A x \in S : x <= glob.input
      BY <2>2, <3>2
    <3>4. Max(S) \in S
      BY <2>2, <3>3, BoundedMax
    <3> QED BY <3>3, <3>4 DEF NewMark
  <2>4. Max(T) \in Int /\ Max(T) <= glob.input
    <3>1. T \in SUBSET Int /\ T # {} /\ \A x \in T : x <= glob.input
      BY <2>2, <2>3 DEF GlobInv, OutputsEnqueued
    <3>2. Max(T) \in T
      BY <2>2, <3>1, BoundedMax
    <3> QED BY <3>1, <3>2
  <2> HIDE DEF T, S
  <2>5. now \in Int /\ -1 \in Int /\ FALSE \in BOOLEAN /\ "done" \in Statuses
    BY Numbers DEF StageInv, StageTypes, Statuses
  <2>6. g \in GlobRows
    BY <2>2, <2>4, <2>5, Zenon DEF GlobRows
  <2>7. /\ g.token = glob.token /\ g.input = glob.input /\ g.success = Max(T)
        /\ g.status = "done" /\ g.finished = now
    BY <2>2 DEF GlobRows
  <2> HIDE DEF g
  <2>8. \A t \in Threads : out'[t].source = out[t].source
    BY <2>1, MarkedOutputs
  <2> QED BY <1>2, <2>1, <2>4, <2>5, <2>6, <2>7, <2>8 DEF RowStep, Owned
<1>3. CASE ~Owned(glob, con[c].token) /\ GlobalSucceeded(c)
  BY <1>1, <1>3 DEF GlobalSucceeded
<1> QED BY <1>1, <1>2, <1>3

\* heartbeat_global_phase2_job.
LEMMA RowExtended ==
  ASSUME GlobInv, UNCHANGED lastDone, now \in Nat, glob' = [glob EXCEPT !.lease = now + Lease],
         glob.status = "running"
  PROVE  RowStep
<1>1. glob \in GlobRows /\ now + Lease \in Int
  BY Numbers DEF GlobInv, GlobTypes
<1>2. /\ glob' \in GlobRows /\ glob'.token = glob.token /\ glob'.input = glob.input
      /\ glob'.success = glob.success /\ glob'.status = "running"
  BY <1>1 DEF GlobRows
<1> QED BY <1>2 DEF RowStep, GlobInv, GlobTypes, OutputsEnqueued

\* A run that goes to its next stage, or comes to an end.
LEMMA RunMoves ==
  ASSUME GlobInv, NEW c \in Consolidators, NEW st \in Stages \ {"rest"}, GoTo(c, st), RowStep,
         con[c].stage # "rest", tokens' = tokens, tokens \in Nat, work' \in Dirs, base' \in Dirs,
         \A t \in Threads : out'[t].source = out[t].source
  PROVE  GlobInv'
<1>1. PICK r \in Runs :
        /\ con' = [con EXCEPT ![c] = r] /\ r.stage = st /\ r.token = con[c].token
        /\ r.mark = con[c].mark /\ r.input = con[c].input /\ r.until = con[c].until
  BY GoToRun DEF GlobInv
<1>2. RunInv(c)
  BY DEF GlobInv
<1>3. Owned(glob, con[c].token) /\ r.token # 0 =>
        r.mark <= glob.input /\ \A i \in r.input : i.source <= glob.input
  BY <1>1, <1>2 DEF RunInv
<1> QED BY <1>1, <1>3, GlobRun DEF RowStep

LEMMA RunEnds ==
  ASSUME GlobInv, NEW c \in Consolidators, con' = [con EXCEPT ![c] = Resting], RowStep,
         tokens' = tokens, tokens \in Nat, work' \in Dirs, base' \in Dirs,
         \A t \in Threads : out'[t].source = out[t].source
  PROVE  GlobInv'
BY RestingRun, GlobRun DEF RowStep

\* try_claim_global_phase2_job: the new token is no other run's.
LEMMA ClaimGlobalEffect ==
  ASSUME StageInv, GlobInv, NEW c \in Consolidators, ClaimGlobal(c)
  PROVE  /\ con[c].stage = "rest" /\ tokens' = tokens + 1 /\ tokens \in Nat /\ now \in Nat
         /\ UNCHANGED <<out, work, base, lastDone, resetting, now>>
         /\ \E at \in Nat : \E r \in Runs :
              /\ at <= now /\ now <= at + Delay /\ CanClaimGlobal(at)
              /\ con' = [con EXCEPT ![c] = r]
              /\ r.stage = "prepare" /\ r.token = tokens + 1 /\ r.mark = glob'.input
              /\ r.input = {} /\ r.until = at + Lease
              /\ glob' \in GlobRows /\ glob'.status = "running" /\ glob'.token = tokens + 1
              /\ glob'.lease = at + Lease /\ glob'.input >= glob.input /\ glob'.input >= 0
              /\ glob'.success <= glob'.input
<1>1. /\ con[c].stage = "rest" /\ tokens' = tokens + 1 /\ tokens \in Nat /\ now \in Nat
      /\ UNCHANGED <<out, work, base, lastDone, resetting, now>>
  BY Numbers DEF ClaimGlobal, ConFrame, disk, StageInv, StageTypes
<1> DEFINE re == IF glob.status = "absent" THEN Retries ELSE glob.retries
           ip == IF glob.input = -1 THEN 0 ELSE glob.input
           su == IF glob.success = -1 THEN 0 ELSE glob.success
           row(at) == [glob EXCEPT !.status = "running", !.token = tokens + 1,
                        !.lease = at + Lease, !.retryAt = -1, !.finished = -1,
                        !.failed = FALSE, !.retries = re, !.input = ip, !.success = su]
           r(at) == [stage |-> "prepare", token |-> tokens + 1, mark |-> ip,
                     input |-> {}, until |-> at + Lease]
<1>2. PICK at \in Times :
        CanClaimGlobal(at) /\ glob' = row(at) /\ con' = [con EXCEPT ![c] = r(at)]
  BY Zenon DEF ClaimGlobal
<1>3. at \in Nat /\ at <= now /\ now <= at + Delay
  BY <1>1, Numbers DEF Times
<1>4. /\ glob \in GlobRows /\ glob.input \in Int /\ glob.success \in Int
      /\ glob.retries \in 0..Retries /\ glob.success <= glob.input /\ glob.input >= -1
  BY GlobFields DEF GlobInv, GlobTypes, OutputsEnqueued
<1>5. /\ re \in 0..Retries /\ ip \in Int /\ su \in Int /\ ip >= glob.input /\ ip >= 0 /\ su <= ip
      /\ tokens + 1 \in Nat /\ at + Lease \in Int /\ -1 \in Int /\ FALSE \in BOOLEAN
      /\ "running" \in Statuses /\ "prepare" \in Stages /\ {} \in SUBSET Snapshots
  BY <1>1, <1>3, <1>4, Numbers DEF Statuses, Stages
<1> HIDE DEF re, ip, su
<1>6. row(at) \in GlobRows
  BY <1>4, <1>5, Zenon DEF GlobRows
<1>7. /\ row(at).status = "running" /\ row(at).token = tokens + 1
      /\ row(at).lease = at + Lease /\ row(at).input = ip /\ row(at).success = su
  BY <1>4 DEF GlobRows
<1>8. r(at) \in Runs
  BY <1>5, Zenon DEF Runs
<1>9. /\ r(at).stage = "prepare" /\ r(at).token = tokens + 1 /\ r(at).mark = ip
      /\ r(at).input = {} /\ r(at).until = at + Lease
  OBVIOUS
<1> HIDE DEF row, r
<1>10. /\ glob' \in GlobRows /\ glob'.status = "running" /\ glob'.token = tokens + 1
       /\ glob'.lease = at + Lease /\ glob'.input >= glob.input /\ glob'.input >= 0
       /\ glob'.success <= glob'.input /\ glob'.input = ip
  BY <1>2, <1>5, <1>6, <1>7
<1> QED BY <1>1, <1>2, <1>3, <1>8, <1>9, <1>10

LEMMA GlobClaim ==
  ASSUME StageInv, GlobInv, NEW c \in Consolidators, ClaimGlobal(c)
  PROVE  GlobInv'
<1> USE DEF GlobInv
<1>1. tokens' = tokens + 1 /\ tokens \in Nat /\ UNCHANGED <<out, work, base, lastDone>>
  BY ClaimGlobalEffect
<1>2. PICK at \in Nat, r \in Runs :
              /\ con' = [con EXCEPT ![c] = r]
              /\ r.stage = "prepare" /\ r.token = tokens + 1 /\ r.mark = glob'.input
              /\ r.input = {} /\ r.until = at + Lease
              /\ glob' \in GlobRows /\ glob'.status = "running" /\ glob'.token = tokens + 1
              /\ glob'.lease = at + Lease /\ glob'.input >= glob.input /\ glob'.input >= 0
              /\ glob'.success <= glob'.input
  BY ClaimGlobalEffect
<1>3. con'[c] = r /\ \A d \in Consolidators : d # c => con'[d] = con[d]
  BY <1>2 DEF GlobTypes
<1>4. GlobTypes' /\ glob.input \in Int /\ glob'.input \in Int
  BY <1>1, <1>2, GlobFields DEF GlobTypes, GlobRows
<1>5. \A d \in Consolidators : con[d].token \in Nat /\ con[d].token <= tokens
  BY GlobFields DEF RunInv
<1>6. ASSUME NEW d \in Consolidators PROVE RunInv(d)'
  <2>1. CASE d = c
    BY <2>1, <1>1, <1>2, <1>3, <1>4 DEF RunInv
  <2>2. CASE d # c
    BY <2>2, <1>1, <1>2, <1>3, <1>5 DEF RunInv, Owned
  <2> QED BY <2>1, <2>2
<1>7. RunTokensUnique'
  BY <1>1, <1>2, <1>3, <1>5 DEF RunTokensUnique
<1>8. OutputsEnqueued'
  <2>1. \A t \in Threads : out[t].source \in Int
    BY StageFields DEF StageInv
  <2> QED BY <2>1, <1>1, <1>2, <1>4 DEF OutputsEnqueued
<1>9. /\ glob'.token <= tokens' /\ (glob'.status = "running" => glob'.token # 0)
      /\ glob'.input >= -1 /\ (glob'.status # "absent" => glob'.input >= 0)
      /\ glob'.status = "absent" => glob' = NoGlob
      /\ glob'.status # "running" /\ ~glob'.failed /\ lastDone' >= 0 => glob'.finished = lastDone'
  BY <1>1, <1>2, <1>4
<1> QED BY <1>4, <1>6, <1>7, <1>8, <1>9

\* get_phase2_input_selection: what is selected is known to the row.
LEMMA SelectEffect ==
  ASSUME StageInv, GlobInv, NEW c \in Consolidators, Select(c)
  PROVE  \E r \in Runs :
           /\ con' = [con EXCEPT ![c] = r] /\ r.stage = "sync" /\ r.token = con[c].token
           /\ r.mark = con[c].mark /\ r.until = con[c].until
           /\ \A i \in r.input : i.source <= glob.input
<1> DEFINE usable == {t \in Threads \ polluted :
                        out[t].source >= 0 /\ out[t].source >= now - MaxUnused}
           n == IF Cardinality(usable) < MaxSelected THEN Cardinality(usable) ELSE MaxSelected
           snaps(ch) == {[thread |-> t, source |-> out[t].source,
                          reset |-> out[t].reset] : t \in ch}
           r(ch) == [con[c] EXCEPT !.stage = "sync", !.input = snaps(ch)]
<1>1. con[c] \in Runs /\ con \in [Consolidators -> Runs]
  BY GlobFields DEF GlobInv, GlobTypes
<1>2. PICK chosen \in kSubset(n, usable) :
         con' = [con EXCEPT ![c].stage = "sync", ![c].input = snaps(chosen)]
  BY DEF Select
<1>3. chosen \subseteq Threads
  BY <1>2 DEF kSubset
<1>4. \A t \in Threads : out[t].source \in Int /\ out[t].reset \in Nat /\ out[t].source <= glob.input
  BY StageFields DEF StageInv, GlobInv, OutputsEnqueued
<1>5. snaps(chosen) \in SUBSET Snapshots /\ \A i \in snaps(chosen) : i.source <= glob.input
  BY <1>3, <1>4 DEF Snapshots
<1>6. con' = [con EXCEPT ![c] = r(chosen)]
  BY <1>1, <1>2, Zenon
<1> HIDE DEF snaps
<1>7. r(chosen) \in Runs
  BY <1>1, <1>5, Zenon DEF Runs, Stages
<1>8. /\ r(chosen).stage = "sync" /\ r(chosen).token = con[c].token
      /\ r(chosen).mark = con[c].mark /\ r(chosen).until = con[c].until
      /\ r(chosen).input = snaps(chosen)
  BY <1>1 DEF Runs
<1> HIDE DEF r
<1> QED BY <1>5, <1>6, <1>7, <1>8

\* The owner renews its lease, and perhaps goes on.
LEMMA RenewedRun ==
  ASSUME GlobTypes, NEW c \in Consolidators, now \in Nat, NEW st \in Stages,
         \/ con' = [con EXCEPT ![c].until = now + Lease] /\ st = con[c].stage
         \/ con' = [con EXCEPT ![c].until = now + Lease, ![c].stage = st]
  PROVE  \E r \in Runs :
           /\ con' = [con EXCEPT ![c] = r] /\ r.stage = st /\ r.token = con[c].token
           /\ r.mark = con[c].mark /\ r.input = con[c].input /\ r.until = now + Lease
<1> DEFINE r == [con[c] EXCEPT !.until = now + Lease, !.stage = st]
           q == [con[c] EXCEPT !.until = now + Lease]
<1>1. con[c] \in Runs /\ con \in [Consolidators -> Runs] /\ now + Lease \in Int
  BY GlobFields, Numbers DEF GlobTypes
<1>2. r \in Runs /\ q \in Runs
  BY <1>1, Zenon DEF Runs
<1>3. /\ r.stage = st /\ r.token = con[c].token
      /\ r.mark = con[c].mark /\ r.input = con[c].input /\ r.until = now + Lease
  BY <1>1 DEF Runs
<1>4. /\ q.stage = con[c].stage /\ q.token = con[c].token
      /\ q.mark = con[c].mark /\ q.input = con[c].input /\ q.until = now + Lease
  BY <1>1 DEF Runs
<1>5. \/ con' = [con EXCEPT ![c] = q] /\ st = con[c].stage
      \/ con' = [con EXCEPT ![c] = r]
  BY <1>1, Zenon
<1> HIDE DEF r, q
<1> QED BY <1>2, <1>3, <1>4, <1>5

LEMMA RunRenews ==
  ASSUME GlobInv, NEW c \in Consolidators, Owned(glob, con[c].token), con[c].stage = "agent",
         glob' = [glob EXCEPT !.lease = now + Lease], now \in Nat,
         \/ con' = [con EXCEPT ![c].until = now + Lease]
         \/ con' = [con EXCEPT ![c].until = now + Lease, ![c].stage = "reset"],
         tokens' = tokens, tokens \in Nat, UNCHANGED <<out, work, base, lastDone>>
  PROVE  GlobInv'
<1>1. GlobTypes /\ RunInv(c) /\ glob.status = "running"
  BY DEF GlobInv, Owned
<1>2. \E st \in {"agent", "reset"} : \E r \in Runs :
        /\ con' = [con EXCEPT ![c] = r] /\ r.stage = st /\ r.token = con[c].token
        /\ r.mark = con[c].mark /\ r.input = con[c].input /\ r.until = now + Lease
  <2>1. "agent" \in Stages /\ "reset" \in Stages
    BY DEF Stages
  <2> QED BY <2>1, <1>1, RenewedRun
<1>3. PICK r \in Runs :
        /\ con' = [con EXCEPT ![c] = r] /\ r.stage # "rest" /\ r.token = con[c].token
        /\ r.mark = con[c].mark /\ r.input = con[c].input
  BY <1>2
<1>4. RowStep
  BY <1>1, RowExtended
<1>5. r.mark <= glob.input /\ \A i \in r.input : i.source <= glob.input
  BY <1>1, <1>3 DEF RunInv
<1>6. work' \in Dirs /\ base' \in Dirs
  BY <1>1 DEF GlobTypes
<1> QED BY <1>3, <1>4, <1>5, <1>6, GlobRun DEF RowStep

LEMMA GlobPhaseTwo ==
  ASSUME StageInv, GlobInv, PhaseTwo
  PROVE  GlobInv'
<1>1. PICK c \in Consolidators :
        \/ ClaimGlobal(c) \/ Prepare(c) \/ Select(c) \/ Sync(c)
        \/ NoChanges(c) \/ SpawnAgent(c) \/ RunFails(c)
        \/ AgentWrites(c) \/ Heartbeat(c) \/ HeartbeatFails(c)
        \/ AgentFails(c) \/ AgentCompletes(c) \/ ShutdownAgent(c)
        \/ ResetBaseline(c) \/ Succeed(c) \/ ConsolidatorDies(c)
  BY DEF PhaseTwo
<1>2. /\ tokens \in Nat /\ now \in Nat /\ work \in Dirs /\ base \in Dirs
      /\ con[c].input \in SUBSET Snapshots /\ GlobTypes
  BY Numbers, GlobFields DEF StageInv, StageTypes, GlobInv, GlobTypes
<1>3. /\ {"prepare", "select", "sync", "diff", "agent", "closing", "reset", "succeed"}
           \subseteq Stages \ {"rest"}
  BY DEF Stages
<1>4. /\ [work EXCEPT !.inputs = con[c].input] \in Dirs
      /\ [work EXCEPT !.digest = work.inputs] \in Dirs /\ [work EXCEPT !.repo = TRUE] \in Dirs
  BY <1>2 DEF Dirs
<1>5. CASE ClaimGlobal(c)
  BY <1>5, GlobClaim
<1>6. CASE Prepare(c)
  <2>1. /\ UNCHANGED <<out, glob, work, tokens, lastDone>> /\ GoTo(c, "select")
        /\ con[c].stage # "rest" /\ base' \in Dirs
    BY <1>2, <1>6 DEF Prepare
  <2> QED BY <2>1, <1>2, <1>3, RowUnchanged, RunMoves
<1>7. CASE Select(c)
  <2>1. /\ UNCHANGED <<out, glob, work, base, tokens, lastDone>> /\ con[c].stage # "rest"
    BY <1>7 DEF Select, disk
  <2>2. PICK r \in Runs :
           /\ con' = [con EXCEPT ![c] = r] /\ r.stage = "sync" /\ r.token = con[c].token
           /\ r.mark = con[c].mark /\ r.until = con[c].until
           /\ \A i \in r.input : i.source <= glob.input
    BY <1>7, SelectEffect
  <2>3. Owned(glob, con[c].token) => r.mark <= glob.input
    BY <2>2 DEF GlobInv, RunInv
  <2>4. RowStep
    BY <2>1, RowUnchanged
  <2> QED BY <2>1, <2>2, <2>3, <2>4, <1>2, GlobRun DEF RowStep
<1>8. CASE Sync(c)
  <2>1. /\ UNCHANGED <<out, glob, base, tokens, lastDone>> /\ GoTo(c, "diff")
        /\ con[c].stage # "rest" /\ work' \in Dirs
    BY <1>4, <1>8 DEF Sync
  <2> QED BY <2>1, <1>2, <1>3, RowUnchanged, RunMoves
<1>9. CASE NoChanges(c)
  BY <1>9, <1>2, RowSucceeded, RunEnds DEF NoChanges, disk
<1>10. CASE SpawnAgent(c)
  <2>1. /\ UNCHANGED <<out, glob, work, base, tokens, lastDone>> /\ GoTo(c, "agent")
        /\ con[c].stage # "rest"
    BY <1>10 DEF SpawnAgent, disk
  <2> QED BY <2>1, <1>2, <1>3, RowUnchanged, RunMoves
<1>11. CASE RunFails(c)
  BY <1>11, <1>2, RowFailed, RunEnds DEF RunFails, disk
<1>12. CASE AgentWrites(c)
  <2>1. /\ UNCHANGED <<out, glob, con, base, tokens, lastDone>> /\ work' \in Dirs
    BY <1>4, <1>12 DEF AgentWrites
  <2>2. \A t \in Threads : out'[t].source <= glob.input
    BY <2>1 DEF GlobInv, OutputsEnqueued
  <2> QED BY <2>1, <2>2, <1>2, GlobFrame
<1>13. CASE Heartbeat(c)
  <2>1. UNCHANGED <<out, work, base, tokens, lastDone>> /\ con[c].stage = "agent"
    BY <1>13 DEF Heartbeat, disk
  <2>2. CASE Owned(glob, con[c].token)
    BY <2>1, <2>2, <1>2, <1>13, RunRenews DEF Heartbeat, Extended
  <2>3. CASE ~Owned(glob, con[c].token)
    <3>1. GoTo(c, "closing") /\ UNCHANGED glob
      BY <2>3, <1>13 DEF Heartbeat
    <3> QED BY <2>1, <3>1, <1>2, <1>3, RowUnchanged, RunMoves
  <2> QED BY <2>2, <2>3
<1>14. CASE HeartbeatFails(c)
  <2>1. UNCHANGED <<out, work, base, tokens, lastDone>> /\ con[c].stage # "rest"
        /\ GoTo(c, "closing") /\ (GlobalFailed(c) \/ UNCHANGED glob)
    BY <1>14 DEF HeartbeatFails, disk
  <2> QED BY <2>1, <1>2, <1>3, RowFailed, RunMoves
<1>15. CASE AgentFails(c)
  BY <1>15, <1>2, RowFailed, RunEnds DEF AgentFails, disk
<1>16. CASE AgentCompletes(c)
  <2>1. UNCHANGED <<out, work, base, tokens, lastDone>> /\ con[c].stage = "agent"
    BY <1>16 DEF AgentCompletes, disk
  <2>2. CASE Owned(glob, con[c].token)
    BY <2>1, <2>2, <1>2, <1>16, RunRenews DEF AgentCompletes
  <2>3. CASE ~Owned(glob, con[c].token)
    <3>1. con' = [con EXCEPT ![c] = Resting] /\ UNCHANGED glob
      BY <2>3, <1>16 DEF AgentCompletes
    <3> QED BY <2>1, <3>1, <1>2, RowUnchanged, RunEnds
  <2> QED BY <2>2, <2>3
<1>17. CASE ShutdownAgent(c)
  BY <1>17, <1>2, RowUnchanged, RunEnds DEF ShutdownAgent, disk
<1>18. CASE ResetBaseline(c)
  <2>1. /\ UNCHANGED <<out, glob, work, tokens, lastDone>> /\ GoTo(c, "succeed")
        /\ con[c].stage # "rest" /\ base' \in Dirs
    BY <1>4, <1>18 DEF ResetBaseline
  <2> QED BY <2>1, <1>2, <1>3, RowUnchanged, RunMoves
<1>19. CASE Succeed(c)
  BY <1>19, <1>2, RowSucceeded, RunEnds DEF Succeed, disk
<1>20. CASE ConsolidatorDies(c)
  BY <1>20, <1>2, RowUnchanged, RunEnds DEF ConsolidatorDies, disk
<1> QED BY <1>1, <1>5, <1>6, <1>7, <1>8, <1>9, <1>10, <1>11, <1>12, <1>13, <1>14, <1>15,
           <1>16, <1>17, <1>18, <1>19, <1>20

\* Stage 1 tells the row of every output it stores or deletes.
LEMMA GlobStageOne ==
  ASSUME StageInv, GlobInv, StageOne
  PROVE  GlobInv'
<1>1. /\ tokens \in Nat /\ work \in Dirs /\ base \in Dirs /\ glob.input \in Int
      /\ \A t \in Threads : out[t].source \in Int /\ out[t].source <= glob.input
  <2>1. tokens \in Nat /\ \A t \in Threads : out[t].source \in Int
    BY Numbers, StageFields DEF StageInv, StageTypes
  <2>2. work \in Dirs /\ base \in Dirs /\ glob.input \in Int
    BY GlobFields DEF GlobInv, GlobTypes
  <2>3. \A t \in Threads : out[t].source <= glob.input
    BY <2>1, <2>2 DEF GlobInv, OutputsEnqueued
  <2> QED BY <2>1, <2>2, <2>3
<1>2. NoOut.source = -1 /\ glob.input >= -1
  BY DEF NoOut, GlobInv
<1>3. ASSUME UNCHANGED <<glob, con, lastDone, work, base, out>>,
             tokens' = tokens \/ tokens' = tokens + 1
      PROVE  GlobInv'
  BY <1>1, <1>3, GlobFrame
<1>4. ASSUME NEW e \in Extractors, Scan(e) \/ ExtractorDies(e) PROVE GlobInv'
  <2>1. UNCHANGED <<glob, con, lastDone, work, base, out, tokens>>
    BY <1>4 DEF Scan, ExtractorDies, disk, stageOne
  <2> QED BY <2>1, <1>3
<1>5. ASSUME NEW e \in Extractors, NEW s \in scan[e], ClaimJob(e, s) \/ SkipJob(e, s)
      PROVE  GlobInv'
  <2>1. /\ UNCHANGED <<glob, con, lastDone, work, base, out>>
        /\ tokens' = tokens \/ tokens' = tokens + 1
    BY <1>5 DEF ClaimJob, SkipJob, disk, stageOne
  <2> QED BY <2>1, <1>3
<1>6. ASSUME NEW h \in held, StageOneFails(h) \/ StageOneLost(h) PROVE GlobInv'
  <2>1. UNCHANGED <<glob, con, lastDone, work, base, out, tokens>>
    BY <1>6 DEF StageOneFails, StageOneLost, Settled, disk, stageOne
  <2> QED BY <2>1, <1>3
<1>7. ASSUME NEW h \in held, StageOneSucceeds(h) PROVE GlobInv'
  <2>1. /\ UNCHANGED <<con, lastDone, work, base, tokens>> /\ glob' = Enqueued(glob, h.source)
        /\ out' = IF h.source >= out[h.thread].source
              THEN [out EXCEPT ![h.thread] = [out[h.thread] EXCEPT !.source = h.source,
                                                                  !.reset = h.reset]]
              ELSE out
    BY <1>7, Zenon DEF StageOneSucceeds, Settled, disk
  <2>2. h.source \in Nat /\ h.thread \in Threads
    BY StageFields, Numbers DEF StageInv
  <2>3. out \in [Threads -> OutRows] /\ out[h.thread] \in OutRows
    BY <2>2 DEF StageInv, StageTypes
  <2>4. [out[h.thread] EXCEPT !.source = h.source, !.reset = h.reset].source = h.source
    BY <2>3 DEF OutRows
  <2>5. \A t \in Threads : out'[t].source = out[t].source \/ out'[t].source = h.source
    BY <2>1, <2>2, <2>3, <2>4
  <2>6. /\ \A t \in Threads : out'[t].source <= glob.input \/ out'[t].source <= h.source
        /\ \A t \in Threads : out'[t].source \in Int
    BY <2>2, <2>5, <1>1
  <2> QED BY <2>1, <2>2, <2>6, GlobEnqueue
<1>8. ASSUME NEW h \in held, StageOneEmpty(h) PROVE GlobInv'
  <2>1. /\ UNCHANGED <<con, lastDone, work, base, tokens>> /\ OwnsJob(h)
        /\ out' = [out EXCEPT ![h.thread] = NoOut]
        /\ glob' = Enqueued(glob, job[h.thread].input) \/ glob' = glob
    BY <1>8 DEF StageOneEmpty, Settled, disk
  <2>2. h.source \in Nat /\ h.thread \in Threads /\ out \in [Threads -> OutRows]
    BY StageFields, Numbers DEF StageInv, StageTypes
  <2>3. \A t \in Threads : out'[t].source <= glob.input /\ out'[t].source \in Int
    BY <2>1, <2>2, <1>1, <1>2
  <2>4. job[h.thread].input \in Nat
    BY <2>1, <2>2 DEF StageInv, ClaimInv, OwnsJob
  <2> QED BY <2>1, <2>3, <2>4, <1>1, GlobEnqueue, GlobFrame
<1>9. ASSUME NEW t \in Threads, Prune(t) PROVE GlobInv'
  <2>1. /\ UNCHANGED <<glob, con, lastDone, work, base, tokens>>
        /\ out' = [out EXCEPT ![t] = NoOut] /\ out \in [Threads -> OutRows]
    BY <1>9 DEF Prune, disk, StageInv, StageTypes
  <2>2. \A u \in Threads : out'[u].source <= glob.input
    BY <2>1, <1>1, <1>2
  <2> QED BY <2>1, <2>2, <1>1, GlobFrame
<1> QED BY <1>4, <1>5, <1>6, <1>7, <1>8, <1>9 DEF StageOne

LEMMA GlobUsers ==
  ASSUME StageInv, GlobInv, Users \/ Tick \/ UNCHANGED vars
  PROVE  GlobInv'
<1>1. /\ tokens \in Nat /\ now \in Nat /\ work \in Dirs /\ base \in Dirs /\ glob.input \in Int
      /\ \A t \in Threads : out[t].source \in Int /\ out[t].source <= glob.input
  BY Numbers, StageFields, GlobFields DEF StageInv, StageTypes, GlobInv, GlobTypes, OutputsEnqueued
<1>2. EmptyDir \in Dirs /\ NoRepo \in Dirs
  BY DEF EmptyDir, NoRepo, Dirs
<1>3. ASSUME NEW t \in Threads, TouchThread(t) PROVE GlobInv'
  BY <1>1, <1>3, GlobFrame DEF TouchThread, stageOne, disk
<1>4. ASSUME NEW t \in Threads, Pollute(t) PROVE GlobInv'
  <2>1. /\ UNCHANGED <<con, lastDone, work, base, tokens, out>>
        /\ glob' = Enqueued(glob, now) \/ glob' = glob
    BY <1>4 DEF Pollute, stageOne, disk
  <2> QED BY <2>1, <1>1, GlobEnqueue, GlobFrame
<1>5. ASSUME ClearMemoryData PROVE GlobInv'
  <2>1. /\ UNCHANGED <<con, work, base, tokens>> /\ glob' = NoGlob /\ lastDone' = -1
        /\ out' = [t \in Threads |-> NoOut]
    BY <1>5 DEF ClearMemoryData, disk
  <2>2. GlobTypes'
    BY <2>1, NoGlobRow DEF GlobInv, GlobTypes
  <2>3. \A c \in Consolidators : RunInv(c)'
    BY <2>1, NoGlobRow DEF GlobInv, RunInv, Owned
  <2>4. RunTokensUnique' /\ OutputsEnqueued'
    BY <2>1, NoGlobRow DEF GlobInv, RunTokensUnique, OutputsEnqueued, NoOut
  <2> QED BY <2>1, <2>2, <2>3, <2>4, <1>1, NoGlobRow DEF GlobInv
<1>6. ASSUME ClearMemoryRoots PROVE GlobInv'
  BY <1>1, <1>2, <1>6, GlobFrame DEF ClearMemoryRoots, stageOne
<1>7. ASSUME Tick PROVE GlobInv'
  BY <1>1, <1>7, GlobFrame DEF Tick, stageOne, disk
<1>8. ASSUME UNCHANGED vars PROVE GlobInv'
  BY <1>1, <1>8, GlobFrame DEF vars, stageOne, disk
<1> QED BY <1>3, <1>4, <1>5, <1>6, <1>7, <1>8 DEF Users

LEMMA GlobInit ==
  ASSUME Init
  PROVE  GlobInv
<1>1. /\ glob = NoGlob /\ con = [c \in Consolidators |-> Resting] /\ lastDone = -1
      /\ work = EmptyDir /\ base = NoRepo /\ tokens = 0 /\ out = [t \in Threads |-> NoOut]
  BY DEF Init
<1>2. EmptyDir \in Dirs /\ NoRepo \in Dirs
  BY DEF EmptyDir, NoRepo, Dirs
<1>3. GlobTypes
  BY <1>1, <1>2, NoGlobRow, RestingRun DEF GlobTypes
<1>4. \A c \in Consolidators : RunInv(c)
  BY <1>1, NoGlobRow, RestingRun DEF RunInv, Owned
<1>5. RunTokensUnique /\ OutputsEnqueued
  BY <1>1, NoGlobRow, RestingRun DEF RunTokensUnique, OutputsEnqueued, NoOut
<1> QED BY <1>1, <1>3, <1>4, <1>5, NoGlobRow DEF GlobInv

\* The row of phase 2 keeps its invariant.
THEOREM GlobInvariance == Spec => []GlobInv
<1>1. Init => GlobInv
  BY GlobInit
<1>2. StageInv /\ GlobInv /\ [Next]_vars => GlobInv'
  BY GlobStageOne, GlobPhaseTwo, GlobUsers DEF Next
<1> QED BY <1>1, <1>2, StageInvariance, PTL DEF Spec

\* Every output that stage 1 stored is below the watermark of the phase-2 row, and so is
\* whatever a run reports as consolidated.
THEOREM OutputsAreEnqueued == Spec => []OutputsEnqueued
<1>1. GlobInv => OutputsEnqueued
  BY DEF GlobInv
<1> QED BY <1>1, GlobInvariance, PTL

\* Types, with the retries within their limit and no snapshot newer than its output.
THEOREM MemoryTypes == Spec => []TypeOK
<1>1. StageInv /\ GlobInv => TypeOK
  <2> SUFFICES ASSUME StageInv, GlobInv PROVE TypeOK
    OBVIOUS
  <2>1. now \in 0..MaxTime /\ tokens \in 0..MaxTokens /\ resets \in 0..MaxResets
    BY DEF StageInv, StageTypes
  <2>2. ASSUME NEW t \in Threads
        PROVE  /\ updated[t] \in 0..now
               /\ job[t].status \in Statuses /\ job[t].retries \in 0..Retries
               /\ out[t].source \in -1..now /\ out[t].selected \in -1..out[t].source
    <3>1. RowInv(t) /\ OutInv(t) /\ updated[t] \in 0..now
      BY DEF StageInv, RowInv
    <3>2. out[t].source \in -1..now
      BY <2>1, <3>1 DEF OutInv
    <3> QED BY <3>1, <3>2, StageFields DEF StageInv, OutInv
  <2>3. /\ glob.status \in Statuses /\ glob.retries \in 0..Retries
        /\ \A c \in Consolidators : con[c].stage \in Stages
    BY GlobFields DEF GlobInv
  <2> QED BY <2>1, <2>2, <2>3 DEF TypeOK
<1> QED BY <1>1, StageInvariance, GlobInvariance, PTL

-----------------------------------------------------------------------------
(* The cooldown.                                                            *)

\* Only try_claim_global_phase2_job makes the job run.
LEMMA OnlyClaimsRun ==
  ASSUME StageInv, GlobInv, [Next]_vars, glob.status # "running", glob'.status = "running"
  PROVE  \E c \in Consolidators : ClaimGlobal(c)
<1>1. now \in Nat
  BY Numbers DEF StageInv, StageTypes
<1>2. ASSUME NEW m \in Nat PROVE glob' # Enqueued(glob, m)
  BY <1>2, EnqueuedEffect
<1>3. glob' # glob
  OBVIOUS
<1>4. ~StageOne
  <2>1. \A h \in held : h.source \in Nat /\ (OwnsJob(h) => job[h.thread].input \in Nat)
    <3>1. \A h \in held : h.source \in Nat
      BY StageFields, Numbers DEF StageInv
    <3>2. \A h \in held : OwnsJob(h) => job[h.thread].input = h.source
      BY DEF StageInv, ClaimInv, OwnsJob
    <3> QED BY <3>1, <3>2
  <2>2. \A h \in held : ~StageOneSucceeds(h)
    BY <2>1, <1>2 DEF StageOneSucceeds
  <2>3. \A h \in held : ~StageOneEmpty(h)
    BY <2>1, <1>2, <1>3 DEF StageOneEmpty
  <2>4. \A h \in held : ~StageOneFails(h) /\ ~StageOneLost(h)
    BY <1>3 DEF StageOneFails, StageOneLost
  <2>5. \A e \in Extractors : ~Scan(e) /\ ~ExtractorDies(e)
    BY <1>3 DEF Scan, ExtractorDies
  <2>6. \A e \in Extractors : \A s \in scan[e] : ~ClaimJob(e, s) /\ ~SkipJob(e, s)
    BY <1>3 DEF ClaimJob, SkipJob
  <2>7. \A t \in Threads : ~Prune(t)
    BY <1>3 DEF Prune
  <2> QED BY <2>2, <2>3, <2>4, <2>5, <2>6, <2>7 DEF StageOne
<1>5. ~Users /\ ~Tick /\ ~UNCHANGED vars
  <2>1. \A t \in Threads : ~TouchThread(t) /\ ~Pollute(t)
    BY <1>1, <1>2, <1>3 DEF TouchThread, Pollute
  <2>2. ~ClearMemoryData /\ ~ClearMemoryRoots
    BY <1>3, NoGlobRow DEF ClearMemoryData, ClearMemoryRoots
  <2> QED BY <1>3, <2>1, <2>2 DEF Users, Tick, vars
<1>6. ~RowStep
  BY DEF RowStep
<1>7. ASSUME NEW c \in Consolidators
      PROVE  /\ ~(GlobalSucceeded(c) \/ UNCHANGED <<glob, out, lastDone>>)
             /\ ~((GlobalFailed(c) \/ UNCHANGED glob) /\ UNCHANGED lastDone)
  BY <1>1, <1>6, RowSucceeded, RowFailed
<1>8. ASSUME NEW c \in Consolidators, Heartbeat(c) \/ AgentCompletes(c) PROVE FALSE
  <2>1. ~Owned(glob, con[c].token)
    BY DEF Owned
  <2> QED BY <1>3, <1>8, <2>1 DEF Heartbeat, AgentCompletes
<1>9. ASSUME NEW c \in Consolidators
      PROVE  /\ ~NoChanges(c) /\ ~RunFails(c) /\ ~HeartbeatFails(c) /\ ~AgentFails(c)
             /\ ~Succeed(c)
  BY <1>7 DEF NoChanges, RunFails, HeartbeatFails, AgentFails, Succeed
<1>10. ASSUME NEW c \in Consolidators
       PROVE  /\ ~Prepare(c) /\ ~Select(c) /\ ~Sync(c) /\ ~SpawnAgent(c) /\ ~AgentWrites(c)
              /\ ~ShutdownAgent(c) /\ ~ResetBaseline(c) /\ ~ConsolidatorDies(c)
  BY <1>3 DEF Prepare, Select, Sync, SpawnAgent, AgentWrites, ShutdownAgent, ResetBaseline,
              ConsolidatorDies
<1> QED BY <1>4, <1>5, <1>8, <1>9, <1>10 DEF Next, PhaseTwo

\* The time of the last success is kept until the next claim, whatever is enqueued in
\* between, so no claim comes before the cooldown is over.
THEOREM CooldownHolds == Spec => CooldownKept
<1> DEFINE A == glob.status # "running" /\ glob'.status = "running" /\ lastDone >= 0 /\ ~glob.failed
                  => now >= lastDone + Cooldown
<1>1. StageInv /\ GlobInv /\ [Next]_vars => [A]_vars
  <2> SUFFICES ASSUME StageInv, GlobInv, [Next]_vars, glob.status # "running",
                      glob'.status = "running", lastDone >= 0, ~glob.failed
               PROVE  now >= lastDone + Cooldown
    OBVIOUS
  <2>1. PICK c \in Consolidators : ClaimGlobal(c)
    BY OnlyClaimsRun
  <2>2. PICK at \in Nat : at <= now /\ CanClaimGlobal(at) /\ now \in Nat
    BY <2>1, ClaimGlobalEffect
  <2>3. glob.finished = lastDone /\ lastDone \in Int
    BY DEF GlobInv, GlobTypes
  <2> QED BY <2>2, <2>3, Numbers DEF CanClaimGlobal
<1> HIDE DEF A
<1>2. Spec => [][A]_vars
  BY <1>1, StageInvariance, GlobInvariance, PTL DEF Spec
<1> QED BY <1>2 DEF A, CooldownKept

-----------------------------------------------------------------------------
(* The memories directory.                                                  *)

\* The row has one owner, so only one run is active.
LEMMA OneActive ==
  ASSUME GlobInv, DirectoryInv, NEW c \in Consolidators, NEW d \in Consolidators,
         Active(c), Active(d)
  PROVE  c = d
<1>1. Owned(glob, con[c].token) /\ Owned(glob, con[d].token)
  BY DEF DirectoryInv, HasDirectory
<1> QED BY <1>1 DEF Owned, GlobInv, RunTokensUnique

\* A step of the active run: only what concerns that run can change.
LEMMA OwnerMoves ==
  ASSUME GlobInv, DirectoryInv, NEW c \in Consolidators, Active(c),
         NEW r, con' = [con EXCEPT ![c] = r], UNCHANGED resetting,
         HasDirectory(c)', SelectedInBaseline'
  PROVE  DirectoryInv'
<1>1. \A d \in Consolidators : d # c => con'[d] = con[d]
  BY DEF GlobInv, GlobTypes
<1>2. ASSUME NEW d \in Consolidators, d # c PROVE HasDirectory(d)'
  <2>1. ~Active(d)
    BY <1>2, OneActive
  <2>2. con'[d].stage \in {"rest", "closing"}
    BY <1>1, <1>2, <2>1 DEF Active
  <2> QED BY <2>2 DEF HasDirectory, Active
<1> QED BY <1>2 DEF DirectoryInv

\* A step of nobody's: the row may change, but neither its owner nor its lease.
LEMMA DirectoryFrame ==
  ASSUME GlobInv, DirectoryInv, UNCHANGED <<con, now, resetting>>,
         work'.inputs = work.inputs, base' = base,
         glob.status = "running" => glob'.status = "running" /\ glob'.token = glob.token
                                    /\ glob'.lease = glob.lease,
         SelectedInBaseline'
  PROVE  DirectoryInv'
<1>1. ASSUME NEW c \in Consolidators PROVE HasDirectory(c)'
  <2>1. HasDirectory(c)
    BY DEF DirectoryInv
  <2> QED BY <2>1 DEF HasDirectory, Active, Owned
<1> QED BY <1>1 DEF DirectoryInv

LEMMA DirectoryEnqueue ==
  ASSUME GlobInv, DirectoryInv, UNCHANGED <<con, now, resetting, work, base>>,
         NEW m \in Nat, glob' = Enqueued(glob, m)
  PROVE  DirectoryInv'
<1>1. /\ glob'.status \in {"pending", "running"}
      /\ glob.status = "running" => glob'.status = "running"
      /\ glob'.token = glob.token /\ glob'.lease = glob.lease
  BY EnqueuedEffect
<1>2. SelectedInBaseline'
  BY <1>1 DEF SelectedInBaseline
<1> QED BY <1>1, <1>2, DirectoryFrame

\* The run that has the row: what it finds in its record and in the row.
LEMMA OwnerFacts ==
  ASSUME StageInv, GlobInv, DirectoryInv, NEW c \in Consolidators, Active(c)
  PROVE  /\ Owned(glob, con[c].token) /\ glob.status = "running" /\ glob.lease = con[c].until
         /\ con[c].until > now /\ GlobTypes /\ now \in Nat
BY Numbers DEF DirectoryInv, HasDirectory, Owned, GlobInv, StageInv, StageTypes

\* The active run comes to an end, or only its agent is left.
LEMMA OwnerLeaves ==
  ASSUME StageInv, GlobInv, DirectoryInv, NEW c \in Consolidators, Active(c),
         NEW r, con' = [con EXCEPT ![c] = r], r.stage \in {"rest", "closing"},
         UNCHANGED resetting, SelectedInBaseline'
  PROVE  DirectoryInv'
<1>1. con'[c] = r
  BY DEF GlobInv, GlobTypes
<1>2. HasDirectory(c)'
  BY <1>1 DEF HasDirectory, Active
<1> QED BY <1>2, OwnerMoves

LEMMA OwnerFails ==
  ASSUME StageInv, GlobInv, DirectoryInv, NEW c \in Consolidators, Active(c),
         GlobalFailed(c) \/ UNCHANGED glob
  PROVE  SelectedInBaseline'
<1>1. glob.status = "running" /\ glob \in GlobRows
  BY OwnerFacts DEF GlobTypes
<1>2. glob' = glob \/ glob'.status = "error"
  BY <1>1 DEF GlobalFailed, GlobRows
<1> QED BY <1>1, <1>2 DEF SelectedInBaseline

\* The success of a run whose inputs are in the baseline.
LEMMA OwnerSucceeds ==
  ASSUME StageInv, GlobInv, DirectoryInv, NEW c \in Consolidators, Active(c),
         GlobalSucceeded(c) \/ UNCHANGED <<glob, out, lastDone>>,
         base' = base, base.inputs = con[c].input
  PROVE  SelectedInBaseline'
<1>1. glob.status = "running" /\ Owned(glob, con[c].token)
  BY OwnerFacts
<1>2. CASE UNCHANGED <<glob, out, lastDone>>
  BY <1>1, <1>2 DEF SelectedInBaseline
<1>3. CASE GlobalSucceeded(c)
  <2>1. out' = Marked(con[c].input)
    BY <1>1, <1>3 DEF GlobalSucceeded
  <2> QED BY <2>1, MarkedOutputs DEF SelectedInBaseline
<1> QED BY <1>2, <1>3

\* A step that takes the active run to its next stage.
LEMMA OwnerGoes ==
  ASSUME StageInv, GlobInv, DirectoryInv, NEW c \in Consolidators, Active(c),
         NEW st \in Stages, GoTo(c, st), UNCHANGED <<glob, out, now, resetting>>,
         st \in {"diff", "agent", "reset"} => work'.inputs = con[c].input,
         st = "succeed" => base'.inputs = con[c].input
  PROVE  DirectoryInv'
<1>1. PICK r \in Runs :
        /\ con' = [con EXCEPT ![c] = r] /\ r.stage = st /\ r.token = con[c].token
        /\ r.mark = con[c].mark /\ r.input = con[c].input /\ r.until = con[c].until
  BY GoToRun DEF GlobInv
<1>2. con'[c] = r
  BY <1>1 DEF GlobInv, GlobTypes
<1>3. /\ Owned(glob, con[c].token) /\ glob.status = "running" /\ glob.lease = con[c].until
      /\ con[c].until > now
  BY OwnerFacts
<1>4. HasDirectory(c)'
  BY <1>1, <1>2, <1>3 DEF HasDirectory, Active
<1>5. SelectedInBaseline'
  BY <1>3 DEF SelectedInBaseline
<1> QED BY <1>1, <1>4, <1>5, OwnerMoves

LEMMA OwnerRenews ==
  ASSUME StageInv, GlobInv, DirectoryInv, NEW c \in Consolidators, con[c].stage = "agent",
         glob' = [glob EXCEPT !.lease = now + Lease],
         \/ con' = [con EXCEPT ![c].until = now + Lease]
         \/ con' = [con EXCEPT ![c].until = now + Lease, ![c].stage = "reset"],
         UNCHANGED <<out, work, base, now, resetting>>
  PROVE  DirectoryInv'
<1>1. Active(c)
  BY DEF Active
<1>2. /\ Owned(glob, con[c].token) /\ glob.status = "running" /\ GlobTypes /\ now \in Nat
  BY <1>1, OwnerFacts
<1>3. \E st \in {"agent", "reset"} : \E r \in Runs :
        /\ con' = [con EXCEPT ![c] = r] /\ r.stage = st /\ r.token = con[c].token
        /\ r.mark = con[c].mark /\ r.input = con[c].input /\ r.until = now + Lease
  <2>1. "agent" \in Stages /\ "reset" \in Stages
    BY DEF Stages
  <2> QED BY <2>1, <1>2, RenewedRun
<1>4. PICK r \in Runs :
        /\ con' = [con EXCEPT ![c] = r] /\ r.stage \in {"agent", "reset"}
        /\ r.token = con[c].token /\ r.input = con[c].input /\ r.until = now + Lease
  BY <1>3
<1>5. con'[c] = r
  BY <1>4, <1>2 DEF GlobTypes
<1>6. glob'.status = glob.status /\ glob'.token = glob.token /\ glob'.lease = now + Lease
  BY <1>2 DEF GlobTypes, GlobRows
<1>7. now + Lease > now /\ work.inputs = con[c].input
  BY <1>2, Numbers DEF DirectoryInv, HasDirectory
<1>8. HasDirectory(c)'
  BY <1>2, <1>4, <1>5, <1>6, <1>7 DEF HasDirectory, Active, Owned
<1>9. SelectedInBaseline'
  BY <1>2, <1>6 DEF SelectedInBaseline
<1> QED BY <1>1, <1>4, <1>8, <1>9, OwnerMoves

\* A claim finds no run that still has its lease.
LEMMA DirectoryClaim ==
  ASSUME LeasesKept, StageInv, GlobInv, DirectoryInv, NEW c \in Consolidators, ClaimGlobal(c)
  PROVE  DirectoryInv'
<1>1. now \in Nat /\ UNCHANGED <<out, work, base, resetting, now>>
  BY ClaimGlobalEffect
<1>2. PICK at \in Nat, r \in Runs :
              /\ at <= now /\ now <= at + Delay /\ CanClaimGlobal(at)
              /\ con' = [con EXCEPT ![c] = r]
              /\ r.stage = "prepare" /\ r.token = tokens + 1
              /\ r.until = at + Lease
              /\ glob'.status = "running" /\ glob'.token = tokens + 1
              /\ glob'.lease = at + Lease
  BY ClaimGlobalEffect
<1>3. con'[c] = r /\ \A d \in Consolidators : d # c => con'[d] = con[d]
  BY <1>2 DEF GlobInv, GlobTypes
<1>4. ASSUME NEW d \in Consolidators PROVE ~Active(d)
  <2>1. ~(glob.status = "running" /\ glob.lease > at) /\ glob.lease \in Int
    BY <1>2, GlobFields DEF CanClaimGlobal, Fresh, GlobInv
  <2>2. Active(d) => glob.status = "running" /\ glob.lease > now
    BY OwnerFacts
  <2> QED BY <2>1, <2>2, <1>1, <1>2
<1>5. ASSUME NEW d \in Consolidators PROVE HasDirectory(d)'
  <2>1. CASE d # c
    BY <2>1, <1>3, <1>4 DEF HasDirectory, Active
  <2>2. CASE d = c
    <3>1. at + Lease > now
      BY <1>1, <1>2, Numbers DEF LeasesKept
    <3> QED BY <2>2, <3>1, <1>1, <1>2, <1>3 DEF HasDirectory, Active, Owned
  <2> QED BY <2>1, <2>2
<1>6. SelectedInBaseline'
  BY <1>2 DEF SelectedInBaseline
<1> QED BY <1>1, <1>5, <1>6 DEF DirectoryInv

LEMMA DirectoryPhaseTwo ==
  ASSUME LeasesKept, StageInv, GlobInv, DirectoryInv, PhaseTwo
  PROVE  DirectoryInv'
<1>1. PICK c \in Consolidators :
        \/ ClaimGlobal(c) \/ Prepare(c) \/ Select(c) \/ Sync(c)
        \/ NoChanges(c) \/ SpawnAgent(c) \/ RunFails(c)
        \/ AgentWrites(c) \/ Heartbeat(c) \/ HeartbeatFails(c)
        \/ AgentFails(c) \/ AgentCompletes(c) \/ ShutdownAgent(c)
        \/ ResetBaseline(c) \/ Succeed(c) \/ ConsolidatorDies(c)
  BY DEF PhaseTwo
<1>2. now' = now /\ resetting' = resetting
  BY <1>1, PhaseTwoEffect DEF stageVars
<1>3. HasDirectory(c) /\ work \in Dirs /\ con[c] \in Runs
  BY GlobFields DEF DirectoryInv, GlobInv, GlobTypes
<1>4. /\ "select" \in Stages /\ "diff" \in Stages /\ "agent" \in Stages /\ "closing" \in Stages
      /\ "succeed" \in Stages
  BY DEF Stages
<1>5. /\ [work EXCEPT !.inputs = con[c].input].inputs = con[c].input
      /\ [work EXCEPT !.digest = work.inputs].inputs = work.inputs
      /\ [work EXCEPT !.repo = TRUE].inputs = work.inputs
  BY <1>3 DEF Dirs
<1>6. CASE ClaimGlobal(c)
  BY <1>6, DirectoryClaim
<1>7. CASE Prepare(c)
  BY <1>2, <1>4, <1>7, OwnerGoes DEF Prepare, Active
<1>8. CASE Select(c)
  <2>1. /\ UNCHANGED <<out, glob>> /\ Active(c)
    BY <1>8 DEF Select, Active
  <2>2. PICK r \in Runs :
           /\ con' = [con EXCEPT ![c] = r] /\ r.stage = "sync" /\ r.token = con[c].token
           /\ r.until = con[c].until
    BY <1>8, SelectEffect
  <2>3. con'[c] = r
    BY <2>2 DEF GlobInv, GlobTypes
  <2>4. /\ Owned(glob, con[c].token) /\ glob.status = "running" /\ glob.lease = con[c].until
        /\ con[c].until > now
    BY <2>1, OwnerFacts
  <2>5. HasDirectory(c)' /\ SelectedInBaseline'
    BY <2>1, <2>2, <2>3, <2>4, <1>2 DEF HasDirectory, Active, SelectedInBaseline
  <2> QED BY <2>1, <2>2, <2>5, <1>2, OwnerMoves
<1>9. CASE Sync(c)
  BY <1>2, <1>4, <1>5, <1>9, OwnerGoes DEF Sync, Active
<1>10. CASE NoChanges(c)
  <2>1. /\ Active(c) /\ UNCHANGED base /\ con' = [con EXCEPT ![c] = Resting]
        /\ base.inputs = con[c].input
    BY <1>3, <1>10 DEF NoChanges, Active, HasDirectory, disk
  <2>2. SelectedInBaseline'
    BY <2>1, <1>10, OwnerSucceeds DEF NoChanges
  <2> QED BY <2>1, <2>2, <1>2, RestingRun, OwnerLeaves
<1>11. CASE SpawnAgent(c)
  <2>1. /\ Active(c) /\ UNCHANGED <<out, glob, work>> /\ GoTo(c, "agent")
        /\ work.inputs = con[c].input
    BY <1>3, <1>11 DEF SpawnAgent, Active, HasDirectory, disk
  <2> QED BY <2>1, <1>2, <1>4, OwnerGoes
<1>12. CASE RunFails(c)
  <2>1. Active(c) /\ con' = [con EXCEPT ![c] = Resting]
    BY <1>12 DEF RunFails, Active
  <2> QED BY <2>1, <1>2, <1>12, OwnerFails, RestingRun, OwnerLeaves DEF RunFails
<1>13. CASE AgentWrites(c)
  <2>1. UNCHANGED <<out, glob, con, base>> /\ work'.inputs = work.inputs
    BY <1>5, <1>13 DEF AgentWrites
  <2>2. SelectedInBaseline'
    BY <2>1 DEF DirectoryInv, SelectedInBaseline
  <2> QED BY <2>1, <2>2, <1>2, DirectoryFrame
<1>14. CASE Heartbeat(c)
  <2>1. Active(c) /\ con[c].stage = "agent" /\ UNCHANGED <<out, work, base>>
    BY <1>14 DEF Heartbeat, Active, disk
  <2>2. Owned(glob, con[c].token)
    BY <2>1, OwnerFacts
  <2> QED BY <2>1, <2>2, <1>2, <1>14, OwnerRenews DEF Heartbeat, Extended
<1>15. CASE HeartbeatFails(c)
  <2>1. Active(c) /\ GoTo(c, "closing") /\ GlobTypes
    BY <1>15 DEF HeartbeatFails, Active, GlobInv
  <2>2. PICK r \in Runs : con' = [con EXCEPT ![c] = r] /\ r.stage = "closing"
    BY <2>1, <1>4, GoToRun
  <2> QED BY <2>1, <2>2, <1>2, <1>15, OwnerFails, OwnerLeaves DEF HeartbeatFails
<1>16. CASE AgentFails(c)
  <2>1. Active(c) /\ con' = [con EXCEPT ![c] = Resting]
    BY <1>16 DEF AgentFails, Active
  <2> QED BY <2>1, <1>2, <1>16, OwnerFails, RestingRun, OwnerLeaves DEF AgentFails
<1>17. CASE AgentCompletes(c)
  <2>1. Active(c) /\ con[c].stage = "agent" /\ UNCHANGED <<out, work, base>>
    BY <1>17 DEF AgentCompletes, Active, disk
  <2>2. Owned(glob, con[c].token)
    BY <2>1, OwnerFacts
  <2> QED BY <2>1, <2>2, <1>2, <1>17, OwnerRenews DEF AgentCompletes
<1>18. CASE ShutdownAgent(c) \/ ConsolidatorDies(c)
  <2>1. UNCHANGED <<out, glob, work, base>> /\ con' = [con EXCEPT ![c] = Resting]
    BY <1>18 DEF ShutdownAgent, ConsolidatorDies, disk
  <2>2. \A d \in Consolidators : con'[d] = con[d] \/ con'[d] = Resting
    BY <2>1 DEF GlobInv, GlobTypes
  <2>3. ASSUME NEW d \in Consolidators PROVE HasDirectory(d)'
    <3>1. CASE con'[d] = con[d]
      BY <3>1, <2>1, <1>2 DEF DirectoryInv, HasDirectory, Active
    <3>2. CASE con'[d] = Resting
      BY <3>2, RestingRun DEF HasDirectory, Active
    <3> QED BY <2>2, <3>1, <3>2
  <2>4. SelectedInBaseline'
    BY <2>1 DEF DirectoryInv, SelectedInBaseline
  <2> QED BY <2>3, <2>4, <1>2 DEF DirectoryInv
<1>19. CASE ResetBaseline(c)
  <2>1. /\ Active(c) /\ UNCHANGED <<out, glob>> /\ GoTo(c, "succeed")
        /\ base'.inputs = con[c].input
    BY <1>3, <1>5, <1>19 DEF ResetBaseline, Active, HasDirectory
  <2> QED BY <2>1, <1>2, <1>4, OwnerGoes
<1>20. CASE Succeed(c)
  <2>1. /\ Active(c) /\ UNCHANGED base /\ con' = [con EXCEPT ![c] = Resting]
        /\ base.inputs = con[c].input
    BY <1>3, <1>20 DEF Succeed, Active, HasDirectory, disk
  <2>2. SelectedInBaseline'
    BY <2>1, <1>20, OwnerSucceeds DEF Succeed
  <2> QED BY <2>1, <2>2, <1>2, RestingRun, OwnerLeaves
<1> QED BY <1>1, <1>6, <1>7, <1>8, <1>9, <1>10, <1>11, <1>12, <1>13, <1>14, <1>15,
           <1>16, <1>17, <1>18, <1>19, <1>20

LEMMA DirectoryStageOne ==
  ASSUME StageInv, GlobInv, DirectoryInv, StageOne
  PROVE  DirectoryInv'
<1>1. NoOut.selected = -1
  BY DEF NoOut
<1>2. ASSUME UNCHANGED <<con, now, resetting, work, base, glob>>,
             \A t \in Threads : out'[t].selected = out[t].selected \/ out'[t].selected = -1
      PROVE  DirectoryInv'
  <2>1. SelectedInBaseline'
    BY <1>2 DEF DirectoryInv, SelectedInBaseline
  <2> QED BY <2>1, <1>2, DirectoryFrame
<1>3. ASSUME NEW e \in Extractors, Scan(e) \/ ExtractorDies(e) PROVE DirectoryInv'
  BY <1>2, <1>3 DEF Scan, ExtractorDies, disk, stageOne
<1>4. ASSUME NEW e \in Extractors, NEW s \in scan[e], ClaimJob(e, s) \/ SkipJob(e, s)
      PROVE  DirectoryInv'
  BY <1>2, <1>4 DEF ClaimJob, SkipJob, disk, stageOne
<1>5. ASSUME NEW h \in held, StageOneFails(h) \/ StageOneLost(h) PROVE DirectoryInv'
  BY <1>2, <1>5 DEF StageOneFails, StageOneLost, Settled, disk, stageOne
<1>6. \A h \in held : h.source \in Nat /\ h.thread \in Threads
  BY StageFields, Numbers DEF StageInv
<1>7. ASSUME NEW h \in held, StageOneSucceeds(h) PROVE DirectoryInv'
  BY <1>6, <1>7, DirectoryEnqueue DEF StageOneSucceeds, Settled, disk
<1>8. out \in [Threads -> OutRows]
  BY DEF StageInv, StageTypes
<1>9. ASSUME NEW h \in held, StageOneEmpty(h) PROVE DirectoryInv'
  <2>1. /\ UNCHANGED <<con, now, resetting, work, base>> /\ OwnsJob(h)
        /\ out' = [out EXCEPT ![h.thread] = NoOut]
        /\ glob' = Enqueued(glob, job[h.thread].input) \/ glob' = glob
    BY <1>9 DEF StageOneEmpty, Settled, disk
  <2>2. job[h.thread].input \in Nat
    BY <2>1, <1>6 DEF StageInv, ClaimInv, OwnsJob
  <2>3. \A t \in Threads : out'[t].selected = out[t].selected \/ out'[t].selected = -1
    BY <2>1, <1>1, <1>6, <1>8
  <2> QED BY <2>1, <2>2, <2>3, <1>2, DirectoryEnqueue
<1>10. ASSUME NEW t \in Threads, Prune(t) PROVE DirectoryInv'
  <2>1. /\ UNCHANGED <<con, now, resetting, work, base, glob>>
        /\ out' = [out EXCEPT ![t] = NoOut]
    BY <1>10 DEF Prune, disk
  <2>2. \A u \in Threads : out'[u].selected = out[u].selected \/ out'[u].selected = -1
    BY <2>1, <1>1, <1>8
  <2> QED BY <2>1, <2>2, <1>2
<1> QED BY <1>3, <1>4, <1>5, <1>7, <1>9, <1>10 DEF StageOne

LEMMA DirectoryUsers ==
  ASSUME LeasesKept, StageInv, GlobInv, DirectoryInv, Users \/ Tick \/ UNCHANGED vars
  PROVE  DirectoryInv'
<1>1. now \in Nat /\ resets \in 0..MaxResets /\ MaxResets = 0 /\ ~resetting
  BY Numbers DEF StageInv, StageTypes, LeasesKept, DirectoryInv
<1>2. ASSUME UNCHANGED <<con, now, resetting, work, base, glob, out>> PROVE DirectoryInv'
  <2>1. SelectedInBaseline'
    BY <1>2 DEF DirectoryInv, SelectedInBaseline
  <2> QED BY <2>1, <1>2, DirectoryFrame
<1>3. ASSUME NEW t \in Threads, TouchThread(t) PROVE DirectoryInv'
  BY <1>2, <1>3 DEF TouchThread, stageOne, disk
<1>4. ASSUME NEW t \in Threads, Pollute(t) PROVE DirectoryInv'
  <2>1. /\ UNCHANGED <<con, now, resetting, work, base, out>>
        /\ glob' = Enqueued(glob, now) \/ glob' = glob
    BY <1>4 DEF Pollute, stageOne, disk
  <2> QED BY <2>1, <1>1, <1>2, DirectoryEnqueue
<1>5. ~ClearMemoryData /\ ~ClearMemoryRoots
  BY <1>1 DEF ClearMemoryData, ClearMemoryRoots
<1>6. ASSUME Tick PROVE DirectoryInv'
  <2>1. /\ UNCHANGED <<con, resetting, work, base, glob, out>> /\ now' = now + 1
        /\ InTime(now')
    BY <1>6 DEF Tick, stageOne, disk, LeasesKept
  <2>2. ASSUME NEW c \in Consolidators PROVE HasDirectory(c)'
    BY <2>1 DEF DirectoryInv, HasDirectory, Active, InTime
  <2>3. SelectedInBaseline'
    BY <2>1 DEF DirectoryInv, SelectedInBaseline
  <2> QED BY <2>1, <2>2, <2>3 DEF DirectoryInv
<1>7. ASSUME UNCHANGED vars PROVE DirectoryInv'
  BY <1>2, <1>7 DEF vars, stageOne, disk
<1> QED BY <1>3, <1>4, <1>5, <1>6, <1>7 DEF Users

LEMMA DirectoryInvariance == LeasesKept => (Spec => []DirectoryInv)
<1> SUFFICES ASSUME LeasesKept PROVE Spec => []DirectoryInv
  OBVIOUS
<1>1. Init => DirectoryInv
  <2> SUFFICES ASSUME Init PROVE DirectoryInv
    OBVIOUS
  <2>1. /\ resetting = FALSE /\ con = [c \in Consolidators |-> Resting] /\ glob = NoGlob
    BY DEF Init
  <2> QED BY <2>1, RestingRun, NoGlobRow DEF DirectoryInv, HasDirectory, Active, SelectedInBaseline
<1>2. StageInv /\ GlobInv /\ DirectoryInv /\ [Next]_vars => DirectoryInv'
  BY DirectoryStageOne, DirectoryPhaseTwo, DirectoryUsers DEF Next
<1> QED BY <1>1, <1>2, StageInvariance, GlobInvariance, PTL DEF Spec

\* While consolidators keep their leases and nobody resets the memories, the phase-2 job
\* is a lock of the memories directory, with any number of processes.
THEOREM DirectoryLocked == LeasesKept => (Spec => []OneRunInDirectory)
<1> SUFFICES ASSUME LeasesKept PROVE Spec => []OneRunInDirectory
  OBVIOUS
<1>1. GlobInv /\ DirectoryInv => OneRunInDirectory
  <2> SUFFICES ASSUME GlobInv, DirectoryInv PROVE OneRunInDirectory
    OBVIOUS
  <2>1. \A c \in RunsInDirectory : c \in Consolidators /\ Active(c)
    BY DEF RunsInDirectory, Active
  <2>2. \A c, d \in RunsInDirectory : c = d
    BY <2>1, OneActive
  <2>3. CASE RunsInDirectory = {}
    <3>1. Cardinality(RunsInDirectory) = 0
      BY <2>3, FS_EmptySet, Zenon
    <3> QED BY <3>1 DEF OneRunInDirectory
  <2>4. CASE RunsInDirectory # {}
    <3>1. PICK c : RunsInDirectory = {c}
      BY <2>2, <2>4
    <3>2. Cardinality(RunsInDirectory) = 1
      BY <3>1, FS_Singleton, Zenon
    <3> QED BY <3>2 DEF OneRunInDirectory
  <2> QED BY <2>3, <2>4
<1> QED BY <1>1, GlobInvariance, DirectoryInvariance, PTL

\* Under the same conditions, the outputs that a successful run marks as selected are
\* in the baseline that it committed.
THEOREM SelectionCommitted == LeasesKept => (Spec => []SelectedInBaseline)
<1> SUFFICES ASSUME LeasesKept PROVE Spec => []SelectedInBaseline
  OBVIOUS
<1>1. DirectoryInv => SelectedInBaseline
  BY DEF DirectoryInv
<1> QED BY <1>1, DirectoryInvariance, PTL
=============================================================================
